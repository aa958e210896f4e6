------------------------- MODULE RevealWalletProofs -------------------------
(***************************************************************************)
(* Proofs about RevealWallet, for any team, any number of candidates and   *)
(* requests and any pack sizes.                                            *)
(***************************************************************************)
EXTENDS RevealWallet, DataLemmas

(* An equal share is a whole, non-negative number of reveals. *)
LEMMA EqualShareNat ==
  ASSUME NEW people \in SUBSET Seats, NEW s \in people, NEW amount \in Nat
  PROVE  EqualShare(people, amount, s) \in Nat
<1>1. IsFiniteSet(people)
  BY RevealAssumption, FS_Union, FS_Singleton, FS_Subset DEF Seats
<1>2. Cardinality(people) \in Nat /\ Cardinality(people) # 0
  BY <1>1, FS_CardinalityType, FS_EmptySet
<1>3. amount \div Cardinality(people) \in Nat
  BY <1>2
<1>4. amount % Cardinality(people) \in Nat
  BY <1>2
<1> QED BY <1>3, <1>4 DEF EqualShare

(* A levelled allowance is what was drawn and something more. *)
LEMMA LevelledShares ==
  ASSUME TypeOK, NEW people \in SUBSET Seats, NEW amount \in Nat
  PROVE  /\ Levelled(people, amount) \in [Seats -> Nat \cup {Null}]
         /\ \A s \in Seats :
              IF s \in people THEN Levelled(people, amount)[s] \in Nat
                                   /\ Levelled(people, amount)[s] >= used[s]
                              ELSE Levelled(people, amount)[s] = Null
<1>1. \A s \in people : used[s] \in Nat /\ EqualShare(people, amount, s) \in Nat
  BY EqualShareNat DEF TypeOK
<1> QED BY <1>1 DEF Levelled

(* A raised allowance is not below the one it was. *)
LEMMA RaisedShares ==
  ASSUME TypeOK, NEW quantity \in Nat
  PROVE  /\ Raised(quantity) \in [Seats -> Nat \cup {Null}]
         /\ \A s \in Seats :
              /\ s \notin team => Raised(quantity)[s] = allocation[s]
              /\ allocation[s] # Null => /\ Raised(quantity)[s] \in Nat
                                         /\ Raised(quantity)[s] >= allocation[s]
<1>1. \A s \in team : EqualShare(team, quantity, s) \in Nat
  BY EqualShareNat DEF TypeOK
<1>2. \A s \in Seats : allocation[s] # Null => allocation[s] \in Nat
  BY DEF TypeOK
<1>3. allocation \in [Seats -> Nat \cup {Null}]
  BY DEF TypeOK
<1> QED BY <1>1, <1>2, <1>3, RevealAssumption DEF Raised

-----------------------------------------------------------------------------
(***************************************************************************)
(* The inductive invariant.  A seat without an allowance must not have     *)
(* drawn on one (Raised starts such a seat from nothing), and a seat that  *)
(* has no row must have no allowance (a new colleague would inherit it).   *)
(***************************************************************************)
Unmetered == \A s \in Seats : allocation[s] = Null => used[s] = 0

NoRow == \A s \in Seats \ team : allocation[s] = Null

WalletInv ==
    /\ TypeOK
    /\ LedgerAgrees
    /\ WelcomedOnce
    /\ OpenedIsHeld
    /\ PaidOnce
    /\ AllowanceHeld
    /\ Unmetered
    /\ NoRow

(* The parts that speak of allowances. *)
SharesInv ==
    /\ allocation \in [Seats -> Nat \cup {Null}]
    /\ used \in [Seats -> Nat]
    /\ AllowanceHeld
    /\ Unmetered
    /\ NoRow

(* The parts that speak of the balance and who was paid for. *)
MoneyInv ==
    /\ balance \in Nat
    /\ welcomed \in BOOLEAN
    /\ ledger \in [Events -> Int]
    /\ revealed \subseteq Candidates
    /\ recorded \subseteq Candidates
    /\ charges \in [Candidates -> Nat]
    /\ LedgerAgrees
    /\ WelcomedOnce
    /\ OpenedIsHeld
    /\ PaidOnce

(* The parts that are only typed. *)
RestInv ==
    /\ registration \in {"none", "hashing", "done", "lost"}
    /\ team \subseteq Seats
    /\ split \in BOOLEAN
    /\ autoPack \in BOOLEAN
    /\ live \subseteq Candidates
    /\ request \in [Requests -> InFlight \cup {Idle}]

(* The invariant falls into what concerns the shares, the money, the rest.  *)
LEMMA Parts == WalletInv <=> SharesInv /\ MoneyInv /\ RestInv
BY DEF WalletInv, SharesInv, MoneyInv, RestInv, TypeOK

(* A credit keeps the allowances: it only raises them. *)
LEMMA CreditKeepsShares ==
  ASSUME WalletInv, NEW quantity \in Nat,
         allocation' = Raised(quantity), UNCHANGED <<used, team>>
  PROVE  SharesInv'
<1>1. TypeOK /\ AllowanceHeld /\ Unmetered /\ NoRow
  BY DEF WalletInv
<1>2. allocation' \in [Seats -> Nat \cup {Null}] /\ used' \in [Seats -> Nat]
  BY <1>1, RaisedShares DEF TypeOK
<1>3. NoRow'
  BY <1>1, RaisedShares DEF NoRow
<1>4. \A s \in Seats : allocation[s] # Null => allocation[s] \in Nat
  BY <1>1 DEF TypeOK
<1>5. \A s \in Seats : allocation'[s] # Null => allocation'[s] \in Nat
  BY <1>2
<1>6. \A s \in Seats : used[s] \in Nat
  BY <1>1 DEF TypeOK
<1>7. AllowanceHeld'
  <2> SUFFICES ASSUME NEW s \in team, allocation'[s] # Null
               PROVE  used[s] <= allocation'[s]
    BY DEF AllowanceHeld
  <2>1. s \in Seats
    BY <1>1 DEF TypeOK
  <2>2. CASE allocation[s] = Null
    BY <1>1, <1>5, <2>1, <2>2 DEF Unmetered
  <2>3. CASE allocation[s] # Null
    <3>1. allocation'[s] >= allocation[s]
      BY <1>1, <2>1, <2>3, RaisedShares
    <3>2. used[s] <= allocation[s]
      BY <1>1, <2>3 DEF AllowanceHeld
    <3> QED BY <1>4, <1>5, <1>6, <2>1, <2>3, <3>1, <3>2
  <2> QED BY <2>2, <2>3
<1>8. Unmetered'
  <2> SUFFICES ASSUME NEW s \in Seats, allocation'[s] = Null
               PROVE  used[s] = 0
    BY DEF Unmetered
  <2>1. allocation[s] = Null
    BY <1>1, RaisedShares, RevealAssumption
  <2> QED BY <1>1, <2>1 DEF Unmetered
<1> QED BY <1>2, <1>3, <1>7, <1>8 DEF SharesInv

(* A credit keeps the books, whoever it is for. *)
LEMMA CreditKeepsMoney ==
  ASSUME WalletInv, NEW event \in Events \ {"grant"}, NEW quantity \in Nat,
         Credit(event, quantity), UNCHANGED <<welcomed, revealed, recorded, live, charges>>
  PROVE  MoneyInv'
<1>1. TypeOK /\ LedgerAgrees /\ WelcomedOnce /\ OpenedIsHeld /\ PaidOnce
  BY DEF WalletInv
<1>2. balance' \in Nat /\ ledger' \in [Events -> Int]
  BY <1>1 DEF TypeOK, Credit
<1>3. LedgerAgrees' /\ WelcomedOnce'
  BY <1>1 DEF TypeOK, Credit, LedgerAgrees, WelcomedOnce, Events
<1>4. OpenedIsHeld' /\ PaidOnce'
  BY <1>1 DEF OpenedIsHeld, PaidOnce
<1> QED BY <1>1, <1>2, <1>3, <1>4 DEF MoneyInv, TypeOK

(* The welcome grant, made or skipped, keeps the books and the allowances. *)
LEMMA GrantKeeps ==
  ASSUME WalletInv, GrantComplimentaryReveals, UNCHANGED <<used, team>>
  PROVE  /\ balance' \in Nat
         /\ welcomed' \in BOOLEAN
         /\ ledger' \in [Events -> Int]
         /\ LedgerAgrees'
         /\ WelcomedOnce'
         /\ SharesInv'
<1>1. TypeOK /\ LedgerAgrees /\ WelcomedOnce /\ SharesInv
  BY Parts DEF WalletInv
<1>2. CASE welcomed
  <2>1. UNCHANGED <<balance, ledger, allocation, welcomed>>
    BY <1>2 DEF GrantComplimentaryReveals
  <2>2. SharesInv'
    BY <1>1, <2>1 DEF SharesInv, AllowanceHeld, Unmetered, NoRow
  <2> QED BY <1>1, <2>1, <2>2 DEF TypeOK, LedgerAgrees, WelcomedOnce
<1>3. CASE ~welcomed
  <2>1. Credit("grant", Welcome) /\ welcomed' = TRUE
    BY <1>3 DEF GrantComplimentaryReveals
  <2>2. Welcome \in Nat
    BY RevealAssumption
  <2>3. SharesInv'
    BY <2>1, <2>2, CreditKeepsShares DEF Credit
  <2>4. balance' \in Nat /\ ledger' \in [Events -> Int]
    BY <1>1, <2>1, <2>2 DEF TypeOK, Credit, Events
  <2>5. LedgerAgrees' /\ WelcomedOnce'
    BY <1>1, <1>3, <2>1, <2>2 DEF TypeOK, Credit, LedgerAgrees, WelcomedOnce, Events
  <2> QED BY <2>1, <2>3, <2>4, <2>5
<1> QED BY <1>2, <1>3

(* Seats come, go and are levelled without anybody having drawn more than   *)
(* they may.                                                               *)
LEMMA ResettleKeepsShares ==
  ASSUME WalletInv, NEW people \in SUBSET Seats, Resettle(people), team' = people
  PROVE  SharesInv'
<1>1. TypeOK /\ AllowanceHeld /\ Unmetered /\ NoRow
  BY DEF WalletInv
<1>2. /\ used' = [s \in Seats |-> IF s \in people THEN used[s] ELSE 0]
      /\ used' \in [Seats -> Nat]
  BY <1>1 DEF Resettle, TypeOK
<1>3. CASE split
  <2>1. allocation' = Levelled(people, balance)
    BY <1>3 DEF Resettle
  <2>2. balance \in Nat
    BY <1>1 DEF TypeOK
  <2>3. allocation' \in [Seats -> Nat \cup {Null}]
    BY <1>1, <2>1, <2>2, LevelledShares
  <2>4. AllowanceHeld'
    BY <1>1, <1>2, <2>1, <2>2, LevelledShares, RevealAssumption DEF AllowanceHeld
  <2>5. Unmetered'
    <3> SUFFICES ASSUME NEW s \in Seats, allocation'[s] = Null
                 PROVE  used'[s] = 0
      BY DEF Unmetered
    <3>1. s \notin people
      BY <1>1, <2>1, <2>2, LevelledShares, RevealAssumption, SMTT(30)
    <3> QED BY <1>2, <3>1
  <2>6. NoRow'
    BY <1>1, <2>1, <2>2, LevelledShares DEF NoRow
  <2> QED BY <1>2, <2>3, <2>4, <2>5, <2>6 DEF SharesInv
<1>4. CASE ~split
  <2>1. allocation' = [s \in Seats |-> IF s \in people THEN allocation[s] ELSE Null]
    BY <1>4 DEF Resettle
  <2>2. allocation' \in [Seats -> Nat \cup {Null}]
    BY <1>1, <2>1 DEF TypeOK
  <2>3. AllowanceHeld'
    BY <1>1, <1>2, <2>1 DEF AllowanceHeld, NoRow
  <2>4. Unmetered'
    BY <1>1, <1>2, <2>1 DEF Unmetered
  <2>5. NoRow'
    BY <2>1 DEF NoRow
  <2> QED BY <1>2, <2>2, <2>3, <2>4, <2>5 DEF SharesInv
<1> QED BY <1>3, <1>4

(* A charge that consumeReveal lets through: the balance is not overdrawn,  *)
(* the candidate is not paid for twice, the seat stays within its          *)
(* allowance, whenever `limit` was read.                                   *)
LEMMA ChargeKeeps ==
  ASSUME WalletInv, NEW limit, NEW s \in Seats, NEW c \in Candidates,
         Answer(limit, s, c) = "charged", Charge(limit, s, c),
         UNCHANGED <<team, live, welcomed, allocation>>,
         recorded' \in {recorded, recorded \cup {c}}
  PROVE  SharesInv' /\ MoneyInv'
<1>1. /\ TypeOK /\ LedgerAgrees /\ WelcomedOnce /\ OpenedIsHeld
      /\ PaidOnce /\ AllowanceHeld /\ Unmetered /\ NoRow
  BY DEF WalletInv
<1>2. c \notin revealed
  BY DEF Answer
<1>3. balance # 0 /\ balance \in Nat
  BY <1>1, <1>2 DEF Answer, TypeOK
<1>4. limit # Null => s \in team /\ allocation[s] # Null /\ ~(used[s] >= allocation[s])
  BY <1>2, <1>3 DEF Answer, SpentUp
<1>5. SharesInv'
  <2>1. CASE limit = Null
    <3>1. used' = used
      BY <2>1 DEF Charge
    <3> QED BY <1>1, <3>1 DEF SharesInv, TypeOK, AllowanceHeld, Unmetered, NoRow
  <2>2. CASE limit # Null
    <3>1. used' = [used EXCEPT ![s] = @ + 1]
      BY <2>2 DEF Charge
    <3>2. used[s] \in Nat /\ allocation[s] \in Nat
      BY <1>1, <1>4, <2>2 DEF TypeOK
    <3>3. used' \in [Seats -> Nat]
      BY <1>1, <3>1, <3>2 DEF TypeOK
    <3>4. used'[s] = used[s] + 1 /\ \A t \in Seats \ {s} : used'[t] = used[t]
      BY <1>1, <3>1 DEF TypeOK
    <3>5. used'[s] <= allocation[s]
      BY <1>4, <2>2, <3>2, <3>4
    <3>6. AllowanceHeld'
      BY <1>1, <3>4, <3>5 DEF AllowanceHeld, TypeOK
    <3>7. Unmetered'
      BY <1>1, <1>4, <2>2, <3>4 DEF Unmetered
    <3> QED BY <1>1, <3>3, <3>6, <3>7 DEF SharesInv, TypeOK, NoRow
  <2> QED BY <2>1, <2>2
<1>6. balance' \in Nat /\ ledger' \in [Events -> Int] /\ charges' \in [Candidates -> Nat]
  BY <1>1, <1>3 DEF TypeOK, Charge, Events
<1>7. LedgerAgrees' /\ WelcomedOnce'
  BY <1>1, <1>3 DEF TypeOK, Charge, LedgerAgrees, WelcomedOnce, Events
<1>8. OpenedIsHeld'
  BY <1>1 DEF OpenedIsHeld, Charge
<1>9. PaidOnce'
  <2> SUFFICES ASSUME NEW d \in live
               PROVE  charges'[d] = IF d \in revealed' THEN 1 ELSE 0
    BY DEF PaidOnce
  <2>1. d \in Candidates /\ charges[d] = IF d \in revealed THEN 1 ELSE 0
    BY <1>1 DEF PaidOnce, TypeOK
  <2>2. revealed' = revealed \cup {c} /\ charges' = [charges EXCEPT ![c] = @ + 1]
    BY DEF Charge
  <2> QED BY <1>1, <1>2, <2>1, <2>2 DEF TypeOK
<1>10. revealed' \subseteq Candidates /\ recorded' \subseteq Candidates
  BY <1>1 DEF TypeOK, Charge
<1> QED BY <1>1, <1>5, <1>6, <1>7, <1>8, <1>9, <1>10 DEF MoneyInv, TypeOK

(* The end of the reveal route, whatever it answers. *)
LEMMA ConcludeKeeps ==
  ASSUME WalletInv, NEW limit, NEW s \in Seats, NEW c \in Candidates,
         Conclude(limit, s, c)
  PROVE  SharesInv' /\ MoneyInv'
<1>0. UNCHANGED <<team, live, welcomed, allocation>>
  BY DEF Conclude, company
<1>1. CASE Answer(limit, s, c) = "charged"
  <2>1. Charge(limit, s, c) /\ recorded' = recorded \cup {c}
    BY <1>1 DEF Conclude
  <2> QED BY <1>0, <1>1, <2>1, ChargeKeeps
<1>2. CASE Answer(limit, s, c) # "charged"
  <2>1. UNCHANGED <<revealed, balance, used, ledger, charges>>
    BY <1>2 DEF Conclude
  <2>2. SharesInv /\ MoneyInv
    BY Parts
  <2>3. SharesInv'
    BY <1>0, <2>1, <2>2 DEF SharesInv, AllowanceHeld, Unmetered, NoRow
  <2>4. recorded' = recorded \/ (recorded' = recorded \cup {c} /\ c \in revealed)
    BY <1>2 DEF Conclude, Answer
  <2>5. MoneyInv'
    BY <1>0, <2>1, <2>2, <2>4 DEF MoneyInv, LedgerAgrees, WelcomedOnce, OpenedIsHeld, PaidOnce
  <2> QED BY <2>3, <2>5
<1> QED BY <1>1, <1>2

(* What leaves the shares alone keeps their part of the invariant. *)
LEMMA SharesStutter ==
  ASSUME SharesInv, UNCHANGED <<allocation, used, team>>
  PROVE  SharesInv'
BY DEF SharesInv, AllowanceHeld, Unmetered, NoRow

(* What leaves the money alone keeps its part of the invariant. *)
LEMMA MoneyStutter ==
  ASSUME MoneyInv,
         UNCHANGED <<balance, welcomed, live, revealed, recorded, ledger, charges>>
  PROVE  MoneyInv'
BY DEF MoneyInv, LedgerAgrees, WelcomedOnce, OpenedIsHeld, PaidOnce

-----------------------------------------------------------------------------
(* An organization that does not exist yet satisfies the invariant. *)
LEMMA WalletInit == Init => WalletInv
<1> SUFFICES ASSUME Init PROVE SharesInv /\ MoneyInv /\ RestInv
  BY Parts
<1>1. SharesInv
  BY DEF Init, SharesInv, AllowanceHeld, Unmetered, NoRow
<1>2. \A e \in {"grant", "purchase", "auto_purchase", "consume"} : ledger[e] = 0
  BY DEF Init, Events
<1>3. LedgerAgrees /\ WelcomedOnce
  BY <1>2 DEF Init, LedgerAgrees, WelcomedOnce
<1>4. MoneyInv
  <2>1. balance \in Nat /\ welcomed \in BOOLEAN /\ charges \in [Candidates -> Nat]
    BY DEF Init
  <2>2. ledger \in [Events -> Int]
    BY DEF Init
  <2>3. recorded = {} /\ revealed = {} /\ live = Candidates
    BY DEF Init
  <2>4. \A c \in Candidates : charges[c] = 0
    BY DEF Init
  <2> QED BY <1>3, <2>1, <2>2, <2>3, <2>4 DEF MoneyInv, OpenedIsHeld, PaidOnce
<1>5. RestInv
  BY DEF Init, RestInv
<1> QED BY <1>1, <1>4, <1>5

(* Every step of the routes, of a crash or of a restart keeps it. *)
LEMMA WalletStep == WalletInv /\ [Next]_vars => WalletInv'
<1> SUFFICES ASSUME WalletInv, [Next]_vars
             PROVE  SharesInv' /\ MoneyInv' /\ RestInv'
  BY Parts, PTL
<1>0. SharesInv /\ MoneyInv /\ RestInv /\ TypeOK
  BY Parts DEF WalletInv
<1>1. CASE RegisterCompany
  <2>1. SharesInv' /\ balance' \in Nat /\ welcomed' \in BOOLEAN
        /\ ledger' \in [Events -> Int] /\ LedgerAgrees' /\ WelcomedOnce'
    BY <1>1, GrantKeeps DEF RegisterCompany
  <2>2. MoneyInv'
    BY <1>0, <1>1, <2>1 DEF RegisterCompany, MoneyInv, OpenedIsHeld, PaidOnce
  <2>3. RestInv'
    BY <1>0, <1>1 DEF RegisterCompany, RestInv
  <2> QED BY <2>1, <2>2, <2>3
<1>2. CASE RegisterAdmin
  <2>1. SharesInv'
    BY <1>2, ResettleKeepsShares DEF RegisterAdmin, Seats
  <2>2. MoneyInv'
    BY <1>0, <1>2, MoneyStutter DEF RegisterAdmin
  <2>3. RestInv'
    BY <1>0, <1>2 DEF RegisterAdmin, RestInv, Seats
  <2> QED BY <2>1, <2>2, <2>3
<1>3. ASSUME NEW s \in Colleagues, Join(s)
      PROVE  SharesInv' /\ MoneyInv' /\ RestInv'
  <2>0. team \cup {s} \in SUBSET Seats
    BY <1>0 DEF TypeOK, Seats
  <2>1. SharesInv'
    BY <1>3, <2>0, ResettleKeepsShares DEF Join
  <2>2. MoneyInv'
    BY <1>0, <1>3, MoneyStutter DEF Join
  <2>3. RestInv'
    BY <1>0, <1>3, <2>0 DEF Join, RestInv
  <2> QED BY <2>1, <2>2, <2>3
<1>4. ASSUME NEW s \in Colleagues, Leave(s)
      PROVE  SharesInv' /\ MoneyInv' /\ RestInv'
  <2>0. team \ {s} \in SUBSET Seats
    BY <1>0 DEF TypeOK
  <2>1. SharesInv'
    BY <1>4, <2>0, ResettleKeepsShares DEF Leave
  <2>2. MoneyInv'
    BY <1>0, <1>4, MoneyStutter DEF Leave
  <2>3. RestInv'
    BY <1>0, <1>4, <2>0 DEF Leave, RestInv
  <2> QED BY <2>1, <2>2, <2>3
<1>5. ASSUME NEW gone \in SUBSET Colleagues, Renewal(gone)
      PROVE  SharesInv' /\ MoneyInv' /\ RestInv'
  <2>0. /\ team' = team \ gone
        /\ used' = [t \in Seats |-> IF t \in gone THEN 0 ELSE used[t]]
        /\ allocation' = [t \in Seats |-> IF t \in gone THEN Null ELSE allocation[t]]
    BY <1>5 DEF Renewal
  <2>1. SharesInv'
    <3>1. used' \in [Seats -> Nat] /\ allocation' \in [Seats -> Nat \cup {Null}]
      BY <1>0, <2>0 DEF SharesInv
    <3>2. AllowanceHeld'
      BY <1>0, <2>0 DEF SharesInv, AllowanceHeld, TypeOK
    <3>3. Unmetered' /\ NoRow'
      BY <1>0, <2>0 DEF SharesInv, Unmetered, NoRow
    <3> QED BY <3>1, <3>2, <3>3 DEF SharesInv
  <2>2. MoneyInv'
    BY <1>0, <1>5, MoneyStutter DEF Renewal
  <2>3. RestInv'
    BY <1>0, <1>5 DEF Renewal, RestInv
  <2> QED BY <2>1, <2>2, <2>3
<1>6. CASE Purchase
  <2>0. Pack \in Nat /\ "purchase" \in Events \ {"grant"}
    BY RevealAssumption DEF Events
  <2>1. SharesInv'
    BY <1>6, <2>0, CreditKeepsShares DEF Purchase, Credit, company
  <2>2. MoneyInv'
    BY <1>6, <2>0, CreditKeepsMoney DEF Purchase
  <2>3. RestInv'
    BY <1>0, <1>6 DEF Purchase, RestInv, company
  <2> QED BY <2>1, <2>2, <2>3
<1>7. ASSUME NEW on \in BOOLEAN, SetAutoReplenish(on)
      PROVE  SharesInv' /\ MoneyInv' /\ RestInv'
  <2>1. SharesInv'
    BY <1>0, <1>7, SharesStutter DEF SetAutoReplenish, shares
  <2>2. MoneyInv'
    BY <1>0, <1>7, MoneyStutter DEF SetAutoReplenish
  <2>3. RestInv'
    BY <1>0, <1>7 DEF SetAutoReplenish, RestInv
  <2> QED BY <2>1, <2>2, <2>3
<1>8. ASSUME NEW on \in BOOLEAN, SetSplitEqually(on)
      PROVE  SharesInv' /\ MoneyInv' /\ RestInv'
  <2>1. SharesInv'
    <3>1. CASE on
      <4>1. allocation' = Levelled(team, balance) /\ UNCHANGED <<used, team>>
        BY <1>8, <3>1 DEF SetSplitEqually
      <4>2. team \in SUBSET Seats /\ balance \in Nat
        BY <1>0 DEF TypeOK
      <4>3. \A s \in Seats \ team : used[s] = 0
        BY <1>0 DEF SharesInv, Unmetered, NoRow
      <4>4. AllowanceHeld' /\ NoRow'
        <5>1. \A s \in Seats : IF s \in team THEN allocation'[s] \in Nat
                                                  /\ allocation'[s] >= used[s]
                                             ELSE allocation'[s] = Null
          BY <1>0, <4>1, <4>2, LevelledShares
        <5>2. \A s \in team : s \in Seats /\ used[s] \in Nat
          BY <1>0, <4>2 DEF TypeOK
        <5>3. \A s \in team : used'[s] <= allocation'[s]
          BY <4>1, <5>1, <5>2
        <5>4. team' = team
          BY <4>1
        <5> QED BY <5>1, <5>3, <5>4 DEF AllowanceHeld, NoRow
      <4>5. Unmetered'
        BY <1>0, <4>1, <4>2, <4>3, LevelledShares, RevealAssumption DEF Unmetered
      <4> QED BY <1>0, <4>1, <4>2, <4>4, <4>5, LevelledShares DEF SharesInv
    <3>2. CASE ~on
      BY <1>0, <1>8, <3>2, SharesStutter DEF SetSplitEqually
    <3> QED BY <3>1, <3>2
  <2>2. MoneyInv'
    BY <1>0, <1>8, MoneyStutter DEF SetSplitEqually
  <2>3. RestInv'
    BY <1>0, <1>8 DEF SetSplitEqually, RestInv
  <2> QED BY <2>1, <2>2, <2>3
<1>9. ASSUME NEW given \in AllocationMaps, SetRevealAllocations(given)
      PROVE  SharesInv' /\ MoneyInv' /\ RestInv'
  <2>0. /\ DOMAIN given \subseteq team
        /\ \A s \in DOMAIN given : given[s] \in Nat \cup {Null}
    BY RevealAssumption DEF AllocationMaps
  <2>1. /\ allocation' = [s \in Seats |-> IF s \in DOMAIN given THEN given[s] ELSE allocation[s]]
        /\ used' = [s \in Seats |-> IF s \in DOMAIN given THEN 0 ELSE used[s]]
        /\ team' = team
    BY <1>9 DEF SetRevealAllocations, company
  <2>2. allocation' \in [Seats -> Nat \cup {Null}] /\ used' \in [Seats -> Nat]
    BY <1>0, <2>0, <2>1 DEF TypeOK
  <2>3. AllowanceHeld'
    <3> SUFFICES ASSUME NEW s \in team, allocation'[s] # Null
                 PROVE  used'[s] <= allocation'[s]
      BY <2>1 DEF AllowanceHeld
    <3>0. s \in Seats
      BY <1>0 DEF TypeOK
    <3>1. CASE s \in DOMAIN given
      <4>1. used'[s] = 0 /\ allocation'[s] \in Nat
        BY <2>0, <2>1, <3>0, <3>1
      <4> QED BY <4>1
    <3>2. CASE s \notin DOMAIN given
      BY <1>0, <2>1, <3>0, <3>2 DEF SharesInv, AllowanceHeld
    <3> QED BY <3>1, <3>2
  <2>4. Unmetered' /\ NoRow'
    BY <1>0, <2>0, <2>1 DEF SharesInv, Unmetered, NoRow
  <2>5. MoneyInv'
    BY <1>0, <1>9, MoneyStutter DEF SetRevealAllocations
  <2>6. RestInv'
    BY <1>0, <1>9 DEF SetRevealAllocations, RestInv, company
  <2> QED BY <2>2, <2>3, <2>4, <2>5, <2>6 DEF SharesInv
<1>10. ASSUME NEW s \in Seats, NEW c \in Candidates, Reveal(s, c)
       PROVE  SharesInv' /\ MoneyInv' /\ RestInv'
  <2>1. SharesInv' /\ MoneyInv'
    BY <1>10, ConcludeKeeps DEF Reveal
  <2>2. RestInv'
    BY <1>0, <1>10 DEF Reveal, Conclude, RestInv, company
  <2> QED BY <2>1, <2>2
<1>11. ASSUME NEW r \in Requests, NEW s \in Seats, NEW c \in Candidates,
              RequestTopUp(r, s, c)
       PROVE  SharesInv' /\ MoneyInv' /\ RestInv'
  <2>1. SharesInv'
    BY <1>0, <1>11, SharesStutter DEF RequestTopUp, shares, company
  <2>2. MoneyInv'
    BY <1>0, <1>11, MoneyStutter DEF RequestTopUp
  <2>3. allocation[s] \in Nat \cup {Null}
    BY <1>0 DEF TypeOK
  <2>4. RestInv'
    BY <1>0, <1>11, <2>3 DEF RequestTopUp, RestInv, company, InFlight
  <2> QED BY <2>1, <2>2, <2>4
<1>12. ASSUME NEW r \in Requests, TopUpPaid(r)
       PROVE  SharesInv' /\ MoneyInv' /\ RestInv'
  <2>0. Pack \in Nat /\ "auto_purchase" \in Events \ {"grant"}
    BY RevealAssumption DEF Events
  <2>1. SharesInv'
    BY <1>12, <2>0, CreditKeepsShares DEF TopUpPaid, Credit, company
  <2>2. MoneyInv'
    BY <1>12, <2>0, CreditKeepsMoney DEF TopUpPaid
  <2>3. request[r] \in InFlight
    BY <1>0, <1>12 DEF TopUpPaid, TypeOK, Idle
  <2>4. [request[r] EXCEPT !.pc = "credited"] \in InFlight
    BY <2>3 DEF InFlight
  <2>5. request' \in [Requests -> InFlight \cup {Idle}]
    BY <1>0, <1>12, <2>4 DEF TopUpPaid, TypeOK
  <2>6. RestInv'
    BY <1>0, <1>12, <2>5 DEF TopUpPaid, RestInv, company
  <2> QED BY <2>1, <2>2, <2>6
<1>13. ASSUME NEW r \in Requests, TopUpDeclined(r)
       PROVE  SharesInv' /\ MoneyInv' /\ RestInv'
  <2>1. SharesInv'
    BY <1>0, <1>13, SharesStutter DEF TopUpDeclined, shares, company
  <2>2. MoneyInv'
    BY <1>0, <1>13, MoneyStutter DEF TopUpDeclined
  <2>3. RestInv'
    BY <1>0, <1>13 DEF TopUpDeclined, RestInv, company
  <2> QED BY <2>1, <2>2, <2>3
<1>14. ASSUME NEW r \in Requests, Retry(r)
       PROVE  SharesInv' /\ MoneyInv' /\ RestInv'
  <2>1. request[r] \in InFlight
    BY <1>0, <1>14 DEF Retry, TypeOK, Idle
  <2>2. request[r].seat \in Seats /\ request[r].candidate \in Candidates
    BY <2>1 DEF InFlight
  <2>3. SharesInv' /\ MoneyInv'
    BY <1>14, <2>2, ConcludeKeeps DEF Retry
  <2>4. RestInv'
    BY <1>0, <1>14 DEF Retry, Conclude, RestInv, company
  <2> QED BY <2>3, <2>4
<1>15. ASSUME NEW c \in Candidates, DeleteCandidate(c)
       PROVE  SharesInv' /\ MoneyInv' /\ RestInv'
  <2>1. SharesInv'
    BY <1>0, <1>15, SharesStutter DEF DeleteCandidate, shares, company
  <2>2. MoneyInv'
    BY <1>0, <1>15
    DEF DeleteCandidate, MoneyInv, LedgerAgrees, WelcomedOnce, OpenedIsHeld, PaidOnce
  <2>3. RestInv'
    BY <1>0, <1>15 DEF DeleteCandidate, RestInv, company
  <2> QED BY <2>1, <2>2, <2>3
<1>16. CASE Restart
  <2>1. SharesInv' /\ balance' \in Nat /\ welcomed' \in BOOLEAN
        /\ ledger' \in [Events -> Int] /\ LedgerAgrees' /\ WelcomedOnce'
    BY <1>16, GrantKeeps DEF Restart
  <2>2. revealed' = revealed
    BY <1>0, <1>16 DEF Restart, MoneyInv, OpenedIsHeld
  <2>3. MoneyInv'
    BY <1>0, <1>16, <2>1, <2>2 DEF Restart, MoneyInv, OpenedIsHeld, PaidOnce
  <2>4. RestInv'
    BY <1>0, <1>16 DEF Restart, RestInv
  <2> QED BY <2>1, <2>3, <2>4
<1>17. ASSUME NEW s \in Seats, NEW c \in Candidates, CrashAfterCharge(s, c)
       PROVE  SharesInv' /\ MoneyInv' /\ RestInv'
  <2>1. SharesInv' /\ MoneyInv'
    BY <1>17, ChargeKeeps DEF CrashAfterCharge, company
  <2>2. RestInv'
    BY <1>0, <1>17 DEF CrashAfterCharge, RestInv, company
  <2> QED BY <2>1, <2>2
<1>18. CASE UNCHANGED vars
  <2>1. SharesInv' /\ MoneyInv'
    BY <1>0, <1>18, SharesStutter, MoneyStutter DEF vars
  <2>2. RestInv'
    BY <1>0, <1>18 DEF vars, RestInv
  <2> QED BY <2>1, <2>2
<1> QED
  BY <1>1, <1>2, <1>3, <1>4, <1>5, <1>6, <1>7, <1>8, <1>9, <1>10, <1>11, <1>12,
     <1>13, <1>14, <1>15, <1>16, <1>17, <1>18 DEF Next, NextDefault
-----------------------------------------------------------------------------
(* The inductive invariant holds in every reachable state. *)
THEOREM WalletInvariant == Spec => []WalletInv
BY WalletInit, WalletStep, PTL DEF Spec

(* Every variable keeps its type; in particular the balance and the         *)
(* counters of the seats are never negative.                               *)
THEOREM TypeCorrect == Spec => []TypeOK
BY WalletInvariant, PTL DEF WalletInv

(* The billing history replays to the balance at every moment.              *)
THEOREM LedgerReplays == Spec => []LedgerAgrees
BY WalletInvariant, PTL DEF WalletInv

(* The welcome grant is made at most once, however registration and the     *)
(* boot migration interleave.                                              *)
THEOREM GrantedOnce == Spec => []WelcomedOnce
BY WalletInvariant, PTL DEF WalletInv

(* Whoever the organization holds was charged for once, and nobody else.    *)
THEOREM ChargedOnce == Spec => []PaidOnce
BY WalletInvariant, PTL DEF WalletInv

(* A candidate opened to the recruiters is one the organization holds.      *)
THEOREM OpenedOnlyIfHeld == Spec => []OpenedIsHeld
BY WalletInvariant, PTL DEF WalletInv

(* No seat draws more than its allowance, whenever the allowance was read.  *)
THEOREM SeatsStayWithin == Spec => []AllowanceHeld
BY WalletInvariant, PTL DEF WalletInv
-----------------------------------------------------------------------------
(***************************************************************************)
(* An organization that leaves the equal split on.                         *)
(***************************************************************************)
DefaultInv == WalletInv /\ split /\ \A s \in team : allocation[s] # Null

(* The steps of an untouched split are steps of the wallet. *)
LEMMA DefaultIsWallet == NextDefault => Next
BY DEF Next

(* While the split is left alone every seat keeps an allowance. *)
LEMMA DefaultStep == DefaultInv /\ [NextDefault]_vars => DefaultInv'
<1> SUFFICES ASSUME DefaultInv, [NextDefault]_vars
             PROVE  WalletInv' /\ split' /\ \A s \in team' : allocation'[s] # Null
  BY DEF DefaultInv
<1>1. WalletInv' /\ WalletInv /\ TypeOK
  BY WalletStep, DefaultIsWallet DEF DefaultInv, WalletInv
<1>2. split /\ \A s \in team : s \in Seats /\ allocation[s] # Null
  BY <1>1 DEF DefaultInv, TypeOK
<1>3. split'
  BY <1>2
  DEF NextDefault, RegisterCompany, RegisterAdmin, Join, Leave, Purchase, SetAutoReplenish,
      Reveal, Conclude, CrashAfterCharge, RequestTopUp, TopUpPaid, TopUpDeclined, Retry,
      DeleteCandidate, Restart, company, vars
<1>4. ASSUME NEW quantity \in Nat, allocation' = Raised(quantity), team' = team
      PROVE  \A s \in team' : allocation'[s] # Null
  BY <1>1, <1>2, <1>4, RaisedShares, RevealAssumption
<1>5. ASSUME NEW people \in SUBSET Seats, Resettle(people), team' = people
      PROVE  \A s \in team' : allocation'[s] # Null
  <2>1. allocation' = Levelled(people, balance) /\ balance \in Nat
    BY <1>1, <1>2, <1>5 DEF Resettle, TypeOK
  <2>2. \A s \in people : Levelled(people, balance)[s] \in Nat
    BY <1>1, <1>5, <2>1, LevelledShares
  <2>3. Null \notin Nat
    BY RevealAssumption
  <2> QED BY <1>5, <2>1, <2>2, <2>3
<1>6. ASSUME GrantComplimentaryReveals, team' = team
      PROVE  \A s \in team' : allocation'[s] # Null
  <2>1. CASE welcomed
    BY <1>2, <1>6, <2>1 DEF GrantComplimentaryReveals
  <2>2. CASE ~welcomed
    BY <1>4, <1>6, <2>2, RevealAssumption DEF GrantComplimentaryReveals, Credit
  <2> QED BY <2>1, <2>2
<1>7. \A s \in team' : allocation'[s] # Null
  <2>1. CASE RegisterCompany \/ Restart
    BY <1>6, <2>1 DEF RegisterCompany, Restart
  <2>2. CASE RegisterAdmin
    BY <1>5, <2>2 DEF RegisterAdmin, Seats
  <2>3. ASSUME NEW s \in Colleagues, Join(s) \/ Leave(s)
        PROVE  \A t \in team' : allocation'[t] # Null
    <3>1. team \cup {s} \in SUBSET Seats /\ team \ {s} \in SUBSET Seats
      BY <1>2 DEF Seats
    <3> QED BY <1>5, <2>3, <3>1 DEF Join, Leave
  <2>4. CASE Purchase \/ \E r \in Requests : TopUpPaid(r)
    BY <1>4, <2>4, RevealAssumption DEF Purchase, TopUpPaid, Credit, company
  <2>5. CASE UNCHANGED <<allocation, team>>
    BY <1>2, <2>5
  <2> QED
    BY <2>1, <2>2, <2>3, <2>4, <2>5
    DEF NextDefault, SetAutoReplenish, Reveal, Conclude, CrashAfterCharge, RequestTopUp,
        TopUpDeclined, Retry, DeleteCandidate, company, shares, vars
<1> QED BY <1>1, <1>3, <1>7

(* A credit to seats that all have an allowance raises each of them. *)
LEMMA CreditRaises ==
  ASSUME DefaultInv, [NextDefault]_vars, balance' > balance
  PROVE  \A s \in team : Remaining(s)' >= Remaining(s)
<1>1. WalletInv /\ TypeOK /\ balance \in Nat
  BY DEF DefaultInv, WalletInv, TypeOK
<1>2. \A s \in team : s \in Seats /\ allocation[s] \in Nat /\ used[s] \in Nat
  BY <1>1 DEF DefaultInv, TypeOK
<1>3. ASSUME NEW quantity \in Nat, allocation' = Raised(quantity), used' = used
      PROVE  \A s \in team : Remaining(s)' >= Remaining(s)
  <2> SUFFICES ASSUME NEW s \in team PROVE Remaining(s)' >= Remaining(s)
    OBVIOUS
  <2>1. allocation'[s] \in Nat /\ allocation'[s] >= allocation[s] /\ used'[s] = used[s]
    BY <1>1, <1>2, <1>3, RaisedShares, RevealAssumption
  <2> QED BY <1>2, <2>1 DEF Remaining
<1>4. CASE RegisterCompany \/ Restart
  <2>1. GrantComplimentaryReveals /\ used' = used
    BY <1>4 DEF RegisterCompany, Restart
  <2>2. ~welcomed
    BY <1>1, <2>1 DEF GrantComplimentaryReveals
  <2> QED BY <1>3, <2>1, <2>2, RevealAssumption DEF GrantComplimentaryReveals, Credit
<1>5. CASE Purchase \/ \E r \in Requests : TopUpPaid(r)
  BY <1>3, <1>5, RevealAssumption DEF Purchase, TopUpPaid, Credit
<1>6. CASE balance' = balance \/ balance' = balance - 1
  BY <1>1, <1>6
<1> QED
  BY <1>4, <1>5, <1>6
  DEF NextDefault, RegisterAdmin, Join, Leave, SetAutoReplenish, Reveal, Conclude, Charge,
      CrashAfterCharge, RequestTopUp, TopUpDeclined, Retry, DeleteCandidate, vars

(* While the split is on, new capacity lowers nobody's share: it adds to    *)
(* each allowance, it never levels them.                                   *)
THEOREM CreditsOnlyRaise == SpecDefault => CreditLowersNobody
<1>1. Init => DefaultInv
  BY WalletInit DEF Init, DefaultInv
<1>2. DefaultInv /\ [NextDefault]_vars
        => [balance' > balance => \A s \in team : Remaining(s)' >= Remaining(s)]_vars
  BY CreditRaises
<1> QED BY <1>1, <1>2, DefaultStep, PTL DEF SpecDefault, CreditLowersNobody

(* The money of the wallet is in order for any number of seats, candidates  *)
(* and requests: see BalanceIsSound.                                       *)
THEOREM BalanceStaysSound == Spec => []BalanceIsSound
BY TypeCorrect, LedgerReplays, GrantedOnce, PTL DEF BalanceIsSound

-----------------------------------------------------------------------------
(***************************************************************************)
(* What the seats may still draw adds up to the balance.                   *)
(***************************************************************************)

(* What does not divide evenly is the remainder. *)
LEMMA DivisionLosesNothing ==
  ASSUME NEW a \in Nat, NEW n \in Nat, n # 0
  PROVE  a = n * (a \div n) + (a % n)
  BY n > 0

(* Equal shares are whole, and none of the amount is lost in dividing it:   *)
(* the administrator has the remainder.                                    *)
LEMMA EqualSharesAddUp ==
  ASSUME NEW people \in SUBSET Seats, Admin \in people, NEW amount \in Nat,
         NEW g \in [people -> Int], \A s \in people : g[s] = EqualShare(people, amount, s)
  PROVE  TotalOver(g, people) = amount
<1>1. IsFiniteSet(people)
  BY RevealAssumption, FS_Union, FS_Singleton, FS_Subset DEF Seats
<1>2. PICK n \in Nat : n = Cardinality(people) /\ n # 0
  BY <1>1, FS_CardinalityType, FS_EmptySet
<1>3. PICK q \in Nat : q = amount \div n
  BY <1>2
<1>4. PICK m \in Nat : m = amount % n
  BY <1>2
<1>5. amount = n * q + m
  <2>1. amount = n * (amount \div n) + (amount % n)
    BY <1>2, DivisionLosesNothing
  <2> QED BY <2>1, <1>3, <1>4
<1>6. \A s \in people : g[s] = IF s = Admin THEN q + m ELSE q
  BY <1>2, <1>3, <1>4 DEF EqualShare
<1> DEFINE h == [s \in people |-> q]
<1>7. h \in [people -> Int] /\ \A s \in people : h[s] = q
  OBVIOUS
<1> HIDE DEF h
<1>8. TotalOver(h, people) = n * q
  BY <1>1, <1>2, <1>7, TotalOfConstant
<1>9. \A s \in people \ {Admin} : h[s] = g[s]
  BY <1>6, <1>7
<1>10. TotalOver(g, people) = TotalOver(h, people) + (g[Admin] - h[Admin])
  BY <1>1, <1>7, <1>9, TotalOfOneChange
<1>11. n * q \in Nat
  BY <1>2, <1>3
<1> QED
  BY <1>5, <1>6, <1>7, <1>8, <1>10, <1>11

(* Assigned is the sum of what each seat has left, when each seat has an    *)
(* allowance ...                                                           *)
LEMMA AssignedIsTotal ==
  ASSUME IsFiniteSet(team), \A s \in team : allocation[s] # Null,
         NEW g \in [team -> Int], \A s \in team : g[s] = allocation[s] - used[s]
  PROVE  Assigned = TotalOver(g, team)
<1>1. Assigned = LeftOver(allocation, used, {s \in team : allocation[s] # Null})
  BY DEF Assigned, Remaining, MapThenSumSet, MapThenFoldSet, LeftOver, Pick
<1>2. {s \in team : allocation[s] # Null} = team
  OBVIOUS
<1>3. LeftOver(allocation, used, team) = TotalOver(g, team)
  BY LeftOverIsTotal
<1> QED
  BY <1>1, <1>2, <1>3

(* ... and so it is after a step. *)
LEMMA AssignedNextIsTotal ==
  ASSUME NEW people, IsFiniteSet(people), team' = people, \A s \in people : allocation'[s] # Null,
         NEW g \in [people -> Int], \A s \in people : g[s] = allocation'[s] - used'[s]
  PROVE  Assigned' = TotalOver(g, people)
<1>1. Assigned' = LeftOver(allocation', used', {s \in team' : allocation'[s] # Null})
  BY DEF Assigned, Remaining, MapThenSumSet, MapThenFoldSet, LeftOver, Pick
<1>2. {s \in team' : allocation'[s] # Null} = people
  OBVIOUS
<1>3. LeftOver(allocation', used', people) = TotalOver(g, people)
  BY LeftOverIsTotal
<1> QED
  BY <1>1, <1>2, <1>3

(* What leaves the shares alone leaves their sum. *)
LEMMA AssignedStutter ==
  ASSUME UNCHANGED <<team, allocation, used>>
  PROVE  Assigned' = Assigned
<1>1. Assigned = LeftOver(allocation, used, {s \in team : allocation[s] # Null})
  BY DEF Assigned, Remaining, MapThenSumSet, MapThenFoldSet, LeftOver, Pick
<1>2. Assigned' = LeftOver(allocation', used', {s \in team' : allocation'[s] # Null})
  BY DEF Assigned, Remaining, MapThenSumSet, MapThenFoldSet, LeftOver, Pick
<1> QED
  BY <1>1, <1>2

-----------------------------------------------------------------------------
(* Nobody who waits for a top-up of a divided balance read a blank          *)
(* allowance, and what the seats may draw is what there is.                *)
DividedInv ==
    /\ DefaultInv
    /\ \A r \in Requests : request[r] # Idle => request[r].allocation # Null
    /\ Admin \in team => Assigned = balance

(* Whoever the seats become, a levelled split gives out the balance. *)
LEMMA LevelledAddsUp ==
  ASSUME WalletInv, split, NEW people \in SUBSET Seats, Resettle(people), team' = people,
         balance' = balance
  PROVE  Admin \in team' => Assigned' = balance'
<1> SUFFICES ASSUME Admin \in people PROVE Assigned' = balance
  OBVIOUS
<1>1. TypeOK /\ balance \in Nat /\ IsFiniteSet(people)
  BY RevealAssumption, FS_Union, FS_Singleton, FS_Subset DEF Seats, WalletInv, TypeOK
<1>2. \A s \in people : used[s] \in Nat /\ EqualShare(people, balance, s) \in Nat
  BY <1>1, EqualShareNat DEF TypeOK
<1>3. \A s \in people : /\ allocation'[s] = used[s] + EqualShare(people, balance, s)
                        /\ used'[s] = used[s]
  BY DEF Resettle, Levelled
<1> DEFINE g == [s \in people |-> EqualShare(people, balance, s)]
<1>4. g \in [people -> Int] /\ \A s \in people : g[s] = EqualShare(people, balance, s)
  BY <1>2
<1> HIDE DEF g
<1>5. \A s \in people : g[s] = allocation'[s] - used'[s] /\ allocation'[s] # Null
  BY <1>2, <1>3, <1>4, RevealAssumption
<1>6. Assigned' = TotalOver(g, people)
  BY <1>1, <1>4, <1>5, AssignedNextIsTotal
<1> QED
  BY <1>1, <1>4, <1>6, EqualSharesAddUp

(* A credit gives out what it brings. *)
LEMMA RaisedAddsUp ==
  ASSUME DividedInv, NEW quantity \in Nat, quantity # 0, allocation' = Raised(quantity),
         balance' = balance + quantity, UNCHANGED <<team, used>>
  PROVE  Admin \in team' => Assigned' = balance'
<1> SUFFICES ASSUME Admin \in team PROVE Assigned' = balance + quantity
  OBVIOUS
<1>1. TypeOK /\ split /\ balance \in Nat /\ team \in SUBSET Seats /\ Assigned = balance
  BY DEF DividedInv, DefaultInv, WalletInv, TypeOK
<1>2. IsFiniteSet(team)
  BY <1>1, RevealAssumption, FS_Union, FS_Singleton, FS_Subset DEF Seats
<1>3. \A s \in team : /\ allocation[s] \in Nat /\ allocation[s] # Null /\ used[s] \in Nat
                      /\ EqualShare(team, quantity, s) \in Nat
  BY <1>1, EqualShareNat DEF TypeOK, DividedInv, DefaultInv
<1>4. \A s \in team : allocation'[s] = allocation[s] + EqualShare(team, quantity, s)
  BY <1>1, <1>3 DEF Raised
<1> DEFINE g == [s \in team |-> allocation[s] - used[s]]
           h == [s \in team |-> EqualShare(team, quantity, s)]
           k == [s \in team |-> allocation'[s] - used'[s]]
<1>5. /\ g \in [team -> Int] /\ \A s \in team : g[s] = allocation[s] - used[s]
      /\ h \in [team -> Int] /\ \A s \in team : h[s] = EqualShare(team, quantity, s)
  BY <1>3
<1>6. k \in [team -> Int] /\ \A s \in team : k[s] = allocation'[s] - used'[s]
  BY <1>3, <1>4
<1> HIDE DEF g, h, k
<1>7. \A s \in team : k[s] = g[s] + h[s] /\ allocation'[s] # Null
  BY <1>3, <1>4, <1>5, <1>6, RevealAssumption
<1>8. Assigned = TotalOver(g, team)
  BY <1>2, <1>3, <1>5, AssignedIsTotal
<1>9. TotalOver(h, team) = quantity
  BY <1>1, <1>5, EqualSharesAddUp
<1>10. Assigned' = TotalOver(k, team)
  BY <1>2, <1>6, <1>7, AssignedNextIsTotal
<1>11. TotalOver(k, team) = TotalOver(g, team) + TotalOver(h, team)
  BY <1>2, <1>5, <1>6, <1>7, TotalOfTwo
<1> QED
  BY <1>1, <1>8, <1>9, <1>10, <1>11

(* The welcome grant is divided too, when there is anybody to have it. *)
LEMMA GrantAddsUp ==
  ASSUME DividedInv, GrantComplimentaryReveals, UNCHANGED <<team, used>>
  PROVE  Admin \in team' => Assigned' = balance'
<1>1. CASE welcomed
  BY <1>1, AssignedStutter DEF GrantComplimentaryReveals, DividedInv
<1>2. CASE ~welcomed
  BY <1>2, RaisedAddsUp, RevealAssumption DEF GrantComplimentaryReveals, Credit
<1> QED
  BY <1>1, <1>2

(* A charge takes one reveal from the balance and one from a share. *)
LEMMA ChargeTakesOne ==
  ASSUME DividedInv, NEW limit, limit # Null, NEW s \in Seats, NEW c \in Candidates,
         Answer(limit, s, c) = "charged", Charge(limit, s, c), UNCHANGED <<team, allocation>>
  PROVE  Admin \in team' => Assigned' = balance'
<1> SUFFICES ASSUME Admin \in team PROVE Assigned' = balance - 1
  BY DEF Charge
<1>1. /\ TypeOK /\ balance \in Nat /\ team \in SUBSET Seats /\ Assigned = balance
      /\ c \notin revealed
  BY DEF DividedInv, DefaultInv, WalletInv, TypeOK, Answer
<1>2. IsFiniteSet(team)
  BY <1>1, RevealAssumption, FS_Union, FS_Singleton, FS_Subset DEF Seats
<1>3. balance # 0
  BY <1>1 DEF Answer
<1>4. s \in team
  BY <1>1, <1>3 DEF Answer, SpentUp
<1>5. used' = [used EXCEPT ![s] = @ + 1]
  BY DEF Charge
<1>6. \A t \in team : allocation[t] \in Nat /\ allocation[t] # Null /\ used[t] \in Nat
  BY <1>1 DEF TypeOK, DividedInv, DefaultInv
<1>7. used'[s] = used[s] + 1 /\ \A t \in team \ {s} : used'[t] = used[t]
  BY <1>1, <1>4, <1>5 DEF TypeOK
<1> DEFINE g == [t \in team |-> allocation[t] - used[t]]
           h == [t \in team |-> allocation'[t] - used'[t]]
<1>8. g \in [team -> Int] /\ \A t \in team : g[t] = allocation[t] - used[t]
  BY <1>6
<1>9. h \in [team -> Int] /\ \A t \in team : h[t] = allocation'[t] - used'[t]
  BY <1>6, <1>7
<1> HIDE DEF g, h
<1>10. h[s] - g[s] = -1 /\ \A t \in team \ {s} : g[t] = h[t]
  BY <1>4, <1>6, <1>7, <1>8, <1>9
<1>11. Assigned = TotalOver(g, team)
  BY <1>2, <1>6, <1>8, AssignedIsTotal
<1>12. Assigned' = TotalOver(h, team)
  BY <1>2, <1>6, <1>9, AssignedNextIsTotal
<1>13. TotalOver(h, team) = TotalOver(g, team) + (h[s] - g[s])
  BY <1>2, <1>4, <1>8, <1>9, <1>10, TotalOfOneChange
<1> QED
  BY <1>1, <1>10, <1>11, <1>12, <1>13

(* So does the end of a reveal, when it charges at all. *)
LEMMA ConcludeTakesOne ==
  ASSUME DividedInv, NEW limit, limit # Null, NEW s \in Seats, NEW c \in Candidates,
         Conclude(limit, s, c)
  PROVE  Admin \in team' => Assigned' = balance'
<1>1. UNCHANGED <<team, allocation>>
  BY DEF Conclude, company
<1>2. CASE Answer(limit, s, c) = "charged"
  BY <1>1, <1>2, ChargeTakesOne DEF Conclude
<1>3. CASE Answer(limit, s, c) # "charged"
  BY <1>1, <1>3, AssignedStutter DEF Conclude, DividedInv
<1> QED
  BY <1>2, <1>3

(* The seats a step makes of a divided split. *)
LEMMA DividedStep == DividedInv /\ [NextDefault]_vars => DividedInv'
<1> SUFFICES ASSUME DividedInv, [NextDefault]_vars
             PROVE  /\ \A r \in Requests : request'[r] # Idle => request'[r].allocation # Null
                    /\ Admin \in team' => Assigned' = balance'
  BY DefaultStep DEF DividedInv
<1>1. WalletInv /\ split /\ TypeOK /\ team \in SUBSET Seats
  BY DEF DividedInv, DefaultInv, WalletInv, TypeOK
<1>2. \A s \in team : s \in Seats /\ allocation[s] # Null
  BY <1>1 DEF DividedInv, DefaultInv
<1>3. /\ request \in [Requests -> InFlight \cup {Idle}]
      /\ \A r \in Requests : request[r] # Idle => request[r].allocation # Null
      /\ \A r \in Requests : request[r].pc # "idle" => request[r] # Idle
  BY <1>1 DEF DividedInv, TypeOK, Idle
<1>4. ASSUME UNCHANGED request
      PROVE  \A r \in Requests : request'[r] # Idle => request'[r].allocation # Null
  BY <1>3, <1>4
<1>5. ASSUME UNCHANGED <<team, allocation, used, balance>>
      PROVE  Admin \in team' => Assigned' = balance'
  BY <1>5, AssignedStutter DEF DividedInv
<1>6. CASE RegisterCompany \/ Restart
  <2>1. Admin \in team' => Assigned' = balance'
    BY <1>6, GrantAddsUp DEF RegisterCompany, Restart
  <2>2. \A r \in Requests : request'[r] # Idle => request'[r].allocation # Null
    BY <1>4, <1>6 DEF RegisterCompany, Restart
  <2> QED BY <2>1, <2>2
<1>7. CASE RegisterAdmin
  BY <1>1, <1>4, <1>7, LevelledAddsUp DEF RegisterAdmin, Seats
<1>8. ASSUME NEW s \in Colleagues, Join(s) \/ Leave(s)
      PROVE  /\ \A r \in Requests : request'[r] # Idle => request'[r].allocation # Null
             /\ Admin \in team' => Assigned' = balance'
  <2>1. team \cup {s} \in SUBSET Seats /\ team \ {s} \in SUBSET Seats
    BY <1>1 DEF Seats
  <2>2. UNCHANGED <<request, balance>>
    BY <1>8 DEF Join, Leave
  <2>3. CASE Join(s)
    BY <1>1, <1>4, <2>1, <2>2, <2>3, LevelledAddsUp DEF Join
  <2>4. CASE Leave(s)
    BY <1>1, <1>4, <2>1, <2>2, <2>4, LevelledAddsUp DEF Leave
  <2> QED BY <1>8, <2>3, <2>4
<1>9. Pack \in Nat /\ Pack # 0
  BY RevealAssumption
<1>10. CASE Purchase
  BY <1>4, <1>9, <1>10, RaisedAddsUp DEF Purchase, Credit, company
<1>11. ASSUME NEW s \in Seats, NEW c \in Candidates, Reveal(s, c)
       PROVE  /\ \A r \in Requests : request'[r] # Idle => request'[r].allocation # Null
              /\ Admin \in team' => Assigned' = balance'
  BY <1>2, <1>4, <1>11, ConcludeTakesOne DEF Reveal
<1>12. ASSUME NEW s \in Seats, NEW c \in Candidates, CrashAfterCharge(s, c)
       PROVE  /\ \A r \in Requests : request'[r] # Idle => request'[r].allocation # Null
              /\ Admin \in team' => Assigned' = balance'
  BY <1>2, <1>12, ChargeTakesOne DEF CrashAfterCharge, company
<1>13. ASSUME NEW r \in Requests, NEW s \in Seats, NEW c \in Candidates, RequestTopUp(r, s, c)
       PROVE  /\ \A q \in Requests : request'[q] # Idle => request'[q].allocation # Null
              /\ Admin \in team' => Assigned' = balance'
  <2>1. request'[r].allocation # Null /\ \A q \in Requests \ {r} : request'[q] = request[q]
    BY <1>2, <1>3, <1>13 DEF RequestTopUp
  <2>2. UNCHANGED <<team, allocation, used, balance>>
    BY <1>13 DEF RequestTopUp, company, shares
  <2> QED BY <1>3, <1>5, <2>1, <2>2
<1>14. ASSUME NEW r \in Requests, TopUpPaid(r)
       PROVE  /\ \A q \in Requests : request'[q] # Idle => request'[q].allocation # Null
              /\ Admin \in team' => Assigned' = balance'
  <2>1. /\ request' = [request EXCEPT ![r].pc = "credited"]
        /\ request[r].pc = "paying" /\ Credit("auto_purchase", Pack)
        /\ UNCHANGED <<team, used>>
    BY <1>14 DEF TopUpPaid, company
  <2>2. request[r] \in InFlight /\ request[r] # Idle
    BY <1>3, <2>1 DEF Idle
  <2>3. request'[r].allocation = request[r].allocation
    BY <1>3, <2>1, <2>2 DEF InFlight
  <2>4. \A q \in Requests \ {r} : request'[q] = request[q]
    BY <1>3, <2>1
  <2>5. Admin \in team' => Assigned' = balance'
    BY <1>9, <2>1, RaisedAddsUp DEF Credit
  <2> QED BY <1>3, <2>2, <2>3, <2>4, <2>5
<1>15. ASSUME NEW r \in Requests, TopUpDeclined(r) \/ Retry(r)
       PROVE  \A q \in Requests : request'[q] # Idle => request'[q].allocation # Null
  BY <1>3, <1>15 DEF TopUpDeclined, Retry
<1>16. ASSUME NEW r \in Requests, Retry(r)
       PROVE  Admin \in team' => Assigned' = balance'
  <2>1. request[r] \in InFlight /\ request[r].allocation # Null
    BY <1>3, <1>16 DEF Retry, Idle
  <2>2. request[r].seat \in Seats /\ request[r].candidate \in Candidates
    BY <2>1 DEF InFlight
  <2> QED BY <1>16, <2>1, <2>2, ConcludeTakesOne DEF Retry
<1>17. ASSUME NEW r \in Requests, TopUpDeclined(r)
       PROVE  Admin \in team' => Assigned' = balance'
  BY <1>5, <1>17 DEF TopUpDeclined, company, shares
<1>18. CASE UNCHANGED vars
  BY <1>4, <1>5, <1>18 DEF vars
<1>19. ASSUME NEW on \in BOOLEAN, SetAutoReplenish(on)
       PROVE  UNCHANGED <<request, team, allocation, used, balance>>
  BY <1>19 DEF SetAutoReplenish, shares
<1>20. ASSUME NEW c \in Candidates, DeleteCandidate(c)
       PROVE  UNCHANGED <<request, team, allocation, used, balance>>
  BY <1>20 DEF DeleteCandidate, company, shares
<1> QED
  BY <1>4, <1>5, <1>6, <1>7, <1>8, <1>10, <1>11, <1>12, <1>13, <1>14, <1>15, <1>16, <1>17,
     <1>18, <1>19, <1>20
  DEF NextDefault

(* What the seats may still draw is exactly the balance, for any team, any  *)
(* packs and any number of requests waiting for a top-up, as long as the   *)
(* capacity divides itself: no reveal is promised to two seats and none is *)
(* lost in the rounding (equalShares, applyEqualSplit,                     *)
(* distributeNewCapacity, consumeReveal).                                  *)
THEOREM SharesStayTheBalance == SpecDefault => []SharesAreTheBalance
<1>1. Init => DividedInv
  BY WalletInit DEF Init, DefaultInv, DividedInv
<1>2. DividedInv => SharesAreTheBalance
  BY DEF DividedInv, DefaultInv, SharesAreTheBalance
<1> QED
  BY <1>1, <1>2, DividedStep, PTL DEF SpecDefault
=============================================================================
