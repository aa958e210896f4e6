------------------------- MODULE TriageQueueProofs -------------------------
(***************************************************************************)
(* Theorems about the triage queue, for any number of CVs, deliveries,      *)
(* attempts and restarts, and whoever sent the CVs.                         *)
(***************************************************************************)
EXTENDS TriageQueue, DataLemmas

-----------------------------------------------------------------------------
(* The inductive invariant, in parts.                                        *)

States == {"queued", "running", "done", "failed"}
BatchRows == [key : Keys, state : States, attempts : 0..MaxAttempts]

IsDeep(key) == key.kind \in {"initial", "rolling"}
Covers(key, r) == key.from <= r /\ r <= key.to

(* What the deliveries keep of what they were charged. *)
Kept == [d \in Drops |-> bill[d].charged - bill[d].refunded]

MoneyInv ==
    /\ bill \in [Drops -> [charged : 0..MaxCvs, refunded : 0..MaxCvs]] /\ balance \in Nat
    /\ \A d \in Drops : bill[d].refunded <= bill[d].charged
    /\ balance = Capacity - TotalOver(Kept, Drops)

Statuses == {"draft", "processing", "ready", "completed", "failed"}
ParseStates == {"absent", "pending", "parsed", "failed", "duplicate"}
DeepStates == {"pending", "running", "scored", "failed"}

RowTypes ==
    /\ status \in Statuses
    /\ drop \in [Cvs -> Drops \cup {0}]
    /\ parse \in [Cvs -> ParseStates]
    /\ rank \in [Cvs -> Nat]
    /\ deep \in [Cvs -> DeepStates]
    /\ frontier \in Nat
    /\ adding \subseteq Drops
    /\ restarts \in 0..MaxRestarts

QueueTypes ==
    /\ batches \in Seq(BatchRows)
    /\ worker \in [batch : {0} \cup DOMAIN batches, left : SUBSET Cvs]
    /\ \A i \in DOMAIN batches : batches[i].key.kind = "parse" => batches[i].key.drop \in Drops

(* The tables are what they should be, and money is neither minted nor lost. *)
TablesInv == RowTypes /\ QueueTypes /\ MoneyInv

Uploaded == {c \in Cvs : drop[c] # 0}

(* CVs are uploaded in order; a delivery is charged when it has rows, and not while
   it is being added. *)
PilesInv ==
    /\ Uploaded = 1..Cardinality(Uploaded)
    /\ \A d \in Drops : Charged(d) => RowsOf(d) # {}
    /\ \A d \in adding : d # 1 /\ ~Charged(d) /\ RowsOf(d) # {}

(* One batch runs at a time, it is the oldest there is, and none runs in a
   session that failed. *)
OneAtATime ==
    /\ worker.batch # 0 => batches[worker.batch].state = "running"
    /\ \A i \in DOMAIN batches :
        /\ batches[i].state = "running" => i = worker.batch
        /\ worker.batch # 0 /\ Open(i) => worker.batch <= i
    /\ worker.batch = 0 => worker.left = {}
    /\ status = "failed" => worker.batch = 0

(* What is known of a CV that was not read is nothing; a version steps aside for a newer one. *)
RowsInv ==
    /\ \A d \in adding : \A c \in RowsOf(d) : parse[c] = "pending"
    /\ \A c \in Cvs :
        /\ drop[c] = 0 => parse[c] = "absent"
        /\ parse[c] \in {"absent", "pending", "failed"} => rank[c] = 0
        /\ rank[c] = 0 => deep[c] = "pending"
        /\ parse[c] = "duplicate" => \E e \in Versions : Person[e] = Person[c] /\ e > c

(* The work that a delivery of its own is read by. *)
Reads(key) == key.kind = "parse" \/ (key.kind = "preliminary" /\ key.drop # OfSession)

(* Reading: what is being read is all of a delivery that waits to be read, and was paid for. *)
ReadingInv ==
    /\ \A i \in DOMAIN batches : Reads(batches[i].key) => Charged(batches[i].key.drop)
    /\ worker.batch # 0 /\ Running.kind = "parse" =>
        worker.left = {c \in RowsOf(Running.drop) : parse[c] = "pending"}
    /\ PaidWorkIsQueued

(* The rungs of the ladder: ranks have no gap, ranges are ranges of ranks. *)
RungsInv ==
    /\ frontier <= Top(rank)
    /\ \A r \in 1..Top(rank) : \E c \in Cvs : rank[c] = r
    /\ \A i \in DOMAIN batches : IsDeep(batches[i].key) =>
        /\ 1 <= batches[i].key.from /\ batches[i].key.from <= batches[i].key.to
        /\ batches[i].key.to <= Top(rank)

Rolling == {i \in DOMAIN batches : batches[i].key.kind = "rolling"}

(* A round of retries is numbered above those before it. *)
RoundsInv ==
    \A i \in DOMAIN batches :
        IsDeep(batches[i].key) /\ batches[i].key.again # <<>> =>
            batches[i].key.again[2] < Cardinality(Rolling)

Deepening == worker.batch # 0 /\ IsDeep(Running)

(* What is claimed for analysis is what the running range has left. *)
ClaimsInv ==
    /\ {c \in Cvs : deep[c] = "running"} = IF Deepening THEN worker.left ELSE {}
    /\ Deepening => worker.left \subseteq InRange(Running)

OpenDeep == {i \in DOMAIN batches : Open(i) /\ IsDeep(batches[i].key)}

(* The cursor passes the range that ended; below the range of a batch that is owed
   every rank is passed or in the range of an earlier one; a CV that was touched is
   passed or in the range of one that is owed. *)
LadderInv ==
    /\ \A i \in DOMAIN batches :
        IsDeep(batches[i].key) /\ ~Open(i) => batches[i].key.to <= frontier
    /\ \A i \in OpenDeep, r \in 1..Top(rank) :
        frontier < r /\ r < batches[i].key.from =>
            \E j \in OpenDeep : j < i /\ Covers(batches[j].key, r)
    /\ \A c \in Cvs : deep[c] # "pending" /\ rank[c] > frontier =>
            \E j \in OpenDeep : Covers(batches[j].key, rank[c])

Settled(c) == deep[c] \in {"scored", "failed"}

(* Who is in the running range is analysed, about to be, or in another range. *)
RangeInv ==
    Deepening =>
        \A c \in InRange(Running) : c \in worker.left \/ Settled(c)
            \/ \E j \in OpenDeep \ {worker.batch} : Covers(batches[j].key, rank[c])

(* And nobody is passed. *)
PassedInv ==
    \A c \in Cvs : parse[c] = "parsed" /\ rank[c] # 0 /\ rank[c] <= frontier =>
        Settled(c) \/ \E j \in OpenDeep : Covers(batches[j].key, rank[c])

(* What holds of every session, whatever is removed and whenever the process dies. *)
SessionInv == TablesInv /\ PilesInv /\ OneAtATime

(* And what holds of one nobody removes a CV from. *)
QueueInv ==
    /\ SessionInv /\ RowsInv /\ ReadingInv
    /\ RungsInv /\ RoundsInv /\ ClaimsInv
    /\ status # "failed" => LadderInv /\ RangeInv /\ PassedInv

-----------------------------------------------------------------------------
(* What the operators of the model return.                                   *)

(* The sets the tables range over are finite. *)
LEMMA RowsAreFinite == IsFiniteSet(Cvs) /\ IsFiniteSet(Drops) /\ Cardinality(Cvs) = MaxCvs
  BY FS_Interval, TriageAssumption DEF Cvs, Drops

(* A pile is charged for a number of CVs there can be. *)
LEMMA SizeOfAPile ==
  ASSUME NEW S \in SUBSET Cvs
  PROVE  /\ IsFiniteSet(S) /\ Cardinality(S) \in 0..MaxCvs
         /\ S # {} => Cardinality(S) \in 1..MaxCvs
<1>1. IsFiniteSet(S) /\ Cardinality(S) <= MaxCvs /\ Cardinality(S) \in Nat
  BY RowsAreFinite, FS_Subset, FS_CardinalityType
<1>2. S # {} => Cardinality(S) # 0
  BY <1>1, FS_EmptySet
<1> QED
  BY <1>1, <1>2, TriageAssumption

(* The top of the ladder is the highest rank, or 0. *)
LEMMA TopIsHighest ==
  ASSUME NEW r \in [Cvs -> Nat]
  PROVE  /\ Top(r) \in Nat
         /\ \A c \in Cvs : r[c] <= Top(r)
         /\ Top(r) = 0 \/ \E c \in Cvs : r[c] = Top(r)
<1> DEFINE ranks == {r[c] : c \in Cvs} \cup {0}
<1>1. IsFiniteSet(ranks)
  <2>1. IsFiniteSet({r[c] : c \in Cvs})
    BY RowsAreFinite, ValuesAreFinite
  <2> QED BY <2>1, FS_AddElement
<1>2. ranks \subseteq Int /\ ranks # {} /\ \A n \in ranks : n \in Nat
  OBVIOUS
<1> HIDE DEF ranks
<1>3. Max(ranks) \in ranks /\ \A n \in ranks : n <= Max(ranks)
  BY <1>1, <1>2, MaxIsGreatest
<1> QED
  BY <1>2, <1>3 DEF Top, ranks

(* The oldest batch that is queued. *)
LEMMA NextIsOldest ==
  ASSUME batches \in Seq(BatchRows), Queued # {}
  PROVE  NextBatch \in Queued /\ \A i \in Queued : NextBatch <= i
<1>1. Queued \subseteq Nat
  BY DEF Queued
<1> QED
  BY <1>1, MinIsLeast DEF NextBatch

(* Settling never brings a session out of its failure, or into one. *)
LEMMA SettleType ==
  ASSUME NEW now \in Statuses, NEW p, NEW d
  PROVE  Settle(now, p, d) \in Statuses /\ (Settle(now, p, d) = "failed" <=> now = "failed")
  BY DEF Settle, Statuses

(* A queue is `queue` with batches behind it, of keys in `new`. *)
Extended(longer, queue, new) ==
    /\ longer \in Seq(BatchRows) /\ queue \in Seq(BatchRows) /\ Len(queue) <= Len(longer)
    /\ \A i \in 1..Len(queue) : longer[i] = queue[i]
    /\ \A i \in (Len(queue) + 1)..Len(longer) :
        longer[i].key \in new /\ longer[i].state = "queued"

(* Asking for work adds at most its batch, and afterwards there is one with the key. *)
LEMMA EnqueueExtends ==
  ASSUME NEW queue \in Seq(BatchRows), NEW key \in Keys
  PROVE  /\ Extended(Enqueue(queue, key), queue, {key})
         /\ \E i \in 1..Len(Enqueue(queue, key)) : Enqueue(queue, key)[i].key = key
<1> DEFINE row == [key |-> key, state |-> "queued", attempts |-> 0]
<1>1. row \in BatchRows /\ row.key = key /\ row.state = "queued"
  BY TriageAssumption DEF BatchRows, States
<1> HIDE DEF row
<1>2. CASE \E i \in DOMAIN queue : queue[i].key = key
  BY <1>2 DEF Enqueue, Extended
<1>3. CASE ~ \E i \in DOMAIN queue : queue[i].key = key
  <2>1. Enqueue(queue, key) = Append(queue, row)
    BY <1>3 DEF Enqueue, row
  <2>2. /\ Append(queue, row) \in Seq(BatchRows) /\ Len(Append(queue, row)) = Len(queue) + 1
        /\ Append(queue, row)[Len(queue) + 1] = row
        /\ \A i \in 1..Len(queue) : Append(queue, row)[i] = queue[i]
    BY <1>1
  <2> QED BY <1>1, <2>1, <2>2 DEF Extended
<1> QED
  BY <1>2, <1>3

-----------------------------------------------------------------------------
(* Money.                                                                    *)

LEMMA KeptType ==
  ASSUME bill \in [Drops -> [charged : 0..MaxCvs, refunded : 0..MaxCvs]]
  PROVE  Kept \in [Drops -> Int]
<1>1. \A d \in Drops : bill[d].charged \in Int /\ bill[d].refunded \in Int
  BY TriageAssumption
<1> QED
  BY <1>1 DEF Kept

(* The sum that Books and refundTriageSession speak of. *)
LEMMA KeptIsTheSum ==
  ASSUME bill \in [Drops -> [charged : 0..MaxCvs, refunded : 0..MaxCvs]]
  PROVE  MapThenSumSet(LAMBDA d : bill[d].charged - bill[d].refunded, Drops) = TotalOver(Kept, Drops)
<1> DEFINE Adds(F) ==
             F = [s \in SUBSET Drops |->
                    IF s = {} THEN 0
                    ELSE (bill[CHOOSE x \in s : TRUE].charged - bill[CHOOSE x \in s : TRUE].refunded)
                         + F[s \ {CHOOSE x \in s : TRUE}]]
<1>1. ASSUME NEW F PROVE Adds(F) <=> IsSum(F, Kept, Drops)
  <2>1. \A s \in SUBSET Drops : s # {} => (CHOOSE x \in s : TRUE) \in Drops
    OBVIOUS
  <2>2. \A d \in Drops : Kept[d] = bill[d].charged - bill[d].refunded
    BY DEF Kept
  <2>3. ASSUME NEW s \in SUBSET Drops
        PROVE  (IF s = {} THEN 0
                ELSE (bill[CHOOSE x \in s : TRUE].charged - bill[CHOOSE x \in s : TRUE].refunded)
                         + F[s \ {CHOOSE x \in s : TRUE}])
               = (IF s = {} THEN 0 ELSE Kept[Pick(s)] + F[s \ {Pick(s)}])
    BY <2>1, <2>2 DEF Pick
  <2> QED BY <2>3 DEF IsSum
<1>2. PICK G : IsSum(G, Kept, Drops)
  BY KeptType, RowsAreFinite, SumExists
<1>3. MapThenSumSet(LAMBDA d : bill[d].charged - bill[d].refunded, Drops) = (CHOOSE F : Adds(F))[Drops]
  BY DEF MapThenSumSet, MapThenFoldSet
<1>4. (CHOOSE F : Adds(F)) = G
  <2> HIDE DEF Adds
  <2>1. Adds(G)
    BY <1>1, <1>2
  <2>2. Adds(CHOOSE F : Adds(F))
    BY <2>1
  <2> QED BY <1>1, <1>2, <2>2, RowsAreFinite, SumUnique
<1>5. (CHOOSE F : IsSum(F, Kept, Drops)) = G
  <2>1. IsSum(CHOOSE F : IsSum(F, Kept, Drops), Kept, Drops)
    BY <1>2
  <2> QED BY <1>2, <2>1, RowsAreFinite, SumUnique
<1> QED
  BY <1>3, <1>4, <1>5 DEF TotalOver

(* A delivery that was not charged is charged, if there is capacity for it. *)
LEMMA ChargeKeepsMoney ==
  ASSUME MoneyInv, NEW d \in Drops, ~Charged(d), NEW n \in 0..MaxCvs, Charge(d, n)
  PROVE  /\ MoneyInv'
         /\ bill'[d] = [charged |-> n, refunded |-> 0]
         /\ \A e \in Drops \ {d} : bill'[e] = bill[e]
<1>1. /\ bill[d].charged = 0 /\ bill[d].refunded = 0
      /\ bill[d] \in [charged : 0..MaxCvs, refunded : 0..MaxCvs]
  BY TriageAssumption DEF MoneyInv, Charged
<1>2. /\ bill'[d] = [charged |-> n, refunded |-> 0]
      /\ \A e \in Drops \ {d} : bill'[e] = bill[e]
      /\ bill' \in [Drops -> [charged : 0..MaxCvs, refunded : 0..MaxCvs]]
  BY <1>1, TriageAssumption DEF MoneyInv, Charge
<1>3. balance' = balance - n /\ balance >= n /\ balance \in Nat /\ n \in Nat
  BY TriageAssumption DEF MoneyInv, Charge
<1>4. /\ Kept \in [Drops -> Int] /\ Kept' \in [Drops -> Int]
      /\ Kept[d] = 0 /\ Kept'[d] = n
      /\ \A e \in Drops \ {d} : Kept[e] = Kept'[e]
  <2>1. Kept \in [Drops -> Int] /\ Kept' \in [Drops -> Int]
    <3>1. \A e \in Drops : /\ bill[e].charged \in Int /\ bill[e].refunded \in Int
                           /\ bill'[e].charged \in Int /\ bill'[e].refunded \in Int
      BY <1>2, TriageAssumption DEF MoneyInv
    <3> QED BY <3>1 DEF Kept
  <2> QED BY <1>1, <1>2, <1>3, <2>1 DEF Kept
<1>5. TotalOver(Kept', Drops) = TotalOver(Kept, Drops) + (n - 0)
  BY <1>4, RowsAreFinite, TotalOfOneChange
<1>6. balance' = Capacity - TotalOver(Kept', Drops)
  BY <1>3, <1>4, <1>5, RowsAreFinite, TotalType, TriageAssumption DEF MoneyInv
<1>7. \A e \in Drops : bill'[e].refunded <= bill'[e].charged
  BY <1>2, <1>3 DEF MoneyInv
<1> QED
  BY <1>2, <1>3, <1>6, <1>7 DEF MoneyInv

(* What a delivery is given back grows, at most to what it was charged. *)
LEMMA RefundKeepsMoney ==
  ASSUME MoneyInv, NEW d \in Drops, NEW total \in Nat, RefundDrop(d, total)
  PROVE  /\ MoneyInv'
         /\ \A e \in Drops : bill'[e].charged = bill[e].charged
         /\ \A e \in Drops \ {d} : bill'[e] = bill[e]
         /\ bill[d].refunded <= bill'[d].refunded
         /\ balance' = balance + (bill'[d].refunded - bill[d].refunded)
<1> DEFINE back == Further(bill[d].refunded, Nearer(total, bill[d].charged))
<1>1. /\ bill[d].charged \in 0..MaxCvs /\ bill[d].refunded \in 0..MaxCvs
      /\ bill[d].refunded <= bill[d].charged
  BY DEF MoneyInv
<1>2. back \in 0..MaxCvs /\ bill[d].refunded <= back /\ back <= bill[d].charged
  BY <1>1, TriageAssumption DEF Further, Nearer
<1>3. /\ bill' = [bill EXCEPT ![d].refunded = back]
      /\ balance' = balance + (back - bill[d].refunded)
  BY DEF RefundDrop
<1> HIDE DEF back
<1>4. /\ bill'[d] = [charged |-> bill[d].charged, refunded |-> back]
      /\ \A e \in Drops \ {d} : bill'[e] = bill[e]
      /\ bill' \in [Drops -> [charged : 0..MaxCvs, refunded : 0..MaxCvs]]
  BY <1>2, <1>3 DEF MoneyInv
<1>5. /\ Kept \in [Drops -> Int] /\ Kept' \in [Drops -> Int]
      /\ Kept[d] = bill[d].charged - bill[d].refunded /\ Kept'[d] = bill[d].charged - back
      /\ \A e \in Drops \ {d} : Kept[e] = Kept'[e]
  <2>1. \A e \in Drops : /\ bill[e].charged \in Int /\ bill[e].refunded \in Int
                         /\ bill'[e].charged \in Int /\ bill'[e].refunded \in Int
    BY <1>4, TriageAssumption DEF MoneyInv
  <2> QED BY <1>4, <2>1 DEF Kept
<1>6. TotalOver(Kept', Drops) = TotalOver(Kept, Drops) + (Kept'[d] - Kept[d])
  BY <1>5, RowsAreFinite, TotalOfOneChange
<1>7. balance' = Capacity - TotalOver(Kept', Drops) /\ balance' \in Nat
  BY <1>1, <1>2, <1>3, <1>5, <1>6, RowsAreFinite, TotalType, TriageAssumption DEF MoneyInv
<1>8. \A e \in Drops : bill'[e].refunded <= bill'[e].charged
  BY <1>2, <1>4 DEF MoneyInv
<1> QED
  BY <1>2, <1>3, <1>4, <1>7, <1>8 DEF MoneyInv

(* A session that fails gives back all it kept. *)
LEMMA SessionRefundKeepsMoney ==
  ASSUME MoneyInv, RefundSession
  PROVE  /\ MoneyInv'
         /\ \A d \in Drops : bill'[d].charged = bill[d].charged /\ bill'[d].refunded = bill[d].charged
         /\ balance' = balance + TotalOver(Kept, Drops)
<1>1. /\ bill' \in [Drops -> [charged : 0..MaxCvs, refunded : 0..MaxCvs]]
      /\ \A d \in Drops : bill'[d].charged = bill[d].charged /\ bill'[d].refunded = bill[d].charged
      /\ \A d \in Drops : bill[d].charged \in 0..MaxCvs
  BY DEF MoneyInv, RefundSession
<1>2. balance' = balance + TotalOver(Kept, Drops)
  BY KeptIsTheSum DEF MoneyInv, RefundSession
<1>3. Kept' \in [Drops -> Int] /\ \A d \in Drops : Kept'[d] = 0
  <2>1. \A d \in Drops : bill'[d].charged \in Int /\ bill'[d].refunded \in Int
    BY <1>1, TriageAssumption
  <2> QED BY <1>1, <2>1 DEF Kept
<1>4. TotalOver(Kept', Drops) = 0
  BY <1>3, RowsAreFinite, TotalOfZeros
<1>5. TotalOver(Kept, Drops) \in Int
  BY KeptType, RowsAreFinite, TotalType DEF MoneyInv
<1>6. balance' = Capacity - TotalOver(Kept', Drops) /\ balance' \in Nat
  BY <1>2, <1>4, <1>5, TriageAssumption DEF MoneyInv
<1>7. \A d \in Drops : bill'[d].refunded <= bill'[d].charged
  BY <1>1, TriageAssumption
<1> QED
  BY <1>1, <1>2, <1>6, <1>7 DEF MoneyInv

LEMMA MoneyUntouched ==
  ASSUME MoneyInv, UNCHANGED money
  PROVE  MoneyInv'
  BY DEF MoneyInv, money, Kept

-----------------------------------------------------------------------------
(* The queue: what each kind of step does to it.                             *)

(* The queue of a later state has the batches of this one, with their keys. *)
KeysStay ==
    /\ DOMAIN batches \subseteq DOMAIN batches'
    /\ \A i \in DOMAIN batches : batches'[i].key = batches[i].key

(* Work is asked for. *)
LEMMA AskingKeepsQueue ==
  ASSUME QueueTypes, OneAtATime, NEW new, new \subseteq Keys,
         Extended(batches', batches, new),
         \A key \in new : key.kind = "parse" => key.drop \in Drops,
         worker' = worker, status' = "failed" => status = "failed"
  PROVE  QueueTypes' /\ OneAtATime' /\ KeysStay
<1>1. /\ batches' \in Seq(BatchRows) /\ Len(batches) <= Len(batches')
      /\ \A i \in DOMAIN batches : i \in DOMAIN batches' /\ batches'[i] = batches[i]
      /\ \A i \in DOMAIN batches' \ DOMAIN batches :
           i > Len(batches) /\ batches'[i].key \in new /\ batches'[i].state = "queued"
  BY DEF Extended
<1>2. DOMAIN batches = 1..Len(batches) /\ DOMAIN batches' = 1..Len(batches')
  BY <1>1 DEF QueueTypes
<1>3. QueueTypes'
  BY <1>1 DEF QueueTypes
<1>4. OneAtATime'
  <2>1. worker.batch \in {0} \cup 1..Len(batches)
    BY <1>2 DEF QueueTypes
  <2>2. \A i \in DOMAIN batches' \ DOMAIN batches : worker.batch <= i
    BY <1>1, <1>2, <2>1
  <2>3. \A i \in DOMAIN batches : batches'[i].state = "running" => i = worker'.batch
    BY <1>1 DEF OneAtATime
  <2>4. \A i \in DOMAIN batches' : Open(i)' /\ worker'.batch # 0 => worker'.batch <= i
    BY <1>1, <2>2 DEF OneAtATime, Open
  <2>5. worker.batch # 0 => batches'[worker.batch].state = "running"
    BY <1>1, <1>2, <2>1 DEF OneAtATime
  <2> QED BY <1>1, <2>3, <2>4, <2>5 DEF OneAtATime
<1> QED
  BY <1>1, <1>3, <1>4 DEF KeysStay

(* A batch is claimed: it is the oldest of those that are open. *)
LEMMA ClaimTakesTheOldest ==
  ASSUME QueueTypes, OneAtATime, NEW kinds, NEW state \in States, Claim(kinds, state)
  PROVE  /\ worker.batch = 0
         /\ NextBatch \in DOMAIN batches /\ batches[NextBatch].state = "queued"
         /\ batches[NextBatch].key.kind \in kinds
         /\ \A i \in DOMAIN batches : Open(i) => NextBatch <= i
         /\ batches' \in Seq(BatchRows) /\ Len(batches') = Len(batches) /\ DOMAIN batches' = DOMAIN batches
         /\ \A i \in DOMAIN batches : i # NextBatch => batches'[i] = batches[i]
         /\ batches'[NextBatch].key = batches[NextBatch].key /\ batches'[NextBatch].state = state
         /\ KeysStay
<1>1. worker.batch = 0 /\ batches[NextBatch].key.kind \in kinds /\ Queued # {}
  BY DEF Claim, Idle
<1>2. NextBatch \in Queued /\ \A i \in Queued : NextBatch <= i
  BY <1>1, NextIsOldest DEF QueueTypes
<1>3. \A i \in DOMAIN batches : Open(i) => i \in Queued
  <2>1. 0 \notin DOMAIN batches
    BY DEF QueueTypes
  <2> QED BY <1>1, <2>1 DEF OneAtATime, Open, Queued
<1> DEFINE n == NextBatch
           row == [batches[n] EXCEPT !.state = state, !.attempts = Nearer(batches[n].attempts + 1, MaxAttempts)]
<1>4. n \in DOMAIN batches /\ batches[n] \in BatchRows /\ batches[n].state = "queued"
  BY <1>2 DEF Queued, QueueTypes
<1>5. row \in BatchRows /\ row.key = batches[n].key /\ row.state = state
  <2>1. Nearer(batches[n].attempts + 1, MaxAttempts) \in 0..MaxAttempts
    BY <1>4, TriageAssumption DEF BatchRows, Nearer
  <2> QED BY <1>4, <2>1 DEF BatchRows
<1>6. batches' = [batches EXCEPT ![n] = row]
  BY <1>4 DEF Claim, BatchRows, QueueTypes
<1> HIDE DEF row
<1>7. /\ batches' \in Seq(BatchRows) /\ Len(batches') = Len(batches)
      /\ DOMAIN batches' = DOMAIN batches
      /\ \A i \in DOMAIN batches : i # n => batches'[i] = batches[i]
      /\ batches'[n] = row
  BY <1>4, <1>5, <1>6 DEF QueueTypes
<1> QED
  BY <1>1, <1>2, <1>3, <1>4, <1>5, <1>7 DEF KeysStay

(* A batch that begins to run. *)
LEMMA ClaimStarts ==
  ASSUME QueueTypes, OneAtATime, NEW kinds, Claim(kinds, "running"), status # "failed",
         NEW left \in SUBSET Cvs, worker' = [batch |-> NextBatch, left |-> left], UNCHANGED status
  PROVE  QueueTypes' /\ OneAtATime'
<1> USE ClaimTakesTheOldest DEF States
<1>1. QueueTypes'
  BY DEF QueueTypes, KeysStay
<1>2. OneAtATime'
  BY DEF OneAtATime, Open, QueueTypes
<1> QED BY <1>1, <1>2

(* A batch that is over as soon as it is claimed. *)
LEMMA ClaimEnds ==
  ASSUME QueueTypes, OneAtATime, NEW kinds, NEW state \in {"done", "failed"}, Claim(kinds, state),
         UNCHANGED worker
  PROVE  QueueTypes' /\ OneAtATime'
<1> USE ClaimTakesTheOldest DEF States
<1>1. QueueTypes'
  BY DEF QueueTypes, KeysStay
<1>2. OneAtATime'
  BY DEF OneAtATime, Open, QueueTypes
<1> QED BY <1>1, <1>2

(* The running batch is over, or queued again; it may have asked for more work. *)
Askable(new) == new \subseteq Keys /\ \A key \in new : key.kind = "parse" => key.drop \in Drops
Over(state) == state \in States \ {"running"}

(* What a queue that grew holds. *)
LEMMA QueueSplit ==
  ASSUME NEW longer, NEW queue, NEW new, Extended(longer, queue, new)
  PROVE  /\ longer \in Seq(BatchRows) /\ Len(queue) <= Len(longer) /\ queue \in Seq(BatchRows)
         /\ \A i \in DOMAIN queue : i \in DOMAIN longer /\ longer[i] = queue[i]
         /\ \A i \in DOMAIN longer \ DOMAIN queue :
              i > Len(queue) /\ longer[i].key \in new /\ longer[i].state = "queued"
<1>1. longer \in Seq(BatchRows) /\ queue \in Seq(BatchRows) /\ Len(queue) <= Len(longer)
  BY DEF Extended
<1>2. /\ Len(longer) \in Nat /\ DOMAIN longer = 1..Len(longer)
      /\ Len(queue) \in Nat /\ DOMAIN queue = 1..Len(queue)
  BY <1>1
<1>3. ASSUME NEW i \in DOMAIN queue PROVE i \in DOMAIN longer /\ longer[i] = queue[i]
  BY <1>1, <1>2 DEF Extended
<1>4. ASSUME NEW i \in DOMAIN longer \ DOMAIN queue
      PROVE  i > Len(queue) /\ longer[i].key \in new /\ longer[i].state = "queued"
  <2>1. i \in (Len(queue) + 1)..Len(longer)
    BY <1>2
  <2> QED BY <1>2, <2>1 DEF Extended
<1> QED
  BY <1>1, <1>3, <1>4

LEMMA EndingKeepsQueue ==
  ASSUME QueueTypes, OneAtATime, worker.batch # 0, NEW new, Askable(new),
         NEW longer, Extended(longer, batches, new),
         NEW state, Over(state), batches' = Ended(longer, state), worker' = Idle
  PROVE  /\ QueueTypes' /\ OneAtATime' /\ KeysStay
         /\ worker.batch \in DOMAIN batches /\ batches[worker.batch].state = "running"
         /\ Len(batches') = Len(longer)
         /\ \A i \in DOMAIN batches : i # worker.batch => batches'[i] = batches[i]
         /\ batches'[worker.batch].state = state
         /\ \A i \in DOMAIN batches' \ DOMAIN batches :
              i > Len(batches) /\ batches'[i] = longer[i]
              /\ batches'[i].key \in new /\ batches'[i].state = "queued"
<1> USE DEF Askable, Over
<1>1. /\ longer \in Seq(BatchRows) /\ Len(batches) <= Len(longer) /\ batches \in Seq(BatchRows)
      /\ \A i \in DOMAIN batches : i \in DOMAIN longer /\ longer[i] = batches[i]
      /\ \A i \in DOMAIN longer \ DOMAIN batches :
           i > Len(batches) /\ longer[i].key \in new /\ longer[i].state = "queued"
  BY QueueSplit
<1> DEFINE w == worker.batch
           row == [longer[w] EXCEPT !.state = state]
<1>2. w \in DOMAIN batches /\ w \in DOMAIN longer /\ longer[w] = batches[w] /\ batches[w].state = "running"
  BY <1>1 DEF QueueTypes, OneAtATime
<1>3. row \in BatchRows /\ row.key = batches[w].key /\ row.state = state
  <2>1. longer[w] \in BatchRows
    BY <1>1, <1>2
  <2> QED BY <1>2, <2>1 DEF BatchRows
<1>4. batches' = [longer EXCEPT ![w] = row]
  BY DEF Ended
<1> HIDE DEF row
<1>5. /\ batches' \in Seq(BatchRows) /\ Len(batches') = Len(longer) /\ DOMAIN batches' = DOMAIN longer
      /\ batches'[w] = row /\ \A i \in DOMAIN longer : i # w => batches'[i] = longer[i]
  BY <1>1, <1>2, <1>3, <1>4
<1> HIDE DEF w
<1>6. /\ KeysStay
      /\ \A i \in DOMAIN batches : i # w => batches'[i] = batches[i]
      /\ \A i \in DOMAIN batches' \ DOMAIN batches :
              i > Len(batches) /\ batches'[i] = longer[i]
              /\ batches'[i].key \in new /\ batches'[i].state = "queued"
  BY <1>1, <1>2, <1>3, <1>5 DEF KeysStay
<1>7. worker'.batch = 0 /\ worker'.left = {} /\ worker' = [batch |-> 0, left |-> {}]
  BY DEF Idle
<1>8. QueueTypes'
  <2>1. worker' \in [batch : {0} \cup DOMAIN batches', left : SUBSET Cvs]
    BY <1>7
  <2> QED BY <1>1, <1>2, <1>3, <1>5, <1>6, <2>1 DEF QueueTypes
<1>9. OneAtATime'
  <2>1. \A i \in DOMAIN batches : batches[i].state = "running" => i = w
    BY DEF OneAtATime, w
  <2>2. \A i \in DOMAIN batches' : batches'[i].state # "running"
    BY <1>1, <1>2, <1>3, <1>5, <1>6, <2>1 DEF States
  <2> QED BY <1>7, <2>2 DEF OneAtATime
<1> QED
  BY <1>1, <1>2, <1>3, <1>5, <1>6, <1>8, <1>9 DEF w

(* Nothing is asked for in a queue that stays as long. *)
LEMMA NothingAsked ==
  ASSUME QueueTypes
  PROVE  Extended(batches, batches, {})
  BY DEF QueueTypes, Extended

(* ... which asks for one batch more, that does not read a delivery. *)
LEMMA EndingWithWork ==
  ASSUME QueueTypes, OneAtATime, worker.batch # 0, NEW key \in Keys, key.kind # "parse",
         batches' = Ended(Enqueue(batches, key), "done"), worker' = Idle
  PROVE  /\ QueueTypes' /\ OneAtATime' /\ KeysStay
         /\ worker.batch \in DOMAIN batches /\ batches[worker.batch].state = "running"
         /\ \A i \in DOMAIN batches : i # worker.batch => batches'[i] = batches[i]
         /\ batches'[worker.batch].state = "done"
         /\ \A i \in DOMAIN batches' \ DOMAIN batches :
              i > Len(batches) /\ batches'[i].key = key /\ batches'[i].state = "queued"
         /\ \E i \in DOMAIN batches' : batches'[i].key = key
<1> DEFINE longer == Enqueue(batches, key)
           new == {key}
<1>1. Extended(longer, batches, new) /\ \E i \in 1..Len(longer) : longer[i].key = key
  BY EnqueueExtends DEF QueueTypes
<1>2. batches' = Ended(longer, "done")
  OBVIOUS
<1>3. Over("done") /\ Askable(new)
  BY DEF Over, Askable, States
<1> HIDE DEF longer
<1>4. /\ QueueTypes' /\ OneAtATime' /\ KeysStay
      /\ worker.batch \in DOMAIN batches /\ batches[worker.batch].state = "running"
      /\ Len(batches') = Len(longer)
      /\ \A i \in DOMAIN batches : i # worker.batch => batches'[i] = batches[i]
      /\ batches'[worker.batch].state = "done"
      /\ \A i \in DOMAIN batches' \ DOMAIN batches :
              i > Len(batches) /\ batches'[i] = longer[i]
              /\ batches'[i].key \in new /\ batches'[i].state = "queued"
  <2> HIDE DEF new
  <2> QED BY <1>1, <1>2, <1>3, EndingKeepsQueue
<1>5. \E i \in DOMAIN batches' : batches'[i].key = key
  <2>1. PICK i \in 1..Len(longer) : longer[i].key = key
    BY <1>1
  <2>2. i \in DOMAIN batches' /\ DOMAIN batches' = 1..Len(longer)
    BY <1>4 DEF QueueTypes
  <2>3. i \in DOMAIN batches => batches'[i].key = longer[i].key
    <3>1. i \in DOMAIN batches => longer[i] = batches[i]
      BY <1>1 DEF Extended
    <3> QED BY <3>1, <1>4 DEF KeysStay
  <2> QED BY <1>4, <2>1, <2>2, <2>3
<1> QED
  BY <1>4, <1>5

(* ... or for nothing. *)
LEMMA EndingAlone ==
  ASSUME QueueTypes, OneAtATime, worker.batch # 0, NEW state \in {"queued", "done", "failed"},
         batches' = Ended(batches, state), worker' = Idle
  PROVE  /\ QueueTypes' /\ OneAtATime' /\ KeysStay
         /\ worker.batch \in DOMAIN batches /\ batches[worker.batch].state = "running"
         /\ DOMAIN batches' = DOMAIN batches
         /\ \A i \in DOMAIN batches : i # worker.batch => batches'[i] = batches[i]
         /\ batches'[worker.batch].state = state
<1>1. PICK longer : longer = batches
  OBVIOUS
<1>2. PICK new : new = {}
  OBVIOUS
<1>3. Extended(longer, batches, new)
  BY <1>1, <1>2, NothingAsked
<1>4. batches' = Ended(longer, state)
  BY <1>1
<1>5. Over(state)
  BY DEF Over, States
<1>6. Askable(new)
  BY <1>2 DEF Askable
<1>7. /\ QueueTypes' /\ OneAtATime' /\ KeysStay
      /\ worker.batch \in DOMAIN batches /\ batches[worker.batch].state = "running"
      /\ Len(batches') = Len(longer)
      /\ \A i \in DOMAIN batches : i # worker.batch => batches'[i] = batches[i]
      /\ batches'[worker.batch].state = state
  BY <1>3, <1>4, <1>5, <1>6, EndingKeepsQueue
<1> QED
  BY <1>1, <1>7 DEF QueueTypes

(* On boot, what was running is queued. *)
LEMMA ResumeKeepsQueue ==
  ASSUME QueueTypes, OneAtATime, Resume(batches)
  PROVE  /\ QueueTypes' /\ OneAtATime' /\ KeysStay
         /\ DOMAIN batches' = DOMAIN batches
         /\ \A i \in DOMAIN batches :
              batches'[i].state = IF batches[i].state = "running" THEN "queued" ELSE batches[i].state
<1> DEFINE new(i) == [batches[i] EXCEPT !.state = IF batches[i].state = "running" THEN "queued"
                                                  ELSE batches[i].state]
<1>1. \A i \in DOMAIN batches : batches[i] \in BatchRows
  BY DEF QueueTypes
<1>2. \A i \in DOMAIN batches :
        /\ new(i) \in BatchRows /\ new(i).key = batches[i].key
        /\ new(i).state = IF batches[i].state = "running" THEN "queued" ELSE batches[i].state
  BY <1>1 DEF BatchRows, States
<1>3. batches' = [i \in DOMAIN batches |-> new(i)]
  BY DEF Resume
<1> HIDE DEF new
<1>4. batches' \in [1..Len(batches) -> BatchRows] /\ Len(batches) \in Nat
  BY <1>2, <1>3 DEF QueueTypes
<1>5. batches' \in Seq(BatchRows) /\ DOMAIN batches' = DOMAIN batches
  BY <1>3, <1>4, FunctionIsSeq
<1>6. \A i \in DOMAIN batches : batches'[i] = new(i)
  BY <1>3
<1>7. worker'.batch = 0 /\ worker'.left = {} /\ worker' = [batch |-> 0, left |-> {}]
  BY DEF Resume, Idle
<1>8. QueueTypes'
  BY <1>2, <1>5, <1>6, <1>7 DEF QueueTypes
<1>9. OneAtATime'
  <2>1. \A i \in DOMAIN batches' : batches'[i].state # "running"
    BY <1>2, <1>5, <1>6
  <2> QED BY <1>7, <2>1 DEF OneAtATime
<1> QED
  BY <1>2, <1>5, <1>6, <1>8, <1>9 DEF KeysStay

-----------------------------------------------------------------------------
(* A round of retries asks for each band that holds a failure.               *)

Bands == {((r - 1) \div Tranche) * Tranche + 1 : r \in FailedRanks}

Band(from) ==
    Key("rolling", OfSession, from, Nearer(from + Tranche - 1, Max(FailedRanks)),
        <<"retry", Cardinality(Rolling)>>)

(* A number is in the band that begins at the multiple below it. *)
LEMMA BandOfRank ==
  ASSUME NEW r \in Nat \ {0}
  PROVE  LET from == ((r - 1) \div Tranche) * Tranche + 1
         IN  from \in Nat \ {0} /\ from <= r /\ r <= from + Tranche - 1
<1> DEFINE q == (r - 1) \div Tranche
<1>1. /\ q \in Nat /\ r - 1 \in Nat /\ Tranche \in Nat /\ Tranche > 0
      /\ r - 1 = q * Tranche + ((r - 1) % Tranche)
      /\ (r - 1) % Tranche \in 0..(Tranche - 1)
  BY TriageAssumption
<1>2. q * Tranche \in Nat
  BY <1>1
<1> QED
  BY <1>1, <1>2

LEMMA RollingCount ==
  ASSUME QueueTypes
  PROVE  IsFiniteSet(Rolling) /\ Cardinality(Rolling) \in Nat
<1>1. Len(batches) \in Int /\ Rolling \subseteq 1..Len(batches)
  BY DEF QueueTypes, Rolling
<1>2. IsFiniteSet(1..Len(batches))
  BY <1>1, FS_Interval
<1>3. IsFiniteSet(Rolling)
  BY <1>1, <1>2, FS_Subset
<1> QED
  BY <1>3, FS_CardinalityType

(* The bands and the failures in them. *)
LEMMA BandFacts ==
  ASSUME RowTypes, QueueTypes, FailedRanks # {}
  PROVE  /\ IsFiniteSet(Bands) /\ Bands # {} /\ Bands \subseteq Nat \ {0}
         /\ Max(FailedRanks) \in FailedRanks /\ FailedRanks \subseteq Nat \ {0}
         /\ \A from \in Bands :
              /\ Band(from) \in Keys /\ Band(from).from = from /\ Band(from).to \in Nat
              /\ Band(from).kind = "rolling" /\ Band(from).again = <<"retry", Cardinality(Rolling)>>
              /\ \E r \in FailedRanks : from <= r /\ r <= Band(from).to
              /\ Band(from).to <= Max(FailedRanks)
         /\ \A r \in FailedRanks : \E from \in Bands : from <= r /\ r <= Band(from).to
<1> DEFINE failed == {e \in Cvs : parse[e] = "parsed" /\ rank[e] # 0 /\ deep[e] = "failed"}
           start == [r \in FailedRanks |-> ((r - 1) \div Tranche) * Tranche + 1]
<1>1. FailedRanks \subseteq Nat \ {0}
  BY DEF FailedRanks, RowTypes
<1>2. IsFiniteSet(FailedRanks)
  <2>1. IsFiniteSet({rank[c] : c \in Cvs})
    BY RowsAreFinite, ValuesAreFinite DEF RowTypes
  <2> QED BY <2>1, FS_Subset DEF FailedRanks
<1>3. IsFiniteSet(Bands) /\ Bands # {}
  <2>1. IsFiniteSet({start[r] : r \in FailedRanks})
    BY <1>2, ValuesAreFinite
  <2> QED BY <2>1 DEF Bands
<1> DEFINE top == Max(FailedRanks)
<1>4. top \in FailedRanks /\ top \in Nat /\ \A r \in FailedRanks : r <= top
  <2>1. FailedRanks \subseteq Int
    BY <1>1
  <2>2. Max(FailedRanks) \in FailedRanks /\ \A r \in FailedRanks : r <= Max(FailedRanks)
    BY <1>2, <2>1, MaxIsGreatest
  <2> QED BY <1>1, <2>2
<1>5. Cardinality(Rolling) \in Nat
  BY RollingCount
<1>6. ASSUME NEW from \in Nat, NEW r \in FailedRanks, from <= r, r <= from + Tranche - 1
      PROVE  /\ Band(from) \in Keys /\ Band(from).from = from /\ Band(from).to \in Nat
             /\ Band(from).kind = "rolling" /\ Band(from).again = <<"retry", Cardinality(Rolling)>>
             /\ r <= Band(from).to /\ Band(from).to <= top
  <2> DEFINE end == Nearer(from + Tranche - 1, top)
  <2>1. Band(from) = Key("rolling", OfSession, from, end, <<"retry", Cardinality(Rolling)>>)
    BY DEF Band
  <2>2. r \in Nat /\ r <= top
    BY <1>1, <1>4
  <2> HIDE DEF top
  <2>3. end \in Nat /\ r <= end /\ end <= top
    BY <1>4, <1>6, <2>2, TriageAssumption DEF Nearer
  <2> HIDE DEF end
  <2> QED BY <1>5, <2>1, <2>3 DEF Key, Keys, OfSession, top
<1>7. \A r \in FailedRanks : \E from \in Bands : from \in Nat /\ from <= r /\ r <= from + Tranche - 1
  BY <1>1, BandOfRank DEF Bands
<1>8. \A from \in Bands : from \in Nat \ {0} /\ \E r \in FailedRanks : from <= r /\ r <= from + Tranche - 1
  BY <1>1, BandOfRank DEF Bands
<1> QED
  BY <1>1, <1>3, <1>4, <1>6, <1>7, <1>8

(* Every band has a batch afterwards. *)
LEMMA RequeueExtends ==
  ASSUME RowTypes, QueueTypes, RequeueFailedAnalyses
  PROVE  /\ Extended(batches', batches, {Band(from) : from \in Bands})
         /\ \A from \in Bands : \E i \in 1..Len(batches') : batches'[i].key = Band(from)
<1> DEFINE V == Seq(BatchRows)
           Iter(F) == F = [s \in SUBSET Bands |->
                             IF s = {} THEN batches
                             ELSE Enqueue(F[s \ {Max(s)}], Band(Max(s)))]
           step == [p \in Bands \X V |-> Enqueue(p[2], Band(p[1]))]
           pick == [s \in SUBSET Bands |-> Max(s)]
           After(s, queue) ==
               /\ Extended(queue, batches, {Band(from) : from \in s})
               /\ \A from \in s : \E i \in 1..Len(queue) : queue[i].key = Band(from)
<1>1. /\ IsFiniteSet(Bands) /\ Bands \subseteq Int /\ batches \in V
      /\ \A from \in Bands : Band(from) \in Keys
  <2>1. FailedRanks # {}
    BY DEF RequeueFailedAnalyses
  <2>2. /\ IsFiniteSet(Bands) /\ Bands \subseteq Nat \ {0}
        /\ \A from \in Bands : Band(from) \in Keys
    BY <2>1, BandFacts
  <2>3. batches \in V
    BY DEF QueueTypes
  <2> HIDE DEF V
  <2> QED BY <2>2, <2>3
<1>2. batches' = (CHOOSE F : Iter(F))[Bands]
  BY DEF RequeueFailedAnalyses, MapThenFoldSet, Bands, Band, Rolling
<1>3. \A s \in SUBSET Bands : s # {} => Max(s) \in s
  <2>1. \A s \in SUBSET Bands : IsFiniteSet(s) /\ s \subseteq Int
    BY <1>1, FS_Subset
  <2> QED BY <2>1, MaxIsGreatest
<1>4. step \in [Bands \X V -> V] /\ Picks(pick, Bands)
  <2>1. \A queue \in V, key \in Keys : Enqueue(queue, key) \in V
    BY EnqueueExtends DEF Extended
  <2> QED BY <1>1, <1>3, <2>1 DEF Picks
<1>5. \E F : Iter(F)
  <2>1. PICK F \in [SUBSET Bands -> V] : IsFold(F, Bands, batches, step, pick)
    <3> HIDE DEF step, pick, V
    <3> QED BY <1>1, <1>4, FoldExists
  <2>2. ASSUME NEW s \in SUBSET Bands, s # {}
        PROVE  step[<<pick[s], F[s \ {pick[s]}]>>] = Enqueue(F[s \ {Max(s)}], Band(Max(s)))
    <3>1. pick[s] = Max(s) /\ Max(s) \in Bands /\ F[s \ {Max(s)}] \in V
      BY <1>3, <2>2
    <3> QED BY <3>1
  <2>3. Iter(F)
    <3> HIDE DEF step, pick
    <3> QED BY <2>1, <2>2 DEF IsFold
  <2> QED BY <2>3
<1> DEFINE F == CHOOSE F : Iter(F)
<1>6. Iter(F)
  <2> HIDE DEF Iter
  <2> QED BY <1>5
<1> HIDE DEF F
<1> DEFINE Good == {s \in SUBSET Bands : After(s, F[s])}
<1>7. {} \in Good
  <2>1. F[{}] = batches
    BY <1>6
  <2> QED BY <1>1, <2>1 DEF Extended
<1>8. ASSUME NEW s \in SUBSET Bands, s # {}, \A x \in s : s \ {x} \in Good PROVE s \in Good
  <2> DEFINE m == Max(s)
             less == s \ {m}
  <2>1. m \in s /\ less \in Good /\ less \in SUBSET Bands /\ Band(m) \in Keys
    BY <1>1, <1>3, <1>8
  <2>2. F[s] = Enqueue(F[less], Band(m))
    BY <1>6, <1>8
  <2>3. F[less] \in Seq(BatchRows) /\ After(less, F[less])
    BY <2>1 DEF Extended
  <2> HIDE DEF m, less, Iter, Good, After, V, step, pick
  <2> DEFINE before == F[less]
             after == F[s]
  <2>4. /\ Extended(after, before, {Band(m)})
        /\ \E i \in 1..Len(after) : after[i].key = Band(m)
    <3>1. before \in Seq(BatchRows) /\ after = Enqueue(before, Band(m))
      BY <2>2, <2>3
    <3> HIDE DEF before, after
    <3> QED BY <2>1, <3>1, EnqueueExtends
  <2>5. Extended(after, batches, {Band(from) : from \in s})
    <3>1. Extended(before, batches, {Band(from) : from \in less})
      BY <2>3 DEF After
    <3>2. \A from \in less : from \in s
      BY DEF less
    <3> HIDE DEF before, after
    <3>3. Len(batches) \in Nat /\ Len(before) \in Nat /\ Len(after) \in Nat
      BY <2>4, <3>1 DEF Extended
    <3> QED BY <2>1, <2>4, <3>1, <3>2, <3>3, SMTT(30) DEF Extended
  <2>6. \A from \in s : \E i \in 1..Len(F[s]) : F[s][i].key = Band(from)
    <3>1. \A i \in 1..Len(F[less]) : i \in 1..Len(F[s]) /\ F[s][i] = F[less][i]
      BY <2>4 DEF Extended
    <3>2. \A from \in less : \E i \in 1..Len(F[s]) : F[s][i].key = Band(from)
      BY <2>3, <3>1 DEF After
    <3> QED BY <2>4, <3>2 DEF less
  <2> QED BY <2>5, <2>6 DEF Good, After
<1>9. SUBSET Bands \subseteq Good
  <2> HIDE DEF Good
  <2> QED BY <1>1, <1>7, <1>8, SubsetsAreGood
<1>10. After(Bands, F[Bands])
  BY <1>9
<1> QED
  BY <1>2, <1>10 DEF F

-----------------------------------------------------------------------------
(* Every step keeps the tables, the money and the order of the queue.        *)

LEMMA KeyTypes ==
  ASSUME NEW kind \in {"parse", "preliminary", "initial", "rolling"}, NEW d \in Drops \cup {OfSession},
         NEW from \in Nat, NEW to \in Nat,
         NEW again \in {<<>>} \cup ({"retry", "promote"} \X Nat)
  PROVE  /\ Key(kind, d, from, to, again) \in Keys
         /\ Key(kind, d, from, to, again).kind = kind /\ Key(kind, d, from, to, again).drop = d
         /\ Key(kind, d, from, to, again).from = from /\ Key(kind, d, from, to, again).to = to
         /\ Key(kind, d, from, to, again).again = again
  BY DEF Key, Keys

(* ... of the reading of a delivery, and of a range of the deep reading. *)
LEMMA ReadingKeyTypes ==
  ASSUME NEW d \in Drops
  PROVE  /\ Key("parse", d, 0, 0, <<>>) \in Keys
         /\ Key("parse", d, 0, 0, <<>>).kind = "parse" /\ Key("parse", d, 0, 0, <<>>).drop = d
  BY DEF Key, Keys

LEMMA RollingKeyTypes ==
  ASSUME NEW from \in Nat, NEW to \in Nat
  PROVE  /\ Key("rolling", OfSession, from, to, <<>>) \in Keys
         /\ Key("rolling", OfSession, from, to, <<>>).kind = "rolling"
         /\ Key("rolling", OfSession, from, to, <<>>).from = from
         /\ Key("rolling", OfSession, from, to, <<>>).to = to
         /\ Key("rolling", OfSession, from, to, <<>>).again = <<>>
  BY DEF Key, Keys

LEMMA PilesUntouched ==
  ASSUME RowTypes, PilesInv, drop' = drop, adding' \subseteq adding,
         \A d \in Drops : bill'[d].charged = bill[d].charged
  PROVE  PilesInv'
  BY DEF RowTypes, PilesInv, Uploaded, RowsOf, Charged

(* Where nothing happens to the queue. *)
LEMMA QueueUntouched ==
  ASSUME QueueTypes, OneAtATime, UNCHANGED <<batches, worker>>, status' = "failed" => status = "failed"
  PROVE  QueueTypes' /\ OneAtATime'
  BY DEF QueueTypes, OneAtATime, Open

(* New rows are the next CVs that were never uploaded. *)
LEMMA AddingRows ==
  ASSUME RowTypes, PilesInv, NEW n \in 1..MaxCvs, NEW d \in Drops, AddRows(n, d)
  PROVE  /\ drop' \in [Cvs -> Drops \cup {0}] /\ parse' \in [Cvs -> ParseStates]
         /\ NewRows(n) \in SUBSET Cvs /\ NewRows(n) # {}
         /\ \A c \in NewRows(n) : drop[c] = 0 /\ drop'[c] = d /\ parse'[c] = "pending"
         /\ \A c \in Cvs \ NewRows(n) : drop'[c] = drop[c] /\ parse'[c] = parse[c]
         /\ Uploaded' = 1..Cardinality(Uploaded')
<1> DEFINE k == Cardinality(Uploaded)
<1>1. k \in Nat /\ Uploaded = 1..k
  BY SizeOfAPile DEF PilesInv, Uploaded
<1>2. NewRows(n) = (k + 1)..(k + n)
  BY DEF NewRows, Uploaded
<1> HIDE DEF k
<1>3. /\ NewRows(n) \in SUBSET Cvs
      /\ drop' = [c \in Cvs |-> IF c \in NewRows(n) THEN d ELSE drop[c]]
      /\ parse' = [c \in Cvs |-> IF c \in NewRows(n) THEN "pending" ELSE parse[c]]
  BY DEF AddRows
<1>4. NewRows(n) # {} /\ \A c \in NewRows(n) : c \notin Uploaded
  <2>1. k + 1 \in NewRows(n)
    BY <1>1, <1>2
  <2>2. ASSUME NEW c \in NewRows(n) PROVE c \notin Uploaded
    <3>1. c \in Int /\ c >= k + 1
      BY <1>1, <1>2
    <3>2. c \notin 1..k
      BY <1>1, <3>1
    <3> QED BY <1>1, <3>2
  <2> QED BY <2>1, <2>2
<1>5. Uploaded' = 1..(k + n)
  <2>1. d # 0
    BY DEF Drops
  <2>2. Uploaded' = Uploaded \cup NewRows(n)
    BY <1>3, <2>1 DEF Uploaded
  <2> QED BY <1>1, <1>2, <2>2
<1>6. Cardinality(1..(k + n)) = k + n
  BY <1>1, FS_Interval
<1> QED
  BY <1>3, <1>4, <1>5, <1>6 DEF RowTypes, ParseStates, Uploaded

(* The rows of a delivery are all the CVs there are for it, which are not too many. *)
LEMMA PileSize ==
  ASSUME NEW d
  PROVE  /\ Cardinality(RowsOf(d)) \in 0..MaxCvs
         /\ RowsOf(d) # {} => Cardinality(RowsOf(d)) \in 1..MaxCvs
         /\ Cardinality(Unreadable(d)) \in Nat
<1>1. RowsOf(d) \in SUBSET Cvs /\ Unreadable(d) \in SUBSET Cvs
  BY DEF RowsOf, Unreadable
<1> QED
  BY <1>1, SizeOfAPile, TriageAssumption

LEMMA DraftSize ==
  ASSUME DraftPile # {}
  PROVE  Cardinality(DraftPile) \in 1..MaxCvs /\ RowsOf(1) # {} /\ 1 \in Drops
<1>1. DraftPile \in SUBSET Cvs /\ RowsOf(1) # {} /\ 1 \in Drops
  BY TriageAssumption DEF DraftPile, RowsOf, Drops
<1> QED
  BY <1>1, SizeOfAPile

(* A delivery is charged, and its reading is asked for. *)
LEMMA StartingKeepsQueue ==
  ASSUME RowTypes, QueueTypes, OneAtATime, NEW d \in Drops, StartProcessing(d), UNCHANGED worker
  PROVE  /\ QueueTypes' /\ OneAtATime' /\ KeysStay
         /\ status' \in Statuses /\ (status' = "failed" <=> status = "failed")
         /\ Extended(batches', batches, {Key("parse", d, 0, 0, <<>>)})
         /\ \E i \in 1..Len(batches') : batches'[i].key = Key("parse", d, 0, 0, <<>>)
<1> DEFINE key == Key("parse", d, 0, 0, <<>>)
<1>1. key \in Keys /\ key.kind = "parse" /\ key.drop = d
  BY ReadingKeyTypes
<1>2. batches' = Enqueue(batches, key) /\ batches \in Seq(BatchRows)
  BY DEF StartProcessing, QueueTypes
<1> HIDE DEF key
<1>3. /\ Extended(batches', batches, {key})
      /\ \E i \in 1..Len(batches') : batches'[i].key = key
  BY <1>1, <1>2, EnqueueExtends
<1>4. status' \in Statuses /\ (status' = "failed" <=> status = "failed")
  BY DEF StartProcessing, RowTypes, Statuses
<1>5. QueueTypes' /\ OneAtATime' /\ KeysStay
  BY <1>1, <1>3, <1>4, AskingKeepsQueue
<1> QED
  BY <1>3, <1>4, <1>5 DEF key

(* The deliveries of a step that charges one of them. *)
LEMMA ChargingKeepsPiles ==
  ASSUME RowTypes, PilesInv, UNCHANGED drop, NEW d \in Drops, RowsOf(d) # {},
         adding' \subseteq adding \ {d},
         \A e \in Drops \ {d} : bill'[e] = bill[e]
  PROVE  PilesInv'
  BY DEF RowTypes, PilesInv, Uploaded, RowsOf, Charged

(* The next delivery is one there is nothing of. *)
LEMMA FreshDelivery ==
  ASSUME RowTypes, PilesInv, NEW d \in Drops, d = Max(Opened \cup {1}) + 1
  PROVE  d # 1 /\ RowsOf(d) = {} /\ ~Charged(d)
<1>1. \A e \in Opened \cup {1} : e < d
  <2>1. IsFiniteSet({drop[c] : c \in Cvs})
    BY RowsAreFinite, ValuesAreFinite DEF RowTypes
  <2>2. IsFiniteSet(Opened \cup {1})
    BY <2>1, FS_Subset, FS_AddElement DEF Opened
  <2>3. Opened \cup {1} \subseteq Int
    BY DEF Opened, RowTypes, Drops
  <2> DEFINE all == Opened \cup {1}
  <2> HIDE DEF all
  <2>4. Max(all) \in all /\ \A e \in all : e <= Max(all)
    BY <2>2, <2>3, MaxIsGreatest DEF all
  <2> QED BY <2>3, <2>4 DEF all
<1>2. d # 1 /\ d \notin Opened /\ d # 0
  BY <1>1 DEF Drops
<1>3. RowsOf(d) = {}
  BY <1>2 DEF Opened, RowsOf
<1> QED
  BY <1>2, <1>3 DEF PilesInv

LEMMA RoutesKeepSession ==
  ASSUME SessionInv, Routes
  PROVE  SessionInv'
<1> USE DEF SessionInv, TablesInv
<1>1. CASE Upload
  <2>1. AddRows(1, 1) /\ 1 \in Drops /\ 1 \in 1..MaxCvs /\ ~Charged(1)
    <3>1. NewRows(1) \subseteq Cvs /\ NewRows(1) # {}
      <4>1. Cardinality({c \in Cvs : drop[c] # 0}) \in Nat
        BY SizeOfAPile
      <4> QED BY <1>1, <4>1 DEF Upload, AddRows, NewRows
    <3> QED BY <1>1, <3>1, TriageAssumption DEF Upload, Launched, Drops, Cvs
  <2>2. /\ drop' \in [Cvs -> Drops \cup {0}] /\ parse' \in [Cvs -> ParseStates]
        /\ \A c \in Cvs : drop[c] # 0 => drop'[c] = drop[c]
        /\ Uploaded' = 1..Cardinality(Uploaded')
    BY <2>1, AddingRows
  <2>3. RowTypes'
    BY <1>1, <2>2 DEF Upload, RowTypes
  <2>4. PilesInv'
    <3>1. \A d \in Drops : RowsOf(d) # {} => RowsOf(d)' # {}
      BY <2>2 DEF RowsOf, Drops
    <3> QED BY <1>1, <2>2, <3>1 DEF Upload, PilesInv, Charged, money, RowTypes
  <2> QED BY <1>1, <2>3, <2>4, MoneyUntouched, QueueUntouched DEF Upload
<1>2. CASE Launch
  <2>1. 1 \in Drops /\ ~Charged(1) /\ RowsOf(1) # {} /\ Cardinality(DraftPile) \in 0..MaxCvs
    BY <1>2, DraftSize DEF Launch, Launched
  <2>2. MoneyInv' /\ \A e \in Drops \ {1} : bill'[e] = bill[e]
    BY <1>2, <2>1, ChargeKeepsMoney DEF Launch
  <2>3. QueueTypes' /\ OneAtATime' /\ status' \in Statuses
    BY <1>2, <2>1, StartingKeepsQueue DEF Launch
  <2>4. RowTypes'
    BY <1>2, <2>3 DEF Launch, RowTypes, cvs
  <2>5. PilesInv'
    BY <1>2, <2>1, <2>2, ChargingKeepsPiles DEF Launch, cvs, PilesInv
  <2> QED BY <2>2, <2>3, <2>4, <2>5
<1>3. ASSUME NEW n \in 1..MaxCvs, AddCvs(n) PROVE SessionInv'
  <2>1. PICK d \in Drops :
            /\ d = Max(Opened \cup {1}) + 1
            /\ AddRows(n, d) /\ adding' = adding \cup {d}
            /\ UNCHANGED <<status, rank, deep, money, frontier, batches, worker, restarts>>
    BY <1>3 DEF AddCvs
  <2>3. d # 1 /\ RowsOf(d) = {} /\ ~Charged(d)
    BY <2>1, FreshDelivery
  <2>4. /\ drop' \in [Cvs -> Drops \cup {0}] /\ parse' \in [Cvs -> ParseStates]
        /\ NewRows(n) \in SUBSET Cvs /\ NewRows(n) # {}
        /\ \A c \in NewRows(n) : drop[c] = 0 /\ drop'[c] = d
        /\ \A c \in Cvs \ NewRows(n) : drop'[c] = drop[c]
        /\ Uploaded' = 1..Cardinality(Uploaded')
    BY <2>1, AddingRows
  <2>5. RowTypes'
    BY <2>1, <2>4 DEF RowTypes
  <2>6. PilesInv'
    <3>1. \A e \in Drops : RowsOf(e) # {} => RowsOf(e)' # {}
      BY <2>4 DEF RowsOf, Drops
    <3>2. RowsOf(d)' # {}
      BY <2>4 DEF RowsOf
    <3> QED BY <2>1, <2>3, <2>4, <3>1, <3>2 DEF PilesInv, Charged, money, RowTypes
  <2> QED BY <2>1, <2>5, <2>6, MoneyUntouched, QueueUntouched
<1>4. ASSUME NEW d \in Drops, ChargeAdded(d) PROVE SessionInv'
  <2>1. d \in adding /\ ~Charged(d) /\ RowsOf(d) # {} /\ Cardinality(RowsOf(d)) \in 0..MaxCvs
    BY <1>4, PileSize DEF ChargeAdded, PilesInv
  <2>2. MoneyInv' /\ \A e \in Drops \ {d} : bill'[e] = bill[e]
    BY <1>4, <2>1, ChargeKeepsMoney DEF ChargeAdded
  <2>3. QueueTypes' /\ OneAtATime' /\ status' \in Statuses
    BY <1>4, StartingKeepsQueue DEF ChargeAdded
  <2>4. RowTypes'
    BY <1>4, <2>3 DEF ChargeAdded, RowTypes, cvs
  <2>5. PilesInv'
    BY <1>4, <2>1, <2>2, ChargingKeepsPiles DEF ChargeAdded, cvs
  <2> QED BY <2>2, <2>3, <2>4, <2>5
<1>5. ASSUME NEW d \in Drops, RefuseAdded(d) PROVE SessionInv'
  <2>1. RowTypes'
    BY <1>5 DEF RefuseAdded, RowTypes, ParseStates
  <2>2. PilesInv'
    BY <1>5, PilesUntouched DEF RefuseAdded, money
  <2> QED BY <1>5, <2>1, <2>2, MoneyUntouched, QueueUntouched DEF RefuseAdded
<1>6. CASE RequestNextTranche
  <2> DEFINE key == Key("rolling", OfSession, frontier + 1, Nearer(frontier + Tranche, Top(rank)), <<>>)
  <2>1. frontier + 1 \in Nat /\ Nearer(frontier + Tranche, Top(rank)) \in Nat
    BY TopIsHighest, TriageAssumption DEF RowTypes, Nearer
  <2>2. key \in Keys /\ key.kind = "rolling"
    BY <2>1, KeyTypes
  <2>3. batches' = Enqueue(batches, key) /\ batches \in Seq(BatchRows)
    BY <1>6 DEF RequestNextTranche, QueueTypes
  <2> HIDE DEF key
  <2>4. Extended(batches', batches, {key})
    BY <2>2, <2>3, EnqueueExtends
  <2>5. QueueTypes' /\ OneAtATime'
    BY <1>6, <2>2, <2>4, AskingKeepsQueue DEF RequestNextTranche
  <2>6. RowTypes' /\ PilesInv'
    BY <1>6, PilesUntouched DEF RequestNextTranche, RowTypes, cvs, money
  <2> QED BY <1>6, <2>5, <2>6, MoneyUntouched DEF RequestNextTranche
<1>7. CASE RequeueFailedAnalyses
  <2>1. FailedRanks # {} /\ UNCHANGED <<drop, parse, rank, money, frontier, worker, adding, restarts>>
        /\ status' = (IF status = "completed" THEN "ready" ELSE status)
        /\ deep' = [c \in Cvs |-> IF parse[c] = "parsed" /\ deep[c] = "failed" THEN "pending" ELSE deep[c]]
    BY <1>7 DEF RequeueFailedAnalyses
  <2> DEFINE new == {Band(from) : from \in Bands}
  <2>2. Extended(batches', batches, new)
    BY <1>7, RequeueExtends
  <2>3. new \subseteq Keys /\ \A key \in new : key.kind = "rolling"
    BY <2>1, BandFacts
  <2> HIDE DEF new
  <2>4. QueueTypes' /\ OneAtATime'
    BY <2>1, <2>2, <2>3, AskingKeepsQueue
  <2>5. RowTypes'
    BY <2>1 DEF RowTypes, Statuses, DeepStates
  <2>6. PilesInv'
    BY <2>1, PilesUntouched DEF money
  <2> QED BY <2>1, <2>4, <2>5, <2>6, MoneyUntouched
<1> QED
  BY <1>1, <1>2, <1>3, <1>4, <1>5, <1>6, <1>7 DEF Routes

(* Where the cursor goes when a range holds nothing to analyse. *)
LEMMA CursorFacts ==
  ASSUME RowTypes, NEW t
  PROVE  LET m == Max({frontier} \cup {rank[c] : c \in {e \in Cvs : rank[e] <= t}})
         IN  /\ m \in Nat /\ frontier <= m
             /\ \A c \in Cvs : rank[c] <= t => rank[c] <= m
             /\ m = frontier \/ \E c \in Cvs : rank[c] = m /\ rank[c] <= t
<1> DEFINE all == {frontier} \cup {rank[c] : c \in {e \in Cvs : rank[e] <= t}}
<1>1. IsFiniteSet(all)
  <2>1. IsFiniteSet({rank[c] : c \in Cvs})
    BY RowsAreFinite, ValuesAreFinite DEF RowTypes
  <2>2. IsFiniteSet({rank[c] : c \in {e \in Cvs : rank[e] <= t}})
    BY <2>1, FS_Subset
  <2> QED BY <2>2, FS_AddElement
<1>2. all \subseteq Int /\ all # {} /\ \A n \in all : n \in Nat
  BY DEF RowTypes
<1>3. frontier \in all /\ \A c \in Cvs : rank[c] <= t => rank[c] \in all
  OBVIOUS
<1>4. \A n \in all : n = frontier \/ \E c \in Cvs : rank[c] = n /\ rank[c] <= t
  OBVIOUS
<1> HIDE DEF all
<1>5. Max(all) \in all /\ \A n \in all : n <= Max(all)
  BY <1>1, <1>2, MaxIsGreatest
<1> QED
  BY <1>2, <1>3, <1>4, <1>5 DEF all

(* The running batch. *)
LEMMA RunningFacts ==
  ASSUME QueueTypes, OneAtATime, worker.batch # 0
  PROVE  /\ worker.batch \in DOMAIN batches /\ Running \in Keys
         /\ Running.from \in Nat /\ Running.to \in Nat
         /\ Running.drop \in Drops \cup {OfSession}
         /\ Running.kind = "parse" => Running.drop \in Drops
         /\ batches[worker.batch].state = "running"
         /\ status # "failed"
         /\ \A i \in DOMAIN batches : Open(i) => worker.batch <= i
<1>1. worker.batch \in DOMAIN batches
  BY DEF QueueTypes
<1>2. batches[worker.batch] \in BatchRows
  BY <1>1 DEF QueueTypes
<1> QED
  BY <1>1, <1>2 DEF QueueTypes, OneAtATime, Running, BatchRows, Keys

(* The ranks that are handed out. *)
LEMMA RankingTypes ==
  ASSUME RowTypes, NEW order \in Orders
  PROVE  /\ Offset \in Nat /\ frontier <= Offset /\ Top(rank) <= Offset
         /\ \A c \in Unranked : order[c] \in 1..Cardinality(Unranked)
         /\ [c \in Cvs |-> IF c \in Unranked THEN Offset + order[c] ELSE rank[c]] \in [Cvs -> Nat]
<1>1. Offset \in Nat /\ frontier <= Offset /\ Top(rank) <= Offset
  BY TopIsHighest DEF RowTypes, Offset, Further
<1>2. \A c \in Unranked : order[c] \in 1..Cardinality(Unranked)
  BY DEF Orders
<1>3. Cardinality(Unranked) \in Nat
  <2>1. Unranked \in SUBSET Cvs
    BY DEF Unranked
  <2> QED BY <2>1, SizeOfAPile, TriageAssumption
<1> HIDE DEF Offset
<1>4. \A c \in Cvs : (IF c \in Unranked THEN Offset + order[c] ELSE rank[c]) \in Nat
  BY <1>1, <1>2, <1>3 DEF RowTypes
<1> QED
  BY <1>1, <1>2, <1>4

LEMMA WorkKeepsSession ==
  ASSUME SessionInv, Work
  PROVE  SessionInv'
<1> USE DEF SessionInv, TablesInv
<1>1. CASE ClaimOnFailed
  <2>1. RowTypes' /\ PilesInv'
    BY <1>1, PilesUntouched DEF ClaimOnFailed, RowTypes, cvs, money
  <2>2. QueueTypes' /\ OneAtATime'
    BY <1>1, ClaimEnds DEF ClaimOnFailed
  <2> QED BY <1>1, <2>1, <2>2, MoneyUntouched DEF ClaimOnFailed
<1>2. CASE ClaimParse
  <2>1. RowTypes' /\ PilesInv'
    BY <1>2, PilesUntouched DEF ClaimParse, RowTypes, cvs, money
  <2>2. QueueTypes' /\ OneAtATime'
    <3> DEFINE left == {c \in RowsOf(batches[NextBatch].key.drop) : parse[c] = "pending"}
    <3>1. left \in SUBSET Cvs
      BY DEF RowsOf
    <3>2. /\ Claim({"parse"}, "running") /\ status # "failed" /\ UNCHANGED status
          /\ worker' = [batch |-> NextBatch, left |-> left]
      BY <1>2 DEF ClaimParse
    <3> HIDE DEF left
    <3> QED BY <3>1, <3>2, ClaimStarts
  <2> QED BY <1>2, <2>1, <2>2, MoneyUntouched DEF ClaimParse
<1>3. ASSUME NEW c \in Cvs, NEW outcome \in {"parsed", "failed"}, ReadCv(c, outcome) PROVE SessionInv'
  <2>1. RowTypes'
    BY <1>3 DEF ReadCv, RowTypes, ParseStates
  <2>2. PilesInv'
    BY <1>3, PilesUntouched DEF ReadCv, money
  <2>3. QueueTypes' /\ OneAtATime'
    BY <1>3 DEF ReadCv, QueueTypes, OneAtATime, Open
  <2> QED BY <1>3, <2>1, <2>2, <2>3, MoneyUntouched DEF ReadCv
<1>4. CASE FinishParse
  <2>0. /\ worker.batch # 0 /\ Running.kind = "parse" /\ worker' = Idle
        /\ RefundDrop(Running.drop, Cardinality(Unreadable(Running.drop)))
        /\ parse' = Resolved
        /\ batches' = Ended(Enqueue(batches, Key("preliminary", Running.drop, 0, 0, <<>>)), "done")
        /\ UNCHANGED <<status, drop, rank, deep, frontier, adding, restarts>>
    BY <1>4 DEF FinishParse
  <2>1. Running.drop \in Drops
    BY <2>0, RunningFacts
  <2>2. MoneyInv' /\ \A e \in Drops : bill'[e].charged = bill[e].charged
    BY <2>0, <2>1, PileSize, RefundKeepsMoney
  <2>3. RowTypes' /\ PilesInv'
    <3>1. RowTypes'
      BY <2>0 DEF RowTypes, Resolved, ParseStates
    <3> QED BY <2>0, <2>2, <3>1, PilesUntouched
  <2>4. QueueTypes' /\ OneAtATime'
    <3> DEFINE key == Key("preliminary", Running.drop, 0, 0, <<>>)
    <3>1. key \in Keys /\ key.kind = "preliminary"
      BY <2>1 DEF Key, Keys
    <3>2. batches' = Ended(Enqueue(batches, key), "done")
      BY <2>0
    <3> HIDE DEF key
    <3> QED BY <2>0, <3>1, <3>2, EndingWithWork
  <2> QED BY <2>2, <2>3, <2>4
<1>5. CASE ClaimPreliminary
  <2>1. RowTypes' /\ PilesInv'
    BY <1>5, PilesUntouched DEF ClaimPreliminary, RowTypes, cvs, money
  <2>2. QueueTypes' /\ OneAtATime'
    BY <1>5, ClaimStarts DEF ClaimPreliminary
  <2> QED BY <1>5, <2>1, <2>2, MoneyUntouched DEF ClaimPreliminary
<1>6. ASSUME NEW order \in Orders, RankCvs(order) PROVE SessionInv'
  <2> DEFINE ranks == [c \in Cvs |-> IF c \in Unranked THEN Offset + order[c] ELSE rank[c]]
             kind == IF Offset = 0 THEN "initial" ELSE "rolling"
             key == Key(kind, OfSession, frontier + 1, Nearer(Top(ranks), frontier + InitialDeep), <<>>)
             longer == IF frontier < Top(ranks) THEN Enqueue(batches, key) ELSE batches
  <2>0. /\ worker.batch # 0 /\ rank' = ranks /\ worker' = Idle
        /\ status' \in {"failed", status, Settle(status, parse, deep)}
        /\ batches' = Ended(longer, "done")
        /\ UNCHANGED <<drop, parse, deep, money, frontier, adding, restarts>>
    BY <1>6 DEF RankCvs
  <2>1. ranks \in [Cvs -> Nat]
    BY RankingTypes
  <2> HIDE DEF ranks
  <2>2. RowTypes' /\ PilesInv'
    <3>1. status' \in Statuses
      BY <2>0, SettleType DEF RowTypes, Statuses
    <3>2. RowTypes'
      BY <2>0, <2>1, <3>1 DEF RowTypes
    <3> QED BY <2>0, <3>2, PilesUntouched DEF money
  <2>3. QueueTypes' /\ OneAtATime'
    <3>1. key \in Keys /\ key.kind # "parse"
      <4>1. Nearer(Top(ranks), frontier + InitialDeep) \in Nat /\ frontier + 1 \in Nat
        BY <2>1, TopIsHighest, TriageAssumption DEF RowTypes, Nearer
      <4> QED BY <4>1, KeyTypes
    <3> HIDE DEF key
    <3>2. CASE frontier < Top(ranks)
      BY <2>0, <3>1, <3>2, EndingWithWork
    <3>3. CASE ~ (frontier < Top(ranks))
      BY <2>0, <3>3, EndingAlone
    <3> QED BY <3>2, <3>3
  <2> QED BY <2>0, <2>2, <2>3, MoneyUntouched
<1>7. CASE ClaimDeep
  <2> DEFINE rows == ToAnalyse(batches[NextBatch].key)
  <2>0. /\ Claim({"initial", "rolling"}, "running") /\ status # "failed" /\ rows \in SUBSET Cvs
        /\ worker' = [batch |-> NextBatch, left |-> rows]
        /\ deep' = [c \in Cvs |-> IF c \in rows THEN "running" ELSE deep[c]]
        /\ UNCHANGED <<status, drop, parse, rank, money, frontier, adding, restarts>>
    BY <1>7 DEF ClaimDeep, ToAnalyse, InRange
  <2> HIDE DEF rows
  <2>1. RowTypes'
    BY <2>0 DEF RowTypes, DeepStates
  <2>2. PilesInv'
    BY <2>0, PilesUntouched DEF money
  <2>3. QueueTypes' /\ OneAtATime'
    BY <2>0, ClaimStarts
  <2> QED BY <2>0, <2>1, <2>2, <2>3, MoneyUntouched
<1>8. CASE NothingToAnalyse
  <2>1. frontier' \in Nat /\ status' \in Statuses
    BY <1>8, CursorFacts, SettleType DEF NothingToAnalyse, RowTypes
  <2>2. RowTypes' /\ PilesInv'
    BY <1>8, <2>1, PilesUntouched DEF NothingToAnalyse, RowTypes, cvs, money
  <2>3. QueueTypes' /\ OneAtATime'
    BY <1>8, ClaimEnds DEF NothingToAnalyse
  <2> QED BY <1>8, <2>2, <2>3, MoneyUntouched DEF NothingToAnalyse
<1>9. ASSUME NEW c \in Cvs, NEW outcome \in {"scored", "failed"}, AnalyseCv(c, outcome) PROVE SessionInv'
  <2>1. RowTypes'
    BY <1>9 DEF AnalyseCv, RowTypes, DeepStates
  <2>2. PilesInv'
    BY <1>9, PilesUntouched DEF AnalyseCv, money
  <2>3. QueueTypes' /\ OneAtATime'
    BY <1>9 DEF AnalyseCv, QueueTypes, OneAtATime, Open
  <2> QED BY <1>9, <2>1, <2>2, <2>3, MoneyUntouched DEF AnalyseCv
<1>10. CASE FinishDeep
  <2>1. status' \in Statuses /\ frontier' \in Nat
    BY <1>10, SettleType, RunningFacts DEF FinishDeep, RowTypes, Further
  <2>2. RowTypes' /\ PilesInv'
    BY <1>10, <2>1, PilesUntouched DEF FinishDeep, RowTypes, cvs, money
  <2>3. QueueTypes' /\ OneAtATime'
    BY <1>10, EndingAlone DEF FinishDeep
  <2> QED BY <1>10, <2>2, <2>3, MoneyUntouched DEF FinishDeep
<1> QED
  BY <1>1, <1>2, <1>3, <1>4, <1>5, <1>6, <1>7, <1>8, <1>9, <1>10 DEF Work

LEMMA FailuresKeepSession ==
  ASSUME SessionInv, Failures
  PROVE  SessionInv'
<1> USE DEF SessionInv, TablesInv
<1>0. Released \in [Cvs -> DeepStates]
  BY DEF Released, RowTypes, DeepStates
<1>1. CASE BatchRetried
  <2>1. RowTypes' /\ PilesInv'
    BY <1>0, <1>1, PilesUntouched DEF BatchRetried, RowTypes, money
  <2>2. QueueTypes' /\ OneAtATime'
    BY <1>1, EndingAlone DEF BatchRetried
  <2> QED BY <1>1, <2>1, <2>2, MoneyUntouched DEF BatchRetried
<1>2. CASE SessionFails
  <2>1. MoneyInv' /\ \A e \in Drops : bill'[e].charged = bill[e].charged
    BY <1>2, SessionRefundKeepsMoney DEF SessionFails
  <2>2. RowTypes' /\ PilesInv'
    BY <1>2, <2>1, PilesUntouched DEF SessionFails, RowTypes, Statuses, cvs
  <2>3. QueueTypes' /\ OneAtATime'
    BY <1>2, EndingAlone DEF SessionFails
  <2> QED BY <2>1, <2>2, <2>3
<1>3. CASE DeliveryFails
  <2>1. Running.drop \in Drops /\ bill[Running.drop].charged \in Nat
    <3>1. Running.drop \in Drops
      BY <1>3, RunningFacts DEF DeliveryFails, OpeningPile
    <3> QED BY <3>1, TriageAssumption DEF MoneyInv
  <2>2. MoneyInv' /\ \A e \in Drops : bill'[e].charged = bill[e].charged
    BY <1>3, <2>1, RefundKeepsMoney DEF DeliveryFails
  <2>3. RowTypes'
    <3>1. status' \in Statuses
      BY <1>3, SettleType DEF DeliveryFails, RowTypes
    <3> QED BY <1>3, <3>1 DEF DeliveryFails, RowTypes, ParseStates
  <2>4. PilesInv'
    BY <1>3, <2>2, PilesUntouched DEF DeliveryFails
  <2>5. QueueTypes' /\ OneAtATime'
    BY <1>3, EndingAlone DEF DeliveryFails
  <2> QED BY <2>2, <2>3, <2>4, <2>5
<1>4. CASE RangeFails
  <2>1. status' \in Statuses /\ frontier' \in Nat
    BY <1>4, SettleType, RunningFacts DEF RangeFails, RowTypes, Further
  <2>2. deep' \in [Cvs -> DeepStates]
    BY <1>0, <1>4 DEF RangeFails, DeepStates
  <2>3. RowTypes' /\ PilesInv'
    BY <1>4, <2>1, <2>2, PilesUntouched DEF RangeFails, RowTypes, money
  <2>4. QueueTypes' /\ OneAtATime'
    BY <1>4, EndingAlone DEF RangeFails
  <2> QED BY <1>4, <2>3, <2>4, MoneyUntouched DEF RangeFails
<1> QED
  BY <1>1, <1>2, <1>3, <1>4 DEF Failures

(* The process comes back: the queue and the claims are put in order. *)
LEMMA ResumingKeepsSession ==
  ASSUME RowTypes, QueueTypes, OneAtATime, PilesInv, Resume(batches),
         UNCHANGED <<status, drop, rank, parse, frontier>>, MoneyInv',
         \A d \in Drops : Charged(d)' => Charged(d) \/ RowsOf(d) # {}
  PROVE  SessionInv'
<1>1. QueueTypes' /\ OneAtATime'
  BY ResumeKeepsQueue
<1>2. RowTypes'
  <2>1. restarts' \in 0..MaxRestarts
    BY TriageAssumption DEF Resume, RowTypes
  <2>2. deep' \in [Cvs -> DeepStates] /\ adding' \subseteq Drops
    BY DEF Resume, RowTypes, DeepStates
  <2> QED BY <2>1, <2>2 DEF RowTypes
<1>3. PilesInv'
  <2>1. adding' = {} /\ Uploaded' = Uploaded /\ \A d \in Drops : RowsOf(d)' = RowsOf(d)
    BY DEF Resume, Uploaded, RowsOf
  <2> QED BY <2>1 DEF PilesInv
<1> QED
  BY <1>1, <1>2, <1>3 DEF SessionInv, TablesInv

LEMMA CrashesKeepSession ==
  ASSUME SessionInv, Restart \/ CrashAfterCharge \/ CrashAfterRefund
  PROVE  SessionInv'
<1> USE DEF SessionInv, TablesInv
<1>1. CASE Restart
  <2>1. MoneyInv' /\ \A d \in Drops : Charged(d)' => Charged(d)
    BY <1>1, MoneyUntouched DEF Restart, money, Charged
  <2> QED BY <1>1, <2>1, ResumingKeepsSession DEF Restart
<1>2. CASE CrashAfterCharge
  <2>1. Resume(batches) /\ UNCHANGED <<status, drop, parse, rank, frontier>>
    BY <1>2 DEF CrashAfterCharge
  <2>2. PICK d \in Drops : /\ ~Charged(d) /\ RowsOf(d) # {}
                           /\ \E n \in 0..MaxCvs : Charge(d, n)
    <3>1. CASE status = "draft" /\ ~Launched /\ DraftPile # {} /\ Charge(1, Cardinality(DraftPile))
      BY <3>1, DraftSize DEF Launched
    <3>2. ASSUME NEW e \in adding, Charge(e, Cardinality(RowsOf(e)))
          PROVE  /\ e \in Drops /\ ~Charged(e) /\ RowsOf(e) # {}
                 /\ \E n \in 0..MaxCvs : Charge(e, n)
      BY <3>2, PileSize DEF PilesInv, RowTypes
    <3> QED BY <1>2, <3>1, <3>2 DEF CrashAfterCharge
  <2>3. MoneyInv' /\ \A e \in Drops \ {d} : bill'[e] = bill[e]
    BY <2>2, ChargeKeepsMoney
  <2>4. \A e \in Drops : Charged(e)' => Charged(e) \/ RowsOf(e) # {}
    BY <2>2, <2>3 DEF Charged
  <2> QED BY <2>1, <2>3, <2>4, ResumingKeepsSession
<1>3. CASE CrashAfterRefund
  <2>1. /\ Resume(batches) /\ UNCHANGED <<status, drop, parse, rank, frontier>>
        /\ RefundDrop(Running.drop, Cardinality(Unreadable(Running.drop)))
        /\ Running.drop \in Drops
    BY <1>3, RunningFacts DEF CrashAfterRefund
  <2>2. MoneyInv' /\ \A e \in Drops : bill'[e].charged = bill[e].charged
    BY <2>1, PileSize, RefundKeepsMoney
  <2>3. \A e \in Drops : Charged(e)' => Charged(e)
    BY <2>2 DEF Charged
  <2> QED BY <2>1, <2>2, <2>3, ResumingKeepsSession
<1> QED
  BY <1>1, <1>2, <1>3

(* What becomes of the rows when one of them is removed. *)
LEMMA RemovalFacts ==
  ASSUME RowTypes, NEW c \in Cvs, RemoveApplicant(c)
  PROVE  /\ parse' \in [Cvs -> ParseStates] /\ rank' \in [Cvs -> Nat] /\ deep' \in [Cvs -> DeepStates]
         /\ Heirs(c) # {} => Max(Heirs(c)) \in Heirs(c) /\ \A e \in Heirs(c) : e <= Max(Heirs(c))
         /\ parse' = [e \in Cvs |-> IF Heirs(c) # {} /\ e = Max(Heirs(c)) THEN "parsed"
                                    ELSE IF e = c THEN "absent" ELSE parse[e]]
         /\ \/ batches' = batches
            \/ \E n \in Nat : batches' = Enqueue(batches, Key("preliminary", OfSession, 0, 0, <<"promote", n>>))
         /\ status' = Settle(status, parse', deep')
         /\ UNCHANGED <<drop, money, frontier, worker, adding, restarts>>
<1> DEFINE left == [parse EXCEPT ![c] = "absent"]
           now  == IF Heirs(c) = {} THEN left ELSE [left EXCEPT ![Max(Heirs(c))] = "parsed"]
           waiting == {e \in Cvs : now[e] = "parsed" /\ rank[e] = 0}
<1>1. Heirs(c) \in SUBSET Cvs
  BY DEF Heirs
<1>2. Heirs(c) # {} => Max(Heirs(c)) \in Heirs(c) /\ \A e \in Heirs(c) : e <= Max(Heirs(c))
  <2>1. IsFiniteSet(Heirs(c)) /\ Heirs(c) \subseteq Int
    BY <1>1, SizeOfAPile DEF Cvs
  <2> QED BY <2>1, MaxIsGreatest
<1>3. c \notin Heirs(c)
  BY DEF Heirs
<1>4. /\ now \in [Cvs -> ParseStates]
      /\ now = [e \in Cvs |-> IF Heirs(c) # {} /\ e = Max(Heirs(c)) THEN "parsed"
                              ELSE IF e = c THEN "absent" ELSE parse[e]]
  BY <1>1, <1>2, <1>3 DEF RowTypes, ParseStates
<1>5. Cardinality(waiting) \in Nat
  <2>1. waiting \in SUBSET Cvs
    OBVIOUS
  <2> QED BY <2>1, SizeOfAPile, TriageAssumption
<1>6. /\ parse' = now /\ rank' = [rank EXCEPT ![c] = 0] /\ deep' = [deep EXCEPT ![c] = "pending"]
      /\ batches' = (IF Heirs(c) # {} /\ waiting # {}
                     THEN Enqueue(batches, Key("preliminary", OfSession, 0, 0,
                                               <<"promote", Cardinality(waiting)>>))
                     ELSE batches)
      /\ status' = Settle(status, parse', deep')
      /\ UNCHANGED <<drop, money, frontier, worker, adding, restarts>>
  BY DEF RemoveApplicant
<1>7. rank' \in [Cvs -> Nat] /\ deep' \in [Cvs -> DeepStates]
  BY <1>6 DEF RowTypes, DeepStates
<1> HIDE DEF waiting, now
<1> QED
  BY <1>2, <1>4, <1>5, <1>6, <1>7

LEMMA RemovalKeepsSession ==
  ASSUME SessionInv, NEW c \in Cvs, RemoveApplicant(c)
  PROVE  SessionInv'
<1> USE DEF SessionInv, TablesInv
<1>1. /\ parse' \in [Cvs -> ParseStates] /\ rank' \in [Cvs -> Nat] /\ deep' \in [Cvs -> DeepStates]
      /\ status' \in Statuses /\ (status' = "failed" => status = "failed")
      /\ UNCHANGED <<drop, money, frontier, worker, adding, restarts>>
  BY RemovalFacts, SettleType DEF RowTypes
<1>2. RowTypes' /\ PilesInv'
  BY <1>1, PilesUntouched DEF RowTypes, money
<1>3. QueueTypes' /\ OneAtATime'
  <2>1. CASE batches' = batches
    BY <1>1, <2>1, QueueUntouched
  <2>2. ASSUME NEW n \in Nat,
               batches' = Enqueue(batches, Key("preliminary", OfSession, 0, 0, <<"promote", n>>))
        PROVE  QueueTypes' /\ OneAtATime'
    <3> DEFINE key == Key("preliminary", OfSession, 0, 0, <<"promote", n>>)
    <3>1. key \in Keys /\ key.kind = "preliminary"
      BY DEF Key, Keys
    <3>2. batches' = Enqueue(batches, key) /\ batches \in Seq(BatchRows)
      BY <2>2 DEF QueueTypes
    <3> HIDE DEF key
    <3>3. Extended(batches', batches, {key})
      BY <3>1, <3>2, EnqueueExtends
    <3>4. {key} \subseteq Keys /\ \A k \in {key} : k.kind = "parse" => k.drop \in Drops
      BY <3>1
    <3> QED BY <1>1, <3>3, <3>4, AskingKeepsQueue
  <2> QED BY <2>1, <2>2, RemovalFacts
<1> QED
  BY <1>1, <1>2, <1>3, MoneyUntouched

LEMMA SessionBegins == Init => SessionInv
<1> SUFFICES ASSUME Init PROVE SessionInv
  OBVIOUS
<1>1. RowTypes
  BY TriageAssumption DEF Init, RowTypes, Statuses, ParseStates, DeepStates
<1>2. QueueTypes /\ OneAtATime
  BY DEF Init, QueueTypes, OneAtATime, Idle
<1>3. MoneyInv
  <2>1. /\ bill \in [Drops -> [charged : 0..MaxCvs, refunded : 0..MaxCvs]] /\ balance = Capacity
        /\ \A d \in Drops : bill[d].charged = 0 /\ bill[d].refunded = 0
    BY TriageAssumption DEF Init, Unpaid
  <2>2. Kept \in [Drops -> Int] /\ \A d \in Drops : Kept[d] = 0
    BY <2>1 DEF Kept
  <2>3. TotalOver(Kept, Drops) = 0
    BY <2>2, RowsAreFinite, TotalOfZeros
  <2> QED BY <2>1, <2>3, TriageAssumption DEF MoneyInv
<1>4. PilesInv
  <2>1. Uploaded = {} /\ adding = {} /\ \A d \in Drops : ~Charged(d)
    BY DEF Init, Uploaded, Charged, Unpaid
  <2>2. Cardinality(Uploaded) = 0
    BY <2>1, FS_EmptySet
  <2> QED BY <2>1, <2>2 DEF PilesInv
<1> QED
  BY <1>1, <1>2, <1>3, <1>4 DEF SessionInv, TablesInv

LEMMA SessionUntouched ==
  ASSUME SessionInv, UNCHANGED triageVars
  PROVE  SessionInv'
<1>1. RowTypes' /\ QueueTypes' /\ PilesInv'
  BY DEF SessionInv, TablesInv, triageVars, cvs, money, RowTypes, QueueTypes, PilesInv, Uploaded, RowsOf, Charged
<1>2. OneAtATime' /\ MoneyInv'
  BY MoneyUntouched, QueueUntouched DEF SessionInv, TablesInv, triageVars, money
<1> QED
  BY <1>1, <1>2 DEF SessionInv, TablesInv

(* A step of the session, whoever removes CVs. *)
LEMMA StepKeepsSession ==
  ASSUME SessionInv, [Next]_triageVars
  PROVE  SessionInv'
  BY RoutesKeepSession, WorkKeepsSession, FailuresKeepSession, CrashesKeepSession,
     RemovalKeepsSession, SessionUntouched DEF Next, NextKept

(* And wherever the process dies. *)
LEMMA CrashStepKeepsSession ==
  ASSUME SessionInv, [NextCrash]_triageVars
  PROVE  SessionInv'
  BY RoutesKeepSession, WorkKeepsSession, FailuresKeepSession, CrashesKeepSession,
     SessionUntouched DEF NextCrash, NextKept

LEMMA SessionInvariant == Spec => []SessionInv
<1>1. SessionInv /\ [Next]_triageVars => SessionInv'
  BY StepKeepsSession
<1> QED
  BY <1>1, SessionBegins, PTL DEF Spec

LEMMA KeptIsPart == SpecKept => Spec
<1>1. [NextKept]_triageVars => [Next]_triageVars
  BY DEF Next
<1> QED
  BY <1>1, PTL DEF SpecKept, Spec

-----------------------------------------------------------------------------
(* Ranks.                                                                    *)

(* A new rank is above the cursor. *)
LEMMA StepRanksAhead ==
  ASSUME SessionInv, [Next]_triageVars, NEW c \in Cvs, rank[c] = 0, rank'[c] # 0
  PROVE  rank'[c] > frontier
<1>1. ASSUME UNCHANGED rank PROVE FALSE
  BY <1>1
<1>2. ASSUME NEW order \in Orders, RankCvs(order) PROVE rank'[c] > frontier
  <2>1. /\ Offset \in Nat /\ frontier <= Offset /\ frontier \in Nat
        /\ \A e \in Unranked : order[e] \in 1..Cardinality(Unranked)
    BY RankingTypes DEF SessionInv, TablesInv, RowTypes
  <2>2. rank' = [e \in Cvs |-> IF e \in Unranked THEN Offset + order[e] ELSE rank[e]]
    BY <1>2 DEF RankCvs
  <2>3. c \in Unranked /\ rank'[c] = Offset + order[c]
    BY <2>2
  <2> HIDE DEF Offset
  <2>4. order[c] \in Int /\ order[c] >= 1
    BY <2>1, <2>3
  <2> QED BY <2>1, <2>3, <2>4
<1>3. ASSUME NEW e \in Cvs, RemoveApplicant(e) PROVE FALSE
  BY <1>3 DEF RemoveApplicant, SessionInv, TablesInv, RowTypes
<1>4. Routes => UNCHANGED rank
  BY DEF Routes, Upload, Launch, AddCvs, ChargeAdded, RefuseAdded, RequestNextTranche,
         RequeueFailedAnalyses, cvs
<1>5. Failures \/ Restart \/ UNCHANGED triageVars => UNCHANGED rank
  BY DEF Failures, BatchRetried, SessionFails, DeliveryFails, RangeFails, Restart, triageVars, cvs
<1>6. Work => UNCHANGED rank \/ \E order \in Orders : RankCvs(order)
  BY DEF Work, ClaimOnFailed, ClaimParse, ReadCv, FinishParse, ClaimPreliminary, ClaimDeep,
         NothingToAnalyse, AnalyseCv, FinishDeep, cvs
<1> QED
  BY <1>1, <1>2, <1>3, <1>4, <1>5, <1>6 DEF Next, NextKept

(* Ranks are handed out above the cursor, which never comes back for a lower one: with
   rankPending running again for every delivery and every promoted version, a CV given a
   lower rank would never be analysed. *)
THEOREM RanksGrow == Spec => RanksAreAhead
<1>1. SessionInv /\ [Next]_triageVars =>
        [\A c \in Cvs : rank[c] = 0 /\ rank'[c] # 0 => rank'[c] > frontier]_triageVars
  BY StepRanksAhead
<1> QED
  BY <1>1, SessionInvariant, PTL DEF Spec, RanksAreAhead

-----------------------------------------------------------------------------
(* A session that failed.                                                    *)

LEMMA StepRests ==
  ASSUME SessionInv, [Next]_triageVars, status = "failed"
  PROVE  /\ status' = "failed"
         /\ \A c \in Cvs : deep'[c] = "scored" => deep[c] = "scored"
<1> DEFINE Rests == /\ status' = "failed"
                    /\ \A c \in Cvs : deep'[c] = "scored" => deep[c] = "scored"
<1>1. worker.batch = 0
  BY DEF SessionInv, OneAtATime
<1>2. ASSUME UNCHANGED <<status, deep>> PROVE Rests
  BY <1>2
<1>3. ASSUME Routes PROVE Rests
  <2>1. CASE RequeueFailedAnalyses
    BY <2>1 DEF RequeueFailedAnalyses, SessionInv, TablesInv, RowTypes
  <2>2. CASE \E d \in Drops : ChargeAdded(d)
    BY <2>2 DEF ChargeAdded, StartProcessing, cvs
  <2>3. CASE \E n \in 1..MaxCvs : AddCvs(n)
    BY <2>3 DEF AddCvs
  <2>4. Upload \/ Launch \/ (\E d \in Drops : RefuseAdded(d)) \/ RequestNextTranche
          => UNCHANGED <<status, deep>>
    BY DEF Upload, Launch, RefuseAdded, RequestNextTranche, cvs
  <2> QED BY <1>2, <1>3, <2>1, <2>2, <2>3, <2>4 DEF Routes
<1>4. ASSUME Work PROVE Rests
  BY <1>1, <1>4 DEF Work, ClaimOnFailed, ClaimParse, ReadCv, FinishParse, ClaimPreliminary, RankCvs,
         ClaimDeep, NothingToAnalyse, AnalyseCv, FinishDeep, cvs
<1>5. ~Failures
  BY <1>1 DEF Failures, BatchRetried, SessionFails, DeliveryFails, RangeFails
<1>6. ASSUME Restart PROVE Rests
  BY <1>6 DEF Restart, Resume
<1>7. ASSUME NEW c \in Cvs, RemoveApplicant(c) PROVE Rests
  BY <1>7 DEF RemoveApplicant, Settle, SessionInv, TablesInv, RowTypes
<1> HIDE DEF Rests
<1>8. Rests
  BY <1>2, <1>3, <1>4, <1>5, <1>6, <1>7 DEF Next, NextKept, triageVars, cvs
<1> QED
  BY <1>8 DEF Rests

(* Nothing brings a failed session back, and nothing more is analysed in it: its money was
   returned, so whatever it analysed would not be paid for. *)
THEOREM FailureIsFinal == Spec => FailedSessionRests
<1>1. SessionInv /\ [Next]_triageVars =>
        [status = "failed" => /\ status' = "failed"
                              /\ \A c \in Cvs : deep'[c] = "scored" => deep[c] = "scored"]_triageVars
  BY StepRests
<1> QED
  BY <1>1, SessionInvariant, PTL DEF Spec, FailedSessionRests

-----------------------------------------------------------------------------
(* What the queue charges and gives back is what TriageBilling promises.     *)

(* The sum that GiveBack speaks of. *)
LEMMA GivenIsTheSum ==
  ASSUME bill \in [Drops -> [charged : 0..MaxCvs, refunded : 0..MaxCvs]],
         NEW back \in [Drops -> 0..MaxCvs]
  PROVE  /\ [d \in Drops |-> back[d] - bill[d].refunded] \in [Drops -> Int]
         /\ Billing!MapThenSumSet(LAMBDA d : back[d] - bill[d].refunded, Drops)
              = TotalOver([d \in Drops |-> back[d] - bill[d].refunded], Drops)
<1> DEFINE given == [d \in Drops |-> back[d] - bill[d].refunded]
           Adds(F) ==
             F = [s \in SUBSET Drops |->
                    IF s = {} THEN 0
                    ELSE (back[CHOOSE x \in s : TRUE] - bill[CHOOSE x \in s : TRUE].refunded)
                         + F[s \ {CHOOSE x \in s : TRUE}]]
<1>1. given \in [Drops -> Int]
  <2>1. \A d \in Drops : back[d] \in Int /\ bill[d].refunded \in Int
    BY TriageAssumption
  <2> QED BY <2>1
<1>2. ASSUME NEW F PROVE Adds(F) <=> IsSum(F, given, Drops)
  <2>1. \A s \in SUBSET Drops : s # {} => (CHOOSE x \in s : TRUE) \in Drops
    OBVIOUS
  <2>2. \A d \in Drops : given[d] = back[d] - bill[d].refunded
    OBVIOUS
  <2> HIDE DEF given
  <2>3. ASSUME NEW s \in SUBSET Drops
        PROVE  (IF s = {} THEN 0
                ELSE (back[CHOOSE x \in s : TRUE] - bill[CHOOSE x \in s : TRUE].refunded)
                         + F[s \ {CHOOSE x \in s : TRUE}])
               = (IF s = {} THEN 0 ELSE given[Pick(s)] + F[s \ {Pick(s)}])
    BY <2>1, <2>2 DEF Pick
  <2> QED BY <2>3 DEF IsSum
<1> HIDE DEF given
<1>3. PICK G : IsSum(G, given, Drops)
  BY <1>1, RowsAreFinite, SumExists
<1>4. Billing!MapThenSumSet(LAMBDA d : back[d] - bill[d].refunded, Drops) = (CHOOSE F : Adds(F))[Drops]
  BY DEF Billing!MapThenSumSet, Billing!MapThenFoldSet
<1>5. (CHOOSE F : Adds(F)) = G
  <2> HIDE DEF Adds
  <2>1. Adds(CHOOSE F : Adds(F))
    BY <1>2, <1>3
  <2> QED BY <1>2, <1>3, <2>1, RowsAreFinite, SumUnique
<1>6. (CHOOSE F : IsSum(F, given, Drops)) = G
  <2>1. IsSum(CHOOSE F : IsSum(F, given, Drops), given, Drops)
    BY <1>3
  <2> QED BY <1>3, <2>1, RowsAreFinite, SumUnique
<1> QED
  BY <1>1, <1>4, <1>5, <1>6 DEF TotalOver, given

LEMMA ChargeIsBilled ==
  ASSUME MoneyInv, NEW d \in Drops, ~Charged(d), NEW n \in 1..MaxCvs, Charge(d, n)
  PROVE  Billing!Next
<1>1. bill[d].charged = 0
  BY TriageAssumption DEF MoneyInv, Charged
<1> QED
  BY <1>1 DEF Charge, Billing!Next, Billing!ChargeDelivery

LEMMA RefundIsBilled ==
  ASSUME MoneyInv, NEW d \in Drops, NEW total \in Nat, RefundDrop(d, total)
  PROVE  Billing!Next
<1>1. /\ MoneyInv'
      /\ \A e \in Drops : bill'[e].charged = bill[e].charged
      /\ \A e \in Drops \ {d} : bill'[e] = bill[e]
      /\ bill[d].refunded <= bill'[d].refunded
      /\ balance' = balance + (bill'[d].refunded - bill[d].refunded)
  BY RefundKeepsMoney
<1> DEFINE back == [e \in Drops |-> bill'[e].refunded]
           given == [e \in Drops |-> back[e] - bill[e].refunded]
           zero == [e \in Drops |-> 0]
<1>2. /\ bill \in [Drops -> [charged : 0..MaxCvs, refunded : 0..MaxCvs]]
      /\ bill' \in [Drops -> [charged : 0..MaxCvs, refunded : 0..MaxCvs]]
      /\ \A e \in Drops : bill[e].refunded <= bill[e].charged /\ bill'[e].refunded <= bill'[e].charged
  BY <1>1 DEF MoneyInv
<1>3. back \in [Drops -> 0..MaxCvs]
  BY <1>2
<1>4. given \in [Drops -> Int] /\ Billing!MapThenSumSet(LAMBDA e : back[e] - bill[e].refunded, Drops) = TotalOver(given, Drops)
  <2> HIDE DEF back
  <2> QED BY <1>2, <1>3, GivenIsTheSum
<1>5. TotalOver(given, Drops) = bill'[d].refunded - bill[d].refunded
  <2>1. zero \in [Drops -> Int] /\ zero[d] = 0 /\ given[d] = bill'[d].refunded - bill[d].refunded
    OBVIOUS
  <2>2. \A e \in Drops \ {d} : zero[e] = given[e]
    BY <1>1, <1>2, TriageAssumption
  <2>3. \A e \in Drops : zero[e] = 0
    OBVIOUS
  <2>4. given[d] \in Int
    BY <1>4
  <2> HIDE DEF zero, given
  <2>5. TotalOver(zero, Drops) = 0
    BY <2>1, <2>3, RowsAreFinite, TotalOfZeros
  <2>6. TotalOver(given, Drops) = TotalOver(zero, Drops) + (given[d] - zero[d])
    BY <1>4, <2>1, <2>2, RowsAreFinite, TotalOfOneChange
  <2> QED BY <2>1, <2>4, <2>5, <2>6
<1>6. \A e \in Drops : bill[e].refunded <= back[e] /\ back[e] <= bill[e].charged
  <2>1. \A e \in Drops : bill[e].refunded <= bill'[e].refunded
    BY <1>1, <1>2, TriageAssumption
  <2> QED BY <1>1, <1>2, <2>1
<1>7. bill' = [e \in Drops |-> [charged |-> bill[e].charged, refunded |-> back[e]]]
  BY <1>1, <1>2
<1>8. balance' = balance + Billing!MapThenSumSet(LAMBDA e : back[e] - bill[e].refunded, Drops)
  BY <1>1, <1>4, <1>5
<1> HIDE DEF back
<1> QED
  BY <1>3, <1>6, <1>7, <1>8 DEF Billing!Next, Billing!GiveBack

LEMMA SessionRefundIsBilled ==
  ASSUME MoneyInv, RefundSession
  PROVE  Billing!Next
<1>1. /\ \A d \in Drops : bill'[d].charged = bill[d].charged /\ bill'[d].refunded = bill[d].charged
      /\ balance' = balance + TotalOver(Kept, Drops)
      /\ bill \in [Drops -> [charged : 0..MaxCvs, refunded : 0..MaxCvs]]
      /\ \A d \in Drops : bill[d].refunded <= bill[d].charged
  BY SessionRefundKeepsMoney DEF MoneyInv
<1> DEFINE back == [d \in Drops |-> bill[d].charged]
<1>2. back \in [Drops -> 0..MaxCvs]
  BY <1>1
<1>3. Billing!MapThenSumSet(LAMBDA d : back[d] - bill[d].refunded, Drops)
        = TotalOver([d \in Drops |-> back[d] - bill[d].refunded], Drops)
  <2> HIDE DEF back
  <2> QED BY <1>1, <1>2, GivenIsTheSum
<1>4. [d \in Drops |-> back[d] - bill[d].refunded] = Kept
  BY DEF Kept
<1>5. \A d \in Drops : bill[d].refunded <= back[d] /\ back[d] <= bill[d].charged
  <2>1. \A d \in Drops : bill[d].charged \in Int
    BY <1>1, TriageAssumption
  <2> QED BY <1>1, <2>1
<1>6. bill' = [d \in Drops |-> [charged |-> bill[d].charged, refunded |-> back[d]]]
  BY <1>1 DEF RefundSession
<1>7. balance' = balance + Billing!MapThenSumSet(LAMBDA d : back[d] - bill[d].refunded, Drops)
  BY <1>1, <1>3, <1>4
<1> HIDE DEF back
<1> QED
  BY <1>2, <1>5, <1>6, <1>7 DEF Billing!Next, Billing!GiveBack

LEMMA StepIsBilled ==
  ASSUME SessionInv, [Next \/ NextCrash]_triageVars
  PROVE  [Billing!Next]_(Billing!billingVars)
<1> USE DEF SessionInv, TablesInv
<1>1. ASSUME UNCHANGED money PROVE [Billing!Next]_(Billing!billingVars)
  BY <1>1 DEF money, Billing!billingVars
<1>2. ASSUME Routes PROVE UNCHANGED money \/ Billing!Next
  <2>1. CASE Launch
    <3>1. 1 \in Drops /\ ~Charged(1) /\ Cardinality(DraftPile) \in 1..MaxCvs
          /\ Charge(1, Cardinality(DraftPile))
      BY <2>1, DraftSize DEF Launch, Launched
    <3> QED BY <3>1, ChargeIsBilled
  <2>2. ASSUME NEW d \in Drops, ChargeAdded(d) PROVE Billing!Next
    <3>1. ~Charged(d) /\ Cardinality(RowsOf(d)) \in 1..MaxCvs /\ Charge(d, Cardinality(RowsOf(d)))
      BY <2>2, PileSize DEF ChargeAdded, PilesInv
    <3> QED BY <3>1, ChargeIsBilled
  <2>3. Upload \/ (\E n \in 1..MaxCvs : AddCvs(n)) \/ (\E d \in Drops : RefuseAdded(d))
          \/ RequestNextTranche \/ RequeueFailedAnalyses => UNCHANGED money
    BY DEF Upload, AddCvs, RefuseAdded, RequestNextTranche, RequeueFailedAnalyses
  <2> QED BY <1>2, <2>1, <2>2, <2>3 DEF Routes
<1>3. ASSUME Work PROVE UNCHANGED money \/ Billing!Next
  <2>1. CASE FinishParse
    <3>1. Running.drop \in Drops /\ RefundDrop(Running.drop, Cardinality(Unreadable(Running.drop)))
      BY <2>1, RunningFacts DEF FinishParse
    <3> QED BY <3>1, PileSize, RefundIsBilled
  <2> QED BY <1>3, <2>1 DEF Work, ClaimOnFailed, ClaimParse, ReadCv, ClaimPreliminary, RankCvs,
            ClaimDeep, NothingToAnalyse, AnalyseCv, FinishDeep
<1>4. ASSUME Failures PROVE UNCHANGED money \/ Billing!Next
  <2>1. CASE SessionFails
    BY <2>1, SessionRefundIsBilled DEF SessionFails
  <2>2. CASE DeliveryFails
    <3>1. Running.drop \in Drops /\ RefundDrop(Running.drop, bill[Running.drop].charged)
      BY <2>2, RunningFacts DEF DeliveryFails, OpeningPile
    <3>2. bill[Running.drop].charged \in Nat
      BY <3>1, TriageAssumption DEF MoneyInv
    <3> QED BY <3>1, <3>2, RefundIsBilled
  <2> QED BY <1>4, <2>1, <2>2 DEF Failures, BatchRetried, RangeFails
<1>5. ASSUME CrashAfterCharge PROVE Billing!Next
  <2>1. CASE status = "draft" /\ ~Launched /\ DraftPile # {} /\ Charge(1, Cardinality(DraftPile))
    <3>1. 1 \in Drops /\ ~Charged(1) /\ Cardinality(DraftPile) \in 1..MaxCvs
      BY <2>1, DraftSize DEF Launched
    <3> QED BY <2>1, <3>1, ChargeIsBilled
  <2>2. ASSUME NEW d \in adding, Charge(d, Cardinality(RowsOf(d))) PROVE Billing!Next
    <3>1. d \in Drops /\ ~Charged(d) /\ Cardinality(RowsOf(d)) \in 1..MaxCvs
      BY <2>2, PileSize DEF PilesInv, RowTypes
    <3> QED BY <2>2, <3>1, ChargeIsBilled
  <2> QED BY <1>5, <2>1, <2>2 DEF CrashAfterCharge
<1>6. ASSUME CrashAfterRefund PROVE Billing!Next
  <2>1. Running.drop \in Drops /\ RefundDrop(Running.drop, Cardinality(Unreadable(Running.drop)))
    BY <1>6, RunningFacts DEF CrashAfterRefund
  <2> QED BY <2>1, PileSize, RefundIsBilled
<1>7. ASSUME NEW c \in Cvs, RemoveApplicant(c) PROVE UNCHANGED money
  BY <1>7 DEF RemoveApplicant
<1>8. Restart \/ UNCHANGED triageVars => UNCHANGED money
  BY DEF Restart, triageVars, money
<1> QED
  BY <1>1, <1>2, <1>3, <1>4, <1>5, <1>6, <1>7, <1>8 DEF Next, NextKept, NextCrash

LEMMA BillingBegins == Init => Billing!Init
  BY DEF Init, Unpaid, Billing!Init

(* A delivery is charged once and for what it holds, what goes back only grows and stops at
   the charge: of the queue that retries its sweeps, of a session CVs are removed from, and
   of a process that dies between two transactions. *)
THEOREM BillingIsKept == (Spec => ImplementsBilling) /\ (SpecCrash => ImplementsBilling)
<1>1. SessionInv /\ [Next]_triageVars => [Billing!Next]_(Billing!billingVars)
  BY StepIsBilled
<1>2. SessionInv /\ [NextCrash]_triageVars => [Billing!Next]_(Billing!billingVars) /\ SessionInv'
  BY StepIsBilled, CrashStepKeepsSession
<1>3. Spec => ImplementsBilling
  BY <1>1, BillingBegins, SessionInvariant, PTL DEF Spec, ImplementsBilling, Billing!Spec
<1>4. SpecCrash => ImplementsBilling
  BY <1>2, BillingBegins, SessionBegins, PTL DEF SpecCrash, ImplementsBilling, Billing!Spec
<1> QED
  BY <1>3, <1>4

-----------------------------------------------------------------------------
(* The session nobody removes a CV from: what every step of it leaves.       *)

(* A delivery that was charged stays charged. *)
LEMMA ChargesStay ==
  ASSUME SessionInv, [NextKept]_triageVars, NEW d \in Drops, Charged(d)
  PROVE  Charged(d)'
<1> USE DEF SessionInv, TablesInv
<1>1. ASSUME UNCHANGED money PROVE Charged(d)'
  BY <1>1 DEF money, Charged
<1>2. ASSUME NEW e \in Drops, ~Charged(e), NEW n \in 0..MaxCvs, Charge(e, n) PROVE Charged(d)'
  <2>1. \A o \in Drops \ {e} : bill'[o] = bill[o]
    BY <1>2, ChargeKeepsMoney
  <2> QED BY <1>2, <2>1 DEF Charged
<1>3. ASSUME NEW e \in Drops, NEW t \in Nat, RefundDrop(e, t) PROVE Charged(d)'
  BY <1>3, RefundKeepsMoney DEF Charged
<1>4. ASSUME RefundSession PROVE Charged(d)'
  BY <1>4, SessionRefundKeepsMoney DEF Charged
<1>5. CASE Launch
  BY <1>2, <1>5, DraftSize DEF Launch, Launched
<1>6. CASE \E e \in Drops : ChargeAdded(e)
  BY <1>2, <1>6, PileSize DEF ChargeAdded, PilesInv
<1>7. CASE FinishParse
  BY <1>3, <1>7, PileSize, RunningFacts DEF FinishParse
<1>8. CASE SessionFails
  BY <1>4, <1>8 DEF SessionFails
<1>9. CASE DeliveryFails
  <2>1. Running.drop \in Drops
    BY <1>9, RunningFacts DEF DeliveryFails, OpeningPile
  <2>2. bill[Running.drop].charged \in Nat
    BY <2>1, TriageAssumption DEF MoneyInv
  <2> QED BY <1>3, <1>9, <2>1, <2>2 DEF DeliveryFails
<1>10. Routes => UNCHANGED money \/ Launch \/ \E e \in Drops : ChargeAdded(e)
  BY DEF Routes, Upload, AddCvs, RefuseAdded, RequestNextTranche, RequeueFailedAnalyses
<1>11. Work => UNCHANGED money \/ FinishParse
  BY DEF Work, ClaimOnFailed, ClaimParse, ReadCv, ClaimPreliminary, RankCvs, ClaimDeep,
         NothingToAnalyse, AnalyseCv, FinishDeep
<1>12. Failures \/ Restart \/ UNCHANGED triageVars => UNCHANGED money \/ SessionFails \/ DeliveryFails
  BY DEF Failures, BatchRetried, RangeFails, Restart, triageVars, money
<1> QED
  BY <1>1, <1>5, <1>6, <1>7, <1>8, <1>9, <1>10, <1>11, <1>12 DEF NextKept

-----------------------------------------------------------------------------
(* RowsInv.                                                                  *)

(* Most steps change what a CV is known by only where it is decided. *)
LEMMA RowsUntouched ==
  ASSUME RowTypes, RowsInv, UNCHANGED drop, adding' \subseteq adding,
         \A d \in adding' : \A c \in RowsOf(d) : parse'[c] = parse[c],
         \A c \in Cvs : parse'[c] = parse[c] /\ rank'[c] = rank[c],
         \A c \in Cvs : rank[c] = 0 => deep'[c] = "pending"
  PROVE  RowsInv'
<1>1. Versions' = Versions
  BY DEF Versions
<1> QED
  BY <1>1 DEF RowsInv, RowsOf, RowTypes

(* New rows. *)
LEMMA RowsAdded ==
  ASSUME RowTypes, PilesInv, RowsInv, NEW n \in 1..MaxCvs, NEW d \in Drops, AddRows(n, d), d \notin adding,
         adding' = adding \/ (adding' = adding \cup {d} /\ RowsOf(d) = {}),
         UNCHANGED <<rank, deep>>
  PROVE  RowsInv'
<1>1. /\ NewRows(n) \in SUBSET Cvs
      /\ \A c \in NewRows(n) : drop[c] = 0 /\ drop'[c] = d /\ parse'[c] = "pending"
      /\ \A c \in Cvs \ NewRows(n) : drop'[c] = drop[c] /\ parse'[c] = parse[c]
  BY AddingRows
<1>2. d # 0 /\ \A c \in NewRows(n) : parse[c] = "absent"
  BY <1>1 DEF RowsInv, Drops
<1>3. Versions' = Versions
  BY <1>1, <1>2 DEF Versions
<1>4. \A e \in adding' : \A c \in RowsOf(e)' : parse'[c] = "pending"
  BY <1>1 DEF RowsInv, RowsOf
<1> QED
  BY <1>1, <1>2, <1>3, <1>4 DEF RowsInv

LEMMA RowsStep ==
  ASSUME QueueInv, [NextKept]_triageVars
  PROVE  RowsInv'
<1> USE DEF QueueInv, SessionInv, TablesInv
<1>1. CASE Upload
  <2>1. 1 \in Drops /\ 1 \in 1..MaxCvs /\ 1 \notin adding
    <3>1. NewRows(1) \subseteq Cvs /\ NewRows(1) # {}
      <4>1. Cardinality({c \in Cvs : drop[c] # 0}) \in Nat
        BY SizeOfAPile
      <4> QED BY <1>1, <4>1 DEF Upload, AddRows, NewRows
    <3> QED BY <3>1, TriageAssumption DEF Drops, Cvs, PilesInv
  <2> QED BY <1>1, <2>1, RowsAdded DEF Upload
<1>2. ASSUME NEW n \in 1..MaxCvs, AddCvs(n) PROVE RowsInv'
  <2>1. PICK d \in Drops :
            /\ d = Max(Opened \cup {1}) + 1
            /\ AddRows(n, d) /\ adding' = adding \cup {d} /\ UNCHANGED <<rank, deep>>
    BY <1>2 DEF AddCvs
  <2>2. RowsOf(d) = {} /\ d \notin adding
    BY <1>2, <2>1, FreshDelivery DEF PilesInv
  <2> QED BY <2>1, <2>2, RowsAdded
<1>3. ASSUME NEW d \in Drops, RefuseAdded(d) PROVE RowsInv'
  <2>1. /\ d \in adding /\ adding' = adding \ {d} /\ UNCHANGED <<drop, rank, deep>>
        /\ parse' = [c \in Cvs |-> IF c \in RowsOf(d) THEN "absent" ELSE parse[c]]
    BY <1>3 DEF RefuseAdded
  <2>2. \A c \in RowsOf(d) : parse[c] = "pending"
    BY <2>1 DEF RowsInv
  <2>3. Versions' = Versions
    BY <2>1, <2>2 DEF Versions
  <2>4. \A e \in adding' : \A c \in RowsOf(e)' : parse'[c] = "pending"
    BY <2>1 DEF RowsInv, RowsOf
  <2>5. \A c \in RowsOf(d) : c \in Cvs /\ drop[c] # 0
    BY DEF RowsOf, Drops
  <2> QED BY <2>1, <2>2, <2>3, <2>4, <2>5 DEF RowsInv
<1>4. CASE Launch \/ (\E d \in Drops : ChargeAdded(d)) \/ RequestNextTranche
  BY <1>4, RowsUntouched DEF Launch, ChargeAdded, RequestNextTranche, cvs, RowsInv
<1>5. CASE RequeueFailedAnalyses
  <2>1. \A c \in Cvs : rank[c] = 0 => deep'[c] = "pending"
    BY <1>5 DEF RequeueFailedAnalyses, RowsInv
  <2> QED BY <1>5, <2>1, RowsUntouched DEF RequeueFailedAnalyses
<1>6. CASE ClaimOnFailed \/ ClaimParse \/ ClaimPreliminary \/ NothingToAnalyse \/ FinishDeep \/ SessionFails
  BY <1>6, RowsUntouched DEF ClaimOnFailed, ClaimParse, ClaimPreliminary, NothingToAnalyse, FinishDeep,
         SessionFails, cvs, RowsInv
<1>7. ASSUME NEW c \in Cvs, NEW outcome \in {"parsed", "failed"}, ReadCv(c, outcome) PROVE RowsInv'
  <2>1. /\ c \in worker.left /\ worker.batch # 0 /\ Running.kind = "parse"
        /\ parse' = [parse EXCEPT ![c] = IF parse[c] = "absent" THEN parse[c] ELSE outcome]
        /\ UNCHANGED <<drop, rank, deep, adding>>
    BY <1>7 DEF ReadCv
  <2>2. c \in RowsOf(Running.drop) /\ parse[c] = "pending" /\ Running.drop \notin adding
    <3>1. Charged(Running.drop)
      BY <2>1, RunningFacts DEF ReadingInv, Running, Reads
    <3> QED BY <2>1, <3>1 DEF ReadingInv, PilesInv
  <2>3. \A e \in Cvs : parse'[e] = IF e = c THEN outcome ELSE parse[e]
    BY <2>1, <2>2 DEF RowTypes
  <2>4. Versions \subseteq Versions'
    BY <2>2, <2>3 DEF Versions
  <2>5. \A d \in adding' : \A e \in RowsOf(d)' : parse'[e] = "pending"
    <3>1. \A d \in adding : c \notin RowsOf(d)
      BY <2>2 DEF RowsOf
    <3> QED BY <2>1, <2>3, <3>1 DEF RowsInv, RowsOf
  <2>6. drop[c] # 0
    BY <2>2 DEF RowsInv
  <2> QED BY <2>1, <2>2, <2>3, <2>4, <2>5, <2>6 DEF RowsInv
<1>8. CASE FinishParse
  <2>1. parse' = Resolved /\ UNCHANGED <<drop, rank, deep, adding>>
    BY <1>8 DEF FinishParse
  <2>2. \A c \in Cvs : /\ c \notin Versions => parse'[c] = parse[c]
                       /\ c \in Versions => parse'[c] \in {"parsed", "duplicate"}
    BY <2>1 DEF Resolved
  <2>3. Versions' = Versions
    BY <2>2 DEF Versions
  <2>4. \A c \in Cvs : parse'[c] = "duplicate" => \E e \in Versions : Person[e] = Person[c] /\ e > c
    BY <2>1 DEF Resolved, Versions
  <2>5. \A d \in adding' : \A c \in RowsOf(d)' : parse'[c] = "pending"
    BY <2>1, <2>2 DEF RowsInv, RowsOf, Versions
  <2> QED BY <2>1, <2>2, <2>3, <2>4, <2>5 DEF RowsInv, Versions
<1>9. ASSUME NEW order \in Orders, RankCvs(order) PROVE RowsInv'
  <2>1. /\ rank' = [c \in Cvs |-> IF c \in Unranked THEN Offset + order[c] ELSE rank[c]]
        /\ UNCHANGED <<drop, parse, deep, adding>>
    BY <1>9 DEF RankCvs
  <2>2. \A c \in Cvs : rank'[c] # rank[c] => parse[c] = "parsed" /\ rank[c] = 0
    BY <2>1 DEF Unranked
  <2>3. Versions' = Versions /\ \A d \in Drops : RowsOf(d)' = RowsOf(d)
    BY <2>1 DEF Versions, RowsOf
  <2>4. \A c \in Cvs : rank'[c] = 0 => deep[c] = "pending"
    <3>1. \A c \in Unranked : Offset + order[c] # 0
      <4>1. Offset \in Nat /\ \A c \in Unranked : order[c] \in 1..Cardinality(Unranked)
        BY RankingTypes
      <4> HIDE DEF Offset
      <4>2. \A c \in Unranked : order[c] \in Int /\ order[c] >= 1
        BY <4>1
      <4> QED BY <4>1, <4>2
    <3> QED BY <2>1, <3>1 DEF RowsInv
  <2> QED BY <2>1, <2>2, <2>3, <2>4 DEF RowsInv, RowTypes
<1>10. CASE ClaimDeep
  <2>1. \A c \in Cvs : rank[c] = 0 => deep'[c] = "pending"
    BY <1>10 DEF ClaimDeep, ToAnalyse, InRange, RowsInv
  <2> QED BY <1>10, <2>1, RowsUntouched DEF ClaimDeep
<1>11. ASSUME NEW c \in Cvs, NEW outcome \in {"scored", "failed"}, AnalyseCv(c, outcome) PROVE RowsInv'
  <2>1. rank[c] # 0
    BY <1>11 DEF AnalyseCv, ClaimsInv, Deepening, IsDeep, InRange
  <2>2. \A e \in Cvs : rank[e] = 0 => deep'[e] = "pending"
    BY <1>11, <2>1 DEF AnalyseCv, RowsInv, RowTypes
  <2> QED BY <1>11, <2>2, RowsUntouched DEF AnalyseCv
<1>12. CASE BatchRetried
  <2>1. \A c \in Cvs : rank[c] = 0 => deep'[c] = "pending"
    BY <1>12 DEF BatchRetried, Released, RowsInv
  <2> QED BY <1>12, <2>1, RowsUntouched DEF BatchRetried
<1>13. CASE DeliveryFails
  <2>1. /\ parse' = [c \in Cvs |-> IF c \in RowsOf(Running.drop) /\ parse[c] = "pending"
                                   THEN "failed" ELSE parse[c]]
        /\ UNCHANGED <<drop, rank, deep, adding>>
    BY <1>13 DEF DeliveryFails
  <2>2. Running.drop \notin adding
    <3>1. Charged(Running.drop)
      BY <1>13, RunningFacts DEF DeliveryFails, Reading, OpeningPile, ReadingInv, Running, Reads
    <3> QED BY <3>1 DEF PilesInv
  <2>3. Versions' = Versions
    BY <2>1 DEF Versions
  <2>4. \A d \in adding' : \A c \in RowsOf(d)' : parse'[c] = "pending"
    <3>1. \A d \in adding : \A c \in RowsOf(d) : c \notin RowsOf(Running.drop)
      BY <2>2 DEF RowsOf
    <3> QED BY <2>1, <3>1 DEF RowsInv, RowsOf
  <2>5. \A c \in Cvs : drop[c] = 0 => c \notin RowsOf(Running.drop)
    BY <1>13, RunningFacts DEF RowsOf, DeliveryFails, OpeningPile, OfSession
  <2> QED BY <2>1, <2>3, <2>4, <2>5 DEF RowsInv
<1>14. CASE RangeFails
  <2>1. \A c \in Cvs : rank[c] = 0 => deep'[c] = "pending"
    BY <1>14 DEF RangeFails, Released, InRange, RowsInv
  <2> QED BY <1>14, <2>1, RowsUntouched DEF RangeFails
<1>15. CASE Restart
  <2>1. \A c \in Cvs : rank[c] = 0 => deep'[c] = "pending"
    BY <1>15 DEF Restart, Resume, RowsInv
  <2> QED BY <1>15, <2>1, RowsUntouched DEF Restart, Resume
<1>16. CASE UNCHANGED triageVars
  BY <1>16, RowsUntouched DEF triageVars, cvs, RowsInv
<1> QED
  BY <1>1, <1>2, <1>3, <1>4, <1>5, <1>6, <1>7, <1>8, <1>9, <1>10, <1>11, <1>12, <1>13, <1>14,
     <1>15, <1>16 DEF NextKept, Routes, Work, Failures

-----------------------------------------------------------------------------
(* ReadingInv.                                                               *)

PaidPending(c) == parse[c] = "pending" /\ Paid(c)

ParseKey(d) == Key("parse", d, 0, 0, <<>>)

LEMMA OwedIsOpen ==
  ASSUME NEW key
  PROVE  key \in Owed <=> \E i \in DOMAIN batches : Open(i) /\ batches[i].key = key
  BY DEF Owed

(* What is still owed after a step, if each batch that closes reads nothing that waits. *)
LEMMA PaidStays ==
  ASSUME PaidWorkIsQueued, status' # "failed" => status # "failed",
         KeysStay,
         \A c \in Cvs : PaidPending(c)' => PaidPending(c) /\ drop'[c] = drop[c],
         \A i \in DOMAIN batches : Open(i) =>
            \/ Open(i)'
            \/ \A c \in Cvs : PaidPending(c)' => batches[i].key # ParseKey(drop[c])
  PROVE  PaidWorkIsQueued'
<1> SUFFICES ASSUME status' # "failed", NEW c \in Cvs, PaidPending(c)'
             PROVE  ParseKey(drop[c])' \in Owed'
  BY DEF PaidWorkIsQueued, PaidPending, ParseKey
<1>1. PaidPending(c) /\ ParseKey(drop[c])' = ParseKey(drop[c])
  BY DEF ParseKey
<1>2. PICK i \in DOMAIN batches : Open(i) /\ batches[i].key = ParseKey(drop[c])
  BY <1>1 DEF PaidWorkIsQueued, PaidPending, ParseKey, Owed
<1>3. i \in DOMAIN batches' /\ batches'[i].key = ParseKey(drop[c]) /\ Open(i)'
  BY <1>2 DEF KeysStay
<1> QED
  BY <1>1, <1>3 DEF Owed

(* The rest of ReadingInv. *)
ReadingRest ==
    /\ \A i \in DOMAIN batches : Reads(batches[i].key) => Charged(batches[i].key.drop)
    /\ worker.batch # 0 /\ Running.kind = "parse" =>
        worker.left = {c \in RowsOf(Running.drop) : parse[c] = "pending"}

LEMMA ReadingParts == ReadingInv <=> ReadingRest /\ PaidWorkIsQueued
  BY DEF ReadingInv, ReadingRest

(* Keys that read are of deliveries. *)
LEMMA ReadsDrops ==
  ASSUME QueueTypes, NEW i \in DOMAIN batches, Reads(batches[i].key)
  PROVE  batches[i].key.drop \in Drops
<1>1. batches[i] \in BatchRows
  BY DEF QueueTypes
<1> QED
  BY <1>1 DEF QueueTypes, Reads, BatchRows, Keys

(* Nothing is read that was not paid for, if what is new reads what was paid for. *)
LEMMA ChargedReads ==
  ASSUME SessionInv, ReadingRest, [NextKept]_triageVars, KeysStay,
         \A i \in DOMAIN batches' \ DOMAIN batches :
            Reads(batches'[i].key) => bill'[batches'[i].key.drop].charged > 0
  PROVE  \A i \in DOMAIN batches' : Reads(batches'[i].key) => bill'[batches'[i].key.drop].charged > 0
<1>1. ASSUME NEW i \in DOMAIN batches, Reads(batches'[i].key) PROVE bill'[batches'[i].key.drop].charged > 0
  <2>1. batches'[i].key = batches[i].key
    BY DEF KeysStay
  <2>2. batches[i].key.drop \in Drops /\ Charged(batches[i].key.drop)
    BY <1>1, <2>1, ReadsDrops DEF SessionInv, TablesInv, ReadingRest
  <2>3. PICK d \in Drops : d = batches[i].key.drop
    BY <2>2
  <2>4. Charged(d)'
    BY <2>2, <2>3, ChargesStay
  <2>5. bill'[d].charged > 0
    BY <2>4 DEF Charged
  <2> QED BY <2>1, <2>3, <2>5
<1> QED
  BY <1>1

LEMMA ReadingAdded ==
  ASSUME QueueInv, [NextKept]_triageVars, NEW d \in Drops, ~Charged(d),
         StartProcessing(d), UNCHANGED <<drop, parse, worker>>, bill'[d].charged > 0,
         \A e \in Drops \ {d} : bill'[e] = bill[e], status' # "failed" => status # "failed"
  PROVE  ReadingInv'
<1> USE DEF QueueInv, SessionInv, TablesInv
<1> DEFINE key == Key("parse", d, 0, 0, <<>>)
<1>1. /\ KeysStay /\ Extended(batches', batches, {key})
      /\ \E i \in 1..Len(batches') : batches'[i].key = key
  BY StartingKeepsQueue
<1>2. key.kind = "parse" /\ key.drop = d
  BY DEF Key
<1> HIDE DEF key
<1>3. /\ \A i \in DOMAIN batches : batches'[i] = batches[i]
      /\ \A i \in DOMAIN batches' \ DOMAIN batches : batches'[i].key = key /\ batches'[i].state = "queued"
  BY <1>1, SMTT(30) DEF Extended
<1>4. ReadingRest'
  <2>1. \A i \in DOMAIN batches' : Reads(batches'[i].key) => bill'[batches'[i].key.drop].charged > 0
    BY <1>1, <1>2, <1>3, ChargedReads, ReadingParts
  <2>2. worker'.batch # 0 => Running' = Running
    BY <1>3 DEF Running, QueueTypes
  <2> QED BY <2>1, <2>2, ReadingParts DEF ReadingRest, Charged, RowsOf
<1>5. \E i \in DOMAIN batches' : Open(i)' /\ batches'[i].key = key
  <2>1. PICK i \in 1..Len(batches') : batches'[i].key = key
    BY <1>1
  <2>2. i \in DOMAIN batches'
    BY <2>1, <1>1 DEF Extended
  <2>3. i \notin DOMAIN batches
    BY <1>2, <1>3, <2>1 DEF ReadingInv, Reads
  <2> QED BY <1>3, <2>1, <2>2, <2>3 DEF Open
<1>6. PaidWorkIsQueued'
  <2> SUFFICES ASSUME status' # "failed", NEW c \in Cvs, PaidPending(c)'
               PROVE  ParseKey(drop[c])' \in Owed'
    BY DEF PaidWorkIsQueued, PaidPending, ParseKey
  <2>1. CASE drop[c] = d
    BY <1>5, <2>1 DEF Owed, ParseKey, key
  <2>2. CASE drop[c] # d
    <3>1. PaidPending(c) /\ ParseKey(drop[c])' = ParseKey(drop[c])
      BY <2>2 DEF PaidPending, Paid, Charged, ParseKey, RowTypes
    <3>2. PICK i \in DOMAIN batches : Open(i) /\ batches[i].key = ParseKey(drop[c])
      BY <3>1 DEF ReadingInv, PaidWorkIsQueued, PaidPending, ParseKey, Owed
    <3>3. i \in DOMAIN batches' /\ batches'[i].key = ParseKey(drop[c]) /\ Open(i)'
      BY <1>1, <1>3, <3>2 DEF KeysStay, Open
    <3> QED BY <3>1, <3>3 DEF Owed
  <2> QED BY <2>1, <2>2
<1> QED
  BY <1>4, <1>6 DEF ReadingInv, ReadingRest

(* Steps that leave the queue, the money and what is being read alone. *)
LEMMA ReadingFrame ==
  ASSUME QueueInv, [NextKept]_triageVars, UNCHANGED <<batches, worker>>,
         \A d \in Drops : bill'[d].charged = bill[d].charged,
         status' # "failed" => status # "failed",
         \A c \in Cvs : drop[c] # 0 /\ Charged(drop[c]) => drop'[c] = drop[c] /\ parse'[c] = parse[c],
         \A c \in Cvs : drop'[c] # 0 /\ Charged(drop'[c]) => drop'[c] = drop[c]
  PROVE  ReadingInv'
<1> USE DEF QueueInv, SessionInv, TablesInv
<1>1. KeysStay /\ DOMAIN batches' = DOMAIN batches
  BY DEF KeysStay
<1>2. ReadingRest'
  <2>1. \A i \in DOMAIN batches' : Reads(batches'[i].key) => bill'[batches'[i].key.drop].charged > 0
    BY <1>1, ChargedReads, ReadingParts
  <2>2. ASSUME worker'.batch # 0, Running'.kind = "parse"
        PROVE  worker'.left = {c \in RowsOf(Running.drop) : parse[c] = "pending"}'
    <3>1. Running' = Running /\ Running.kind = "parse" /\ worker.batch # 0
      BY <2>2 DEF Running
    <3>2. Charged(Running.drop) /\ Running.drop \in Drops
      BY <3>1, RunningFacts DEF ReadingInv, Reads, Running
    <3>3. \A c \in Cvs : drop[c] = Running.drop <=> drop'[c] = Running.drop
      BY <3>2 DEF Drops
    <3>4. \A c \in Cvs : drop[c] = Running.drop => parse'[c] = parse[c]
      BY <3>2 DEF Drops
    <3> QED BY <3>1, <3>3, <3>4 DEF ReadingInv, RowsOf
  <2> QED BY <2>1, <2>2 DEF ReadingRest, Charged
<1>3. PaidWorkIsQueued'
  <2>1. \A c \in Cvs : PaidPending(c)' => PaidPending(c) /\ drop'[c] = drop[c]
    <3>1. SessionInv'
      BY StepKeepsSession DEF Next
    <3>2. \A c \in Cvs : drop'[c] \in Drops \cup {0}
      BY <3>1 DEF RowTypes
    <3> QED BY <3>2 DEF PaidPending, Paid, Charged
  <2> QED BY <1>1, <2>1, PaidStays DEF ReadingInv, Open
<1> QED
  BY <1>2, <1>3 DEF ReadingInv, ReadingRest

(* Steps that leave the rows and the money alone, and close nothing that reads;
   what they ask for reads no delivery. *)
LEMMA ReadingOfOthers ==
  ASSUME QueueInv, [NextKept]_triageVars, UNCHANGED <<drop, parse>>, KeysStay,
         \A d \in Drops : bill'[d].charged = bill[d].charged,
         status' # "failed" => status # "failed",
         \A i \in DOMAIN batches' \ DOMAIN batches : ~Reads(batches'[i].key),
         \A i \in DOMAIN batches : Open(i) /\ ~Open(i)' => batches[i].key.kind # "parse",
         worker'.batch # 0 /\ Running'.kind = "parse" =>
            worker'.left = {c \in RowsOf(Running'.drop) : parse[c] = "pending"}
  PROVE  ReadingInv'
<1>1. \A i \in DOMAIN batches' : Reads(batches'[i].key) => bill'[batches'[i].key.drop].charged > 0
  BY ChargedReads, ReadingParts DEF QueueInv
<1>2. ReadingRest'
  BY <1>1 DEF ReadingRest, Charged, RowsOf
<1>3. PaidWorkIsQueued'
  <2>1. \A c \in Cvs : PaidPending(c)' => PaidPending(c) /\ drop'[c] = drop[c]
    BY DEF PaidPending, Paid, Charged, QueueInv, SessionInv, TablesInv, RowTypes
  <2>2. \A d : ParseKey(d).kind = "parse"
    BY DEF ParseKey, Key
  <2> QED BY <2>1, <2>2, PaidStays DEF QueueInv, ReadingInv
<1> QED
  BY <1>2, <1>3 DEF ReadingInv, ReadingRest

(* Steps that ask for analyses. *)
LEMMA ReadingAsked ==
  ASSUME QueueInv, [NextKept]_triageVars, UNCHANGED <<drop, parse, money, worker>>,
         status' # "failed" => status # "failed",
         NEW new, Extended(batches', batches, new), \A key \in new : key.kind = "rolling"
  PROVE  ReadingInv'
<1>1. /\ \A i \in DOMAIN batches : i \in DOMAIN batches' /\ batches'[i] = batches[i]
      /\ \A i \in DOMAIN batches' \ DOMAIN batches : batches'[i].key.kind = "rolling"
  BY DEF Extended
<1>2. KeysStay /\ \A i \in DOMAIN batches : Open(i) => Open(i)'
  BY <1>1 DEF KeysStay, Open
<1>3. worker'.batch # 0 => Running' = Running
  BY <1>1 DEF Running, QueueInv, SessionInv, TablesInv, QueueTypes
<1>4. \A i \in DOMAIN batches' \ DOMAIN batches : ~Reads(batches'[i].key)
  BY <1>1 DEF Reads
<1> QED
  BY <1>2, <1>3, <1>4, ReadingOfOthers DEF money, QueueInv, ReadingInv

LEMMA ReadingOfRoutes ==
  ASSUME QueueInv, Routes
  PROVE  ReadingInv'
<1> USE DEF QueueInv, SessionInv, TablesInv
<1>0. [NextKept]_triageVars /\ (status' # "failed" => status # "failed")
  BY StepRests DEF NextKept, Next
<1>1. CASE Upload
  <2>1. ~Charged(1) /\ 1 \in Drops /\ AddRows(1, 1) /\ 1 \in 1..MaxCvs
    <3>1. NewRows(1) \subseteq Cvs /\ NewRows(1) # {}
      <4>1. Cardinality({c \in Cvs : drop[c] # 0}) \in Nat
        BY SizeOfAPile
      <4> QED BY <1>1, <4>1 DEF Upload, AddRows, NewRows
    <3> QED BY <1>1, <3>1, TriageAssumption DEF Drops, Cvs, Upload, Launched
  <2>2. /\ \A c \in NewRows(1) : drop[c] = 0 /\ drop'[c] = 1
        /\ \A c \in Cvs \ NewRows(1) : drop'[c] = drop[c] /\ parse'[c] = parse[c]
    BY <2>1, AddingRows
  <2> QED BY <1>0, <1>1, <2>1, <2>2, ReadingFrame DEF Upload, money
<1>2. ASSUME NEW n \in 1..MaxCvs, AddCvs(n) PROVE ReadingInv'
  <2>1. PICK d \in Drops :
            /\ d = Max(Opened \cup {1}) + 1
            /\ AddRows(n, d) /\ UNCHANGED <<batches, worker, money>>
    BY <1>2 DEF AddCvs
  <2>2. ~Charged(d)
    BY <2>1, FreshDelivery
  <2>3. /\ \A c \in NewRows(n) : drop[c] = 0 /\ drop'[c] = d
        /\ \A c \in Cvs \ NewRows(n) : drop'[c] = drop[c] /\ parse'[c] = parse[c]
    BY <2>1, AddingRows
  <2> QED BY <1>0, <2>1, <2>2, <2>3, ReadingFrame DEF money
<1>3. ASSUME NEW d \in Drops, RefuseAdded(d) PROVE ReadingInv'
  <2>1. /\ d \in adding /\ UNCHANGED <<drop, batches, worker, money>>
        /\ parse' = [c \in Cvs |-> IF c \in RowsOf(d) THEN "absent" ELSE parse[c]]
    BY <1>3 DEF RefuseAdded
  <2>2. ~Charged(d)
    BY <2>1 DEF PilesInv
  <2>3. \A c \in Cvs : Charged(drop[c]) => parse'[c] = parse[c]
    BY <2>1, <2>2 DEF RowsOf
  <2> QED BY <1>0, <2>1, <2>3, ReadingFrame DEF money
<1>4. CASE Launch
  <2>1. 1 \in Drops /\ ~Charged(1) /\ Cardinality(DraftPile) \in 1..MaxCvs
        /\ Charge(1, Cardinality(DraftPile)) /\ StartProcessing(1) /\ UNCHANGED <<drop, parse, worker>>
    BY <1>4, DraftSize DEF Launch, Launched, cvs
  <2>2. bill'[1] = [charged |-> Cardinality(DraftPile), refunded |-> 0]
        /\ \A e \in Drops \ {1} : bill'[e] = bill[e]
    BY <2>1, ChargeKeepsMoney
  <2>3. bill'[1].charged > 0
    BY <2>1, <2>2
  <2> QED BY <1>0, <2>1, <2>2, <2>3, ReadingAdded
<1>5. ASSUME NEW d \in Drops, ChargeAdded(d) PROVE ReadingInv'
  <2>1. ~Charged(d) /\ Cardinality(RowsOf(d)) \in 1..MaxCvs
        /\ Charge(d, Cardinality(RowsOf(d))) /\ StartProcessing(d) /\ UNCHANGED <<drop, parse, worker>>
    BY <1>5, PileSize DEF ChargeAdded, PilesInv, cvs
  <2>2. bill'[d] = [charged |-> Cardinality(RowsOf(d)), refunded |-> 0]
        /\ \A e \in Drops \ {d} : bill'[e] = bill[e]
    BY <2>1, ChargeKeepsMoney
  <2>3. bill'[d].charged > 0
    BY <2>1, <2>2
  <2> QED BY <1>0, <2>1, <2>2, <2>3, ReadingAdded
<1>6. CASE RequestNextTranche
  <2>1. PICK key : key.kind = "rolling" /\ batches' = Enqueue(batches, key) /\ key \in Keys
    <3>1. frontier + 1 \in Nat /\ Nearer(frontier + Tranche, Top(rank)) \in Nat
      BY TopIsHighest, TriageAssumption DEF RowTypes, Nearer
    <3> QED BY <1>6, <3>1, KeyTypes DEF RequestNextTranche
  <2>2. Extended(batches', batches, {key})
    BY <2>1, EnqueueExtends DEF QueueTypes
  <2> QED BY <1>0, <1>6, <2>1, <2>2, ReadingAsked DEF RequestNextTranche, cvs, money
<1>7. CASE RequeueFailedAnalyses
  <2> DEFINE new == {Band(from) : from \in Bands}
  <2>0. FailedRanks # {}
    BY <1>7 DEF RequeueFailedAnalyses
  <2>1. Extended(batches', batches, new)
    BY <1>7, RequeueExtends
  <2>2. \A key \in new : key.kind = "rolling"
    BY <2>0, BandFacts
  <2> HIDE DEF new
  <2> QED BY <1>0, <1>7, <2>1, <2>2, ReadingAsked DEF RequeueFailedAnalyses, money
<1> QED
  BY <1>1, <1>2, <1>3, <1>4, <1>5, <1>6, <1>7 DEF Routes

(* The end of a batch, after which nothing is running. *)
LEMMA ReadingEnded ==
  ASSUME QueueInv, [NextKept]_triageVars, UNCHANGED <<drop, parse, money>>, worker' = Idle, KeysStay,
         status' # "failed" => status # "failed",
         \A i \in DOMAIN batches' \ DOMAIN batches : ~Reads(batches'[i].key),
         \A i \in DOMAIN batches : Open(i) /\ ~Open(i)' => batches[i].key.kind # "parse"
  PROVE  ReadingInv'
  BY ReadingOfOthers DEF money, Idle

(* What ranking does to the queue. *)
RangeKey(ranks) ==
    Key(IF Offset = 0 THEN "initial" ELSE "rolling", OfSession, frontier + 1,
        Nearer(Top(ranks), frontier + InitialDeep), <<>>)

LEMMA RankingAsks ==
  ASSUME SessionInv, NEW order \in Orders, RankCvs(order)
  PROVE  /\ rank' \in [Cvs -> Nat]
         /\ KeysStay /\ \A i \in DOMAIN batches : i # worker.batch => batches'[i] = batches[i]
         /\ worker.batch \in DOMAIN batches /\ batches'[worker.batch].state = "done"
         /\ \A i \in DOMAIN batches' \ DOMAIN batches :
              /\ i > Len(batches)
              /\ batches'[i].key = RangeKey(rank') /\ batches'[i].state = "queued"
              /\ IsDeep(batches'[i].key) /\ batches'[i].key.from = frontier + 1
              /\ batches'[i].key.to = Nearer(Top(rank'), frontier + InitialDeep)
              /\ batches'[i].key.again = <<>> /\ frontier < Top(rank')
<1> USE DEF SessionInv, TablesInv
<1> DEFINE ranks == [c \in Cvs |-> IF c \in Unranked THEN Offset + order[c] ELSE rank[c]]
           key == RangeKey(ranks)
<1>1. /\ worker.batch # 0 /\ rank' = ranks /\ worker' = Idle
      /\ batches' = Ended(IF frontier < Top(ranks) THEN Enqueue(batches, key) ELSE batches, "done")
  BY DEF RankCvs, RangeKey
<1>2. ranks \in [Cvs -> Nat]
  BY RankingTypes
<1> HIDE DEF ranks
<1>3. /\ key \in Keys /\ IsDeep(key) /\ key.kind # "parse" /\ key.from = frontier + 1 /\ key.again = <<>>
      /\ key.to = Nearer(Top(ranks), frontier + InitialDeep)
  <2> DEFINE upTo == Nearer(Top(ranks), frontier + InitialDeep)
             kind == IF Offset = 0 THEN "initial" ELSE "rolling"
  <2>1. upTo \in Nat /\ frontier + 1 \in Nat
    BY <1>2, TopIsHighest, TriageAssumption DEF RowTypes, Nearer
  <2>2. kind \in {"initial", "rolling"} /\ key = Key(kind, OfSession, frontier + 1, upTo, <<>>)
    BY DEF RangeKey
  <2> HIDE DEF upTo, kind, key
  <2> QED BY <2>1, <2>2, KeyTypes DEF IsDeep, upTo
<1> HIDE DEF key
<1>4. CASE frontier < Top(ranks)
  <2>1. batches' = Ended(Enqueue(batches, key), "done")
    BY <1>1, <1>4
  <2> QED BY <1>1, <1>2, <1>3, <1>4, <2>1, EndingWithWork DEF key
<1>5. CASE ~ (frontier < Top(ranks))
  <2>1. batches' = Ended(batches, "done")
    BY <1>1, <1>5
  <2> QED BY <1>1, <1>2, <2>1, EndingAlone
<1> QED
  BY <1>4, <1>5

LEMMA ReadingOfWork ==
  ASSUME QueueInv, Work
  PROVE  ReadingInv'
<1> USE DEF QueueInv, SessionInv, TablesInv
<1>0. [NextKept]_triageVars /\ (status' # "failed" => status # "failed")
  BY StepRests DEF NextKept, Next
<1>1. CASE ClaimOnFailed
  <2>1. status = "failed" /\ status' = "failed" /\ UNCHANGED <<drop, parse, money, worker>> /\ worker.batch = 0
    BY <1>1 DEF ClaimOnFailed, Claim, Idle, cvs
  <2>2. KeysStay /\ DOMAIN batches' = DOMAIN batches
    BY <1>1, ClaimTakesTheOldest DEF ClaimOnFailed, States
  <2>3. \A i \in DOMAIN batches' : Reads(batches'[i].key) => bill'[batches'[i].key.drop].charged > 0
    BY <1>0, <2>2, ChargedReads, ReadingParts
  <2> QED BY <2>1, <2>3 DEF ReadingInv, PaidWorkIsQueued, Charged
<1>2. ASSUME NEW kinds, Claim(kinds, "running"), UNCHANGED <<drop, parse, money>>,
             Running'.kind = "parse" => worker'.left = {c \in RowsOf(Running'.drop) : parse[c] = "pending"}
      PROVE  ReadingInv'
  <2>1. /\ KeysStay /\ DOMAIN batches' = DOMAIN batches
        /\ \A i \in DOMAIN batches : i # NextBatch => batches'[i] = batches[i]
        /\ batches'[NextBatch].state = "running"
    BY <1>2, ClaimTakesTheOldest DEF States
  <2>2. \A i \in DOMAIN batches : Open(i) => Open(i)'
    BY <2>1 DEF Open
  <2> QED BY <1>0, <1>2, <2>1, <2>2, ReadingOfOthers DEF money
<1>3. CASE ClaimParse
  <2>1. batches'[NextBatch].key = batches[NextBatch].key
    BY <1>3, ClaimTakesTheOldest DEF ClaimParse, States
  <2> QED BY <1>2, <1>3, <2>1 DEF ClaimParse, cvs, Running
<1>4. CASE ClaimPreliminary \/ ClaimDeep
  <2>1. PICK kinds : Claim(kinds, "running") /\ "parse" \notin kinds
    BY <1>4 DEF ClaimPreliminary, ClaimDeep
  <2>2. batches'[NextBatch].key.kind \in kinds
    BY <2>1, ClaimTakesTheOldest DEF States
  <2>3. UNCHANGED <<drop, parse, money>> /\ worker'.batch = NextBatch
    BY <1>4 DEF ClaimPreliminary, ClaimDeep, cvs
  <2> QED BY <1>2, <2>1, <2>2, <2>3 DEF Running
<1>5. ASSUME NEW c \in Cvs, NEW outcome \in {"parsed", "failed"}, ReadCv(c, outcome) PROVE ReadingInv'
  <2>1. /\ c \in worker.left /\ worker.batch # 0 /\ Running.kind = "parse"
        /\ parse' = [parse EXCEPT ![c] = IF parse[c] = "absent" THEN parse[c] ELSE outcome]
        /\ worker' = [worker EXCEPT !.left = worker.left \ {c}]
        /\ UNCHANGED <<status, drop, batches, money>>
    BY <1>5 DEF ReadCv
  <2>2. c \in RowsOf(Running.drop) /\ parse[c] = "pending" /\ worker.left \in SUBSET Cvs
    BY <2>1 DEF ReadingInv, QueueTypes
  <2>3. \A e \in Cvs : parse'[e] = IF e = c THEN outcome ELSE parse[e]
    BY <2>1, <2>2 DEF RowTypes
  <2>4. worker'.batch = worker.batch /\ worker'.left = worker.left \ {c} /\ Running' = Running
    BY <2>1 DEF QueueTypes, Running
  <2>5. KeysStay /\ DOMAIN batches' = DOMAIN batches
    BY <2>1 DEF KeysStay
  <2>6. PaidWorkIsQueued'
    <3>1. \A e \in Cvs : PaidPending(e)' => PaidPending(e) /\ drop'[e] = drop[e]
      BY <2>1, <2>3 DEF PaidPending, Paid, Charged, money
    <3> QED BY <1>0, <2>1, <2>5, <3>1, PaidStays DEF ReadingInv, Open
  <2>7. \A i \in DOMAIN batches' : Reads(batches'[i].key) => Charged(batches'[i].key.drop)
    BY <2>1 DEF ReadingInv
  <2>8. \A e \in Cvs : e \in RowsOf(Running.drop) /\ parse'[e] = "pending" <=> e \in worker'.left
    BY <2>1, <2>2, <2>3, <2>4 DEF ReadingInv, RowsOf
  <2>9. worker'.left = {e \in RowsOf(Running.drop) : parse'[e] = "pending"}
    BY <2>2, <2>4, <2>8 DEF RowsOf
  <2> QED BY <2>1, <2>4, <2>6, <2>7, <2>9 DEF ReadingInv, Charged, RowsOf, money
<1>6. CASE FinishParse
  <2>1. /\ worker.batch # 0 /\ Running.kind = "parse" /\ worker' = Idle /\ worker.left = {}
        /\ parse' = Resolved
        /\ batches' = Ended(Enqueue(batches, Key("preliminary", Running.drop, 0, 0, <<>>)), "done")
        /\ UNCHANGED <<status, drop>>
    BY <1>6 DEF FinishParse
  <2>2. Running.drop \in Drops /\ Charged(Running.drop) /\ batches[worker.batch].key = Running
    BY <2>1, RunningFacts DEF ReadingInv, Reads, Running
  <2> DEFINE key == Key("preliminary", Running.drop, 0, 0, <<>>)
  <2>3. key \in Keys /\ key.kind = "preliminary" /\ key.drop = Running.drop
    BY <2>2 DEF Key, Keys
  <2>4. batches' = Ended(Enqueue(batches, key), "done")
    BY <2>1
  <2> HIDE DEF key
  <2>5. /\ KeysStay /\ \A i \in DOMAIN batches : i # worker.batch => batches'[i] = batches[i]
        /\ \A i \in DOMAIN batches' \ DOMAIN batches : batches'[i].key = key
    BY <2>1, <2>3, <2>4, EndingWithWork
  <2>6. bill'[Running.drop].charged > 0
    <3>1. PICK d \in Drops : d = Running.drop
      BY <2>2
    <3>2. Charged(d)'
      BY <1>0, <2>2, <3>1, ChargesStay
    <3> QED BY <3>1, <3>2 DEF Charged
  <2>7. \A i \in DOMAIN batches' : Reads(batches'[i].key) => bill'[batches'[i].key.drop].charged > 0
    BY <1>0, <2>3, <2>5, <2>6, ChargedReads, ReadingParts
  <2>8. \A c \in Cvs : parse'[c] = "pending" => parse[c] = "pending"
    BY <2>1 DEF Resolved
  <2>9. \A d \in Drops : bill'[d].charged = bill[d].charged
    BY <1>6, <2>2, PileSize, RefundKeepsMoney DEF FinishParse
  <2>10. PaidWorkIsQueued'
    <3>1. \A c \in Cvs : PaidPending(c)' => PaidPending(c) /\ drop'[c] = drop[c]
      BY <2>1, <2>8, <2>9 DEF PaidPending, Paid, Charged, RowTypes
    <3>2. \A c \in Cvs : PaidPending(c) => drop[c] # Running.drop
      BY <2>1 DEF ReadingInv, RowsOf, PaidPending
    <3>3. \A c \in Cvs : PaidPending(c)' => batches[worker.batch].key # ParseKey(drop[c])
      <4>1. \A d : ParseKey(d).drop = d
        BY DEF ParseKey, Key
      <4> QED BY <2>2, <3>1, <3>2, <4>1
    <3> QED BY <1>0, <2>5, <3>1, <3>3, PaidStays DEF ReadingInv, Open
  <2> QED BY <2>1, <2>7, <2>10 DEF ReadingInv, Charged, Idle
<1>7. ASSUME NEW order \in Orders, RankCvs(order) PROVE ReadingInv'
  <2>1. /\ worker.batch # 0 /\ Running.kind = "preliminary" /\ worker' = Idle
        /\ UNCHANGED <<drop, parse, money>>
        /\ batches[worker.batch].key = Running
    BY <1>7 DEF RankCvs, Running
  <2>2. /\ KeysStay /\ \A i \in DOMAIN batches : i # worker.batch => batches'[i] = batches[i]
        /\ \A i \in DOMAIN batches' \ DOMAIN batches : IsDeep(batches'[i].key)
    BY <1>7, RankingAsks
  <2> QED BY <1>0, <2>1, <2>2, ReadingEnded DEF Open, Reads, IsDeep
<1>8. CASE NothingToAnalyse
  <2>1. /\ Claim({"initial", "rolling"}, "done") /\ UNCHANGED <<drop, parse, money, worker>>
    BY <1>8 DEF NothingToAnalyse, cvs
  <2>2. /\ KeysStay /\ DOMAIN batches' = DOMAIN batches /\ worker.batch = 0
        /\ \A i \in DOMAIN batches : i # NextBatch => batches'[i] = batches[i]
        /\ batches[NextBatch].key.kind \in {"initial", "rolling"}
    BY <2>1, ClaimTakesTheOldest DEF States
  <2>3. \A i \in DOMAIN batches : Open(i) /\ ~Open(i)' => batches[i].key.kind # "parse"
    BY <2>2 DEF Open
  <2> QED BY <1>0, <2>1, <2>2, <2>3, ReadingOfOthers DEF money
<1>9. ASSUME NEW c \in Cvs, NEW outcome \in {"scored", "failed"}, AnalyseCv(c, outcome) PROVE ReadingInv'
  <2>1. /\ worker.batch # 0 /\ Running.kind # "parse" /\ worker'.batch = worker.batch
        /\ UNCHANGED <<drop, parse, money, batches>>
    BY <1>9 DEF AnalyseCv, QueueTypes
  <2>2. KeysStay /\ Running' = Running
    BY <2>1 DEF KeysStay, Running
  <2> QED BY <1>0, <2>1, <2>2, ReadingOfOthers DEF money, Open
<1>10. CASE FinishDeep
  <2>1. /\ worker.batch # 0 /\ Running.kind # "parse" /\ worker' = Idle
        /\ UNCHANGED <<drop, parse, money>> /\ batches' = Ended(batches, "done")
        /\ batches[worker.batch].key = Running
    BY <1>10 DEF FinishDeep, cvs, Running
  <2>2. /\ KeysStay /\ \A i \in DOMAIN batches : i # worker.batch => batches'[i] = batches[i]
        /\ DOMAIN batches' = DOMAIN batches
    BY <2>1, EndingAlone
  <2> QED BY <1>0, <2>1, <2>2, ReadingEnded DEF Open
<1> QED
  BY <1>1, <1>3, <1>4, <1>5, <1>6, <1>7, <1>8, <1>9, <1>10 DEF Work

LEMMA ReadingOfFailures ==
  ASSUME QueueInv, Failures \/ Restart \/ UNCHANGED triageVars
  PROVE  ReadingInv'
<1> USE DEF QueueInv, SessionInv, TablesInv
<1>0. [NextKept]_triageVars /\ (status' # "failed" => status # "failed")
  BY StepRests DEF NextKept, Next
<1>1. CASE BatchRetried
  <2>1. /\ worker.batch # 0 /\ worker' = Idle /\ UNCHANGED <<drop, parse, money>>
        /\ batches' = Ended(batches, "queued")
    BY <1>1 DEF BatchRetried
  <2>2. /\ KeysStay /\ \A i \in DOMAIN batches : i # worker.batch => batches'[i] = batches[i]
        /\ DOMAIN batches' = DOMAIN batches /\ batches'[worker.batch].state = "queued"
    BY <2>1, EndingAlone
  <2>3. \A i \in DOMAIN batches : Open(i) => Open(i)'
    BY <2>2 DEF Open
  <2> QED BY <1>0, <2>1, <2>2, <2>3, ReadingEnded
<1>2. CASE SessionFails
  <2>1. /\ worker.batch # 0 /\ worker' = Idle /\ UNCHANGED <<drop, parse>> /\ status' = "failed"
        /\ batches' = Ended(batches, "failed")
    BY <1>2 DEF SessionFails, cvs
  <2>2. KeysStay /\ DOMAIN batches' = DOMAIN batches
    BY <2>1, EndingAlone
  <2>3. \A i \in DOMAIN batches' : Reads(batches'[i].key) => bill'[batches'[i].key.drop].charged > 0
    BY <1>0, <2>2, ChargedReads, ReadingParts
  <2> QED BY <2>1, <2>3 DEF ReadingInv, PaidWorkIsQueued, Charged, Idle
<1>3. CASE DeliveryFails
  <2>1. /\ worker.batch # 0 /\ worker' = Idle /\ UNCHANGED drop
        /\ batches' = Ended(batches, "failed") /\ batches[worker.batch].key = Running
        /\ parse' = [c \in Cvs |-> IF c \in RowsOf(Running.drop) /\ parse[c] = "pending"
                                   THEN "failed" ELSE parse[c]]
        /\ RefundDrop(Running.drop, bill[Running.drop].charged)
    BY <1>3 DEF DeliveryFails, Running
  <2>2. /\ KeysStay /\ \A i \in DOMAIN batches : i # worker.batch => batches'[i] = batches[i]
        /\ DOMAIN batches' = DOMAIN batches
    BY <2>1, EndingAlone
  <2>3. \A i \in DOMAIN batches' : Reads(batches'[i].key) => bill'[batches'[i].key.drop].charged > 0
    BY <1>0, <2>2, ChargedReads, ReadingParts
  <2>4. \A d \in Drops : bill'[d].charged = bill[d].charged
    <3>1. Running.drop \in Drops
      BY <1>3, RunningFacts DEF DeliveryFails, OpeningPile
    <3>2. bill[Running.drop].charged \in Nat
      BY <3>1, TriageAssumption DEF MoneyInv
    <3> QED BY <2>1, <3>1, <3>2, RefundKeepsMoney
  <2>5. \A c \in Cvs : PaidPending(c)' => PaidPending(c) /\ drop'[c] = drop[c] /\ drop[c] # Running.drop
    BY <2>1, <2>4 DEF PaidPending, Paid, Charged, RowTypes, RowsOf
  <2>6. \A c \in Cvs : PaidPending(c)' => batches[worker.batch].key # ParseKey(drop[c])
    <3>1. \A d : ParseKey(d).drop = d
      BY DEF ParseKey, Key
    <3> QED BY <2>1, <2>5, <3>1
  <2>7. PaidWorkIsQueued'
    BY <1>0, <2>2, <2>5, <2>6, PaidStays DEF ReadingInv, Open
  <2> QED BY <2>1, <2>3, <2>7 DEF ReadingInv, Charged, Idle
<1>4. CASE RangeFails
  <2>1. /\ worker.batch # 0 /\ Running.kind # "parse" /\ worker' = Idle
        /\ UNCHANGED <<drop, parse, money>> /\ batches' = Ended(batches, "failed")
        /\ batches[worker.batch].key = Running
    BY <1>4 DEF RangeFails, Reading, Running
  <2>2. /\ KeysStay /\ \A i \in DOMAIN batches : i # worker.batch => batches'[i] = batches[i]
        /\ DOMAIN batches' = DOMAIN batches
    BY <2>1, EndingAlone
  <2> QED BY <1>0, <2>1, <2>2, ReadingEnded DEF Open
<1>5. CASE Restart
  <2>1. Resume(batches) /\ worker' = Idle /\ UNCHANGED <<drop, parse, money>>
    BY <1>5 DEF Restart, Resume
  <2>2. /\ KeysStay /\ DOMAIN batches' = DOMAIN batches
        /\ \A i \in DOMAIN batches : Open(i) => Open(i)'
    BY <2>1, ResumeKeepsQueue DEF Open
  <2> QED BY <1>0, <2>1, <2>2, ReadingEnded
<1>6. CASE UNCHANGED triageVars
  BY <1>0, <1>6, ReadingFrame DEF triageVars, cvs, money
<1> QED
  BY <1>1, <1>2, <1>3, <1>4, <1>5, <1>6 DEF Failures

LEMMA ReadingStep ==
  ASSUME QueueInv, [NextKept]_triageVars
  PROVE  ReadingInv'
  BY ReadingOfRoutes, ReadingOfWork, ReadingOfFailures DEF NextKept

-----------------------------------------------------------------------------
(* RungsInv and RoundsInv.                                                   *)

IsRange(key, top) == 1 <= key.from /\ key.from <= key.to /\ key.to <= top

NoGap(ranks) == \A r \in 1..Top(ranks) : \E c \in Cvs : ranks[c] = r

(* Ranks that are handed out follow each other, and those before them. *)
LEMMA RanksFollow ==
  ASSUME RowTypes, NoGap(rank), frontier <= Top(rank), NEW order \in Orders
  PROVE  LET ranks == [c \in Cvs |-> IF c \in Unranked THEN Offset + order[c] ELSE rank[c]]
         IN  NoGap(ranks) /\ Top(rank) <= Top(ranks) /\ Offset = Top(rank)
<1> DEFINE ranks == [c \in Cvs |-> IF c \in Unranked THEN Offset + order[c] ELSE rank[c]]
           k == Cardinality(Unranked)
<1>1. /\ Top(rank) \in Nat /\ \A c \in Cvs : rank[c] \in Nat /\ rank[c] <= Top(rank)
      /\ Offset = Top(rank)
  BY TopIsHighest DEF RowTypes, Offset, Further
<1>2. ranks \in [Cvs -> Nat]
  BY RankingTypes
<1>3. /\ order \in [Unranked -> 1..k] /\ k \in Nat /\ IsFiniteSet(Unranked)
      /\ \A c, e \in Unranked : c # e => order[c] # order[e]
  <2>1. Unranked \in SUBSET Cvs
    BY DEF Unranked
  <2> QED BY <2>1, SizeOfAPile, TriageAssumption DEF Orders
<1>4. \A n \in 1..k : \E c \in Unranked : order[c] = n
  <2>1. IsFiniteSet(1..k) /\ Cardinality(1..k) = k
    BY <1>3, FS_Interval
  <2>2. order \in Injection(Unranked, 1..k)
    BY <1>3 DEF Injection, IsInjective
  <2>3. order \in Surjection(Unranked, 1..k)
    BY <1>3, <2>1, <2>2, FS_Injection
  <2> QED BY <2>3 DEF Surjection
<1> HIDE DEF k, Top
<1>5. \A c \in Cvs : IF c \in Unranked THEN ranks[c] = Top(rank) + order[c] ELSE ranks[c] = rank[c]
  BY <1>1
<1> HIDE DEF ranks
<1>6. /\ Top(ranks) \in Nat /\ \A c \in Cvs : ranks[c] <= Top(ranks)
      /\ Top(ranks) = 0 \/ \E c \in Cvs : ranks[c] = Top(ranks)
  BY <1>2, TopIsHighest
<1>7. Top(rank) <= Top(ranks)
  <2>1. CASE Top(rank) = 0
    BY <1>6, <2>1
  <2>2. CASE Top(rank) # 0
    <3>1. PICK c \in Cvs : rank[c] = Top(rank)
      BY <2>2, TopIsHighest DEF RowTypes
    <3>2. ranks[c] = rank[c]
      BY <1>5, <2>2, <3>1 DEF Unranked
    <3> QED BY <1>6, <3>1, <3>2
  <2> QED BY <2>1, <2>2
<1>8. ASSUME NEW r \in 1..Top(ranks) PROVE \E c \in Cvs : ranks[c] = r
  <2>1. r \in Nat /\ r >= 1 /\ r <= Top(ranks)
    BY <1>6
  <2>2. CASE r <= Top(rank)
    <3>1. r \in 1..Top(rank)
      BY <1>1, <2>1, <2>2
    <3>2. PICK c \in Cvs : rank[c] = r
      BY <3>1 DEF NoGap
    <3>3. c \notin Unranked
      BY <2>1, <3>2 DEF Unranked
    <3> QED BY <1>5, <3>2, <3>3
  <2>3. CASE r > Top(rank)
    <3>1. PICK c \in Cvs : ranks[c] = Top(ranks)
      BY <1>6, <2>1
    <3>2. c \in Unranked
      BY <1>1, <1>5, <2>1, <2>3, <3>1
    <3>3. Top(ranks) = Top(rank) + order[c] /\ order[c] \in 1..k
      BY <1>3, <1>5, <3>1, <3>2
    <3>4. r - Top(rank) \in 1..k
      BY <1>1, <1>3, <2>1, <2>3, <3>3
    <3>5. PICK e \in Unranked : order[e] = r - Top(rank)
      BY <1>4, <3>4
    <3>6. ranks[e] = Top(rank) + (r - Top(rank))
      BY <1>5, <3>5 DEF Unranked
    <3> QED BY <1>1, <2>1, <3>5, <3>6 DEF Unranked
  <2> QED BY <1>1, <2>1, <2>2, <2>3
<1> QED
  BY <1>1, <1>7, <1>8 DEF NoGap, ranks

(* Steps that hand out no rank. *)
LEMMA RungsFrame ==
  ASSUME SessionInv, RungsInv, UNCHANGED rank, KeysStay, frontier' \in Nat, frontier' <= Top(rank),
         \A i \in DOMAIN batches' \ DOMAIN batches :
            IsDeep(batches'[i].key) => IsRange(batches'[i].key, Top(rank))
  PROVE  RungsInv'
<1>1. Top(rank') = Top(rank)
  BY DEF Top
<1>2. \A i \in DOMAIN batches' : IsDeep(batches'[i].key) => IsRange(batches'[i].key, Top(rank))
  BY DEF RungsInv, KeysStay, IsRange, IsDeep
<1> QED
  BY <1>1, <1>2 DEF RungsInv, IsRange, IsDeep

(* Retries are of a round before those to come, if what is new is no retry. *)
LEMMA RoundsFrame ==
  ASSUME QueueTypes, QueueTypes', RoundsInv, KeysStay,
         \A i \in DOMAIN batches' \ DOMAIN batches :
            IsDeep(batches'[i].key) => batches'[i].key.again = <<>>
  PROVE  RoundsInv'
<1>1. Rolling \subseteq Rolling' /\ IsFiniteSet(Rolling') /\ IsFiniteSet(Rolling)
      /\ Cardinality(Rolling) \in Nat /\ Cardinality(Rolling') \in Nat
  <2>1. Rolling \subseteq Rolling'
    BY DEF Rolling, KeysStay
  <2>2. Len(batches') \in Int /\ Rolling' \subseteq 1..Len(batches')
    BY DEF QueueTypes, Rolling
  <2>3. IsFiniteSet(1..Len(batches'))
    BY <2>2, FS_Interval
  <2> QED BY <2>1, <2>2, <2>3, FS_Subset, FS_CardinalityType
<1>2. Cardinality(Rolling) <= Cardinality(Rolling')
  BY <1>1, FS_Subset
<1>3. ASSUME NEW i \in DOMAIN batches', IsDeep(batches'[i].key), batches'[i].key.again # <<>>
      PROVE  batches'[i].key.again[2] < Cardinality(Rolling')
  <2>1. i \in DOMAIN batches /\ batches'[i].key = batches[i].key
    BY <1>3 DEF KeysStay
  <2>2. batches[i].key.again[2] < Cardinality(Rolling)
    BY <1>3, <2>1 DEF RoundsInv
  <2>3. batches[i].key.again[2] \in Nat
    <3>1. batches[i] \in BatchRows
      BY <2>1 DEF QueueTypes
    <3> QED BY <1>3, <2>1, <3>1 DEF BatchRows, Keys
  <2> QED BY <1>1, <1>2, <2>1, <2>2, <2>3
<1> QED
  BY <1>3 DEF RoundsInv, IsDeep

(* What the queue becomes where nothing more is asked for than to read and to rank, and the
   cursor stays. *)
LEMMA RungsAlone ==
  ASSUME QueueInv, UNCHANGED <<rank, frontier>>, KeysStay, QueueTypes',
         \A i \in DOMAIN batches' \ DOMAIN batches : ~IsDeep(batches'[i].key)
  PROVE  RungsInv' /\ RoundsInv'
  BY RungsFrame, RoundsFrame DEF QueueInv, SessionInv, TablesInv, RowTypes, RungsInv

(* ... or it moves, but no further than there are ranks. *)
LEMMA RungsMoved ==
  ASSUME QueueInv, UNCHANGED rank, frontier' \in Nat, frontier' <= Top(rank), KeysStay, QueueTypes',
         DOMAIN batches' = DOMAIN batches
  PROVE  RungsInv' /\ RoundsInv'
  BY RungsFrame, RoundsFrame DEF QueueInv, SessionInv, TablesInv

(* The bands of a round are new work. *)
LEMMA BandsAreNew ==
  ASSUME QueueInv, RequeueFailedAnalyses
  PROVE  /\ Extended(batches', batches, {Band(from) : from \in Bands})
         /\ \A i \in DOMAIN batches : i \in DOMAIN batches' /\ batches'[i] = batches[i]
         /\ \A i \in DOMAIN batches' \ DOMAIN batches :
              i > Len(batches) /\ batches'[i].state = "queued" /\ \E from \in Bands : batches'[i].key = Band(from)
         /\ \A from \in Bands : \E i \in DOMAIN batches' \ DOMAIN batches : batches'[i].key = Band(from)
<1> USE DEF QueueInv, SessionInv, TablesInv
<1>0. FailedRanks # {}
  BY DEF RequeueFailedAnalyses
<1>1. /\ Extended(batches', batches, {Band(from) : from \in Bands})
      /\ \A from \in Bands : \E i \in 1..Len(batches') : batches'[i].key = Band(from)
  BY RequeueExtends
<1>2. /\ DOMAIN batches' = 1..Len(batches') /\ DOMAIN batches = 1..Len(batches)
      /\ \A i \in DOMAIN batches : i \in DOMAIN batches' /\ batches'[i] = batches[i]
      /\ \A i \in DOMAIN batches' \ DOMAIN batches :
              i > Len(batches) /\ batches'[i].state = "queued" /\ \E from \in Bands : batches'[i].key = Band(from)
  BY <1>1 DEF Extended
<1>3. ASSUME NEW from \in Bands PROVE \E i \in DOMAIN batches' \ DOMAIN batches : batches'[i].key = Band(from)
  <2>1. PICK i \in DOMAIN batches' : batches'[i].key = Band(from)
    BY <1>1, <1>2
  <2>2. /\ Band(from).kind = "rolling" /\ Band(from).again = <<"retry", Cardinality(Rolling)>>
    BY <1>0, BandFacts
  <2>3. i \notin DOMAIN batches
    <3> SUFFICES ASSUME i \in DOMAIN batches PROVE FALSE
      OBVIOUS
    <3>1. batches[i].key = Band(from)
      BY <1>2, <2>1
    <3>2. batches[i].key.again[2] < Cardinality(Rolling) /\ batches[i].key.again[2] = Cardinality(Rolling)
      BY <2>2, <3>1 DEF RoundsInv, IsDeep
    <3>3. Cardinality(Rolling) \in Nat
      BY RollingCount
    <3> QED BY <3>2, <3>3
  <2> QED BY <2>1, <2>3
<1> QED
  BY <1>1, <1>2, <1>3

LEMMA RungsOfRequeue ==
  ASSUME QueueInv, RequeueFailedAnalyses, QueueTypes'
  PROVE  RungsInv' /\ RoundsInv'
<1> USE DEF QueueInv, SessionInv, TablesInv
<1>0. FailedRanks # {} /\ UNCHANGED <<rank, frontier>>
  BY DEF RequeueFailedAnalyses
<1>1. KeysStay /\ batches \in Seq(BatchRows)
  BY BandsAreNew DEF KeysStay, QueueTypes
<1>2. \A from \in Bands :
         /\ IsRange(Band(from), Top(rank))
         /\ Band(from).kind = "rolling" /\ Band(from).again = <<"retry", Cardinality(Rolling)>>
  <2>1. FailedRanks \subseteq Nat /\ Max(FailedRanks) \in FailedRanks /\ Max(FailedRanks) <= Top(rank)
    <3>1. Max(FailedRanks) \in FailedRanks /\ FailedRanks \subseteq Nat
      BY <1>0, BandFacts
    <3>2. \A r \in FailedRanks : r <= Top(rank)
      BY TopIsHighest DEF FailedRanks, RowTypes
    <3> QED BY <3>1, <3>2
  <2>2. ASSUME NEW from \in Bands PROVE IsRange(Band(from), Top(rank))
    <3>1. /\ from \in Nat \ {0} /\ Band(from).from = from /\ Band(from).to \in Nat
          /\ Band(from).to <= Max(FailedRanks)
          /\ \E r \in FailedRanks : from <= r /\ r <= Band(from).to
      BY <1>0, BandFacts
    <3>2. PICK r \in FailedRanks : from <= r /\ r <= Band(from).to
      BY <3>1
    <3>3. Top(rank) \in Nat /\ r \in Nat /\ Max(FailedRanks) \in Nat
      BY <2>1, TopIsHighest DEF RowTypes
    <3> QED BY <2>1, <3>1, <3>2, <3>3 DEF IsRange
  <2> QED BY <1>0, <2>2, BandFacts
<1>3. RungsInv'
  <2>1. \A i \in DOMAIN batches' \ DOMAIN batches : IsRange(batches'[i].key, Top(rank))
    BY <1>2, BandsAreNew
  <2> QED BY <1>0, <1>1, <2>1, RungsFrame DEF RungsInv, RowTypes
<1>4. RoundsInv'
  <2> DEFINE n == Cardinality(Rolling)
  <2>1. PICK new \in DOMAIN batches' \ DOMAIN batches : batches'[new].key.kind = "rolling"
    <3>1. PICK from \in Bands : Band(from).kind = "rolling"
      BY <1>0, <1>2, BandFacts
    <3> QED BY <3>1, BandsAreNew
  <2>2. /\ Rolling \cup {new} \subseteq Rolling' /\ new \notin Rolling
    BY <1>1, <2>1 DEF Rolling, KeysStay
  <2>3. IsFiniteSet(Rolling') /\ IsFiniteSet(Rolling)
    <3>1. Len(batches') \in Int /\ Rolling' \subseteq 1..Len(batches')
      BY DEF QueueTypes, Rolling
    <3>2. IsFiniteSet(1..Len(batches'))
      BY <3>1, FS_Interval
    <3> QED BY <2>2, <3>1, <3>2, FS_Subset
  <2>4. n \in Nat /\ Cardinality(Rolling') \in Nat /\ n + 1 <= Cardinality(Rolling')
    <3>1. Cardinality(Rolling \cup {new}) = n + 1 /\ n \in Nat
      BY <2>2, <2>3, FS_AddElement, FS_CardinalityType
    <3> QED BY <2>2, <2>3, <3>1, FS_Subset, FS_CardinalityType
  <2> HIDE DEF n
  <2>5. ASSUME NEW i \in DOMAIN batches', IsDeep(batches'[i].key), batches'[i].key.again # <<>>
        PROVE  batches'[i].key.again[2] < Cardinality(Rolling')
    <3>1. CASE i \in DOMAIN batches
      <4>1. batches'[i].key = batches[i].key
        BY <3>1, BandsAreNew
      <4>2. batches[i].key.again[2] < n
        BY <2>5, <3>1, <4>1 DEF RoundsInv, n
      <4>3. batches[i].key.again[2] \in Nat
        <5>1. batches[i] \in BatchRows
          BY <3>1 DEF QueueTypes
        <5> QED BY <2>5, <4>1, <5>1 DEF BatchRows, Keys
      <4> QED BY <2>4, <4>1, <4>2, <4>3
    <3>2. CASE i \notin DOMAIN batches
      <4>1. batches'[i].key.again[2] = n
        BY <1>2, <3>2, BandsAreNew DEF n
      <4> QED BY <2>4, <4>1
    <3> QED BY <3>1, <3>2
  <2> QED BY <2>5 DEF RoundsInv, IsDeep
<1> QED
  BY <1>3, <1>4

LEMMA RungsOfRanking ==
  ASSUME QueueInv, NEW order \in Orders, RankCvs(order), QueueTypes'
  PROVE  RungsInv' /\ RoundsInv'
<1> USE DEF QueueInv, SessionInv, TablesInv
<1>1. frontier' = frontier /\ rank' = [c \in Cvs |-> IF c \in Unranked THEN Offset + order[c] ELSE rank[c]]
  BY DEF RankCvs
<1>2. NoGap(rank') /\ Top(rank) <= Top(rank') /\ Top(rank') \in Nat /\ Top(rank) \in Nat
  <2>1. NoGap(rank) /\ frontier <= Top(rank)
    BY DEF RungsInv, NoGap
  <2>2. NoGap(rank') /\ Top(rank) <= Top(rank')
    <3> HIDE DEF NoGap
    <3> QED BY <1>1, <2>1, RanksFollow
  <2>3. rank' \in [Cvs -> Nat]
    BY RankingAsks
  <2> QED BY <2>2, <2>3, TopIsHighest DEF RowTypes
<1>3. KeysStay
  BY RankingAsks
<1>4. \A i \in DOMAIN batches' \ DOMAIN batches :
        IsRange(batches'[i].key, Top(rank')) /\ batches'[i].key.again = <<>>
  <2>1. ASSUME NEW i \in DOMAIN batches' \ DOMAIN batches PROVE IsRange(batches'[i].key, Top(rank'))
    <3>1. /\ batches'[i].key.from = frontier + 1 /\ frontier < Top(rank')
          /\ batches'[i].key.to = Nearer(Top(rank'), frontier + InitialDeep)
      BY RankingAsks
    <3> QED BY <1>2, <3>1, TriageAssumption DEF IsRange, Nearer, RowTypes
  <2> QED BY <2>1, RankingAsks
<1>5. ASSUME NEW i \in DOMAIN batches, IsDeep(batches[i].key)
      PROVE  IsRange(batches'[i].key, Top(rank'))
  <2>1. IsRange(batches[i].key, Top(rank)) /\ batches'[i].key = batches[i].key
    BY <1>3, <1>5 DEF RungsInv, IsRange, KeysStay
  <2>2. batches[i].key.to \in Nat
    <3>1. batches[i] \in BatchRows
      BY DEF QueueTypes
    <3> QED BY <3>1 DEF BatchRows, Keys
  <2> QED BY <1>2, <2>1, <2>2 DEF IsRange
<1>6. RungsInv'
  <2>1. \A i \in DOMAIN batches' : IsDeep(batches'[i].key) => IsRange(batches'[i].key, Top(rank'))
    BY <1>3, <1>4, <1>5 DEF KeysStay
  <2>2. frontier' <= Top(rank')
    BY <1>1, <1>2 DEF RungsInv, RowTypes
  <2> QED BY <1>2, <2>1, <2>2 DEF RungsInv, NoGap, IsRange, IsDeep
<1>7. RoundsInv'
  BY <1>3, <1>4, RoundsFrame
<1> QED
  BY <1>6, <1>7

(* What a scroll asks for. *)
TrancheKey == Key("rolling", OfSession, frontier + 1, Nearer(frontier + Tranche, Top(rank)), <<>>)

LEMMA TrancheAsks ==
  ASSUME SessionInv, RequestNextTranche
  PROVE  /\ KeysStay /\ Extended(batches', batches, {TrancheKey})
         /\ TrancheKey \in Keys /\ TrancheKey.kind = "rolling" /\ IsDeep(TrancheKey)
         /\ IsRange(TrancheKey, Top(rank)) /\ TrancheKey.from = frontier + 1 /\ TrancheKey.again = <<>>
<1> USE DEF SessionInv, TablesInv
<1> DEFINE to == Nearer(frontier + Tranche, Top(rank))
<1>1. to \in Nat /\ frontier + 1 \in Nat /\ 1 <= frontier + 1 /\ frontier + 1 <= to /\ to <= Top(rank)
  BY TopIsHighest, TriageAssumption DEF RequestNextTranche, RowTypes, Nearer
<1>2. TrancheKey = Key("rolling", OfSession, frontier + 1, to, <<>>)
  BY DEF TrancheKey
<1> HIDE DEF to
<1>3. /\ TrancheKey \in Keys /\ TrancheKey.kind = "rolling" /\ TrancheKey.from = frontier + 1
      /\ TrancheKey.to = to /\ TrancheKey.again = <<>>
  <2>1. to \in Nat /\ frontier + 1 \in Nat
    BY <1>1
  <2> QED BY <1>2, <2>1, RollingKeyTypes
<1>4. batches' = Enqueue(batches, TrancheKey) /\ batches \in Seq(BatchRows)
  BY DEF RequestNextTranche, TrancheKey, QueueTypes
<1>5. Extended(batches', batches, {TrancheKey})
  BY <1>3, <1>4, EnqueueExtends
<1>6. KeysStay
  BY <1>5 DEF Extended, KeysStay
<1> QED
  BY <1>1, <1>3, <1>5, <1>6 DEF IsRange, IsDeep

LEMMA RungsStep ==
  ASSUME QueueInv, [NextKept]_triageVars
  PROVE  RungsInv' /\ RoundsInv'
<1> USE DEF QueueInv, SessionInv, TablesInv
<1>0. QueueTypes' /\ RowTypes' /\ Top(rank) \in Nat
  BY StepKeepsSession, TopIsHighest DEF Next, RowTypes
<1>1. CASE Upload \/ (\E n \in 1..MaxCvs : AddCvs(n)) \/ (\E d \in Drops : RefuseAdded(d)) \/ UNCHANGED triageVars
           \/ (\E c \in Cvs, outcome \in {"parsed", "failed"} : ReadCv(c, outcome))
           \/ (\E c \in Cvs, outcome \in {"scored", "failed"} : AnalyseCv(c, outcome))
  <2>1. UNCHANGED <<rank, frontier, batches>>
    BY <1>1 DEF Upload, AddCvs, RefuseAdded, triageVars, cvs, ReadCv, AnalyseCv
  <2> QED BY <1>0, <2>1, RungsAlone DEF KeysStay
<1>2. ASSUME NEW d \in Drops, StartProcessing(d), UNCHANGED <<rank, frontier, worker>>
      PROVE  RungsInv' /\ RoundsInv'
  <2>1. KeysStay /\ Extended(batches', batches, {Key("parse", d, 0, 0, <<>>)})
    BY <1>2, StartingKeepsQueue
  <2>2. Key("parse", d, 0, 0, <<>>).kind = "parse"
    BY DEF Key
  <2>3. \A i \in DOMAIN batches' \ DOMAIN batches : ~IsDeep(batches'[i].key)
    BY <2>1, <2>2 DEF Extended, IsDeep
  <2> QED BY <1>0, <1>2, <2>1, <2>3, RungsAlone
<1>3. CASE Launch \/ \E d \in Drops : ChargeAdded(d)
  BY <1>2, <1>3, DraftSize DEF Launch, ChargeAdded, cvs
<1>4. CASE RequestNextTranche
  <2>1. \A i \in DOMAIN batches' \ DOMAIN batches : batches'[i].key = TrancheKey
    BY <1>4, TrancheAsks DEF Extended
  <2>2. UNCHANGED <<rank, frontier>>
    BY <1>4 DEF RequestNextTranche, cvs
  <2> QED BY <1>0, <1>4, <2>1, <2>2, TrancheAsks, RungsFrame, RoundsFrame DEF RungsInv, RowTypes
<1>5. CASE RequeueFailedAnalyses
  BY <1>0, <1>5, RungsOfRequeue
<1>6. ASSUME NEW kinds, NEW state \in States, Claim(kinds, state), UNCHANGED rank,
             frontier' \in Nat, frontier' <= Top(rank)
      PROVE  RungsInv' /\ RoundsInv'
  BY <1>0, <1>6, ClaimTakesTheOldest, RungsMoved
<1>7. CASE ClaimOnFailed \/ ClaimParse \/ ClaimPreliminary \/ ClaimDeep
  BY <1>6, <1>7 DEF ClaimOnFailed, ClaimParse, ClaimPreliminary, ClaimDeep, cvs, States, RungsInv, RowTypes
<1>8. CASE NothingToAnalyse
  <2>1. frontier' \in Nat /\ frontier' <= Top(rank)
    <3>1. /\ frontier' \in Nat
          /\ frontier' = frontier \/ \E c \in Cvs : rank[c] = frontier'
      BY <1>8, CursorFacts DEF NothingToAnalyse
    <3> QED BY <3>1, TopIsHighest DEF RungsInv, RowTypes
  <2> QED BY <1>6, <1>8, <2>1 DEF NothingToAnalyse, cvs, States
<1>9. ASSUME worker.batch # 0, NEW state \in {"queued", "done", "failed"},
             batches' = Ended(batches, state), worker' = Idle,
             UNCHANGED rank, frontier' \in {frontier, Further(frontier, Running.to)},
             frontier' # frontier => IsDeep(Running)
      PROVE  RungsInv' /\ RoundsInv'
  <2>1. KeysStay /\ DOMAIN batches' = DOMAIN batches
    BY <1>9, EndingAlone
  <2>2. worker.batch \in DOMAIN batches /\ Running = batches[worker.batch].key /\ Running.to \in Nat
    BY <1>9, RunningFacts DEF Running
  <2>3. frontier' \in Nat /\ frontier' <= Top(rank)
    BY <1>0, <1>9, <2>2 DEF RungsInv, RowTypes, Further
  <2> QED BY <1>0, <1>9, <2>1, <2>3, RungsMoved
<1>10. CASE FinishDeep
  BY <1>9, <1>10 DEF FinishDeep, cvs, IsDeep
<1>11. CASE BatchRetried \/ SessionFails \/ DeliveryFails
  BY <1>9, <1>11 DEF BatchRetried, SessionFails, DeliveryFails, cvs
<1>12. CASE RangeFails
  <2>1. IsDeep(Running)
    BY <1>12, RunningFacts DEF RangeFails, Reading, IsDeep, Keys
  <2> QED BY <1>9, <1>12, <2>1 DEF RangeFails
<1>13. CASE FinishParse
  <2> DEFINE key == Key("preliminary", Running.drop, 0, 0, <<>>)
  <2>1. key \in Keys /\ key.kind = "preliminary"
    BY <1>13, RunningFacts DEF FinishParse, Key, Keys
  <2>2. /\ worker.batch # 0 /\ batches' = Ended(Enqueue(batches, key), "done")
        /\ worker' = Idle /\ UNCHANGED <<rank, frontier>>
    BY <1>13 DEF FinishParse
  <2> HIDE DEF key
  <2>3. KeysStay /\ \A i \in DOMAIN batches' \ DOMAIN batches : ~IsDeep(batches'[i].key)
    BY <2>1, <2>2, EndingWithWork DEF IsDeep
  <2> QED BY <1>0, <2>2, <2>3, RungsAlone
<1>14. CASE \E order \in Orders : RankCvs(order)
  BY <1>0, <1>14, RungsOfRanking
<1>15. CASE Restart
  <2>1. KeysStay /\ DOMAIN batches' = DOMAIN batches /\ UNCHANGED <<rank, frontier>>
    BY <1>15, ResumeKeepsQueue DEF Restart
  <2> QED BY <1>0, <2>1, RungsMoved DEF RungsInv, RowTypes
<1> QED
  BY <1>1, <1>3, <1>4, <1>5, <1>7, <1>8, <1>10, <1>11, <1>12, <1>13, <1>14, <1>15
     DEF NextKept, Routes, Work, Failures

-----------------------------------------------------------------------------
(* ClaimsInv.                                                                *)

NoneClaimed == \A c \in Cvs : deep[c] # "running"

LEMMA ClaimsParts ==
  ASSUME ClaimsInv, ~Deepening
  PROVE  NoneClaimed
  BY DEF ClaimsInv, NoneClaimed

(* Steps after which no analysis is running. *)
LEMMA ClaimsGone ==
  ASSUME \A c \in Cvs : deep'[c] # "running", worker'.batch # 0 => ~IsDeep(batches'[worker'.batch].key)
  PROVE  ClaimsInv'
  BY DEF ClaimsInv, Deepening, Running, IsDeep

(* Steps that go on beside the analyses. *)
LEMMA ClaimsFrame ==
  ASSUME QueueInv, UNCHANGED <<worker, rank>>, KeysStay,
         \A c \in Cvs : deep'[c] = "running" <=> deep[c] = "running",
         \A c \in Cvs : parse[c] = "parsed" => parse'[c] = "parsed"
  PROVE  ClaimsInv'
<1>1. Deepening' <=> Deepening
  BY DEF Deepening, Running, IsDeep, KeysStay, QueueInv, SessionInv, TablesInv, QueueTypes
<1>2. Deepening => Running' = Running
  BY DEF Deepening, Running, KeysStay, QueueInv, SessionInv, TablesInv, QueueTypes
<1>3. Deepening => InRange(Running) \subseteq InRange(Running)'
  BY <1>2 DEF InRange
<1> QED
  BY <1>1, <1>3 DEF ClaimsInv, QueueInv

(* New rows had no delivery. *)
LEMMA NewRowsAreNew ==
  ASSUME RowTypes, PilesInv, NEW n \in Int, NEW c \in Cvs, drop[c] # 0
  PROVE  c \notin NewRows(n)
<1> DEFINE k == Cardinality(Uploaded)
<1>1. k \in Nat /\ Uploaded = 1..k
  BY SizeOfAPile DEF PilesInv, Uploaded
<1>2. NewRows(n) = (k + 1)..(k + n)
  BY DEF NewRows, Uploaded
<1>3. c \in Uploaded
  BY DEF Uploaded
<1> HIDE DEF k
<1> QED
  BY <1>1, <1>2, <1>3

LEMMA ClaimsStep ==
  ASSUME QueueInv, [NextKept]_triageVars
  PROVE  ClaimsInv'
<1> USE DEF QueueInv, SessionInv, TablesInv
<1>1. CASE Upload \/ (\E n \in 1..MaxCvs : AddCvs(n))
  <2>1. PICK n \in Int : (\E d : AddRows(n, d)) /\ UNCHANGED <<worker, rank, deep, batches>>
    BY <1>1 DEF Upload, AddCvs
  <2>2. \A c \in Cvs : parse[c] = "parsed" => parse'[c] = "parsed"
    <3>1. \A c \in Cvs : drop[c] # 0 => c \notin NewRows(n)
      BY <2>1, NewRowsAreNew
    <3> QED BY <2>1, <3>1 DEF AddRows, RowsInv
  <2> QED BY <2>1, <2>2, ClaimsFrame DEF KeysStay
<1>2. CASE \E d \in Drops : RefuseAdded(d)
  <2>1. UNCHANGED <<worker, rank, deep, batches>> /\ \A c \in Cvs : parse[c] = "parsed" => parse'[c] = "parsed"
    BY <1>2 DEF RefuseAdded, RowsInv
  <2> QED BY <2>1, ClaimsFrame DEF KeysStay
<1>3. CASE Launch \/ (\E d \in Drops : ChargeAdded(d))
  <2>1. KeysStay
    BY <1>3, StartingKeepsQueue, DraftSize DEF Launch, ChargeAdded
  <2> QED BY <1>3, <2>1, ClaimsFrame DEF Launch, ChargeAdded, cvs
<1>4. CASE RequestNextTranche
  <2>1. KeysStay
    BY <1>4, TrancheAsks
  <2> QED BY <1>4, <2>1, ClaimsFrame DEF RequestNextTranche, cvs
<1>5. CASE RequeueFailedAnalyses
  <2>1. KeysStay
    BY <1>5, BandsAreNew DEF KeysStay
  <2> QED BY <1>5, <2>1, ClaimsFrame DEF RequeueFailedAnalyses
<1>6. CASE ClaimOnFailed \/ NothingToAnalyse
  <2>1. worker.batch = 0 /\ UNCHANGED <<worker, deep>>
    BY <1>6 DEF ClaimOnFailed, NothingToAnalyse, Claim, Idle, cvs
  <2> QED BY <2>1, ClaimsGone, ClaimsParts DEF Deepening, NoneClaimed
<1>7. CASE ClaimParse \/ ClaimPreliminary
  <2>1. PICK kinds \in {{"parse"}, {"preliminary"}} : Claim(kinds, "running")
    BY <1>7 DEF ClaimParse, ClaimPreliminary
  <2>2. worker.batch = 0 /\ batches'[NextBatch].key.kind \in kinds
    BY <2>1, ClaimTakesTheOldest DEF States
  <2>3. worker'.batch = NextBatch /\ UNCHANGED deep
    BY <1>7 DEF ClaimParse, ClaimPreliminary, cvs
  <2> QED BY <2>2, <2>3, ClaimsGone, ClaimsParts DEF Deepening, NoneClaimed, IsDeep
<1>8. CASE \E c \in Cvs, outcome \in {"parsed", "failed"} : ReadCv(c, outcome)
  <2>1. /\ worker.batch # 0 /\ Running.kind = "parse" /\ worker'.batch = worker.batch
        /\ UNCHANGED <<deep, batches>>
    BY <1>8 DEF ReadCv, QueueTypes
  <2> QED BY <2>1, ClaimsGone, ClaimsParts DEF Deepening, NoneClaimed, IsDeep, Running
<1>9. CASE FinishParse \/ (\E order \in Orders : RankCvs(order)) \/ SessionFails \/ DeliveryFails
  <2>1. worker.batch # 0 /\ ~IsDeep(Running) /\ worker'.batch = 0 /\ UNCHANGED deep
    <3>1. CASE FinishParse
      BY <3>1 DEF FinishParse, Idle, IsDeep
    <3>2. CASE \E order \in Orders : RankCvs(order)
      BY <3>2 DEF RankCvs, Idle, IsDeep
    <3>3. CASE SessionFails \/ DeliveryFails
      BY <3>3 DEF SessionFails, DeliveryFails, Idle, cvs, Reading, IsDeep
    <3> QED BY <1>9, <3>1, <3>2, <3>3
  <2> QED BY <2>1, ClaimsGone, ClaimsParts DEF Deepening, NoneClaimed
<1>10. CASE ClaimDeep
  <2> DEFINE key == batches[NextBatch].key
             rows == ToAnalyse(key)
  <2>1. /\ Claim({"initial", "rolling"}, "running") /\ UNCHANGED <<parse, rank>>
        /\ worker' = [batch |-> NextBatch, left |-> rows]
        /\ deep' = [c \in Cvs |-> IF c \in rows THEN "running" ELSE deep[c]]
        /\ rows \subseteq InRange(key) /\ rows \subseteq Cvs
    BY <1>10 DEF ClaimDeep, ToAnalyse, InRange
  <2>2. worker.batch = 0 /\ batches'[NextBatch].key = key /\ IsDeep(key) /\ NextBatch # 0
    BY <2>1, ClaimTakesTheOldest DEF States, IsDeep, QueueTypes
  <2>3. NoneClaimed
    BY <2>2, ClaimsParts DEF Deepening
  <2>4. Running' = key /\ Deepening' /\ InRange(Running)' = InRange(key)
    BY <2>1, <2>2 DEF Running, Deepening, InRange, IsDeep
  <2> HIDE DEF rows, key
  <2>5. {c \in Cvs : deep'[c] = "running"} = rows /\ worker'.left = rows
    BY <2>1, <2>3 DEF NoneClaimed
  <2> QED BY <2>1, <2>4, <2>5 DEF ClaimsInv
<1>11. ASSUME NEW c \in Cvs, NEW outcome \in {"scored", "failed"}, AnalyseCv(c, outcome) PROVE ClaimsInv'
  <2>1. /\ Deepening /\ c \in worker.left /\ worker' = [worker EXCEPT !.left = worker.left \ {c}]
        /\ deep' = [deep EXCEPT ![c] = IF c \in Present THEN outcome ELSE deep[c]]
        /\ UNCHANGED <<parse, rank, batches>>
    BY <1>11 DEF AnalyseCv, Deepening, IsDeep
  <2>2. /\ {e \in Cvs : deep[e] = "running"} = worker.left
        /\ worker.left \subseteq InRange(Running)
    BY <2>1 DEF ClaimsInv
  <2>3. c \in Present
    BY <2>1, <2>2 DEF InRange, Present
  <2>4. \A e \in Cvs : deep'[e] = IF e = c THEN outcome ELSE deep[e]
    BY <2>1, <2>3 DEF RowTypes
  <2>5. worker'.batch = worker.batch /\ worker'.left = worker.left \ {c}
    BY <2>1 DEF QueueTypes
  <2>6. Running' = Running /\ Deepening' /\ InRange(Running)' = InRange(Running)
    BY <2>1, <2>5 DEF Running, Deepening, InRange, IsDeep
  <2>7. {e \in Cvs : deep'[e] = "running"} = worker'.left
    BY <2>2, <2>4, <2>5
  <2> QED BY <2>2, <2>5, <2>6, <2>7 DEF ClaimsInv
<1>12. CASE FinishDeep
  <2>1. Deepening /\ worker.left = {} /\ worker'.batch = 0 /\ UNCHANGED deep
    BY <1>12 DEF FinishDeep, Deepening, IsDeep, Idle, cvs
  <2> QED BY <2>1, ClaimsGone DEF ClaimsInv
<1>13. CASE BatchRetried \/ RangeFails
  <2>1. worker'.batch = 0
    BY <1>13 DEF BatchRetried, RangeFails, Idle
  <2>2. \A c \in Cvs : Released[c] # "running"
    BY DEF Released, ClaimsInv
  <2>3. \A c \in Cvs : deep'[c] # "running"
    BY <1>13, <2>2 DEF BatchRetried, RangeFails
  <2> QED BY <2>1, <2>3, ClaimsGone
<1>14. CASE Restart
  BY <1>14, ClaimsGone DEF Restart, Resume, Idle
<1>15. CASE UNCHANGED triageVars
  BY <1>15, ClaimsFrame DEF triageVars, cvs, KeysStay
<1> QED
  BY <1>1, <1>2, <1>3, <1>4, <1>5, <1>6, <1>7, <1>8, <1>9, <1>10, <1>11, <1>12, <1>13, <1>14, <1>15
     DEF NextKept, Routes, Work, Failures

-----------------------------------------------------------------------------
(* LadderInv and PassedInv.                                                  *)

Covered(r) == \E j \in OpenDeep : Covers(batches[j].key, r)

DeepInv == LadderInv /\ RangeInv /\ PassedInv

(* Keys have ranges of numbers. *)
LEMMA KeyNumbers ==
  ASSUME QueueTypes, NEW i \in DOMAIN batches
  PROVE  batches[i].key.from \in Nat /\ batches[i].key.to \in Nat /\ batches[i].key \in Keys
<1>1. batches[i] \in BatchRows
  BY DEF QueueTypes
<1> QED
  BY <1>1 DEF BatchRows, Keys

(* Where the cursor stays and no range ends. *)
LEMMA LadderStays ==
  ASSUME QueueInv, LadderInv, PassedInv, RowTypes', QueueTypes', KeysStay, UNCHANGED frontier,
         \A i \in DOMAIN batches : IsDeep(batches[i].key) => (Open(i)' <=> Open(i)),
         \A i \in DOMAIN batches' \ DOMAIN batches :
            IsDeep(batches'[i].key) =>
              /\ i > Len(batches) /\ batches'[i].state = "queued"
              /\ \A r \in Nat : frontier < r /\ r < batches'[i].key.from => Covered(r),
         \A c \in Cvs : rank'[c] = rank[c] \/ (rank[c] = 0 /\ rank'[c] > frontier),
         \A c \in Cvs : deep'[c] # "pending" =>
            rank'[c] = rank[c] /\ (deep[c] # "pending" \/ Covered(rank[c])),
         \A c \in Cvs : parse'[c] = "parsed" /\ rank[c] # 0 /\ rank'[c] = rank[c] /\ rank[c] <= frontier =>
            parse[c] = "parsed" /\ (Settled(c) => Settled(c)' \/ \E j \in OpenDeep' : Covers(batches'[j].key, rank[c]))
  PROVE  LadderInv' /\ PassedInv'
<1> USE DEF QueueInv, SessionInv, TablesInv
<1>1. \A i \in OpenDeep : i \in OpenDeep' /\ batches'[i].key = batches[i].key
  BY DEF OpenDeep, KeysStay
<1>2. \A i \in OpenDeep' : i \in DOMAIN batches => i \in OpenDeep /\ batches'[i].key = batches[i].key
  BY DEF OpenDeep, KeysStay
<1>3. \A r : Covered(r) => \E j \in OpenDeep' : Covers(batches'[j].key, r)
  BY <1>1 DEF Covered
<1>4. ASSUME NEW i \in DOMAIN batches', IsDeep(batches'[i].key), ~Open(i)'
      PROVE  batches'[i].key.to <= frontier'
  <2>1. i \in DOMAIN batches
    BY <1>4 DEF Open
  <2> QED BY <1>4, <2>1 DEF LadderInv, KeysStay
<1>5. ASSUME NEW i \in OpenDeep', NEW r \in 1..Top(rank'), frontier' < r, r < batches'[i].key.from
      PROVE  \E j \in OpenDeep' : j < i /\ Covers(batches'[j].key, r)
  <2>1. Top(rank') \in Nat /\ Top(rank) \in Nat
    BY TopIsHighest DEF RowTypes
  <2>2. r \in Nat /\ 1 <= r
    BY <2>1
  <2>3. CASE i \in DOMAIN batches
    <3>1. i \in OpenDeep /\ batches'[i].key = batches[i].key
      BY <1>2, <2>3
    <3>2. batches[i].key.from <= batches[i].key.to /\ batches[i].key.to <= Top(rank)
          /\ batches[i].key.from \in Nat /\ batches[i].key.to \in Nat
      BY <2>3, <3>1, KeyNumbers DEF RungsInv, OpenDeep
    <3>3. r \in 1..Top(rank)
      BY <1>5, <2>1, <2>2, <3>1, <3>2
    <3>4. PICK j \in OpenDeep : j < i /\ Covers(batches[j].key, r)
      BY <1>5, <3>1, <3>3 DEF LadderInv
    <3> QED BY <1>1, <3>4
  <2>4. CASE i \notin DOMAIN batches
    <3>1. i > Len(batches) /\ Covered(r)
      BY <1>5, <2>2, <2>4 DEF OpenDeep
    <3>2. PICK j \in OpenDeep : Covers(batches[j].key, r)
      BY <3>1 DEF Covered
    <3>3. j < i
      <4>1. j \in Nat /\ j <= Len(batches) /\ Len(batches) \in Nat
        BY DEF OpenDeep, QueueTypes
      <4>2. i \in Nat
        BY DEF OpenDeep, QueueTypes
      <4> QED BY <3>1, <4>1, <4>2
    <3> QED BY <1>1, <3>2, <3>3
  <2> QED BY <2>3, <2>4
<1>6. ASSUME NEW c \in Cvs, deep'[c] # "pending", rank'[c] > frontier'
      PROVE  \E j \in OpenDeep' : Covers(batches'[j].key, rank'[c])
  BY <1>3, <1>6 DEF LadderInv, Covered
<1>7. LadderInv'
  BY <1>4, <1>5, <1>6 DEF LadderInv
<1>8. ASSUME NEW c \in Cvs, parse'[c] = "parsed", rank'[c] # 0, rank'[c] <= frontier'
      PROVE  Settled(c)' \/ \E j \in OpenDeep' : Covers(batches'[j].key, rank'[c])
  <2>1. rank'[c] = rank[c] /\ rank[c] # 0 /\ rank[c] <= frontier
    BY <1>8 DEF RowTypes
  <2>2. parse[c] = "parsed"
    BY <1>8, <2>1
  <2>3. Settled(c) \/ Covered(rank[c])
    BY <2>1, <2>2 DEF PassedInv, Covered
  <2> QED BY <1>3, <1>8, <2>1, <2>3
<1>9. PassedInv'
  BY <1>8 DEF PassedInv
<1> QED
  BY <1>7, <1>9

(* Where the oldest of the ranges that are owed ends, and the cursor passes it. *)
LEMMA LadderMoves ==
  ASSUME QueueInv, LadderInv, PassedInv, RowTypes', NEW w \in OpenDeep,
         \A i \in OpenDeep : w <= i,
         DOMAIN batches' = DOMAIN batches, KeysStay, ~Open(w)',
         \A i \in DOMAIN batches : i # w => batches'[i] = batches[i],
         UNCHANGED <<rank, parse>>,
         frontier <= frontier', batches[w].key.to <= frontier',
         frontier' = frontier \/ frontier' <= batches[w].key.to,
         \A c \in InRange(batches[w].key) :
            Settled(c)' \/ \E j \in OpenDeep \ {w} : Covers(batches[j].key, rank[c]),
         \A c \in Cvs : Settled(c) => Settled(c)',
         \A c \in Cvs : deep'[c] # "pending" /\ rank[c] > frontier' => deep[c] # "pending"
  PROVE  LadderInv' /\ PassedInv'
<1> USE DEF QueueInv, SessionInv, TablesInv
<1>1. /\ OpenDeep' = OpenDeep \ {w}
      /\ \A i \in DOMAIN batches : batches'[i].key = batches[i].key
  BY DEF OpenDeep, KeysStay, Open
<1>2. /\ frontier \in Nat /\ frontier' \in Nat /\ Top(rank') = Top(rank) /\ Top(rank) \in Nat
      /\ \A c \in Cvs : rank[c] \in Nat
      /\ \A i \in DOMAIN batches : batches[i].key.from \in Nat /\ batches[i].key.to \in Nat
      /\ w \in DOMAIN batches /\ \A i \in OpenDeep : i \in DOMAIN batches
  BY TopIsHighest, KeyNumbers DEF RowTypes, Top, OpenDeep
<1>3. ASSUME NEW i \in DOMAIN batches', IsDeep(batches'[i].key), ~Open(i)'
      PROVE  batches'[i].key.to <= frontier'
  <2>1. CASE i = w
    BY <1>1, <1>2, <2>1
  <2>2. CASE i # w
    <3>1. batches[i].key.to <= frontier
      BY <1>3, <2>2 DEF LadderInv, Open
    <3> QED BY <1>1, <1>2, <3>1
  <2> QED BY <2>1, <2>2
<1>4. ASSUME NEW i \in OpenDeep', NEW r \in 1..Top(rank'), frontier' < r, r < batches'[i].key.from
      PROVE  \E j \in OpenDeep' : j < i /\ Covers(batches'[j].key, r)
  <2>1. r \in 1..Top(rank) /\ r \in Nat /\ frontier < r /\ i \in OpenDeep /\ r < batches[i].key.from
    BY <1>1, <1>2, <1>4
  <2>2. PICK j \in OpenDeep : j < i /\ Covers(batches[j].key, r)
    BY <2>1 DEF LadderInv
  <2>3. j # w
    BY <1>2, <1>4, <2>1, <2>2 DEF Covers
  <2> QED BY <1>1, <1>2, <2>2, <2>3
<1>5. ASSUME NEW c \in Cvs, deep'[c] # "pending", rank'[c] > frontier'
      PROVE  \E j \in OpenDeep' : Covers(batches'[j].key, rank'[c])
  <2>1. deep[c] # "pending" /\ rank[c] > frontier
    BY <1>2, <1>5
  <2>2. PICK j \in OpenDeep : Covers(batches[j].key, rank[c])
    BY <2>1 DEF LadderInv
  <2>3. j # w
    BY <1>2, <1>5, <2>2 DEF Covers
  <2> QED BY <1>1, <1>2, <2>2, <2>3
<1>6. LadderInv'
  BY <1>3, <1>4, <1>5 DEF LadderInv
<1>7. ASSUME NEW c \in Cvs, parse'[c] = "parsed", rank'[c] # 0, rank'[c] <= frontier'
      PROVE  Settled(c)' \/ \E j \in OpenDeep' : Covers(batches'[j].key, rank'[c])
  <2>1. parse[c] = "parsed" /\ rank[c] # 0 /\ rank[c] <= frontier' /\ rank'[c] = rank[c]
    BY <1>7
  <2>2. CASE c \in InRange(batches[w].key)
    BY <1>1, <1>2, <2>1, <2>2
  <2>3. CASE c \notin InRange(batches[w].key)
    <3>1. ~Covers(batches[w].key, rank[c])
      BY <2>1, <2>3 DEF InRange, Covers
    <3>2. CASE rank[c] <= frontier
      <4>1. Settled(c) \/ \E j \in OpenDeep : Covers(batches[j].key, rank[c])
        BY <2>1, <3>2 DEF PassedInv
      <4> QED BY <1>1, <1>2, <2>1, <3>1, <4>1
    <3>3. CASE rank[c] > frontier
      <4>1. rank[c] <= batches[w].key.to /\ rank[c] < batches[w].key.from
        BY <1>2, <2>1, <3>1, <3>3 DEF Covers
      <4>2. rank[c] \in 1..Top(rank)
        BY <1>2, <2>1, TopIsHighest DEF RowTypes
      <4>3. PICK j \in OpenDeep : j < w /\ Covers(batches[j].key, rank[c])
        BY <3>3, <4>1, <4>2 DEF LadderInv
      <4>4. j \in Nat /\ w \in Nat /\ w <= j
        BY <4>3 DEF OpenDeep, QueueTypes
      <4> QED BY <4>3, <4>4
    <3> QED BY <1>2, <3>2, <3>3
  <2> QED BY <2>2, <2>3
<1>8. PassedInv'
  BY <1>7 DEF PassedInv
<1> QED
  BY <1>6, <1>8

(* What the running range was to analyse. *)
LEMMA RangeStays ==
  ASSUME QueueInv, RangeInv, worker'.batch = worker.batch, KeysStay, UNCHANGED rank,
         \A i \in DOMAIN batches : IsDeep(batches[i].key) => (Open(i)' <=> Open(i)),
         \A c \in Cvs : parse'[c] = "parsed" /\ rank[c] # 0 => parse[c] = "parsed",
         \A c \in worker.left : c \in worker'.left \/ Settled(c)',
         \A c \in Cvs : parse[c] = "parsed" /\ rank[c] # 0 /\ Settled(c) =>
            Settled(c)' \/ \E j \in OpenDeep' \ {worker.batch} : Covers(batches'[j].key, rank[c])
  PROVE  RangeInv'
<1> USE DEF QueueInv, SessionInv, TablesInv
<1>1. \A i \in OpenDeep : i \in OpenDeep' /\ batches'[i].key = batches[i].key
  BY DEF OpenDeep, KeysStay
<1> SUFFICES ASSUME Deepening', NEW c \in InRange(Running)'
             PROVE  c \in worker'.left \/ Settled(c)'
                      \/ \E j \in OpenDeep' \ {worker'.batch} : Covers(batches'[j].key, rank'[c])
  BY DEF RangeInv
<1>2. worker.batch # 0 /\ Running' = Running /\ Deepening
  BY DEF Deepening, Running, KeysStay, QueueTypes
<1>3. c \in InRange(Running) /\ rank'[c] = rank[c] /\ c \in Cvs /\ parse[c] = "parsed" /\ rank[c] # 0
  BY <1>2 DEF InRange
<1>4. c \in worker.left \/ Settled(c) \/ \E j \in OpenDeep \ {worker.batch} : Covers(batches[j].key, rank[c])
  BY <1>2, <1>3 DEF RangeInv
<1> QED
  BY <1>1, <1>3, <1>4

(* Steps that have nothing to do with the analyses, or ask for the next of them. *)
LEMMA DeepAside ==
  ASSUME QueueInv, DeepInv, RowTypes', QueueTypes', KeysStay, UNCHANGED <<rank, frontier, deep>>,
         \A i \in DOMAIN batches : IsDeep(batches[i].key) => (Open(i)' <=> Open(i)),
         \A i \in DOMAIN batches' \ DOMAIN batches :
            IsDeep(batches'[i].key) =>
              i > Len(batches) /\ batches'[i].state = "queued" /\ batches'[i].key.from = frontier + 1,
         \A c \in Cvs : parse'[c] = "parsed" /\ rank[c] # 0 => parse[c] = "parsed",
         worker' = worker \/ ~Deepening'
  PROVE  DeepInv'
<1>1. \A c : Settled(c)' <=> Settled(c)
  BY DEF Settled
<1>2. \A r \in Nat : ~(frontier < r /\ r < frontier + 1)
  BY DEF QueueInv, SessionInv, TablesInv, RowTypes
<1>3. LadderInv' /\ PassedInv'
  <2>1. \A i \in DOMAIN batches' \ DOMAIN batches :
            IsDeep(batches'[i].key) =>
              /\ i > Len(batches) /\ batches'[i].state = "queued"
              /\ \A r \in Nat : frontier < r /\ r < batches'[i].key.from => Covered(r)
    BY <1>2
  <2> QED BY <1>1, <2>1, LadderStays DEF DeepInv
<1>4. RangeInv'
  <2>1. CASE worker' = worker
    BY <1>1, <2>1, RangeStays DEF DeepInv
  <2>2. CASE ~Deepening'
    BY <2>2 DEF RangeInv
  <2> QED BY <2>1, <2>2
<1> QED
  BY <1>3, <1>4 DEF DeepInv

LEMMA DeepOfRoutes ==
  ASSUME QueueInv, DeepInv, RowTypes', QueueTypes', Routes
  PROVE  DeepInv'
<1> USE DEF QueueInv, SessionInv, TablesInv
<1>1. CASE Upload \/ (\E n \in 1..MaxCvs : AddCvs(n)) \/ (\E d \in Drops : RefuseAdded(d))
  <2>1. UNCHANGED <<rank, frontier, deep, batches, worker>>
    BY <1>1 DEF Upload, AddCvs, RefuseAdded
  <2>2. \A c \in Cvs : parse'[c] = "parsed" => parse[c] = "parsed"
    BY <1>1 DEF Upload, AddCvs, RefuseAdded, AddRows
  <2> QED BY <2>1, <2>2, DeepAside DEF KeysStay, Open
<1>2. CASE Launch \/ (\E d \in Drops : ChargeAdded(d))
  <2>1. UNCHANGED <<rank, frontier, deep, parse, worker>>
    BY <1>2 DEF Launch, ChargeAdded, cvs
  <2>2. PICK d \in Drops : KeysStay /\ Extended(batches', batches, {Key("parse", d, 0, 0, <<>>)})
    BY <1>2, DraftSize, StartingKeepsQueue DEF Launch, ChargeAdded
  <2>3. Key("parse", d, 0, 0, <<>>).kind = "parse"
    BY DEF Key
  <2>4. /\ \A i \in DOMAIN batches : batches'[i] = batches[i]
        /\ \A i \in DOMAIN batches' \ DOMAIN batches : ~IsDeep(batches'[i].key)
    BY <2>2, <2>3, SMTT(30) DEF Extended, IsDeep
  <2> QED BY <2>1, <2>2, <2>4, DeepAside DEF Open
<1>3. CASE RequestNextTranche
  <2>1. UNCHANGED <<rank, frontier, deep, parse, worker>>
    BY <1>3 DEF RequestNextTranche, cvs
  <2>2. /\ KeysStay /\ TrancheKey.from = frontier + 1
        /\ \A i \in DOMAIN batches : batches'[i] = batches[i]
        /\ \A i \in DOMAIN batches' \ DOMAIN batches :
             batches'[i].key = TrancheKey /\ batches'[i].state = "queued" /\ i > Len(batches)
    BY <1>3, TrancheAsks DEF Extended
  <2> QED BY <2>1, <2>2, DeepAside DEF Open
<1>4. CASE RequeueFailedAnalyses
  <2>0. /\ FailedRanks # {} /\ UNCHANGED <<rank, frontier, parse, worker>>
        /\ deep' = [c \in Cvs |-> IF parse[c] = "parsed" /\ deep[c] = "failed" THEN "pending" ELSE deep[c]]
    BY <1>4 DEF RequeueFailedAnalyses
  <2>1. KeysStay /\ \A i \in DOMAIN batches : batches'[i] = batches[i]
    BY <1>4, BandsAreNew DEF KeysStay
  <2>2. ASSUME NEW r \in FailedRanks, NEW n \in Nat, frontier < n, n < r PROVE Covered(n)
    <3>1. PICK c \in Cvs : rank[c] = r /\ deep[c] = "failed"
      BY DEF FailedRanks
    <3>2. r \in Nat /\ frontier < r /\ frontier \in Nat
      BY <2>2, <3>1 DEF RowTypes
    <3>3. PICK j \in OpenDeep : Covers(batches[j].key, r)
      BY <3>1, <3>2 DEF DeepInv, LadderInv
    <3>4. batches[j].key.from \in Nat /\ batches[j].key.to \in Nat
      BY <3>3, KeyNumbers DEF OpenDeep
    <3>5. CASE batches[j].key.from <= n
      BY <2>2, <3>2, <3>3, <3>4, <3>5 DEF Covered, Covers
    <3>6. CASE n < batches[j].key.from
      <4>1. n \in 1..Top(rank)
        <5>1. Top(rank) \in Nat /\ r <= Top(rank)
          BY <3>1, TopIsHighest DEF RowTypes
        <5> QED BY <2>2, <3>2, <5>1
      <4> QED BY <2>2, <3>3, <3>6, <4>1 DEF DeepInv, LadderInv, Covered
    <3> QED BY <3>4, <3>5, <3>6
  <2>3. ASSUME NEW i \in DOMAIN batches' \ DOMAIN batches
        PROVE  /\ i > Len(batches) /\ batches'[i].state = "queued"
               /\ \A n \in Nat : frontier < n /\ n < batches'[i].key.from => Covered(n)
    <3>1. PICK from \in Bands : batches'[i].key = Band(from)
      BY <1>4, BandsAreNew
    <3>2. from \in Nat /\ Band(from).from = from /\ \E r \in FailedRanks : from <= r
      BY <2>0, BandFacts
    <3>3. \A r \in FailedRanks : r \in Nat
      BY DEF FailedRanks, RowTypes
    <3>4. \A n \in Nat : frontier < n /\ n < from => Covered(n)
      BY <2>2, <3>2, <3>3
    <3> QED BY <1>4, <3>1, <3>2, <3>4, BandsAreNew
  <2>4. ASSUME NEW c \in Cvs, parse[c] = "parsed", rank[c] # 0, deep[c] = "failed"
        PROVE  \E j \in OpenDeep' \ {worker.batch} : Covers(batches'[j].key, rank[c])
    <3>1. rank[c] \in FailedRanks
      BY <2>4 DEF FailedRanks
    <3>2. PICK from \in Bands : from <= rank[c] /\ rank[c] <= Band(from).to
      BY <2>0, <3>1, BandFacts
    <3>3. PICK j \in DOMAIN batches' \ DOMAIN batches : batches'[j].key = Band(from)
      BY <1>4, BandsAreNew
    <3>4. Band(from).kind = "rolling" /\ Band(from).from = from
      BY <2>0, BandFacts
    <3>5. j \in OpenDeep' /\ Covers(batches'[j].key, rank[c])
      BY <2>3, <3>2, <3>3, <3>4 DEF OpenDeep, Open, IsDeep, Covers
    <3>6. j # worker.batch
      <4>1. j # 0
        BY <3>3 DEF QueueTypes
      <4> QED BY <3>3, <4>1 DEF QueueTypes
    <3> QED BY <3>5, <3>6
  <2>5. \A c \in Cvs : Settled(c) => Settled(c)' \/ (parse[c] = "parsed" /\ deep[c] = "failed")
    BY <2>0 DEF Settled
  <2>6. LadderInv' /\ PassedInv'
    <3>1. \A c \in Cvs : deep'[c] # "pending" => deep[c] # "pending"
      BY <2>0
    <3>2. \A i \in DOMAIN batches : Open(i)' <=> Open(i)
      BY <2>1 DEF Open
    <3> QED BY <2>0, <2>1, <2>3, <2>4, <2>5, <3>1, <3>2, LadderStays DEF DeepInv
  <2>7. RangeInv'
    <3>1. \A i \in DOMAIN batches : Open(i)' <=> Open(i)
      BY <2>1 DEF Open
    <3> QED BY <2>0, <2>1, <2>4, <2>5, <3>1, RangeStays DEF DeepInv
  <2> QED BY <2>6, <2>7 DEF DeepInv
<1> QED
  BY <1>1, <1>2, <1>3, <1>4 DEF Routes

(* The running batch, when it is an analysis, is the oldest range that is owed. *)
LEMMA DeepeningFacts ==
  ASSUME QueueTypes, OneAtATime, worker.batch # 0, IsDeep(Running)
  PROVE  /\ Deepening /\ worker.batch \in OpenDeep /\ \A i \in OpenDeep : worker.batch <= i
         /\ Running = batches[worker.batch].key
  BY RunningFacts DEF Deepening, OpenDeep, Open, Running

(* A range is claimed. *)
LEMMA DeepOfClaim ==
  ASSUME QueueInv, DeepInv, RowTypes', QueueTypes', ClaimDeep
  PROVE  DeepInv'
<1> USE DEF QueueInv, SessionInv, TablesInv
<1> DEFINE w == NextBatch
           key == batches[w].key
           rows == ToAnalyse(key)
<1>1. /\ Claim({"initial", "rolling"}, "running") /\ UNCHANGED <<parse, rank, frontier>>
      /\ worker' = [batch |-> w, left |-> rows]
      /\ deep' = [c \in Cvs |-> IF c \in rows THEN "running" ELSE deep[c]]
  BY DEF ClaimDeep
<1>2. /\ worker.batch = 0 /\ KeysStay /\ DOMAIN batches' = DOMAIN batches
      /\ w \in DOMAIN batches /\ batches[w].state = "queued" /\ IsDeep(key)
      /\ \A i \in DOMAIN batches : i # w => batches'[i] = batches[i]
      /\ batches'[w].key = key /\ batches'[w].state = "running"
  BY <1>1, ClaimTakesTheOldest DEF States, IsDeep
<1>3. /\ \A i \in DOMAIN batches : Open(i)' <=> Open(i)
      /\ w \in OpenDeep /\ w \in OpenDeep'
  BY <1>2 DEF Open, OpenDeep
<1>4. \A c \in Cvs : c \in InRange(key) <=> parse[c] = "parsed" /\ rank[c] # 0 /\ Covers(key, rank[c])
  BY DEF InRange, Covers
<1>5. \A c \in Cvs : c \in rows <=> c \in InRange(key) /\ deep[c] \in {"pending", "failed"}
  BY DEF ToAnalyse, InRange
<1>6. NoneClaimed
  BY <1>2, ClaimsParts DEF Deepening
<1>7. \A c \in InRange(key) : c \in Cvs
  BY DEF InRange
<1>8. Running' = key /\ Deepening' => InRange(Running)' = InRange(key)
  BY <1>1 DEF InRange
<1>9. Running' = key
  BY <1>1, <1>2 DEF Running
<1> HIDE DEF rows
<1>10. worker'.batch = w /\ worker'.left = rows
  BY <1>1
<1>11. LadderInv' /\ PassedInv'
  <2>1. \A c \in rows : Covered(rank[c]) /\ \E j \in OpenDeep' : Covers(batches'[j].key, rank[c])
    BY <1>2, <1>3, <1>4, <1>5, <1>7 DEF Covered, ToAnalyse, rows
  <2>2. \A c \in Cvs : c \in rows \/ deep'[c] = deep[c]
    BY <1>1
  <2>3. \A c \in Cvs : Settled(c) => Settled(c)' \/ c \in rows
    BY <2>2 DEF Settled
  <2> HIDE DEF w, key
  <2> QED BY <1>1, <1>2, <1>3, <2>1, <2>2, <2>3, LadderStays DEF DeepInv
<1>12. RangeInv'
  <2> SUFFICES ASSUME Deepening', NEW c \in InRange(Running)'
               PROVE  c \in worker'.left \/ Settled(c)'
    BY DEF RangeInv
  <2>1. c \in InRange(key) /\ c \in Cvs
    BY <1>7, <1>8, <1>9
  <2>2. CASE c \in rows
    BY <1>10, <2>2
  <2>3. CASE c \notin rows
    <3>1. deep[c] = "scored"
      BY <1>5, <1>6, <2>1, <2>3 DEF RowTypes, DeepStates, NoneClaimed
    <3> QED BY <1>1, <2>1, <2>3, <3>1 DEF Settled
  <2> QED BY <2>2, <2>3
<1> QED
  BY <1>11, <1>12 DEF DeepInv

(* A range that holds nothing to analyse is over at once. *)
LEMMA DeepOfNothing ==
  ASSUME QueueInv, DeepInv, RowTypes', QueueTypes', NothingToAnalyse
  PROVE  DeepInv'
<1> USE DEF QueueInv, SessionInv, TablesInv
<1>8. PICK w \in {NextBatch} : TRUE
  OBVIOUS
<1>9. PICK key \in {batches[w].key} : TRUE
  OBVIOUS
<1>1. /\ Claim({"initial", "rolling"}, "done") /\ UNCHANGED <<parse, rank, deep, worker>>
      /\ ToAnalyse(key) = {}
      /\ frontier' = Max({frontier} \cup {rank[c] : c \in {e \in Cvs : rank[e] <= key.to}})
  BY <1>8, <1>9 DEF NothingToAnalyse, cvs
<1>2. /\ worker.batch = 0 /\ KeysStay /\ DOMAIN batches' = DOMAIN batches
      /\ w \in DOMAIN batches /\ batches[w].state = "queued" /\ IsDeep(key)
      /\ \A i \in DOMAIN batches : Open(i) => w <= i
      /\ \A i \in DOMAIN batches : i # w => batches'[i] = batches[i]
      /\ batches'[w].key = key /\ batches'[w].state = "done"
  BY <1>8, <1>9, <1>1, ClaimTakesTheOldest DEF States, IsDeep
<1>3. w \in OpenDeep /\ ~Open(w)' /\ \A i \in OpenDeep : w <= i
  BY <1>9, <1>2 DEF Open, OpenDeep
<1>4. frontier <= frontier' /\ key.to <= frontier' /\ (frontier' = frontier \/ frontier' <= key.to)
  <2>1. PICK c \in Cvs : rank[c] = key.to
    <3>1. 1 <= key.from /\ key.from <= key.to /\ key.to <= Top(rank)
      BY <1>9, <1>2 DEF RungsInv
    <3>2. key.from \in Nat /\ key.to \in Nat /\ Top(rank) \in Nat
      BY <1>9, <1>2, KeyNumbers, TopIsHighest DEF RowTypes
    <3>3. key.to \in 1..Top(rank)
      BY <3>1, <3>2
    <3> QED BY <3>3 DEF RungsInv
  <2>2. key.to \in Nat
    BY <1>9, <1>2, KeyNumbers
  <2>3. PICK t \in Nat : t = key.to
    BY <2>2
  <2>4. frontier' = Max({frontier} \cup {rank[o] : o \in {e \in Cvs : rank[e] <= t}})
    BY <1>1, <2>3
  <2>5. /\ frontier <= frontier'
        /\ \A o \in Cvs : rank[o] <= t => rank[o] <= frontier'
        /\ frontier' = frontier \/ \E o \in Cvs : rank[o] = frontier' /\ rank[o] <= t
    BY <2>4, CursorFacts
  <2> QED BY <2>1, <2>3, <2>5 DEF RowTypes
<1>5. \A c \in InRange(key) : Settled(c)'
  <2>1. NoneClaimed
    BY <1>2, ClaimsParts DEF Deepening
  <2>2. \A c \in InRange(key) : c \in Cvs /\ deep[c] \notin {"pending", "failed"}
    BY <1>1 DEF ToAnalyse, InRange
  <2> QED BY <1>1, <2>1, <2>2 DEF NoneClaimed, RowTypes, DeepStates, Settled
<1>6. LadderInv' /\ PassedInv'
  <2>1. \A c \in Cvs : Settled(c) => Settled(c)'
    BY <1>1 DEF Settled
  <2> QED BY <1>9, <1>1, <1>2, <1>3, <1>4, <1>5, <2>1, LadderMoves DEF DeepInv
<1>7. RangeInv'
  BY <1>1, <1>2 DEF RangeInv, Deepening
<1> QED
  BY <1>6, <1>7 DEF DeepInv

(* The running batch ends, and was no analysis. *)
LEMMA DeepOfOthers ==
  ASSUME QueueInv, DeepInv, RowTypes', QueueTypes', worker.batch # 0, ~IsDeep(Running),
         UNCHANGED <<rank, frontier, deep>>, KeysStay, worker' = Idle,
         \A i \in DOMAIN batches : i # worker.batch => batches'[i] = batches[i],
         \A i \in DOMAIN batches' \ DOMAIN batches : ~IsDeep(batches'[i].key),
         \A c \in Cvs : parse'[c] = "parsed" /\ rank[c] # 0 => parse[c] = "parsed"
  PROVE  DeepInv'
<1>1. ~Deepening'
  BY DEF Deepening, Idle
<1>2. \A i \in DOMAIN batches : IsDeep(batches[i].key) => (Open(i)' <=> Open(i))
  BY DEF Running, Open
<1> QED
  BY <1>1, <1>2, DeepAside

LEMMA DeepOfReading ==
  ASSUME QueueInv, DeepInv, RowTypes', QueueTypes',
         ClaimParse \/ ClaimPreliminary \/ FinishParse
           \/ \E c \in Cvs, outcome \in {"parsed", "failed"} : ReadCv(c, outcome)
  PROVE  DeepInv'
<1> USE DEF QueueInv, SessionInv, TablesInv
<1>1. CASE ClaimParse \/ ClaimPreliminary
  <2>1. PICK kinds \in {{"parse"}, {"preliminary"}} : Claim(kinds, "running")
    BY <1>1 DEF ClaimParse, ClaimPreliminary
  <2>2. PICK w \in {NextBatch} : TRUE
    OBVIOUS
  <2>3. /\ KeysStay /\ DOMAIN batches' = DOMAIN batches
        /\ \A i \in DOMAIN batches : i # w => batches'[i] = batches[i]
        /\ w \in DOMAIN batches /\ ~IsDeep(batches[w].key) /\ batches'[w].key = batches[w].key
    BY <2>1, <2>2, ClaimTakesTheOldest DEF States, IsDeep
  <2>4. worker'.batch = w /\ UNCHANGED <<rank, frontier, deep, parse>>
    BY <1>1, <2>2 DEF ClaimParse, ClaimPreliminary, cvs
  <2>5. ~Deepening'
    BY <2>3, <2>4 DEF Deepening, Running, IsDeep
  <2>6. \A i \in DOMAIN batches : IsDeep(batches[i].key) => (Open(i)' <=> Open(i))
    BY <2>3 DEF Open
  <2> QED BY <2>3, <2>4, <2>5, <2>6, DeepAside
<1>2. ASSUME NEW c \in Cvs, NEW outcome \in {"parsed", "failed"}, ReadCv(c, outcome) PROVE DeepInv'
  <2>1. /\ worker.batch # 0 /\ Running.kind = "parse" /\ c \in worker.left
        /\ parse' = [parse EXCEPT ![c] = IF parse[c] = "absent" THEN parse[c] ELSE outcome]
        /\ worker'.batch = worker.batch /\ UNCHANGED <<rank, frontier, deep, batches>>
    BY <1>2 DEF ReadCv, QueueTypes
  <2>2. rank[c] = 0
    BY <2>1 DEF ReadingInv, RowsInv
  <2>3. \A e \in Cvs : parse'[e] = "parsed" /\ rank[e] # 0 => parse[e] = "parsed"
    BY <2>1, <2>2 DEF RowTypes
  <2>4. ~Deepening'
    BY <2>1 DEF Deepening, Running, IsDeep
  <2> QED BY <2>1, <2>3, <2>4, DeepAside DEF KeysStay, Open
<1>3. CASE FinishParse
  <2> DEFINE key == Key("preliminary", Running.drop, 0, 0, <<>>)
  <2>1. key \in Keys /\ key.kind = "preliminary"
    BY <1>3, RunningFacts DEF FinishParse, Key, Keys
  <2>2. /\ worker.batch # 0 /\ Running.kind = "parse" /\ parse' = Resolved
        /\ batches' = Ended(Enqueue(batches, key), "done")
        /\ worker' = Idle /\ UNCHANGED <<rank, frontier, deep>>
    BY <1>3 DEF FinishParse
  <2> HIDE DEF key
  <2>3. /\ KeysStay /\ \A i \in DOMAIN batches : i # worker.batch => batches'[i] = batches[i]
        /\ \A i \in DOMAIN batches' \ DOMAIN batches : ~IsDeep(batches'[i].key)
    BY <2>1, <2>2, EndingWithWork DEF IsDeep
  <2>4. \A c \in Cvs : parse'[c] = "parsed" => parse[c] = "parsed"
    BY <2>2 DEF Resolved, Versions, RowsInv
  <2> QED BY <2>2, <2>3, <2>4, DeepOfOthers DEF IsDeep
<1> QED
  BY <1>1, <1>2, <1>3

LEMMA DeepOfRanking ==
  ASSUME QueueInv, DeepInv, RowTypes', QueueTypes', NEW order \in Orders, RankCvs(order)
  PROVE  DeepInv'
<1> USE DEF QueueInv, SessionInv, TablesInv
<1>1. /\ worker.batch # 0 /\ Running.kind = "preliminary" /\ worker' = Idle
      /\ UNCHANGED <<parse, deep, frontier>>
      /\ rank' = [c \in Cvs |-> IF c \in Unranked THEN Offset + order[c] ELSE rank[c]]
  BY DEF RankCvs
<1>2. \A i \in DOMAIN batches : IsDeep(batches[i].key) => (Open(i)' <=> Open(i))
  BY <1>1, RankingAsks DEF Running, IsDeep, Open
<1>3. \A i \in DOMAIN batches' \ DOMAIN batches :
        /\ i > Len(batches) /\ batches'[i].state = "queued" /\ batches'[i].key.from = frontier + 1
  BY RankingAsks
<1>4. \A r \in Nat : ~(frontier < r /\ r < frontier + 1)
  BY DEF RowTypes
<1>5. \A i \in DOMAIN batches' \ DOMAIN batches :
        /\ i > Len(batches) /\ batches'[i].state = "queued"
        /\ \A r \in Nat : frontier < r /\ r < batches'[i].key.from => Covered(r)
  BY <1>3, <1>4
<1>6. \A c \in Cvs : rank'[c] = rank[c] \/ (rank[c] = 0 /\ rank'[c] > frontier)
  <2>1. Offset \in Nat /\ frontier <= Offset /\ \A c \in Unranked : order[c] \in 1..Cardinality(Unranked)
    BY RankingTypes
  <2>2. Cardinality(Unranked) \in Nat
    <3>1. Unranked \in SUBSET Cvs
      BY DEF Unranked
    <3> QED BY <3>1, SizeOfAPile, TriageAssumption
  <2>3. \A c \in Unranked : rank[c] = 0
    BY DEF Unranked
  <2>4. \A c \in Cvs : rank'[c] = IF c \in Unranked THEN Offset + order[c] ELSE rank[c]
    BY <1>1
  <2>5. \A c \in Unranked : order[c] \in Nat /\ order[c] >= 1
    BY <2>1, <2>2
  <2> QED BY <2>1, <2>3, <2>4, <2>5 DEF RowTypes
<1>7. \A c \in Cvs : deep'[c] # "pending" => rank'[c] = rank[c] /\ deep[c] # "pending"
  <2>1. \A c \in Cvs : deep[c] # "pending" => c \notin Unranked
    BY DEF RowsInv, Unranked
  <2> QED BY <1>1, <2>1
<1>8. \A c \in Cvs : Settled(c) => Settled(c)'
  BY <1>1 DEF Settled
<1>9. LadderInv' /\ PassedInv'
  BY <1>1, <1>2, <1>5, <1>6, <1>7, <1>8, RankingAsks, LadderStays DEF DeepInv
<1>10. RangeInv'
  BY <1>1 DEF RangeInv, Deepening, Idle
<1> QED
  BY <1>9, <1>10 DEF DeepInv

LEMMA DeepOfWork ==
  ASSUME QueueInv, DeepInv, RowTypes', QueueTypes', Work, status # "failed"
  PROVE  DeepInv'
<1> USE DEF QueueInv, SessionInv, TablesInv
<1>1. ASSUME NEW c \in Cvs, NEW outcome \in {"scored", "failed"}, AnalyseCv(c, outcome) PROVE DeepInv'
  <2>1. /\ Deepening /\ c \in worker.left /\ worker' = [worker EXCEPT !.left = worker.left \ {c}]
        /\ deep' = [deep EXCEPT ![c] = IF c \in Present THEN outcome ELSE deep[c]]
        /\ UNCHANGED <<parse, rank, frontier, batches>>
    BY <1>1 DEF AnalyseCv, Deepening, IsDeep
  <2>2. deep[c] = "running" /\ c \in Present
    BY <2>1 DEF ClaimsInv, InRange, Present
  <2>3. \A e \in Cvs : deep'[e] = IF e = c THEN outcome ELSE deep[e]
    BY <2>1, <2>2 DEF RowTypes
  <2>4. worker'.batch = worker.batch /\ worker'.left = worker.left \ {c}
    BY <2>1 DEF QueueTypes
  <2>5. Settled(c)' /\ \A e \in Cvs : Settled(e) => Settled(e)'
    BY <2>3 DEF Settled
  <2>6. \A e \in Cvs : deep'[e] # "pending" => deep[e] # "pending"
    BY <2>2, <2>3
  <2>7. LadderInv' /\ PassedInv'
    BY <2>1, <2>5, <2>6, LadderStays DEF DeepInv, KeysStay, Open
  <2>8. RangeInv'
    BY <2>1, <2>4, <2>5, RangeStays DEF DeepInv, KeysStay, Open
  <2> QED BY <2>7, <2>8 DEF DeepInv
<1>2. CASE FinishDeep
  <2>1. /\ worker.batch # 0 /\ IsDeep(Running) /\ worker.left = {} /\ worker' = Idle
        /\ frontier' = Further(frontier, Running.to) /\ batches' = Ended(batches, "done")
        /\ UNCHANGED <<parse, rank, deep>>
    BY <1>2 DEF FinishDeep, IsDeep, cvs
  <2>2. PICK w \in {worker.batch} : TRUE
    OBVIOUS
  <2>3. /\ w \in OpenDeep /\ \A i \in OpenDeep : w <= i
        /\ Running = batches[w].key /\ Deepening /\ batches[w].key.to \in Nat
    BY <2>1, <2>2, DeepeningFacts, RunningFacts
  <2>4. /\ KeysStay /\ DOMAIN batches' = DOMAIN batches /\ batches'[w].state = "done"
        /\ \A i \in DOMAIN batches : i # w => batches'[i] = batches[i]
    BY <2>1, <2>2, EndingAlone
  <2>5. ~Open(w)' /\ \A c \in Cvs : Settled(c) => Settled(c)'
    BY <2>1, <2>4 DEF Open, Settled
  <2>6. \A c \in InRange(batches[w].key) : Settled(c)' \/ \E j \in OpenDeep \ {w} : Covers(batches[j].key, rank[c])
    <3>1. \A c \in InRange(batches[w].key) : c \in Cvs
      BY DEF InRange
    <3> QED BY <2>1, <2>2, <2>3, <2>5, <3>1 DEF DeepInv, RangeInv
  <2>7. frontier <= frontier' /\ batches[w].key.to <= frontier' /\ (frontier' = frontier \/ frontier' <= batches[w].key.to)
    BY <2>1, <2>3 DEF Further, RowTypes
  <2>8. LadderInv' /\ PassedInv'
    BY <2>1, <2>3, <2>4, <2>5, <2>6, <2>7, LadderMoves DEF DeepInv
  <2>9. RangeInv'
    BY <2>1 DEF RangeInv, Deepening, Idle
  <2> QED BY <2>8, <2>9 DEF DeepInv
<1> QED
  BY <1>1, <1>2, DeepOfReading, DeepOfRanking, DeepOfClaim, DeepOfNothing DEF Work, ClaimOnFailed

(* Analyses in progress are released; their range stays owed. *)
LEMMA DeepReleased ==
  ASSUME QueueInv, DeepInv, RowTypes', QueueTypes', UNCHANGED <<rank, frontier, parse>>, KeysStay,
         DOMAIN batches' = DOMAIN batches, worker' = Idle,
         \A i \in DOMAIN batches : IsDeep(batches[i].key) => (Open(i)' <=> Open(i)),
         \A c \in Cvs : deep'[c] = deep[c] \/ (deep[c] = "running" /\ deep'[c] = "pending")
  PROVE  DeepInv'
<1> USE DEF QueueInv, SessionInv, TablesInv
<1>1. \A c \in Cvs : Settled(c) => Settled(c)'
  BY DEF Settled
<1>2. LadderInv' /\ PassedInv'
  BY <1>1, LadderStays DEF DeepInv
<1>3. RangeInv'
  BY DEF RangeInv, Deepening, Idle
<1> QED
  BY <1>2, <1>3 DEF DeepInv

(* A range fails for good: its CVs are marked, and the cursor passes. *)
LEMMA DeepOfRangeFails ==
  ASSUME QueueInv, DeepInv, RowTypes', QueueTypes', RangeFails
  PROVE  DeepInv'
<1> USE DEF QueueInv, SessionInv, TablesInv
<1>1. /\ worker.batch # 0 /\ worker' = Idle /\ batches' = Ended(batches, "failed")
      /\ frontier' = Further(frontier, Running.to) /\ UNCHANGED <<parse, rank>>
      /\ deep' = [c \in Cvs |-> IF c \in InRange(Running) /\ Released[c] = "pending"
                                THEN "failed" ELSE Released[c]]
  BY DEF RangeFails
<1>2. IsDeep(Running)
  BY <1>1, RunningFacts DEF RangeFails, Reading, IsDeep, Keys
<1>3. PICK w \in {worker.batch} : TRUE
  OBVIOUS
<1>4. /\ w \in OpenDeep /\ \A i \in OpenDeep : w <= i
      /\ Running = batches[w].key /\ Deepening /\ batches[w].key.to \in Nat
  BY <1>1, <1>2, <1>3, DeepeningFacts, RunningFacts
<1>5. /\ KeysStay /\ DOMAIN batches' = DOMAIN batches /\ batches'[w].state = "failed"
      /\ \A i \in DOMAIN batches : i # w => batches'[i] = batches[i]
  BY <1>1, <1>3, EndingAlone
<1>6. /\ \A c \in Cvs : deep[c] = "running" <=> c \in worker.left
      /\ \A c \in InRange(Running) : c \in Cvs
  BY <1>4 DEF ClaimsInv, QueueTypes, InRange
<1>7. \A c \in Cvs : Released[c] = IF c \in worker.left THEN "pending" ELSE deep[c]
  BY <1>6 DEF Released
<1>8. \A c \in Cvs : deep'[c] = IF c \in InRange(Running) /\ Released[c] = "pending"
                                THEN "failed" ELSE Released[c]
  BY <1>1
<1>9. \A c \in Cvs : Settled(c) => Settled(c)'
  BY <1>6, <1>7, <1>8 DEF Settled
<1>10. \A c \in InRange(Running) : c \in worker.left => Settled(c)'
  BY <1>6, <1>7, <1>8 DEF Settled
<1>11. ~Open(w)'
  BY <1>5 DEF Open
<1>12. \A c \in InRange(batches[w].key) : Settled(c)' \/ \E j \in OpenDeep \ {w} : Covers(batches[j].key, rank[c])
  BY <1>3, <1>4, <1>6, <1>9, <1>10 DEF DeepInv, RangeInv
<1>13. frontier <= frontier' /\ batches[w].key.to <= frontier' /\ (frontier' = frontier \/ frontier' <= batches[w].key.to)
  BY <1>1, <1>4 DEF Further, RowTypes
<1>14. \A c \in Cvs : deep'[c] # "pending" /\ rank[c] > frontier' => deep[c] # "pending"
  <2>1. \A c \in InRange(Running) : rank[c] <= batches[w].key.to
    BY <1>4 DEF InRange
  <2>2. \A c \in Cvs : rank[c] > frontier' => c \notin InRange(Running)
    BY <1>4, <1>13, <2>1 DEF RowTypes
  <2> QED BY <1>6, <1>7, <1>8, <2>2
<1>15. LadderInv' /\ PassedInv'
  BY <1>1, <1>4, <1>5, <1>9, <1>11, <1>12, <1>13, <1>14, LadderMoves DEF DeepInv
<1>16. RangeInv'
  BY <1>1 DEF RangeInv, Deepening, Idle
<1> QED
  BY <1>15, <1>16 DEF DeepInv

LEMMA DeepOfFailures ==
  ASSUME QueueInv, DeepInv, RowTypes', QueueTypes', Failures \/ Restart, status' # "failed"
  PROVE  DeepInv'
<1> USE DEF QueueInv, SessionInv, TablesInv
<1>1. CASE BatchRetried
  <2>1. /\ worker.batch # 0 /\ batches' = Ended(batches, "queued") /\ worker' = Idle
        /\ UNCHANGED <<rank, frontier, parse>> /\ deep' = Released
    BY <1>1 DEF BatchRetried
  <2>2. /\ KeysStay /\ DOMAIN batches' = DOMAIN batches
        /\ \A i \in DOMAIN batches : Open(i)' <=> Open(i)
    BY <2>1, EndingAlone DEF Open
  <2> QED BY <2>1, <2>2, DeepReleased DEF Released
<1>2. CASE Restart
  <2>1. Resume(batches) /\ worker' = Idle /\ UNCHANGED <<rank, frontier, parse>>
        /\ deep' = [c \in Cvs |-> IF deep[c] = "running" THEN "pending" ELSE deep[c]]
    BY <1>2 DEF Restart, Resume
  <2>2. /\ KeysStay /\ DOMAIN batches' = DOMAIN batches
        /\ \A i \in DOMAIN batches : Open(i)' <=> Open(i)
    BY <2>1, ResumeKeepsQueue DEF Open
  <2> QED BY <2>1, <2>2, DeepReleased
<1>3. CASE DeliveryFails
  <2>1. /\ worker.batch # 0 /\ ~IsDeep(Running) /\ batches' = Ended(batches, "failed") /\ worker' = Idle
        /\ UNCHANGED <<rank, frontier, deep>>
        /\ \A c \in Cvs : parse'[c] = "parsed" => parse[c] = "parsed"
    BY <1>3 DEF DeliveryFails, Reading, IsDeep
  <2>2. /\ KeysStay /\ DOMAIN batches' = DOMAIN batches
        /\ \A i \in DOMAIN batches : i # worker.batch => batches'[i] = batches[i]
    BY <2>1, EndingAlone
  <2> QED BY <2>1, <2>2, DeepOfOthers
<1> QED
  BY <1>1, <1>2, <1>3, DeepOfRangeFails DEF Failures, SessionFails

LEMMA DeepStep ==
  ASSUME QueueInv, [NextKept]_triageVars, status' # "failed"
  PROVE  DeepInv'
<1> USE DEF QueueInv, SessionInv, TablesInv
<1>1. status # "failed"
  BY StepRests DEF Next
<1>2. DeepInv
  BY <1>1 DEF DeepInv
<1>3. RowTypes' /\ QueueTypes'
  BY StepKeepsSession DEF Next
<1>4. CASE UNCHANGED triageVars
  BY <1>2, <1>3, <1>4, DeepAside DEF triageVars, cvs, KeysStay, Open
<1> QED
  BY <1>1, <1>2, <1>3, <1>4, DeepOfRoutes, DeepOfWork, DeepOfFailures DEF NextKept

-----------------------------------------------------------------------------
(* The invariant of a session nobody removes a CV from.                      *)

LEMMA QueueBegins == Init => QueueInv
<1> SUFFICES ASSUME Init PROVE QueueInv
  OBVIOUS
<1>1. SessionInv
  BY SessionBegins
<1>2. Top(rank) = 0 /\ \A c \in Cvs : rank[c] = 0
  <2>1. \A c \in Cvs : rank[c] = 0
    BY DEF Init
  <2>2. Top(rank) \in {rank[c] : c \in Cvs} \cup {0}
    <3>1. rank \in [Cvs -> Nat]
      BY DEF Init
    <3> QED BY <3>1, TopIsHighest
  <2> QED BY <2>1, <2>2
<1>3. RowsInv
  BY DEF Init, RowsInv
<1>4. ReadingInv
  BY DEF Init, ReadingInv, Idle, PaidWorkIsQueued
<1>5. RungsInv /\ RoundsInv
  BY <1>2 DEF Init, RungsInv, RoundsInv
<1>6. ClaimsInv
  BY DEF Init, ClaimsInv, Deepening, Idle
<1>7. LadderInv /\ RangeInv /\ PassedInv
  BY DEF Init, LadderInv, RangeInv, PassedInv, Deepening, Idle, OpenDeep
<1> QED
  BY <1>1, <1>3, <1>4, <1>5, <1>6, <1>7 DEF QueueInv

LEMMA QueueInvariant == SpecKept => []QueueInv
<1>1. ASSUME QueueInv, [NextKept]_triageVars PROVE QueueInv'
  <2>1. SessionInv'
    BY <1>1, StepKeepsSession DEF QueueInv, Next
  <2>2. RowsInv' /\ ReadingInv' /\ RungsInv' /\ RoundsInv' /\ ClaimsInv'
    BY <1>1, RowsStep, ReadingStep, RungsStep, ClaimsStep
  <2>3. status' # "failed" => LadderInv' /\ RangeInv' /\ PassedInv'
    BY <1>1, DeepStep DEF DeepInv
  <2> QED BY <2>1, <2>2, <2>3 DEF QueueInv
<1> QED
  BY <1>1, QueueBegins, PTL DEF SpecKept

(* What the invariant says of the cursor. *)
LEMMA NobodyLeftBehind ==
  ASSUME QueueInv
  PROVE  NobodyIsPassed
<1> SUFFICES ASSUME status # "failed", NEW c \in Cvs,
                    parse[c] = "parsed", rank[c] # 0, rank[c] <= frontier
             PROVE  \/ deep[c] \in {"scored", "failed"}
                    \/ \E key \in Owed : /\ key.kind \in {"initial", "rolling"}
                                         /\ key.from <= rank[c] /\ rank[c] <= key.to
  BY DEF NobodyIsPassed
<1>1. Settled(c) \/ \E j \in OpenDeep : Covers(batches[j].key, rank[c])
  BY DEF QueueInv, PassedInv
<1>2. ASSUME NEW j \in OpenDeep, Covers(batches[j].key, rank[c])
      PROVE  batches[j].key \in Owed /\ batches[j].key.kind \in {"initial", "rolling"}
  BY <1>2 DEF OpenDeep, Owed, IsDeep
<1> QED
  BY <1>1, <1>2 DEF Settled, Covers

(* And of the ladder: a range that was asked for and ended is below the cursor. *)
LEMMA LadderGoesOn ==
  ASSUME QueueInv
  PROVE  LadderIsOpen
<1> USE DEF QueueInv, SessionInv, TablesInv
<1> SUFFICES ASSUME Quiet, status # "failed", frontier < Top(rank), NEW i \in DOMAIN batches,
                    batches[i].key = Key("rolling", OfSession, frontier + 1,
                                         Nearer(frontier + Tranche, Top(rank)), <<>>)
             PROVE  FALSE
  BY DEF LadderIsOpen
<1>1. IsDeep(batches[i].key) /\ batches[i].key.to = Nearer(frontier + Tranche, Top(rank))
  BY DEF Key, IsDeep
<1>2. ~Open(i)
  <2>1. batches[i].state # "queued"
    BY DEF Quiet, Queued
  <2>2. worker.batch = 0 /\ 0 \notin DOMAIN batches
    BY DEF Quiet, Idle, QueueTypes
  <2> QED BY <2>1, <2>2 DEF Open, OneAtATime
<1>3. batches[i].key.to <= frontier
  BY <1>1, <1>2 DEF LadderInv
<1> QED
  BY <1>1, <1>3, TopIsHighest, TriageAssumption DEF Nearer, RowTypes

(* A session nobody removes a CV from, at every moment: no capacity is minted or lost, a
   CV that was paid for has a batch that will read it, the cursor passes nobody who is
   neither analysed nor owed an analysis, and a scroll on a quiet session with ranks left
   asks for work that is new.  For any number of CVs, deliveries, attempts and restarts. *)
THEOREM QueueStaysSound == SpecKept => []QueueIsSound
<1>1. ASSUME QueueInv PROVE QueueIsSound
  <2> USE <1>1 DEF QueueInv, SessionInv, TablesInv
  <2>1. TypeOK
    <3>1. \A i \in DOMAIN batches : batches[i] \in BatchRows
      BY DEF QueueTypes
    <3> QED BY <3>1 DEF TypeOK, RowTypes, QueueTypes, MoneyInv, BatchRows, States, Statuses,
                        ParseStates, DeepStates
  <2>2. Books
    BY KeptIsTheSum DEF Books, MoneyInv
  <2>3. PaidWorkIsQueued
    BY DEF ReadingInv
  <2>4. NobodyIsPassed /\ LadderIsOpen
    BY NobodyLeftBehind, LadderGoesOn
  <2> QED BY <2>1, <2>2, <2>3, <2>4 DEF QueueIsSound
<1> QED
  BY <1>1, QueueInvariant, PTL

-----------------------------------------------------------------------------
(* Nobody is hidden, whoever is removed.                                     *)

(* What is read was paid for. *)
ReadsPaid == \A i \in DOMAIN batches : Reads(batches[i].key) => Charged(batches[i].key.drop)

LEMMA ChargesRemain ==
  ASSUME SessionInv, [Next]_triageVars, NEW d \in Drops, Charged(d)
  PROVE  Charged(d)'
<1>1. CASE \E c \in Cvs : RemoveApplicant(c)
  BY <1>1 DEF RemoveApplicant, money, Charged
<1> QED
  BY <1>1, ChargesStay DEF Next

(* No step forgets a batch, and what a step asks to be read was paid for. *)
Paying ==
    /\ KeysStay
    /\ \A i \in DOMAIN batches' \ DOMAIN batches :
         Reads(batches'[i].key) => bill'[batches'[i].key.drop].charged > 0

LEMMA QueueOfStep ==
  ASSUME SessionInv, ReadsPaid, [Next]_triageVars
  PROVE  Paying
<1> USE DEF SessionInv, TablesInv
<1>1. ASSUME DOMAIN batches' = DOMAIN batches, KeysStay PROVE Paying
  BY <1>1 DEF Paying
<1>2. ASSUME UNCHANGED batches PROVE Paying
  BY <1>2 DEF KeysStay, Paying
<1>3. ASSUME NEW d \in Drops, StartProcessing(d), bill'[d].charged > 0, UNCHANGED worker
      PROVE Paying
  <2>1. KeysStay /\ Extended(batches', batches, {Key("parse", d, 0, 0, <<>>)})
    BY <1>3, StartingKeepsQueue
  <2>2. Key("parse", d, 0, 0, <<>>).drop = d
    BY DEF Key
  <2> QED BY <1>3, <2>1, <2>2 DEF Extended, Paying
<1>4. CASE Launch
  <2>1. 1 \in Drops /\ Cardinality(DraftPile) \in 1..MaxCvs /\ ~Charged(1)
        /\ Charge(1, Cardinality(DraftPile)) /\ StartProcessing(1) /\ UNCHANGED worker
    BY <1>4, DraftSize DEF Launch, Launched
  <2>2. bill'[1] = [charged |-> Cardinality(DraftPile), refunded |-> 0]
    BY <2>1, ChargeKeepsMoney
  <2>3. bill'[1].charged > 0
    BY <2>1, <2>2
  <2> QED BY <1>3, <2>1, <2>3
<1>5. CASE \E d \in Drops : ChargeAdded(d)
  <2>1. PICK d \in Drops : ChargeAdded(d)
    BY <1>5
  <2>2. ~Charged(d) /\ Cardinality(RowsOf(d)) \in 1..MaxCvs
        /\ Charge(d, Cardinality(RowsOf(d))) /\ StartProcessing(d) /\ UNCHANGED worker
    BY <2>1, PileSize DEF ChargeAdded, PilesInv
  <2>3. bill'[d] = [charged |-> Cardinality(RowsOf(d)), refunded |-> 0]
    BY <2>2, ChargeKeepsMoney
  <2>4. bill'[d].charged > 0
    BY <2>2, <2>3
  <2> QED BY <1>3, <2>2, <2>4
<1>6. CASE RequestNextTranche
  <2>1. \A i \in DOMAIN batches' \ DOMAIN batches : batches'[i].key = TrancheKey
    BY <1>6, TrancheAsks DEF Extended
  <2> QED BY <1>6, <2>1, TrancheAsks DEF Reads, Paying
<1>7. CASE RequeueFailedAnalyses
  <2>1. Extended(batches', batches, {Band(from) : from \in Bands}) /\ FailedRanks # {}
    BY <1>7, RequeueExtends DEF RequeueFailedAnalyses
  <2>2. \A from \in Bands : Band(from).kind = "rolling"
    BY <2>1, BandFacts
  <2>3. KeysStay /\ \A i \in DOMAIN batches' \ DOMAIN batches : batches'[i].key.kind = "rolling"
    BY <2>1, <2>2 DEF Extended, KeysStay
  <2> QED BY <2>3 DEF Reads, Paying
<1>8. CASE ClaimOnFailed \/ ClaimParse \/ ClaimPreliminary \/ ClaimDeep \/ NothingToAnalyse
  <2>1. ASSUME NEW kinds, NEW state \in States, Claim(kinds, state) PROVE Paying
    BY <1>1, <2>1, ClaimTakesTheOldest
  <2> QED BY <1>8, <2>1 DEF ClaimOnFailed, ClaimParse, ClaimPreliminary, ClaimDeep, NothingToAnalyse, States
<1>9. CASE FinishDeep \/ Failures
  <2>1. PICK state \in {"queued", "done", "failed"} :
           worker.batch # 0 /\ batches' = Ended(batches, state) /\ worker' = Idle
    BY <1>9 DEF FinishDeep, Failures, BatchRetried, SessionFails, DeliveryFails, RangeFails
  <2> QED BY <1>1, <2>1, EndingAlone
<1>10. CASE FinishParse
  <2> DEFINE key == Key("preliminary", Running.drop, 0, 0, <<>>)
  <2>1. key \in Keys /\ key.kind # "parse" /\ key.drop = Running.drop
    BY <1>10, RunningFacts DEF FinishParse, Key, Keys
  <2>2. worker.batch # 0 /\ batches' = Ended(Enqueue(batches, key), "done") /\ worker' = Idle
    BY <1>10 DEF FinishParse
  <2> HIDE DEF key
  <2>3. KeysStay /\ \A i \in DOMAIN batches' \ DOMAIN batches : batches'[i].key = key
    BY <2>1, <2>2, EndingWithWork
  <2>4. PICK d \in Drops : d = Running.drop
    BY <1>10, RunningFacts DEF FinishParse
  <2>5. Charged(d)
    BY <1>10, <2>4, RunningFacts DEF FinishParse, ReadsPaid, Reads, Running
  <2>6. Charged(d)'
    BY <2>5, ChargesRemain
  <2>7. bill'[d].charged > 0
    BY <2>6 DEF Charged
  <2> QED BY <2>1, <2>3, <2>4, <2>7 DEF Paying
<1>11. CASE \E order \in Orders : RankCvs(order)
  BY <1>11, RankingAsks DEF IsDeep, Reads, Paying
<1>12. CASE Restart
  BY <1>1, <1>12, ResumeKeepsQueue DEF Restart
<1>13. CASE \E c \in Cvs : RemoveApplicant(c)
  <2>1. ASSUME NEW n \in Nat,
               batches' = Enqueue(batches, Key("preliminary", OfSession, 0, 0, <<"promote", n>>))
        PROVE  Paying
    <3> DEFINE key == Key("preliminary", OfSession, 0, 0, <<"promote", n>>)
    <3>1. key \in Keys /\ key.kind = "preliminary" /\ key.drop = OfSession
      BY DEF Key, Keys
    <3>2. batches' = Enqueue(batches, key) /\ batches \in Seq(BatchRows)
      BY <2>1 DEF QueueTypes
    <3> HIDE DEF key
    <3>3. Extended(batches', batches, {key})
      BY <3>1, <3>2, EnqueueExtends
    <3>4. KeysStay /\ \A i \in DOMAIN batches' \ DOMAIN batches : ~Reads(batches'[i].key)
      BY <3>1, <3>3 DEF Extended, KeysStay, Reads
    <3> QED BY <3>4 DEF Paying
  <2> QED BY <1>2, <1>13, <2>1, RemovalFacts
<1>14. CASE UNCHANGED triageVars \/ Upload \/ (\E n \in 1..MaxCvs : AddCvs(n)) \/ (\E d \in Drops : RefuseAdded(d))
            \/ (\E c \in Cvs, outcome \in {"parsed", "failed"} : ReadCv(c, outcome))
            \/ (\E c \in Cvs, outcome \in {"scored", "failed"} : AnalyseCv(c, outcome))
  BY <1>2, <1>14 DEF triageVars, Upload, AddCvs, RefuseAdded, ReadCv, AnalyseCv
<1> QED
  BY <1>4, <1>5, <1>6, <1>7, <1>8, <1>9, <1>10, <1>11, <1>12, <1>13, <1>14
     DEF Next, NextKept, Routes, Work

LEMMA ReadsStayPaid ==
  ASSUME SessionInv, ReadsPaid, [Next]_triageVars
  PROVE  ReadsPaid'
<1>1. ASSUME NEW i \in DOMAIN batches, Reads(batches'[i].key) PROVE bill'[batches'[i].key.drop].charged > 0
  <2>1. batches'[i].key = batches[i].key
    BY QueueOfStep DEF Paying, KeysStay
  <2>2. batches[i].key.drop \in Drops /\ Charged(batches[i].key.drop)
    BY <1>1, <2>1, ReadsDrops DEF SessionInv, TablesInv, ReadsPaid
  <2>3. PICK d \in Drops : d = batches[i].key.drop
    BY <2>2
  <2>4. Charged(d)'
    BY <2>2, <2>3, ChargesRemain
  <2> QED BY <2>1, <2>3, <2>4 DEF Charged
<1> QED
  BY <1>1, QueueOfStep DEF ReadsPaid, Charged, Paying

Unread(c) == parse[c] \in {"pending", "absent"}

(* Nothing is known of a CV that is being added or waits to be read. *)
WaitingInv ==
    /\ \A c \in Cvs : drop[c] = 0 => parse[c] = "absent"
    /\ \A d \in adding : \A c \in RowsOf(d) : Unread(c)
    /\ worker.batch # 0 /\ Running.kind = "parse" =>
        \A c \in worker.left : drop[c] = Running.drop /\ Unread(c)

HiddenInv == SessionInv /\ ReadsPaid /\ WaitingInv /\ NobodyIsHidden

(* Steps that read nothing; what is read next was waiting. *)
LEMMA WaitingFrame ==
  ASSUME HiddenInv, [Next]_triageVars, UNCHANGED drop, adding' \subseteq adding,
         \A c \in Cvs : parse'[c] = parse[c] \/ (Unread(c) /\ parse'[c] = "absent"),
         worker' = worker \/ worker' = Idle \/ Running'.kind # "parse"
           \/ \A c \in worker'.left : drop[c] = Running'.drop /\ Unread(c)'
  PROVE  WaitingInv' /\ NobodyIsHidden'
<1> USE DEF HiddenInv, SessionInv, TablesInv
<1>1. SessionInv' /\ KeysStay
  BY StepKeepsSession, QueueOfStep DEF Paying
<1>2. \A c \in Cvs : Unread(c) => Unread(c)'
  BY DEF Unread
<1>3. \A c \in Cvs : drop'[c] = 0 => parse'[c] = "absent"
  <2> SUFFICES ASSUME NEW c \in Cvs, drop[c] = 0 PROVE parse'[c] = "absent"
    OBVIOUS
  <2>1. parse[c] = "absent"
    BY DEF WaitingInv
  <2> QED BY <1>1, <2>1 DEF WaitingInv, Unread
<1>4. \A d \in adding' : \A c \in RowsOf(d)' : Unread(c)'
  BY <1>2 DEF WaitingInv, RowsOf
<1>5. worker'.batch # 0 /\ Running'.kind = "parse" =>
        \A c \in worker'.left : drop'[c] = Running'.drop /\ Unread(c)'
  <2>1. CASE worker' = worker
    <3>1. worker.batch # 0 => Running' = Running
      BY <1>1, <2>1 DEF Running, KeysStay, QueueTypes
    <3>2. worker.left \subseteq Cvs
      BY DEF QueueTypes
    <3> QED BY <1>2, <2>1, <3>1, <3>2 DEF WaitingInv
  <2>2. CASE worker' = Idle
    BY <2>2 DEF Idle
  <2> QED BY <2>1, <2>2
<1>6. NobodyIsHidden'
  BY DEF NobodyIsHidden, Unread
<1> QED
  BY <1>3, <1>4, <1>5, <1>6 DEF WaitingInv

(* Rows are added. *)
LEMMA WaitingAdded ==
  ASSUME HiddenInv, [Next]_triageVars, NEW n \in 1..MaxCvs, NEW d \in Drops, AddRows(n, d),
         (adding' = adding /\ d \notin adding) \/ (adding' = adding \cup {d} /\ RowsOf(d) = {}),
         UNCHANGED <<worker, batches>>
  PROVE  WaitingInv' /\ NobodyIsHidden'
<1> USE DEF HiddenInv, SessionInv, TablesInv
<1>1. /\ NewRows(n) \in SUBSET Cvs
      /\ \A c \in NewRows(n) : drop[c] = 0 /\ drop'[c] = d /\ parse'[c] = "pending"
      /\ \A c \in Cvs \ NewRows(n) : drop'[c] = drop[c] /\ parse'[c] = parse[c]
  BY AddingRows
<1>2. d # 0 /\ \A c \in NewRows(n) : parse[c] = "absent"
  BY <1>1 DEF WaitingInv, Drops
<1>3. \A c \in Cvs : drop'[c] = 0 => parse'[c] = "absent"
  BY <1>1, <1>2 DEF WaitingInv
<1>4. \A e \in adding' : \A c \in RowsOf(e)' : Unread(c)'
  BY <1>1, <1>2 DEF WaitingInv, RowsOf, Unread
<1>5. worker'.batch # 0 /\ Running'.kind = "parse" =>
        \A c \in worker'.left : drop'[c] = Running'.drop /\ Unread(c)'
  <2>1. Running' = Running
    BY DEF Running
  <2>2. worker.left \subseteq Cvs
    BY DEF QueueTypes
  <2>3. worker.batch # 0 /\ Running.kind = "parse" => Running.drop \in Drops /\ 0 \notin Drops
    BY RunningFacts DEF Drops
  <2> QED BY <1>1, <2>1, <2>2, <2>3 DEF WaitingInv, Unread
<1>6. NobodyIsHidden'
  BY <1>1, <1>2 DEF NobodyIsHidden
<1> QED
  BY <1>3, <1>4, <1>5, <1>6 DEF WaitingInv

(* What is decided of the versions: the newest of a person is the current one. *)
LEMMA NewestIsCurrent ==
  ASSUME NEW c \in Versions
  PROVE  \E e \in Versions : Person[e] = Person[c] /\ Resolved[e] = "parsed"
<1> DEFINE theirs == {e \in Versions : Person[e] = Person[c]}
<1>1. theirs \in SUBSET Cvs /\ theirs # {}
  BY DEF Versions
<1>2. IsFiniteSet(theirs) /\ theirs \subseteq Int
  BY <1>1, SizeOfAPile DEF Cvs
<1>3. Max(theirs) \in theirs /\ \A e \in theirs : e <= Max(theirs)
  <2> HIDE DEF theirs
  <2> QED BY <1>1, <1>2, MaxIsGreatest
<1>4. PICK m \in theirs : \A e \in theirs : e <= m
  BY <1>3
<1>5. \A e \in Versions : Person[e] = Person[m] => ~(e > m)
  BY <1>2, <1>4
<1>6. m \in Cvs /\ m \in Versions /\ Person[m] = Person[c]
  BY <1>1
<1> QED
  BY <1>5, <1>6 DEF Resolved

LEMMA WaitingRead ==
  ASSUME HiddenInv, [Next]_triageVars,
         (\E c \in Cvs, outcome \in {"parsed", "failed"} : ReadCv(c, outcome)) \/ FinishParse
  PROVE  WaitingInv' /\ NobodyIsHidden'
<1> USE DEF HiddenInv, SessionInv, TablesInv
<1>0. worker.batch # 0 /\ Running.kind = "parse" => Running.drop \in Drops /\ Running.drop \notin adding
  <2>1. ASSUME worker.batch # 0, Running.kind = "parse" PROVE Running.drop \in Drops /\ Charged(Running.drop)
    BY <2>1, RunningFacts DEF ReadsPaid, Reads, Running
  <2> QED BY <2>1 DEF PilesInv
<1>1. ASSUME NEW c \in Cvs, NEW outcome \in {"parsed", "failed"}, ReadCv(c, outcome)
      PROVE  WaitingInv' /\ NobodyIsHidden'
  <2>1. /\ worker.batch # 0 /\ Running.kind = "parse" /\ c \in worker.left
        /\ parse' = [parse EXCEPT ![c] = IF parse[c] = "absent" THEN parse[c] ELSE outcome]
        /\ worker'.batch = worker.batch /\ worker'.left = worker.left \ {c} /\ worker.left \subseteq Cvs
        /\ UNCHANGED <<drop, batches, adding>>
    BY <1>1 DEF ReadCv, QueueTypes
  <2>2. /\ Unread(c) /\ drop[c] = Running.drop
        /\ \A e \in worker.left : drop[e] = Running.drop /\ Unread(e)
    BY <2>1 DEF WaitingInv
  <2>3. \A e \in Cvs : e # c => parse'[e] = parse[e]
    BY <2>1 DEF RowTypes
  <2>4. Running' = Running
    BY <2>1 DEF Running
  <2>5. WaitingInv'
    <3>1. \A e \in Cvs : drop'[e] = 0 => parse'[e] = "absent"
      BY <1>0, <2>1, <2>2, <2>3 DEF WaitingInv, Drops
    <3>2. \A d \in adding' : \A e \in RowsOf(d)' : Unread(e)'
      BY <1>0, <2>1, <2>2, <2>3 DEF WaitingInv, RowsOf, Unread
    <3>3. \A e \in worker'.left : drop'[e] = Running'.drop /\ Unread(e)'
      BY <2>1, <2>2, <2>3, <2>4 DEF Unread
    <3> QED BY <3>1, <3>2, <3>3 DEF WaitingInv
  <2>6. NobodyIsHidden'
    <3>1. parse[c] # "parsed" /\ parse'[c] # "duplicate"
      BY <2>1, <2>2 DEF Unread, RowTypes
    <3> QED BY <2>3, <3>1 DEF NobodyIsHidden
  <2> QED BY <2>5, <2>6
<1>2. CASE FinishParse
  <2>1. worker' = Idle /\ parse' = Resolved /\ UNCHANGED <<drop, adding>>
    BY <1>2 DEF FinishParse
  <2>2. \A c \in Cvs : c \notin Versions => parse'[c] = parse[c]
    BY <2>1 DEF Resolved
  <2>3. \A c \in Cvs : Unread(c) => c \notin Versions
    BY DEF Unread, Versions
  <2>4. WaitingInv'
    <3>1. \A e \in Cvs : drop'[e] = 0 => parse'[e] = "absent"
      BY <2>1, <2>2 DEF WaitingInv, Versions
    <3>2. \A d \in adding' : \A e \in RowsOf(d)' : Unread(e)'
      BY <2>1, <2>2, <2>3 DEF WaitingInv, RowsOf, Unread
    <3>3. worker'.batch = 0
      BY <2>1 DEF Idle
    <3> QED BY <3>1, <3>2, <3>3 DEF WaitingInv
  <2>5. NobodyIsHidden'
    <3> SUFFICES ASSUME NEW c \in Cvs, parse'[c] = "duplicate"
                 PROVE  \E e \in Cvs : parse'[e] = "parsed" /\ Person[e] = Person[c]
      BY DEF NobodyIsHidden
    <3>1. c \in Versions
      BY <2>2 DEF Versions
    <3> QED BY <2>1, <3>1, NewestIsCurrent DEF Versions
  <2> QED BY <2>4, <2>5
<1> QED
  BY <1>1, <1>2

LEMMA WaitingRemoved ==
  ASSUME HiddenInv, [Next]_triageVars, NEW c \in Cvs, RemoveApplicant(c),
         \A a, b \in Cvs : Person[a] = Person[b] => Address[a] = Address[b]
  PROVE  WaitingInv' /\ NobodyIsHidden'
<1> USE DEF HiddenInv, SessionInv, TablesInv
<1>1. /\ Heirs(c) # {} => Max(Heirs(c)) \in Heirs(c)
      /\ parse' = [e \in Cvs |-> IF Heirs(c) # {} /\ e = Max(Heirs(c)) THEN "parsed"
                                 ELSE IF e = c THEN "absent" ELSE parse[e]]
      /\ UNCHANGED <<drop, worker, adding>>
  BY RemovalFacts
<1>2. \A e \in Heirs(c) : /\ parse[c] = "parsed" /\ parse[e] = "duplicate" /\ e \in Cvs
                          /\ Address[e] = Address[c] /\ Person[e] = Person[c]
  BY TriageAssumption DEF Heirs
<1>3. PICK heir : heir = Max(Heirs(c))
  OBVIOUS
<1>4. /\ \A e \in Cvs : parse'[e] = IF Heirs(c) # {} /\ e = heir THEN "parsed"
                                    ELSE IF e = c THEN "absent" ELSE parse[e]
      /\ Heirs(c) # {} => heir \in Heirs(c)
  BY <1>1, <1>3
<1>5. \A e \in Cvs : Unread(e) => Unread(e)' /\ (parse[e] = "absent" => parse'[e] = "absent")
  BY <1>2, <1>4 DEF Unread
<1>6. WaitingInv'
  <2>1. KeysStay /\ worker.left \subseteq Cvs
    BY QueueOfStep DEF Paying, QueueTypes
  <2>2. worker'.batch # 0 => Running' = Running
    BY <1>1, <2>1 DEF Running, KeysStay, QueueTypes
  <2>3. \A e \in Cvs : drop'[e] = 0 => parse'[e] = "absent"
    BY <1>1, <1>5 DEF WaitingInv, Unread
  <2>4. \A d \in adding' : \A e \in RowsOf(d)' : Unread(e)'
    BY <1>1, <1>5 DEF WaitingInv, RowsOf
  <2>5. worker'.batch # 0 /\ Running'.kind = "parse" =>
          \A e \in worker'.left : drop'[e] = Running'.drop /\ Unread(e)'
    BY <1>1, <1>5, <2>1, <2>2 DEF WaitingInv
  <2> QED BY <2>3, <2>4, <2>5 DEF WaitingInv
<1>7. NobodyIsHidden'
  <2> SUFFICES ASSUME NEW b \in Cvs, parse'[b] = "duplicate"
               PROVE  \E e \in Cvs : parse'[e] = "parsed" /\ Person[e] = Person[b]
    BY DEF NobodyIsHidden
  <2>1. parse[b] = "duplicate"
    BY <1>4
  <2>2. PICK e \in Cvs : parse[e] = "parsed" /\ Person[e] = Person[b]
    BY <2>1 DEF NobodyIsHidden
  <2>3. CASE e # c
    BY <1>4, <2>2, <2>3
  <2>4. CASE e = c
    <3>1. b \in Heirs(c)
      BY <2>1, <2>2, <2>4 DEF Heirs
    <3> QED BY <1>2, <1>4, <2>2, <2>4, <3>1
  <2> QED BY <2>3, <2>4
<1> QED
  BY <1>6, <1>7

LEMMA HiddenStep ==
  ASSUME HiddenInv, [Next]_triageVars,
         \A a, b \in Cvs : Person[a] = Person[b] => Address[a] = Address[b]
  PROVE  HiddenInv'
<1> USE DEF HiddenInv, SessionInv, TablesInv
<1>1. SessionInv' /\ ReadsPaid'
  BY StepKeepsSession, ReadsStayPaid
<1>2. CASE Upload
  <2>1. 1 \in Drops /\ 1 \in 1..MaxCvs /\ 1 \notin adding
    <3>1. NewRows(1) \subseteq Cvs /\ NewRows(1) # {}
      <4>1. Cardinality({c \in Cvs : drop[c] # 0}) \in Nat
        BY SizeOfAPile
      <4> QED BY <1>2, <4>1 DEF Upload, AddRows, NewRows
    <3> QED BY <3>1, TriageAssumption DEF Drops, Cvs, PilesInv
  <2>2. PICK n \in 1..MaxCvs, d \in Drops :
           d \notin adding /\ AddRows(n, d) /\ adding' = adding /\ UNCHANGED <<worker, batches>>
    BY <1>2, <2>1 DEF Upload
  <2>3. WaitingInv' /\ NobodyIsHidden'
    BY <2>2, WaitingAdded
  <2> QED BY <1>1, <2>3
<1>3. ASSUME NEW n \in 1..MaxCvs, AddCvs(n) PROVE HiddenInv'
  <2>1. PICK d \in Drops :
            /\ d = Max(Opened \cup {1}) + 1
            /\ AddRows(n, d) /\ adding' = adding \cup {d} /\ UNCHANGED <<worker, batches>>
    BY <1>3 DEF AddCvs
  <2>2. RowsOf(d) = {}
    BY <2>1, FreshDelivery
  <2> QED BY <1>1, <2>1, <2>2, WaitingAdded
<1>4. ASSUME NEW d \in Drops, RefuseAdded(d) PROVE HiddenInv'
  <2>1. /\ d \in adding /\ adding' = adding \ {d} /\ UNCHANGED <<drop, worker>>
        /\ parse' = [c \in Cvs |-> IF c \in RowsOf(d) THEN "absent" ELSE parse[c]]
    BY <1>4 DEF RefuseAdded
  <2>2. \A c \in Cvs : parse'[c] = parse[c] \/ (Unread(c) /\ parse'[c] = "absent")
    BY <2>1 DEF WaitingInv
  <2> QED BY <1>1, <2>1, <2>2, WaitingFrame
<1>5. ASSUME UNCHANGED <<drop, parse>>, adding' \subseteq adding,
             worker' = worker \/ worker' = Idle \/ Running'.kind # "parse"
      PROVE  HiddenInv'
  BY <1>1, <1>5, WaitingFrame
<1>6. CASE Launch \/ (\E d \in Drops : ChargeAdded(d)) \/ RequestNextTranche \/ RequeueFailedAnalyses
           \/ ClaimOnFailed \/ NothingToAnalyse \/ UNCHANGED triageVars
           \/ (\E order \in Orders : RankCvs(order)) \/ FinishDeep
           \/ BatchRetried \/ SessionFails \/ RangeFails \/ Restart
  BY <1>5, <1>6 DEF Launch, ChargeAdded, RequestNextTranche, RequeueFailedAnalyses, ClaimOnFailed, NothingToAnalyse,
       triageVars, RankCvs, FinishDeep, BatchRetried, SessionFails, RangeFails, Restart, Resume, cvs
<1>7. CASE ClaimPreliminary \/ ClaimDeep
  <2>1. PICK kinds \in {{"preliminary"}, {"initial", "rolling"}} : Claim(kinds, "running")
    BY <1>7 DEF ClaimPreliminary, ClaimDeep
  <2>2. batches'[NextBatch].key.kind \in kinds
    BY <2>1, ClaimTakesTheOldest DEF States
  <2>3. Running'.kind # "parse"
    BY <1>7, <2>2 DEF ClaimPreliminary, ClaimDeep, Running
  <2> QED BY <1>5, <1>7, <2>3 DEF ClaimPreliminary, ClaimDeep, cvs
<1>8. CASE ClaimParse
  <2>1. batches'[NextBatch].key = batches[NextBatch].key
    BY <1>8, ClaimTakesTheOldest DEF ClaimParse, States
  <2>2. /\ worker' = [batch |-> NextBatch,
                      left |-> {c \in RowsOf(batches[NextBatch].key.drop) : parse[c] = "pending"}]
        /\ UNCHANGED <<drop, parse, adding>>
    BY <1>8 DEF ClaimParse, cvs
  <2>3. Running' = batches[NextBatch].key
    BY <2>1, <2>2 DEF Running
  <2>4. \A c \in worker'.left : drop[c] = Running'.drop /\ Unread(c)'
    BY <2>2, <2>3 DEF RowsOf, Unread
  <2> QED BY <1>1, <2>2, <2>4, WaitingFrame
<1>9. CASE \E c \in Cvs, outcome \in {"scored", "failed"} : AnalyseCv(c, outcome)
  <2>1. /\ Running.kind # "parse" /\ UNCHANGED <<drop, parse, adding, batches>> /\ worker'.batch = worker.batch
    BY <1>9 DEF AnalyseCv, QueueTypes
  <2>2. Running'.kind # "parse"
    BY <2>1 DEF Running
  <2> QED BY <1>5, <2>1, <2>2
<1>10. CASE DeliveryFails
  <2>1. /\ parse' = [c \in Cvs |-> IF c \in RowsOf(Running.drop) /\ parse[c] = "pending"
                                   THEN "failed" ELSE parse[c]]
        /\ worker' = Idle /\ UNCHANGED <<drop, adding>>
    BY <1>10 DEF DeliveryFails
  <2>2. Running.drop \notin adding
    <3>1. Charged(Running.drop)
      BY <1>10, RunningFacts DEF DeliveryFails, Reading, OpeningPile, ReadsPaid, Running, Reads
    <3> QED BY <3>1 DEF PilesInv
  <2>3. WaitingInv'
    <3>1. \A c \in Cvs : drop'[c] = 0 => parse'[c] = "absent"
      BY <2>1 DEF WaitingInv
    <3>2. \A d \in adding' : \A c \in RowsOf(d)' : Unread(c)'
      BY <2>1, <2>2 DEF WaitingInv, RowsOf, Unread
    <3>3. worker'.batch = 0
      BY <2>1 DEF Idle
    <3> QED BY <3>1, <3>2, <3>3 DEF WaitingInv
  <2>4. NobodyIsHidden'
    BY <2>1 DEF NobodyIsHidden
  <2> QED BY <1>1, <2>3, <2>4
<1> QED
  BY <1>1, <1>2, <1>3, <1>4, <1>6, <1>7, <1>8, <1>9, <1>10, WaitingRead, WaitingRemoved
     DEF Next, NextKept, Routes, Work, Failures

(* Somebody whose CV could be read is in the results, whichever CVs the recruiter removes,
   as long as a person's address is spelled the same way in all of their CVs: a removal
   looks for the older version by the address as it is spelled (removeApplicant). *)
THEOREM NobodyStaysHidden ==
  ASSUME \A a, b \in Cvs : Person[a] = Person[b] => Address[a] = Address[b]
  PROVE  Spec => []NobodyIsHidden
<1>1. Init => HiddenInv
  <2>1. ASSUME Init PROVE ReadsPaid /\ WaitingInv /\ NobodyIsHidden
    BY <2>1 DEF Init, ReadsPaid, WaitingInv, NobodyIsHidden, Idle
  <2> QED BY <2>1, SessionBegins DEF HiddenInv
<1>2. HiddenInv /\ [Next]_triageVars => HiddenInv'
  BY HiddenStep
<1>3. HiddenInv => NobodyIsHidden
  BY DEF HiddenInv
<1> QED
  BY <1>1, <1>2, <1>3, PTL DEF Spec

-----------------------------------------------------------------------------
(* A session of one pile: the process may die anywhere, nobody removes a CV.  *)

Waiting == {c \in Cvs : parse[c] = "pending"}

(* The pile is read, then ranked, then analysed in ranges; a batch of the first two
   that did not do its work has failed the session. *)
StagesInv ==
    /\ \A i \in DOMAIN batches :
        /\ batches[i].key.kind = "parse" <=> i = 1
        /\ batches[i].key.kind = "preliminary" <=> i = 2
        /\ i <= 2 /\ batches[i].state = "failed" => status = "failed"
    /\ Len(batches) # 0 => Charged(1)
    /\ Len(batches) = 1 => batches[1].state # "done"
    /\ Len(batches) > 1 => batches[1].state = "done"
    /\ Len(batches) = 2 /\ batches[2].state = "done" => status = "failed"
    /\ Len(batches) > 2 => batches[2].state = "done"

(* What is known of the CVs at each stage. *)
StageRowsInv ==
    /\ adding = {}
    /\ \A c \in Cvs : parse[c] = "absent" <=> drop[c] = 0
    /\ Charged(1) => bill[1].charged = Cardinality(RowsOf(1))
    /\ Len(batches) = 0 => \A c \in Cvs : parse[c] \in {"absent", "pending"}
    /\ Len(batches) <= 1 => \A c \in Cvs : parse[c] # "duplicate"
    /\ Len(batches) > 1 => Waiting = {}
    /\ Len(batches) <= 2 => frontier = 0 /\ \A c \in Cvs : rank[c] = 0
    /\ Len(batches) > 2 => Unranked = {}
    /\ worker.batch = 1 => worker.left = Waiting
    /\ NobodyIsHidden

(* What went back is what could not be read: so far, and exactly once the pile is read. *)
OwingInv ==
    IF status = "failed" THEN bill[1].refunded = bill[1].charged
    ELSE /\ bill[1].refunded <= Cardinality(Unreadable(1))
         /\ Len(batches) > 1 => bill[1].refunded = Cardinality(Unreadable(1))

(* The status says what the rows say, or a batch is owed that will settle it. *)
RestingInv ==
    \/ status \in {"draft", "failed"}
    \/ \E i \in DOMAIN batches : Open(i)
    \/ status = Settle(status, parse, deep)

PileInv == SessionInv /\ StagesInv /\ StageRowsInv /\ OwingInv /\ RestingInv

-----------------------------------------------------------------------------
(* Settling looks at which CVs are scored, and a status once settled stays so. *)
LEMMA SettlingSame ==
  ASSUME NEW now, NEW p, NEW a, NEW b, \A c \in Cvs : a[c] = "scored" <=> b[c] = "scored"
  PROVE  Settle(now, p, a) = Settle(now, p, b)
<1>1. (\E c \in Cvs : p[c] # "absent" /\ a[c] = "scored") <=> (\E c \in Cvs : p[c] # "absent" /\ b[c] = "scored")
  OBVIOUS
<1>2. (\E c \in Cvs : p[c] = "pending" \/ (p[c] = "parsed" /\ a[c] # "scored"))
        <=> (\E c \in Cvs : p[c] = "pending" \/ (p[c] = "parsed" /\ b[c] # "scored"))
  OBVIOUS
<1> QED
  BY <1>1, <1>2 DEF Settle

LEMMA SettlingAgain ==
  ASSUME NEW now, NEW p, NEW d
  PROVE  Settle(now, p, d) = Settle(Settle(now, p, d), p, d)
<1> DEFINE scored == \E c \in Cvs : p[c] # "absent" /\ d[c] = "scored"
           waiting == \E c \in Cvs : p[c] = "pending" \/ (p[c] = "parsed" /\ d[c] # "scored")
<1>1. \A s : Settle(s, p, d) = IF s \in {"draft", "failed"} THEN s
                               ELSE IF ~scored THEN "processing"
                               ELSE IF waiting THEN "ready" ELSE "completed"
  BY DEF Settle
<1> HIDE DEF scored, waiting
<1> QED
  BY <1>1

(* What the parts of the invariant make of a session at rest. *)
LEMMA OnePileIsSound ==
  ASSUME MaxDrops = 1, PileInv
  PROVE  PileIsSound
<1> USE DEF PileInv, SessionInv, TablesInv
<1>0. Drops = {1} /\ Len(batches) \in Nat /\ DOMAIN batches = 1..Len(batches)
  BY DEF Drops, QueueTypes
<1>1. ReadCvsArePaidFor
  <2> SUFFICES ASSUME NEW i \in DOMAIN batches, batches[i].key.kind = "parse", batches[i].state = "done"
               PROVE  LET d == batches[i].key.drop
                      IN  bill[d].refunded \in {Cardinality(Unreadable(d)), bill[d].charged}
    BY DEF ReadCvsArePaidFor
  <2>1. batches[i].key.drop = 1 /\ i = 1 /\ Len(batches) > 1
    BY <1>0 DEF QueueTypes, StagesInv
  <2> QED BY <2>1 DEF OwingInv
<1>2. FailedOwesNothing
  BY <1>0 DEF OwingInv, FailedOwesNothing
<1>3. ReadCvsAreRanked
  <2> SUFFICES ASSUME status # "failed", NEW c \in Unranked
               PROVE  \E key \in Owed : key.kind \in {"parse", "preliminary"}
    BY DEF ReadCvsAreRanked
  <2>0. c \in Cvs /\ parse[c] = "parsed" /\ drop[c] # 0
    BY DEF Unranked, StageRowsInv
  <2>1. Len(batches) <= 2 /\ Len(batches) # 0
    <3>1. Unranked # {}
      OBVIOUS
    <3>2. ~ (Len(batches) > 2)
      BY <3>1 DEF StageRowsInv
    <3>3. Len(batches) # 0
      BY <2>0 DEF StageRowsInv
    <3> QED BY <1>0, <3>2, <3>3
  <2> DEFINE i == Len(batches)
  <2>2. i \in DOMAIN batches /\ batches[i].key.kind \in {"parse", "preliminary"}
    BY <1>0, <2>1 DEF StagesInv
  <2>3. batches[i].state \in States /\ batches[i].state # "done" /\ batches[i].state # "failed"
    <3>1. batches[i] \in BatchRows
      BY <2>2 DEF QueueTypes
    <3>2. batches[i].state \in States
      BY <3>1 DEF BatchRows
    <3>3. i = 1 \/ i = 2
      BY <1>0, <2>1
    <3>4. batches[i].state # "failed"
      BY <2>2, <3>3 DEF StagesInv
    <3>5. batches[i].state # "done"
      BY <3>3 DEF StagesInv
    <3> QED BY <3>2, <3>4, <3>5
  <2>4. batches[i].key \in Owed
    <3>1. batches[i].state \in {"queued", "running"}
      BY <2>3 DEF States
    <3> HIDE DEF i
    <3> QED BY <2>2, <3>1 DEF Owed, Open
  <2> QED BY <2>2, <2>4
<1>4. StatusIsSettled
  <2> SUFFICES ASSUME Quiet PROVE status = Settle(status, parse, deep)
    BY DEF StatusIsSettled
  <2>1. \A i \in DOMAIN batches : ~ Open(i)
    BY <1>0 DEF Quiet, Queued, Open, OneAtATime, Idle
  <2> QED BY <2>1 DEF RestingInv, Settle
<1> QED
  BY <1>1, <1>2, <1>3, <1>4 DEF PileIsSound

-----------------------------------------------------------------------------
(* Steps that change little.                                                 *)

(* The queue is as long as before: what ends early has failed the session. *)
LEMMA StagesKept ==
  ASSUME QueueTypes, StagesInv, KeysStay, Len(batches') = Len(batches), DOMAIN batches' = DOMAIN batches,
         Charged(1) => Charged(1)', status = "failed" => status' = "failed",
         \A i \in DOMAIN batches : i <= 2 =>
            \/ batches'[i].state = batches[i].state
            \/ /\ batches[i].state # "done"
               /\ batches'[i].state \in {"queued", "running"} \/ status' = "failed"
               /\ batches'[i].state = "done" => i = 2
  PROVE  StagesInv'
<1>1. Len(batches) \in Nat /\ DOMAIN batches = 1..Len(batches)
  BY DEF QueueTypes
<1>2. \A i \in DOMAIN batches' :
        /\ batches'[i].key.kind = "parse" <=> i = 1
        /\ batches'[i].key.kind = "preliminary" <=> i = 2
        /\ i <= 2 /\ batches'[i].state = "failed" => status' = "failed"
  BY <1>1 DEF StagesInv, KeysStay
<1>3. /\ Len(batches) = 1 => batches'[1].state # "done"
      /\ Len(batches) > 1 => batches'[1].state = "done"
  BY <1>1 DEF StagesInv
<1>4. /\ Len(batches) = 2 /\ batches'[2].state = "done" => status' = "failed"
      /\ Len(batches) > 2 => batches'[2].state = "done"
  BY <1>1 DEF StagesInv
<1>5. Len(batches) # 0 => Charged(1)'
  BY DEF StagesInv
<1> QED
  BY <1>2, <1>3, <1>4, <1>5 DEF StagesInv

(* Ranges are asked for, once there are ranks. *)
LEMMA StagesGrow ==
  ASSUME QueueTypes, StagesInv, Len(batches) > 2, NEW new, Extended(batches', batches, new),
         \A key \in new : IsDeep(key), UNCHANGED bill, status = "failed" => status' = "failed"
  PROVE  StagesInv' /\ Len(batches') > 2
<1>1. Len(batches) \in Nat /\ DOMAIN batches = 1..Len(batches)
  BY DEF QueueTypes
<1>2. Len(batches') \in Nat /\ DOMAIN batches' = 1..Len(batches') /\ Len(batches') >= Len(batches)
  BY <1>1 DEF Extended
<1>3. \A i \in DOMAIN batches : batches'[i] = batches[i]
  BY <1>1 DEF Extended
<1>4. \A i \in DOMAIN batches' : i > Len(batches) => IsDeep(batches'[i].key)
  BY <1>1, <1>2 DEF Extended
<1>5. \A i \in DOMAIN batches' :
        /\ batches'[i].key.kind = "parse" <=> i = 1
        /\ batches'[i].key.kind = "preliminary" <=> i = 2
        /\ i <= 2 /\ batches'[i].state = "failed" => status' = "failed"
  <2> SUFFICES ASSUME NEW i \in DOMAIN batches'
               PROVE  /\ batches'[i].key.kind = "parse" <=> i = 1
                      /\ batches'[i].key.kind = "preliminary" <=> i = 2
                      /\ i <= 2 /\ batches'[i].state = "failed" => status' = "failed"
    OBVIOUS
  <2>1. CASE i \in DOMAIN batches
    BY <1>3, <2>1 DEF StagesInv
  <2>2. CASE i \notin DOMAIN batches
    BY <1>1, <1>2, <1>4, <2>2 DEF IsDeep
  <2> QED BY <2>1, <2>2
<1>6. batches'[1].state = "done" /\ batches'[2].state = "done" /\ Charged(1)'
  BY <1>1, <1>3 DEF StagesInv, Charged
<1> QED
  BY <1>1, <1>2, <1>5, <1>6 DEF StagesInv

(* The CVs are as before. *)
LEMMA StageRowsKept ==
  ASSUME QueueTypes, StageRowsInv, UNCHANGED <<drop, parse, rank, adding>>,
         bill'[1].charged = bill[1].charged,
         Len(batches') = Len(batches) \/ (Len(batches) > 2 /\ Len(batches') > 2),
         frontier' = frontier \/ Len(batches) > 2,
         worker'.batch = 1 => worker'.left = Waiting
  PROVE  StageRowsInv'
<1>1. Len(batches) \in Nat
  BY DEF QueueTypes
<1>2. Waiting' = Waiting /\ Unranked' = Unranked /\ RowsOf(1)' = RowsOf(1) /\ (Charged(1)' <=> Charged(1))
  BY DEF Waiting, Unranked, RowsOf, Charged
<1>3. NobodyIsHidden'
  BY DEF StageRowsInv, NobodyIsHidden
<1>4. /\ Len(batches') <= 1 => Len(batches) <= 1
      /\ Len(batches') = 0 => Len(batches) = 0
      /\ Len(batches') > 1 => Len(batches) > 1
      /\ Len(batches') <= 2 => Len(batches) <= 2 /\ frontier' = frontier
      /\ Len(batches') > 2 => Len(batches) > 2
  BY <1>1
<1> HIDE DEF Waiting
<1> QED
  BY <1>2, <1>3, <1>4 DEF StageRowsInv

LEMMA OwingKept ==
  ASSUME QueueTypes, OwingInv, UNCHANGED <<drop, parse, bill>>, status' = "failed" <=> status = "failed",
         Len(batches') = Len(batches) \/ (Len(batches) > 2 /\ Len(batches') > 2)
  PROVE  OwingInv'
<1>1. Len(batches) \in Nat
  BY DEF QueueTypes
<1>2. Unreadable(1)' = Unreadable(1)
  BY DEF Unreadable, RowsOf
<1> QED
  BY <1>1, <1>2 DEF OwingInv

-----------------------------------------------------------------------------
(* The routes.                                                               *)

(* The queue is what it was, or longer; what was owed still is. *)
LEMMA RestingGrown ==
  ASSUME RestingInv, NEW new, Extended(batches', batches, new), UNCHANGED <<status, parse, deep>>
  PROVE  RestingInv'
<1>1. \A i \in DOMAIN batches : i \in DOMAIN batches' /\ batches'[i] = batches[i]
  BY QueueSplit
<1>2. ASSUME NEW i \in DOMAIN batches, Open(i) PROVE \E j \in DOMAIN batches' : Open(j)'
  BY <1>1, <1>2 DEF Open
<1>3. Settle(status, parse, deep)' = Settle(status, parse, deep)
  BY DEF Settle
<1> QED
  BY <1>2, <1>3 DEF RestingInv

LEMMA PileOfUpload ==
  ASSUME MaxDrops = 1, PileInv, Upload
  PROVE  StagesInv' /\ StageRowsInv' /\ OwingInv' /\ RestingInv'
<1> USE DEF PileInv, SessionInv, TablesInv
<1>0. /\ Drops = {1} /\ Len(batches) \in Nat /\ DOMAIN batches = 1..Len(batches)
      /\ status = "draft" /\ ~Charged(1) /\ AddRows(1, 1) /\ Len(batches) = 0
      /\ UNCHANGED <<status, rank, deep, bill, frontier, batches, worker, adding>>
  BY DEF Drops, QueueTypes, Upload, Launched, money, StagesInv
<1>1. 1 \in 1..MaxCvs
  <2>1. NewRows(1) \subseteq Cvs /\ NewRows(1) # {}
    <3>1. Cardinality({c \in Cvs : drop[c] # 0}) \in Nat
      BY SizeOfAPile
    <3> QED BY <1>0, <3>1 DEF AddRows, NewRows
  <2> QED BY <2>1, TriageAssumption DEF Cvs
<1>2. /\ \A c \in NewRows(1) : c \in Cvs /\ drop[c] = 0 /\ drop'[c] = 1 /\ parse'[c] = "pending"
      /\ \A c \in Cvs \ NewRows(1) : drop'[c] = drop[c] /\ parse'[c] = parse[c]
  BY <1>0, <1>1, AddingRows
<1>3. StagesInv'
  BY <1>0 DEF StagesInv, Charged
<1>4. bill[1].refunded = 0 /\ bill[1].charged = 0
  BY <1>0, TriageAssumption DEF MoneyInv, Charged
<1>5. OwingInv'
  <2>1. Cardinality(Unreadable(1)') \in Nat
    <3>1. Unreadable(1)' \in SUBSET Cvs
      BY DEF Unreadable, RowsOf
    <3> QED BY <3>1, SizeOfAPile
  <2> QED BY <1>0, <1>4, <2>1 DEF OwingInv
<1>6. \A c \in Cvs : (parse'[c] = "absent" <=> drop'[c] = 0) /\ parse'[c] \in {"absent", "pending"}
  BY <1>0, <1>2 DEF StageRowsInv
<1>7. StageRowsInv'
  <2>1. worker'.batch = 0
    BY <1>0 DEF QueueTypes
  <2>2. NobodyIsHidden'
    BY <1>6 DEF NobodyIsHidden
  <2> QED BY <1>0, <1>6, <2>1, <2>2 DEF StageRowsInv, Charged
<1>8. RestingInv'
  BY <1>0 DEF RestingInv
<1> QED
  BY <1>3, <1>5, <1>7, <1>8

(* Before the launch the draft's rows are all there are, and all of them wait. *)
LEMMA DraftIsThePile ==
  ASSUME StageRowsInv
  PROVE  DraftPile = RowsOf(1)
  BY DEF StageRowsInv, DraftPile, RowsOf, Present

LEMMA ChargingThePile ==
  ASSUME MaxDrops = 1, PileInv, ~Launched, DraftPile # {}, Charge(1, Cardinality(DraftPile))
  PROVE  /\ Len(batches) = 0 /\ Charged(1)'
         /\ bill'[1].charged = Cardinality(RowsOf(1)) /\ bill'[1].refunded = 0
<1> USE DEF PileInv, SessionInv, TablesInv
<1>1. 1 \in Drops /\ ~Charged(1) /\ Cardinality(DraftPile) \in 1..MaxCvs /\ DraftPile = RowsOf(1)
  BY DraftSize, DraftIsThePile DEF Launched
<1>2. bill'[1] = [charged |-> Cardinality(DraftPile), refunded |-> 0]
  BY <1>1, ChargeKeepsMoney
<1>3. Len(batches) = 0
  BY <1>1 DEF StagesInv
<1> QED
  BY <1>1, <1>2, <1>3 DEF Charged

LEMMA PileOfLaunch ==
  ASSUME MaxDrops = 1, PileInv, Launch
  PROVE  StagesInv' /\ StageRowsInv' /\ OwingInv' /\ RestingInv'
<1> USE DEF PileInv, SessionInv, TablesInv
<1>0. /\ Drops = {1} /\ status = "draft" /\ ~Launched /\ DraftPile # {}
      /\ Charge(1, Cardinality(DraftPile)) /\ StartProcessing(1)
      /\ UNCHANGED <<drop, parse, rank, deep, frontier, worker, adding>>
  BY DEF Drops, Launch, cvs
<1>1. /\ Len(batches) = 0 /\ Charged(1)' /\ bill'[1].charged = Cardinality(RowsOf(1)) /\ bill'[1].refunded = 0
  BY <1>0, ChargingThePile
<1>2. /\ status' = "processing" /\ Len(batches') = 1 /\ DOMAIN batches' = {1}
      /\ batches'[1].key.kind = "parse" /\ batches'[1].state = "queued"
  <2> DEFINE key == Key("parse", 1, 0, 0, <<>>)
  <2>1. key \in Keys /\ key.kind = "parse"
    BY <1>0, ReadingKeyTypes
  <2>2. batches' = Append(batches, [key |-> key, state |-> "queued", attempts |-> 0]) /\ status' = "processing"
    BY <1>0, <1>1 DEF StartProcessing, Enqueue, QueueTypes
  <2> HIDE DEF key
  <2>3. batches = <<>>
    BY <1>1 DEF QueueTypes
  <2> QED BY <2>1, <2>2, <2>3
<1>3. StagesInv'
  BY <1>1, <1>2 DEF StagesInv
<1>4. StageRowsInv'
  <2>1. worker'.batch # 1
    BY <1>0, <1>1 DEF QueueTypes
  <2>2. RowsOf(1)' = RowsOf(1) /\ (NobodyIsHidden' <=> NobodyIsHidden)
    BY <1>0 DEF RowsOf, NobodyIsHidden
  <2>3. \A c \in Cvs : parse[c] # "duplicate" /\ rank[c] = 0
    BY <1>1 DEF StageRowsInv
  <2> QED BY <1>0, <1>1, <1>2, <2>1, <2>2, <2>3 DEF StageRowsInv
<1>5. OwingInv'
  <2>1. Cardinality(Unreadable(1)') \in Nat
    <3>1. Unreadable(1)' \in SUBSET Cvs
      BY DEF Unreadable, RowsOf
    <3> QED BY <3>1, SizeOfAPile
  <2> QED BY <1>1, <1>2, <2>1 DEF OwingInv
<1>6. RestingInv'
  BY <1>2 DEF RestingInv, Open
<1> QED
  BY <1>3, <1>4, <1>5, <1>6

(* Ranges are asked for where there are ranks, which a session gets with its third batch. *)
LEMMA RanksComeThird ==
  ASSUME PileInv, \E c \in Cvs : rank[c] # 0
  PROVE  Len(batches) > 2
  BY DEF PileInv, SessionInv, TablesInv, QueueTypes, StageRowsInv

LEMMA PileOfTranche ==
  ASSUME MaxDrops = 1, PileInv, RequestNextTranche
  PROVE  StagesInv' /\ StageRowsInv' /\ OwingInv' /\ RestingInv'
<1> USE DEF PileInv, SessionInv, TablesInv
<1> DEFINE to == Nearer(frontier + Tranche, Top(rank))
           key == Key("rolling", OfSession, frontier + 1, to, <<>>)
<1>0. /\ frontier < Top(rank) /\ batches' = Enqueue(batches, key)
      /\ UNCHANGED <<status, drop, parse, rank, deep, bill, frontier, worker, adding>>
  BY DEF RequestNextTranche, cvs, money
<1>1. Len(batches) > 2
  <2>1. \E c \in Cvs : rank[c] # 0
    BY <1>0, TopIsHighest DEF RowTypes
  <2> QED BY <2>1, RanksComeThird
<1>2. key \in Keys /\ IsDeep(key)
  <2>1. to \in Nat /\ frontier + 1 \in Nat
    BY TopIsHighest, TriageAssumption DEF RowTypes, Nearer
  <2> HIDE DEF to
  <2> QED BY <2>1, RollingKeyTypes DEF IsDeep
<1> HIDE DEF key
<1>3. Extended(batches', batches, {key})
  BY <1>0, <1>2, EnqueueExtends DEF QueueTypes
<1>4. StagesInv' /\ Len(batches') > 2
  BY <1>0, <1>1, <1>2, <1>3, StagesGrow
<1>5. worker'.batch = 1 => worker'.left = Waiting
  BY <1>0 DEF StageRowsInv
<1>6. StageRowsInv' /\ OwingInv'
  BY <1>0, <1>1, <1>4, <1>5, StageRowsKept, OwingKept
<1> QED
  BY <1>0, <1>3, <1>4, <1>6, RestingGrown

(* Trying failures again scores nobody, and whoever failed was still to be scored. *)
LEMMA PileOfRequeue ==
  ASSUME MaxDrops = 1, PileInv, RequeueFailedAnalyses
  PROVE  StagesInv' /\ StageRowsInv' /\ OwingInv' /\ RestingInv'
<1> USE DEF PileInv, SessionInv, TablesInv
<1>0. /\ FailedRanks # {} /\ status' = IF status = "completed" THEN "ready" ELSE status
      /\ deep' = [c \in Cvs |-> IF parse[c] = "parsed" /\ deep[c] = "failed" THEN "pending" ELSE deep[c]]
      /\ UNCHANGED <<drop, parse, rank, bill, frontier, worker, adding>>
  BY DEF RequeueFailedAnalyses, money
<1>1. PICK f \in Cvs : parse[f] = "parsed" /\ rank[f] # 0 /\ deep[f] = "failed"
  BY <1>0 DEF FailedRanks
<1>2. Len(batches) > 2
  BY <1>1, RanksComeThird
<1>3. PICK new : Extended(batches', batches, new) /\ \A key \in new : IsDeep(key)
  <2>1. Extended(batches', batches, {Band(from) : from \in Bands})
    BY RequeueExtends
  <2>2. \A from \in Bands : Band(from).kind = "rolling"
    BY DEF Band, Key
  <2> QED BY <2>1, <2>2 DEF IsDeep
<1>4. \A c \in Cvs : deep'[c] = "scored" <=> deep[c] = "scored"
  BY <1>0
<1>5. \A s : Settle(s, parse, deep') = Settle(s, parse, deep)
  BY <1>4, SettlingSame
<1>6. Settle(status, parse, deep) # "completed" \/ status = "draft"
  BY <1>1 DEF Settle
<1>7. \A i \in DOMAIN batches : i \in DOMAIN batches' /\ batches'[i] = batches[i]
  BY <1>3, QueueSplit
<1>8. /\ KeysStay /\ Len(batches') > 2
      /\ status' = "failed" <=> status = "failed"
  <2>1. Len(batches') \in Nat /\ Len(batches) \in Nat /\ Len(batches') >= Len(batches)
    BY <1>3 DEF Extended
  <2> QED BY <1>0, <1>2, <1>7, <2>1 DEF KeysStay
<1>9. StagesInv'
  BY <1>0, <1>2, <1>3, StagesGrow
<1>10. StageRowsInv' /\ OwingInv'
  <2>1. worker'.batch = 1 => worker'.left = Waiting
    BY <1>0 DEF StageRowsInv
  <2> QED BY <1>0, <1>2, <1>8, <2>1, StageRowsKept, OwingKept
<1>11. RestingInv'
  <2>1. CASE \E i \in DOMAIN batches : Open(i)
    BY <1>7, <2>1 DEF RestingInv, Open
  <2>2. CASE status = "draft" \/ status = "failed"
    BY <1>0, <2>2 DEF RestingInv
  <2>3. CASE status = Settle(status, parse, deep) /\ status # "draft"
    <3>1. status' = status
      BY <1>0, <1>6, <2>3
    <3> QED BY <1>0, <1>5, <2>3, <3>1 DEF RestingInv
  <2> QED BY <2>1, <2>2, <2>3 DEF RestingInv
<1> QED
  BY <1>9, <1>10, <1>11

-----------------------------------------------------------------------------
(* The pump takes a batch.                                                   *)

LEMMA StagesClaimed ==
  ASSUME PileInv, NEW kinds, NEW state \in States, Claim(kinds, state), UNCHANGED bill,
         status' = "failed" <=> status = "failed",
         \/ state = "running"
         \/ state = "failed" /\ status = "failed"
         \/ kinds \cap {"parse", "preliminary"} = {}
  PROVE  /\ StagesInv'
         /\ worker.batch = 0 /\ NextBatch \in DOMAIN batches /\ Len(batches') = Len(batches)
         /\ DOMAIN batches' = DOMAIN batches /\ batches'[NextBatch].state = state
         /\ batches[NextBatch].key.kind \in kinds
         /\ state = "running" => RestingInv'
<1> USE DEF PileInv, SessionInv, TablesInv
<1>1. /\ worker.batch = 0
      /\ NextBatch \in DOMAIN batches /\ batches[NextBatch].state = "queued"
      /\ batches[NextBatch].key.kind \in kinds
      /\ Len(batches') = Len(batches) /\ DOMAIN batches' = DOMAIN batches
      /\ \A i \in DOMAIN batches : i # NextBatch => batches'[i] = batches[i]
      /\ batches'[NextBatch].state = state
      /\ KeysStay
  BY ClaimTakesTheOldest
<1>2. \A i \in DOMAIN batches : i <= 2 =>
            \/ batches'[i].state = batches[i].state
            \/ /\ batches[i].state # "done"
               /\ batches'[i].state \in {"queued", "running"} \/ status' = "failed"
               /\ batches'[i].state = "done" => i = 2
  <2> SUFFICES ASSUME NEW i \in DOMAIN batches, i <= 2, i = NextBatch
               PROVE  /\ batches[i].state # "done"
                      /\ batches'[i].state \in {"queued", "running"} \/ status' = "failed"
                      /\ batches'[i].state = "done" => i = 2
    BY <1>1
  <2>1. batches[i].key.kind \in {"parse", "preliminary"}
    <3>1. i = 1 \/ i = 2
      BY DEF QueueTypes
    <3> QED BY <3>1 DEF StagesInv
  <2>2. state = "running" \/ (state = "failed" /\ status = "failed")
    BY <1>1, <2>1
  <2> QED BY <1>1, <2>2
<1>3. Charged(1) => Charged(1)'
  BY DEF Charged
<1>4. StagesInv'
  BY <1>1, <1>2, <1>3, StagesKept
<1>5. ASSUME state = "running" PROVE RestingInv'
  BY <1>1, <1>5 DEF RestingInv, Open
<1> QED
  BY <1>1, <1>4, <1>5

LEMMA PileOfClaims ==
  ASSUME MaxDrops = 1, PileInv, ClaimOnFailed \/ ClaimParse \/ ClaimPreliminary
  PROVE  StagesInv' /\ StageRowsInv' /\ OwingInv' /\ RestingInv'
<1> USE DEF PileInv, SessionInv, TablesInv
<1>0. UNCHANGED <<status, drop, parse, rank, deep, bill, balance, frontier, adding>>
  BY DEF ClaimOnFailed, ClaimParse, ClaimPreliminary, cvs, money
<1>1. CASE ClaimOnFailed
  <2>1. /\ status = "failed" /\ Claim({"parse", "preliminary", "initial", "rolling"}, "failed")
        /\ UNCHANGED worker
    BY <1>1 DEF ClaimOnFailed
  <2>2. StagesInv' /\ worker.batch = 0 /\ Len(batches') = Len(batches)
    BY <1>0, <2>1, StagesClaimed DEF States
  <2>3. RestingInv'
    BY <1>0, <2>1 DEF RestingInv
  <2> QED BY <1>0, <2>1, <2>2, <2>3, StageRowsKept, OwingKept
<1>2. CASE ClaimParse
  <2>1. /\ Claim({"parse"}, "running")
        /\ worker' = [batch |-> NextBatch,
                      left |-> {c \in RowsOf(batches[NextBatch].key.drop) : parse[c] = "pending"}]
    BY <1>2 DEF ClaimParse
  <2>2. /\ StagesInv' /\ Len(batches') = Len(batches) /\ RestingInv'
        /\ NextBatch \in DOMAIN batches /\ batches[NextBatch].key.kind = "parse"
    BY <1>0, <2>1, StagesClaimed DEF States
  <2>3. worker'.left = Waiting
    <3>1. batches[NextBatch].key.drop = 1 /\ Drops = {1}
      BY <2>2 DEF QueueTypes, Drops
    <3>2. \A c \in Cvs : parse[c] = "pending" => drop[c] = 1
      BY <3>1 DEF StageRowsInv, RowTypes
    <3> QED BY <2>1, <3>1, <3>2 DEF RowsOf, Waiting
  <2> QED BY <1>0, <2>2, <2>3, StageRowsKept, OwingKept
<1>3. CASE ClaimPreliminary
  <2>1. Claim({"preliminary"}, "running") /\ worker' = [batch |-> NextBatch, left |-> {}]
    BY <1>3 DEF ClaimPreliminary
  <2>2. /\ StagesInv' /\ Len(batches') = Len(batches) /\ RestingInv'
        /\ NextBatch \in DOMAIN batches /\ batches[NextBatch].key.kind = "preliminary"
    BY <1>0, <2>1, StagesClaimed DEF States
  <2>3. worker'.batch # 1
    BY <2>1, <2>2 DEF StagesInv
  <2> QED BY <1>0, <2>2, <2>3, StageRowsKept, OwingKept
<1> QED
  BY <1>1, <1>2, <1>3

LEMMA PileOfDeepClaims ==
  ASSUME MaxDrops = 1, PileInv, ClaimDeep \/ NothingToAnalyse
  PROVE  StagesInv' /\ StageRowsInv' /\ OwingInv' /\ RestingInv'
<1> USE DEF PileInv, SessionInv, TablesInv
<1>0. UNCHANGED <<drop, parse, rank, bill, adding>>
  BY DEF ClaimDeep, NothingToAnalyse, cvs, money
<1>1. CASE ClaimDeep
  <2>1. /\ Claim({"initial", "rolling"}, "running") /\ worker'.batch = NextBatch
        /\ UNCHANGED <<status, frontier>>
    BY <1>1 DEF ClaimDeep
  <2>2. /\ StagesInv' /\ Len(batches') = Len(batches) /\ RestingInv'
        /\ NextBatch \in DOMAIN batches /\ batches[NextBatch].key.kind \in {"initial", "rolling"}
    BY <1>0, <2>1, StagesClaimed DEF States
  <2>3. worker'.batch # 1
    BY <2>1, <2>2 DEF StagesInv
  <2> QED BY <1>0, <2>1, <2>2, <2>3, StageRowsKept, OwingKept
<1>2. CASE NothingToAnalyse
  <2>1. /\ Claim({"initial", "rolling"}, "done") /\ status' = Settle(status, parse, deep)
        /\ UNCHANGED <<worker, deep>>
    BY <1>2 DEF NothingToAnalyse, cvs
  <2>2. status' = "failed" <=> status = "failed"
    BY <2>1, SettleType DEF RowTypes
  <2>3. /\ StagesInv' /\ Len(batches') = Len(batches) /\ worker.batch = 0
        /\ NextBatch \in DOMAIN batches /\ batches[NextBatch].key.kind \in {"initial", "rolling"}
    BY <1>0, <2>1, <2>2, StagesClaimed DEF States
  <2>4. Len(batches) > 2
    <3>1. NextBatch # 1 /\ NextBatch # 2
      BY <2>3 DEF StagesInv
    <3> QED BY <2>3, <3>1 DEF QueueTypes
  <2>5. RestingInv'
    BY <1>0, <2>1, SettlingAgain DEF RestingInv
  <2> QED BY <1>0, <2>1, <2>2, <2>3, <2>4, <2>5, StageRowsKept, OwingKept
<1> QED
  BY <1>1, <1>2

-----------------------------------------------------------------------------
(* It reads the pile.                                                        *)

LEMMA TheLast ==
  ASSUME NEW k \in Nat, NEW n \in Nat, k \in 1..n, ~ (n > k)
  PROVE  n = k
  OBVIOUS

(* The batch that reads is the first, and the only one so far. *)
LEMMA ReadingIsFirst ==
  ASSUME MaxDrops = 1, PileInv, worker.batch # 0, Running.kind = "parse"
  PROVE  /\ Drops = {1} /\ Running.drop = 1 /\ worker.batch = 1 /\ Len(batches) = 1
         /\ batches[1].state = "running" /\ status # "failed" /\ worker.left = Waiting
         /\ bill[1].charged = Cardinality(RowsOf(1))
<1> USE DEF PileInv, SessionInv, TablesInv
<1>1. /\ worker.batch \in DOMAIN batches /\ Running.drop \in Drops /\ status # "failed"
      /\ batches[worker.batch].state = "running"
  BY RunningFacts
<1>2. Drops = {1} /\ worker.batch = 1
  BY <1>1 DEF Drops, Running, StagesInv
<1>3. Len(batches) = 1
  <2>1. Len(batches) \in Nat /\ 1 \in 1..Len(batches)
    BY <1>1, <1>2 DEF QueueTypes
  <2>2. ~ (Len(batches) > 1)
    BY <1>1, <1>2 DEF StagesInv
  <2>3. 1 \in Nat
    OBVIOUS
  <2> QED BY <2>1, <2>2, <2>3, TheLast, Zenon
<1> QED
  BY <1>1, <1>2, <1>3 DEF StagesInv, StageRowsInv

(* What cannot be read is of the pile, and grows while it is read. *)
LEMMA UnreadableGrows ==
  ASSUME NEW S \in SUBSET Cvs, NEW T \in SUBSET Cvs, S \subseteq T
  PROVE  Cardinality(S) <= Cardinality(T) /\ Cardinality(S) \in Nat /\ Cardinality(T) \in Nat
  BY SizeOfAPile, FS_Subset

LEMMA PileOfReading ==
  ASSUME MaxDrops = 1, PileInv, NEW c \in Cvs, NEW outcome \in {"parsed", "failed"}, ReadCv(c, outcome)
  PROVE  StagesInv' /\ StageRowsInv' /\ OwingInv' /\ RestingInv'
<1> USE DEF PileInv, SessionInv, TablesInv
<1>0. /\ worker.batch # 0 /\ Running.kind = "parse" /\ c \in worker.left
      /\ worker' = [worker EXCEPT !.left = @ \ {c}]
      /\ parse' = [parse EXCEPT ![c] = IF @ = "absent" THEN @ ELSE outcome]
      /\ UNCHANGED <<status, drop, rank, deep, bill, frontier, batches, adding>>
  BY DEF ReadCv, money
<1>1. /\ Drops = {1} /\ worker.batch = 1 /\ Len(batches) = 1
      /\ batches[1].state = "running" /\ status # "failed" /\ worker.left = Waiting
  BY <1>0, ReadingIsFirst
<1>2. parse[c] = "pending" /\ parse'[c] = outcome /\ \A e \in Cvs \ {c} : parse'[e] = parse[e]
  BY <1>0, <1>1 DEF Waiting, RowTypes
<1>3. StagesInv'
  BY <1>0, <1>1 DEF StagesInv, Charged
<1>4. worker'.left = Waiting'
  <2>1. worker'.left = Waiting \ {c}
    BY <1>0, <1>1 DEF QueueTypes
  <2>2. Waiting' = Waiting \ {c}
    BY <1>2 DEF Waiting
  <2> QED BY <2>1, <2>2
<1>5. NobodyIsHidden'
  BY <1>1, <1>2 DEF StageRowsInv, NobodyIsHidden
<1>6. StageRowsInv'
  <2>1. \A e \in Cvs : (parse'[e] = "absent" <=> drop'[e] = 0) /\ parse'[e] # "duplicate"
    BY <1>0, <1>1, <1>2 DEF StageRowsInv
  <2>2. \A e \in Cvs : rank'[e] = 0
    BY <1>0, <1>1 DEF StageRowsInv
  <2>3. RowsOf(1)' = RowsOf(1) /\ (Charged(1)' <=> Charged(1))
    BY <1>0 DEF RowsOf, Charged
  <2> QED BY <1>0, <1>1, <1>4, <1>5, <2>1, <2>2, <2>3 DEF StageRowsInv
<1>7. OwingInv'
  <2>1. Unreadable(1) \subseteq Unreadable(1)' /\ Unreadable(1)' \in SUBSET Cvs
    BY <1>0, <1>2 DEF Unreadable, RowsOf
  <2>2. Cardinality(Unreadable(1)) <= Cardinality(Unreadable(1)')
        /\ Cardinality(Unreadable(1)) \in Nat /\ Cardinality(Unreadable(1)') \in Nat
    BY <2>1, UnreadableGrows
  <2>3. bill[1].refunded \in Nat
    BY <1>1 DEF MoneyInv
  <2> QED BY <1>0, <1>1, <2>2, <2>3 DEF OwingInv
<1>8. RestingInv'
  BY <1>0, <1>1 DEF RestingInv, Open, QueueTypes
<1> QED
  BY <1>3, <1>6, <1>7, <1>8

(* Once all is read, what goes back is exactly what could not be. *)
LEMMA ReadAndRefunded ==
  ASSUME MaxDrops = 1, PileInv, worker.batch # 0, Running.kind = "parse", worker.left = {},
         RefundDrop(Running.drop, Cardinality(Unreadable(Running.drop)))
  PROVE  /\ Waiting = {} /\ bill'[1].refunded = Cardinality(Unreadable(1))
         /\ bill'[1].charged = bill[1].charged
<1> USE DEF PileInv, SessionInv, TablesInv
<1>1. /\ Drops = {1} /\ Running.drop = 1 /\ Waiting = {} /\ status # "failed"
      /\ bill[1].charged = Cardinality(RowsOf(1))
  BY ReadingIsFirst
<1>2. /\ Cardinality(Unreadable(1)) <= Cardinality(RowsOf(1))
      /\ Cardinality(Unreadable(1)) \in Nat /\ Cardinality(RowsOf(1)) \in Nat
  <2>1. Unreadable(1) \subseteq RowsOf(1) /\ RowsOf(1) \in SUBSET Cvs
    BY DEF Unreadable, RowsOf
  <2> QED BY <2>1, UnreadableGrows
<1>3. bill[1].refunded \in Nat /\ bill[1].refunded <= Cardinality(Unreadable(1))
  BY <1>1 DEF MoneyInv, OwingInv
<1>4. Further(bill[1].refunded, Nearer(Cardinality(Unreadable(1)), bill[1].charged)) = Cardinality(Unreadable(1))
  BY <1>1, <1>2, <1>3 DEF Further, Nearer
<1>5. bill' = [bill EXCEPT ![1].refunded = Cardinality(Unreadable(1))]
  BY <1>1, <1>4 DEF RefundDrop
<1> QED
  BY <1>1, <1>5 DEF MoneyInv

-----------------------------------------------------------------------------
LEMMA OneLonger ==
  ASSUME NEW S, NEW q \in Seq(S), NEW r \in S
  PROVE  Append(q, r) \in Seq(S) /\ Len(Append(q, r)) = Len(q) + 1
  OBVIOUS

LEMMA OneMore ==
  ASSUME NEW S, NEW q \in Seq(S), NEW r \in S, Len(q) = 1
  PROVE  DOMAIN Append(q, r) = 1..2
<1>1. Append(q, r) \in Seq(S) /\ Len(Append(q, r)) = Len(q) + 1
  BY OneLonger
<1>2. DOMAIN Append(q, r) = 1..Len(Append(q, r))
  BY <1>1
<1> QED
  BY <1>1, <1>2

LEMMA SameEnd ==
  ASSUME NEW m \in Nat, NEW n \in Nat, 1..m = 1..n
  PROVE  m = n
<1>1. m \in 1..m \/ m = 0
  OBVIOUS
<1>2. n \in 1..n \/ n = 0
  OBVIOUS
<1> QED
  BY <1>1, <1>2

LEMMA PileOfFinishedReading ==
  ASSUME MaxDrops = 1, PileInv, FinishParse
  PROVE  StagesInv' /\ StageRowsInv' /\ OwingInv' /\ RestingInv'
<1> USE DEF PileInv, SessionInv, TablesInv
<1> DEFINE key == Key("preliminary", Running.drop, 0, 0, <<>>)
<1>0. /\ worker.batch # 0 /\ Running.kind = "parse" /\ worker.left = {}
      /\ RefundDrop(Running.drop, Cardinality(Unreadable(Running.drop)))
      /\ parse' = Resolved /\ batches' = Ended(Enqueue(batches, key), "done") /\ worker' = Idle
      /\ UNCHANGED <<status, drop, rank, deep, frontier, adding>>
  BY DEF FinishParse
<1>1. /\ Drops = {1} /\ Running.drop = 1 /\ worker.batch = 1 /\ Len(batches) = 1 /\ status # "failed"
      /\ Charged(1) /\ bill[1].charged = Cardinality(RowsOf(1))
  BY <1>0, ReadingIsFirst DEF StagesInv
<1>2. /\ Waiting = {} /\ bill'[1].refunded = Cardinality(Unreadable(1)) /\ bill'[1].charged = bill[1].charged
  BY <1>0, ReadAndRefunded
<1>3. key \in Keys /\ key.kind = "preliminary"
  <2>1. Running.drop \in Drops
    BY <1>1
  <2> QED BY <2>1 DEF Key, Keys
<1> HIDE DEF key
<1>4. /\ Len(batches') = 2 /\ DOMAIN batches' = {1, 2} /\ batches'[1].key = batches[1].key
      /\ batches'[1].state = "done" /\ batches'[2].key = key /\ batches'[2].state = "queued"
  <2>1. /\ QueueTypes' /\ KeysStay
        /\ batches'[1].state = "done"
        /\ \A i \in DOMAIN batches' \ DOMAIN batches :
             i > Len(batches) /\ batches'[i].key = key /\ batches'[i].state = "queued"
    BY <1>0, <1>1, <1>3, EndingWithWork
  <2>2. batches[1].key.kind = "parse" /\ DOMAIN batches = 1..1
    BY <1>1 DEF StagesInv, QueueTypes
  <2>3. Len(batches') = 2
    <3> DEFINE row == [key |-> key, state |-> "queued", attempts |-> 0]
    <3>1. Enqueue(batches, key) = Append(batches, row)
      BY <1>3, <2>2 DEF Enqueue
    <3>2. row \in BatchRows /\ batches \in Seq(BatchRows)
      BY <1>3, TriageAssumption DEF BatchRows, States, QueueTypes
    <3> HIDE DEF row
    <3>3. DOMAIN Append(batches, row) = 1..2
      <4>1. PICK q \in Seq(BatchRows) : q = batches
        BY <3>2
      <4>2. PICK r \in BatchRows : r = row
        BY <3>2
      <4>3. DOMAIN Append(q, r) = 1..2
        BY <1>1, <4>1, OneMore
      <4> QED BY <4>1, <4>2, <4>3, Zenon
    <3>4. DOMAIN batches' = DOMAIN Append(batches, row)
      BY <1>0, <3>1 DEF Ended
    <3>5. batches' \in Seq(BatchRows)
      BY <2>1 DEF QueueTypes
    <3>6. DOMAIN batches' = 1..Len(batches') /\ Len(batches') \in Nat
      BY <3>5
    <3>7. PICK n \in Nat : n = Len(batches')
      BY <3>6, Zenon
    <3>8. 1..n = 1..2
      BY <3>3, <3>4, <3>6, <3>7, Zenon
    <3> QED BY <3>7, <3>8, SameEnd
  <2>4. DOMAIN batches' = 1..2
    BY <2>1, <2>3 DEF QueueTypes
  <2> QED BY <2>1, <2>2, <2>3, <2>4 DEF KeysStay
<1>5. StagesInv'
  <2>1. batches[1].key.kind = "parse"
    BY <1>1 DEF StagesInv, QueueTypes
  <2>2. Charged(1)'
    BY <1>1, <1>2 DEF Charged
  <2> QED BY <1>3, <1>4, <2>1, <2>2 DEF StagesInv
<1>6. \A c \in Cvs : /\ parse'[c] \in {"parsed", "duplicate"} <=> parse[c] \in {"parsed", "duplicate"}
                     /\ parse[c] \notin {"parsed", "duplicate"} => parse'[c] = parse[c]
  BY <1>0 DEF Resolved, Versions
<1>7. NobodyIsHidden'
  <2> SUFFICES ASSUME NEW c \in Cvs, parse'[c] = "duplicate"
               PROVE  \E e \in Cvs : parse'[e] = "parsed" /\ Person[e] = Person[c]
    BY DEF NobodyIsHidden
  <2>1. c \in Versions
    BY <1>6 DEF Versions
  <2>2. PICK e \in Versions : Person[e] = Person[c] /\ Resolved[e] = "parsed"
    BY <2>1, NewestIsCurrent
  <2> QED BY <1>0, <2>2 DEF Versions
<1>8. StageRowsInv'
  <2>1. \A c \in Cvs : parse'[c] = "absent" <=> drop'[c] = 0
    BY <1>0, <1>6 DEF StageRowsInv
  <2>2. Waiting' = {}
    BY <1>2, <1>6 DEF Waiting
  <2>3. \A c \in Cvs : rank'[c] = 0
    BY <1>0, <1>1 DEF StageRowsInv
  <2>4. RowsOf(1)' = RowsOf(1) /\ (Charged(1)' <=> Charged(1)) /\ worker'.batch = 0
    BY <1>0, <1>2 DEF RowsOf, Charged, Idle
  <2>5. adding' = {} /\ frontier' = 0
    BY <1>0, <1>1 DEF StageRowsInv
  <2>6. Charged(1)' => bill'[1].charged = Cardinality(RowsOf(1)')
    BY <1>1, <1>2, <2>4
  <2> HIDE DEF Waiting
  <2> QED BY <1>4, <1>7, <2>1, <2>2, <2>3, <2>4, <2>5, <2>6 DEF StageRowsInv
<1>9. OwingInv'
  <2>1. Unreadable(1)' = Unreadable(1)
    BY <1>0, <1>6 DEF Unreadable, RowsOf
  <2>2. Cardinality(Unreadable(1)) \in Nat
    <3>1. Unreadable(1) \in SUBSET Cvs
      BY DEF Unreadable, RowsOf
    <3> QED BY <3>1, SizeOfAPile
  <2> QED BY <1>0, <1>1, <1>2, <2>1, <2>2 DEF OwingInv
<1>10. RestingInv'
  BY <1>4 DEF RestingInv, Open
<1> QED
  BY <1>5, <1>8, <1>9, <1>10

(* The batch that ranks is the second, and the last so far. *)
LEMMA RankingIsSecond ==
  ASSUME PileInv, worker.batch # 0, Running.kind = "preliminary"
  PROVE  /\ worker.batch = 2 /\ Len(batches) = 2 /\ batches[1].state = "done"
         /\ batches[2].state = "running" /\ status # "failed" /\ Waiting = {}
         /\ frontier = 0 /\ \A c \in Cvs : rank[c] = 0
<1> USE DEF PileInv, SessionInv, TablesInv
<1>1. /\ worker.batch \in DOMAIN batches /\ status # "failed"
      /\ batches[worker.batch].state = "running"
  BY RunningFacts
<1>2. worker.batch = 2
  BY <1>1 DEF Running, StagesInv
<1>3. Len(batches) = 2
  <2>1. Len(batches) \in Nat /\ 2 \in 1..Len(batches)
    BY <1>1, <1>2 DEF QueueTypes
  <2>2. ~ (Len(batches) > 2)
    BY <1>1, <1>2 DEF StagesInv
  <2>3. 2 \in Nat
    OBVIOUS
  <2> QED BY <2>1, <2>2, <2>3, TheLast, Zenon
<1> QED
  BY <1>1, <1>2, <1>3 DEF StagesInv, StageRowsInv

(* Ranks begin after the highest there was. *)
LEMMA EveryoneIsRanked ==
  ASSUME RowTypes, NEW order \in Orders, RankCvs(order)
  PROVE  /\ rank' \in [Cvs -> Nat] /\ \A c \in Unranked : rank'[c] # 0
         /\ \A c \in Cvs : c \notin Unranked => rank'[c] = rank[c]
<1>1. /\ Offset \in Nat /\ \A c \in Unranked : order[c] \in 1..Cardinality(Unranked)
      /\ [c \in Cvs |-> IF c \in Unranked THEN Offset + order[c] ELSE rank[c]] \in [Cvs -> Nat]
  BY RankingTypes
<1>2. rank' = [c \in Cvs |-> IF c \in Unranked THEN Offset + order[c] ELSE rank[c]]
  BY DEF RankCvs
<1>3. Unranked \in SUBSET Cvs
  BY DEF Unranked
<1>4. Cardinality(Unranked) \in Nat
  BY <1>3, SizeOfAPile
<1> QED
  BY <1>1, <1>2, <1>3, <1>4

-----------------------------------------------------------------------------
(* If nothing was ranked, nothing was read: all of it went back already. *)
LEMMA NothingWasRead ==
  ASSUME MaxDrops = 1, PileInv, Len(batches) = 2, status # "failed", Unranked = {},
         \A c \in Cvs : rank[c] = 0
  PROVE  bill[1].refunded = bill[1].charged
<1> USE DEF PileInv, SessionInv, TablesInv
<1>1. \A c \in Cvs : parse[c] \in {"absent", "failed"}
  <2>1. \A c \in Cvs : parse[c] # "parsed"
    BY DEF Unranked
  <2>2. \A c \in Cvs : parse[c] # "duplicate"
    BY <2>1 DEF StageRowsInv, NobodyIsHidden
  <2>3. \A c \in Cvs : parse[c] # "pending"
    BY DEF StageRowsInv, Waiting
  <2> QED BY <2>1, <2>2, <2>3 DEF RowTypes, ParseStates
<1>2. Unreadable(1) = RowsOf(1)
  BY <1>1 DEF Unreadable, RowsOf, StageRowsInv
<1>3. Charged(1)
  BY DEF StagesInv
<1> QED
  BY <1>2, <1>3 DEF OwingInv, StageRowsInv

LEMMA PileOfRanking ==
  ASSUME MaxDrops = 1, PileInv, NEW order \in Orders, RankCvs(order), QueueTypes'
  PROVE  StagesInv' /\ StageRowsInv' /\ OwingInv' /\ RestingInv'
<1> USE DEF PileInv, SessionInv, TablesInv
<1> DEFINE ranks == [c \in Cvs |-> IF c \in Unranked THEN Offset + order[c] ELSE rank[c]]
           kind == IF Offset = 0 THEN "initial" ELSE "rolling"
           key == Key(kind, OfSession, frontier + 1, Nearer(Top(ranks), frontier + InitialDeep), <<>>)
<1>0. /\ worker.batch # 0 /\ Running.kind = "preliminary" /\ rank' = ranks /\ worker' = Idle
      /\ IF Top(ranks) = 0 THEN status' = "failed"
         ELSE IF frontier >= Top(ranks) THEN status' = Settle(status, parse, deep)
         ELSE status' = status
      /\ batches' = Ended(IF frontier < Top(ranks) THEN Enqueue(batches, key) ELSE batches, "done")
      /\ UNCHANGED <<drop, parse, deep, bill, frontier, adding>>
  BY DEF RankCvs, money
<1>1. /\ worker.batch = 2 /\ Len(batches) = 2 /\ batches[1].state = "done"
      /\ batches[2].state = "running" /\ status # "failed" /\ Waiting = {}
      /\ frontier = 0 /\ \A c \in Cvs : rank[c] = 0
  BY <1>0, RankingIsSecond
<1>2. /\ rank' \in [Cvs -> Nat] /\ \A c \in Unranked : rank'[c] # 0
      /\ \A c \in Cvs : c \notin Unranked => rank'[c] = rank[c]
  BY EveryoneIsRanked
<1>3. Top(ranks) \in Nat /\ \A c \in Cvs : rank'[c] <= Top(ranks)
  BY <1>0, <1>2, TopIsHighest
<1> HIDE DEF ranks
<1>4. Unranked' = {}
  BY <1>0, <1>2 DEF Unranked
<1>5. /\ RowsOf(1)' = RowsOf(1) /\ Unreadable(1)' = Unreadable(1) /\ Waiting' = Waiting
      /\ (Charged(1)' <=> Charged(1)) /\ (NobodyIsHidden' <=> NobodyIsHidden) /\ worker'.batch = 0
  BY <1>0 DEF RowsOf, Unreadable, Waiting, Charged, NobodyIsHidden, Idle
<1>6. /\ Charged(1) /\ batches[1].key.kind = "parse" /\ batches[2].key.kind = "preliminary"
      /\ DOMAIN batches = {1, 2}
  BY <1>1 DEF StagesInv, QueueTypes
<1>7. CASE Top(ranks) = 0
  <2>1. batches' = Ended(batches, "done") /\ status' = "failed"
    BY <1>0, <1>1, <1>7
  <2>2. /\ KeysStay /\ DOMAIN batches' = {1, 2} /\ batches'[1] = batches[1] /\ batches'[2].state = "done"
    BY <1>0, <1>1, <1>6, <2>1, EndingAlone
  <2>3. Len(batches') = 2
    <3>1. DOMAIN batches' = 1..Len(batches') /\ Len(batches') \in Nat
      BY DEF QueueTypes
    <3> QED BY <2>2, <3>1
  <2>4. \A c \in Cvs : rank'[c] = 0
    BY <1>2, <1>3, <1>7
  <2>5. StagesInv'
    BY <1>1, <1>5, <1>6, <2>1, <2>2, <2>3 DEF StagesInv, KeysStay
  <2>6. StageRowsInv'
    <3>1. /\ adding' = {} /\ frontier' = 0 /\ \A c \in Cvs : parse'[c] = "absent" <=> drop'[c] = 0
          /\ Charged(1)' => bill'[1].charged = Cardinality(RowsOf(1)') /\ NobodyIsHidden'
      BY <1>0, <1>1, <1>5 DEF StageRowsInv
    <3> HIDE DEF Waiting
    <3> QED BY <1>1, <1>5, <2>3, <2>4, <3>1 DEF StageRowsInv
  <2>7. OwingInv'
    <3>1. Unranked = {}
      BY <1>2, <2>4 DEF Unranked
    <3>2. bill[1].refunded = bill[1].charged
      BY <1>1, <3>1, NothingWasRead
    <3> QED BY <1>0, <2>1, <3>2 DEF OwingInv
  <2> QED BY <2>1, <2>5, <2>6, <2>7 DEF RestingInv
<1>8. CASE Top(ranks) # 0
  <2>1. batches' = Ended(Enqueue(batches, key), "done") /\ status' = status
    BY <1>0, <1>1, <1>3, <1>8
  <2>2. key \in Keys /\ IsDeep(key)
    <3> DEFINE upTo == Nearer(Top(ranks), frontier + InitialDeep)
    <3>1. upTo \in Nat /\ frontier + 1 \in Nat /\ kind \in {"initial", "rolling"}
      BY <1>1, <1>3, TriageAssumption DEF Nearer
    <3> HIDE DEF upTo, kind
    <3> QED BY <3>1, KeyTypes DEF IsDeep, upTo
  <2> HIDE DEF key
  <2>3. /\ KeysStay /\ batches'[1] = batches[1] /\ batches'[2].state = "done"
        /\ \A i \in DOMAIN batches' \ DOMAIN batches :
             i > Len(batches) /\ batches'[i].key = key /\ batches'[i].state = "queued"
        /\ \E i \in DOMAIN batches' : batches'[i].key = key
    BY <1>0, <1>1, <1>6, <2>1, <2>2, EndingWithWork DEF IsDeep
  <2>4. PICK i \in DOMAIN batches' : i \notin DOMAIN batches /\ i > 2 /\ batches'[i].state = "queued"
    BY <1>1, <1>6, <2>2, <2>3 DEF KeysStay, IsDeep
  <2>5. Len(batches') > 2
    BY <2>4 DEF QueueTypes
  <2>6. \A j \in DOMAIN batches' :
          /\ batches'[j].key.kind = "parse" <=> j = 1
          /\ batches'[j].key.kind = "preliminary" <=> j = 2
          /\ j <= 2 /\ batches'[j].state = "failed" => status' = "failed"
    <3> SUFFICES ASSUME NEW j \in DOMAIN batches'
                 PROVE  /\ batches'[j].key.kind = "parse" <=> j = 1
                        /\ batches'[j].key.kind = "preliminary" <=> j = 2
                        /\ j <= 2 /\ batches'[j].state = "failed" => status' = "failed"
      OBVIOUS
    <3>1. CASE j \in DOMAIN batches
      BY <1>1, <1>6, <2>3, <3>1 DEF KeysStay
    <3>2. CASE j \notin DOMAIN batches
      BY <1>1, <2>2, <2>3, <3>2 DEF IsDeep
    <3> QED BY <3>1, <3>2
  <2>7. StagesInv'
    <3>1. batches'[1].state = "done" /\ batches'[2].state = "done" /\ Charged(1)'
      BY <1>1, <1>5, <1>6, <2>3
    <3> QED BY <2>5, <2>6, <3>1 DEF StagesInv
  <2>8. StageRowsInv'
    BY <1>0, <1>1, <1>4, <1>5, <2>5 DEF StageRowsInv
  <2>9. OwingInv'
    BY <1>0, <1>1, <1>5, <2>1 DEF OwingInv
  <2> QED BY <2>4, <2>7, <2>8, <2>9 DEF RestingInv, Open
<1> QED
  BY <1>7, <1>8

-----------------------------------------------------------------------------
(* It analyses ranges.                                                       *)

LEMMA RangesComeThird ==
  ASSUME PileInv, worker.batch # 0, Running.kind \notin {"parse", "preliminary"}
  PROVE  worker.batch > 2 /\ Len(batches) > 2 /\ worker.batch \in DOMAIN batches /\ status # "failed"
         /\ batches[worker.batch].state = "running"
<1> USE DEF PileInv, SessionInv, TablesInv
<1>1. /\ worker.batch \in DOMAIN batches /\ status # "failed" /\ batches[worker.batch].state = "running"
  BY RunningFacts
<1>2. worker.batch # 1 /\ worker.batch # 2
  BY <1>1 DEF Running, StagesInv
<1> QED
  BY <1>1, <1>2 DEF QueueTypes

LEMMA PileOfAnalysis ==
  ASSUME MaxDrops = 1, PileInv, NEW c \in Cvs, NEW outcome \in {"scored", "failed"}, AnalyseCv(c, outcome)
  PROVE  StagesInv' /\ StageRowsInv' /\ OwingInv' /\ RestingInv'
<1> USE DEF PileInv, SessionInv, TablesInv
<1>0. /\ worker.batch # 0 /\ Running.kind \in {"initial", "rolling"} /\ worker'.batch = worker.batch
      /\ UNCHANGED <<status, drop, parse, rank, bill, frontier, batches, adding>>
  BY DEF AnalyseCv, money, QueueTypes
<1>1. worker.batch > 2 /\ worker.batch \in DOMAIN batches /\ batches[worker.batch].state = "running"
  BY <1>0, RangesComeThird
<1>2. StagesInv'
  BY <1>0 DEF StagesInv, Charged
<1>3. StageRowsInv' /\ OwingInv'
  BY <1>0, <1>1, StageRowsKept, OwingKept
<1>4. RestingInv'
  BY <1>0, <1>1 DEF RestingInv, Open
<1> QED
  BY <1>2, <1>3, <1>4

LEMMA PileOfFinishedRange ==
  ASSUME MaxDrops = 1, PileInv, FinishDeep \/ RangeFails, QueueTypes'
  PROVE  StagesInv' /\ StageRowsInv' /\ OwingInv' /\ RestingInv'
<1> USE DEF PileInv, SessionInv, TablesInv
<1>0. PICK state \in {"done", "failed"} :
      /\ worker.batch # 0 /\ Running.kind \notin {"parse", "preliminary"} /\ worker' = Idle
      /\ batches' = Ended(batches, state) /\ status' = Settle(status, parse, deep')
      /\ UNCHANGED <<drop, parse, rank, bill, adding>>
  BY DEF FinishDeep, RangeFails, Reading, money, cvs
<1>1. worker.batch > 2 /\ Len(batches) > 2
  BY <1>0, RangesComeThird
<1>2. /\ KeysStay /\ DOMAIN batches' = DOMAIN batches
      /\ \A i \in DOMAIN batches : i # worker.batch => batches'[i] = batches[i]
  BY <1>0, EndingAlone
<1>3. Len(batches') = Len(batches)
  BY <1>2 DEF QueueTypes
<1>4. status' = "failed" <=> status = "failed"
  BY <1>0, SettleType DEF RowTypes
<1>5. StagesInv'
  <2>1. \A i \in DOMAIN batches : i <= 2 => batches'[i].state = batches[i].state
    BY <1>1, <1>2 DEF QueueTypes
  <2> QED BY <1>0, <1>2, <1>3, <1>4, <2>1, StagesKept DEF Charged
<1>6. StageRowsInv' /\ OwingInv'
  <2>1. worker'.batch # 1
    BY <1>0 DEF Idle
  <2> QED BY <1>0, <1>1, <1>3, <1>4, <2>1, StageRowsKept, OwingKept
<1>7. RestingInv'
  BY <1>0, SettlingAgain DEF RestingInv
<1> QED
  BY <1>5, <1>6, <1>7

-----------------------------------------------------------------------------
(* Batches that throw, and deaths of the process.                            *)

(* A batch that is queued again has work to do; a claim that is released scored nobody. *)
LEMMA PileOfRetry ==
  ASSUME MaxDrops = 1, PileInv, BatchRetried, QueueTypes'
  PROVE  StagesInv' /\ StageRowsInv' /\ OwingInv' /\ RestingInv'
<1> USE DEF PileInv, SessionInv, TablesInv
<1>0. /\ worker.batch # 0 /\ batches' = Ended(batches, "queued") /\ worker' = Idle
      /\ UNCHANGED <<status, drop, parse, rank, bill, frontier, adding>>
  BY DEF BatchRetried, money
<1>1. /\ KeysStay /\ DOMAIN batches' = DOMAIN batches /\ worker.batch \in DOMAIN batches
      /\ batches[worker.batch].state = "running" /\ batches'[worker.batch].state = "queued"
      /\ \A i \in DOMAIN batches : i # worker.batch => batches'[i] = batches[i]
  BY <1>0, EndingAlone
<1>2. Len(batches') = Len(batches)
  BY <1>1 DEF QueueTypes
<1>3. StagesInv'
  <2>1. \A i \in DOMAIN batches :
            \/ batches'[i].state = batches[i].state
            \/ batches[i].state # "done" /\ batches'[i].state = "queued"
    BY <1>1
  <2>2. (status = "failed" => status' = "failed") /\ (Charged(1) => Charged(1)')
    BY <1>0 DEF Charged
  <2> QED BY <1>1, <1>2, <2>1, <2>2, StagesKept
<1>4. StageRowsInv' /\ OwingInv'
  <2>1. worker'.batch # 1
    BY <1>0 DEF Idle
  <2> QED BY <1>0, <1>2, <2>1, StageRowsKept, OwingKept
<1>5. RestingInv'
  BY <1>1 DEF RestingInv, Open
<1> QED
  BY <1>3, <1>4, <1>5

LEMMA PileOfFailure ==
  ASSUME MaxDrops = 1, PileInv, SessionFails, QueueTypes'
  PROVE  StagesInv' /\ StageRowsInv' /\ OwingInv' /\ RestingInv'
<1> USE DEF PileInv, SessionInv, TablesInv
<1>0. /\ worker.batch # 0 /\ batches' = Ended(batches, "failed") /\ worker' = Idle
      /\ Reading /\ status' = "failed" /\ RefundSession
      /\ UNCHANGED <<drop, parse, rank, frontier, adding>>
  BY DEF SessionFails, cvs
<1>1. /\ KeysStay /\ DOMAIN batches' = DOMAIN batches /\ worker.batch \in DOMAIN batches
      /\ batches[worker.batch].state = "running" /\ batches'[worker.batch].state = "failed"
      /\ \A i \in DOMAIN batches : i # worker.batch => batches'[i] = batches[i]
  BY <1>0, EndingAlone
<1>2. Len(batches') = Len(batches)
  BY <1>1 DEF QueueTypes
<1>3. bill'[1].charged = bill[1].charged /\ bill'[1].refunded = bill[1].charged
  BY <1>0, SessionRefundKeepsMoney DEF Drops
<1>4. StagesInv'
  <2>1. \A i \in DOMAIN batches :
            \/ batches'[i].state = batches[i].state
            \/ batches[i].state # "done" /\ batches'[i].state = "failed"
    BY <1>1
  <2>2. Charged(1) => Charged(1)'
    BY <1>3 DEF Charged
  <2> QED BY <1>0, <1>1, <1>2, <2>1, <2>2, StagesKept
<1>5. StageRowsInv'
  <2>1. worker'.batch # 1
    BY <1>0 DEF Idle
  <2> QED BY <1>0, <1>2, <1>3, <2>1, StageRowsKept
<1>6. OwingInv' /\ RestingInv'
  BY <1>0, <1>3 DEF OwingInv, RestingInv
<1> QED
  BY <1>4, <1>5, <1>6

(* There is no later delivery to fail, to charge or to refuse. *)
LEMMA NoLaterDelivery ==
  ASSUME MaxDrops = 1, PileInv
  PROVE  /\ ~ DeliveryFails /\ \A n \in 1..MaxCvs : ~ AddCvs(n)
         /\ \A d \in Drops : ~ ChargeAdded(d) /\ ~ RefuseAdded(d)
<1> USE DEF PileInv, SessionInv, TablesInv
<1>1. Drops = {1} /\ adding = {}
  BY DEF Drops, StageRowsInv
<1>2. ~ DeliveryFails
  BY <1>1, RunningFacts DEF DeliveryFails, OpeningPile
<1>3. ASSUME NEW n \in 1..MaxCvs PROVE ~ AddCvs(n)
  <2>1. Opened \cup {1} = {1}
    BY <1>1 DEF Opened, RowTypes
  <2>2. Max({1}) = 1
    <3>1. IsFiniteSet({1}) /\ {1} # {} /\ {1} \subseteq Int
      BY FS_Singleton
    <3> QED BY <3>1, MaxIsGreatest
  <2> QED BY <1>1, <2>1, <2>2 DEF AddCvs
<1> QED
  BY <1>1, <1>2, <1>3 DEF ChargeAdded, RefuseAdded

(* The process comes back: what ran is queued, whatever was charged or given back before. *)
LEMMA PileResumed ==
  ASSUME MaxDrops = 1, PileInv, Resume(batches), UNCHANGED <<status, drop, parse, rank, frontier>>,
         QueueTypes', bill'[1].charged = bill[1].charged, OwingInv'
  PROVE  StagesInv' /\ StageRowsInv' /\ RestingInv'
<1> USE DEF PileInv, SessionInv, TablesInv
<1>1. /\ KeysStay /\ DOMAIN batches' = DOMAIN batches /\ worker' = Idle /\ adding' = {}
      /\ \A i \in DOMAIN batches :
              batches'[i].state = IF batches[i].state = "running" THEN "queued" ELSE batches[i].state
  BY ResumeKeepsQueue DEF Resume
<1>2. Len(batches') = Len(batches)
  BY <1>1 DEF QueueTypes
<1>3. StagesInv'
  <2>1. \A i \in DOMAIN batches :
            \/ batches'[i].state = batches[i].state
            \/ batches[i].state # "done" /\ batches'[i].state = "queued"
    BY <1>1
  <2>2. Charged(1) => Charged(1)'
    BY DEF Charged
  <2> QED BY <1>1, <1>2, <2>1, <2>2, StagesKept
<1>4. StageRowsInv'
  <2>1. worker'.batch # 1 /\ adding' = adding
    BY <1>1 DEF Idle, StageRowsInv
  <2> QED BY <1>2, <2>1, StageRowsKept
<1>5. RestingInv'
  <2>1. CASE \E i \in DOMAIN batches : Open(i)
    BY <1>1, <2>1 DEF RestingInv, Open
  <2>2. CASE status \in {"draft", "failed"} \/ status = Settle(status, parse, deep)
    <3>1. \A c \in Cvs : deep'[c] = "scored" <=> deep[c] = "scored"
      BY DEF Resume
    <3>2. Settle(status, parse, deep') = Settle(status, parse, deep)
      BY <3>1, SettlingSame
    <3> QED BY <2>2, <3>2 DEF RestingInv
  <2> QED BY <2>1, <2>2 DEF RestingInv
<1> QED
  BY <1>3, <1>4, <1>5

LEMMA PileOfCrashes ==
  ASSUME MaxDrops = 1, PileInv, Restart \/ CrashAfterRefund, QueueTypes'
  PROVE  StagesInv' /\ StageRowsInv' /\ OwingInv' /\ RestingInv'
<1> USE DEF PileInv, SessionInv, TablesInv
<1>0. Resume(batches) /\ UNCHANGED <<status, drop, parse, rank, frontier>>
  BY DEF Restart, CrashAfterRefund
<1>1. Len(batches') = Len(batches)
  <2>1. DOMAIN batches' = DOMAIN batches
    BY <1>0, ResumeKeepsQueue
  <2> QED BY <2>1 DEF QueueTypes
<1>2. CASE Restart
  <2>1. UNCHANGED bill
    BY <1>2 DEF Restart, money
  <2>2. OwingInv'
    BY <1>0, <1>1, <2>1, OwingKept
  <2> QED BY <1>0, <2>1, <2>2, PileResumed
<1>3. CASE CrashAfterRefund
  <2>1. /\ bill'[1].refunded = Cardinality(Unreadable(1)) /\ bill'[1].charged = bill[1].charged
        /\ status # "failed" /\ Cardinality(Unreadable(1)) \in Nat
    BY <1>3, ReadAndRefunded, ReadingIsFirst, PileSize DEF CrashAfterRefund
  <2>2. OwingInv'
    <3>1. Unreadable(1)' = Unreadable(1)
      BY <1>0 DEF Unreadable, RowsOf
    <3> QED BY <1>0, <2>1, <3>1 DEF OwingInv
  <2> QED BY <1>0, <2>1, <2>2, PileResumed
<1> QED
  BY <1>2, <1>3

(* A charge without a launch: the draft is paid for, and stays a draft. *)
LEMMA PileOfLostLaunch ==
  ASSUME MaxDrops = 1, PileInv, CrashAfterCharge, QueueTypes'
  PROVE  StagesInv' /\ StageRowsInv' /\ OwingInv' /\ RestingInv'
<1> USE DEF PileInv, SessionInv, TablesInv
<1>0. /\ status = "draft" /\ ~Launched /\ DraftPile # {} /\ Charge(1, Cardinality(DraftPile))
      /\ Resume(batches) /\ UNCHANGED <<status, drop, parse, rank, frontier>>
  BY DEF CrashAfterCharge, StageRowsInv
<1>1. /\ Len(batches) = 0 /\ Charged(1)' /\ bill'[1].charged = Cardinality(RowsOf(1)) /\ bill'[1].refunded = 0
  BY <1>0, ChargingThePile
<1>2. DOMAIN batches' = DOMAIN batches /\ worker' = Idle /\ adding' = {}
  BY <1>0, ResumeKeepsQueue DEF Resume
<1>3. Len(batches') = 0 /\ DOMAIN batches' = {}
  BY <1>1, <1>2 DEF QueueTypes
<1>4. StagesInv'
  BY <1>3 DEF StagesInv
<1>5. StageRowsInv'
  <2>1. /\ RowsOf(1)' = RowsOf(1) /\ (NobodyIsHidden' <=> NobodyIsHidden) /\ worker'.batch = 0
    BY <1>0, <1>2 DEF RowsOf, NobodyIsHidden, Idle
  <2>2. \A c \in Cvs : rank'[c] = 0 /\ parse'[c] # "duplicate" /\ parse'[c] \in {"absent", "pending"}
    BY <1>0, <1>1 DEF StageRowsInv
  <2>3. frontier' = 0 /\ \A c \in Cvs : parse'[c] = "absent" <=> drop'[c] = 0
    BY <1>0, <1>1 DEF StageRowsInv
  <2> QED BY <1>1, <1>2, <1>3, <2>1, <2>2, <2>3 DEF StageRowsInv
<1>6. OwingInv'
  <2>1. Cardinality(Unreadable(1)') \in Nat
    <3>1. Unreadable(1)' \in SUBSET Cvs
      BY DEF Unreadable, RowsOf
    <3> QED BY <3>1, SizeOfAPile
  <2> QED BY <1>0, <1>1, <1>3, <2>1 DEF OwingInv
<1> QED
  BY <1>0, <1>4, <1>5, <1>6 DEF RestingInv

-----------------------------------------------------------------------------
LEMMA PileStep ==
  ASSUME MaxDrops = 1, PileInv, [NextCrash]_triageVars
  PROVE  PileInv'
<1>0. SessionInv' /\ QueueTypes'
  BY CrashStepKeepsSession DEF PileInv, SessionInv, TablesInv
<1>1. StagesInv' /\ StageRowsInv' /\ OwingInv' /\ RestingInv'
  <2>1. CASE Routes
    BY <2>1, PileOfUpload, PileOfLaunch, NoLaterDelivery, PileOfTranche, PileOfRequeue DEF Routes
  <2>2. CASE Work
    BY <1>0, <2>2, PileOfClaims, PileOfDeepClaims, PileOfReading, PileOfFinishedReading,
       PileOfRanking, PileOfAnalysis, PileOfFinishedRange DEF Work
  <2>3. CASE Failures
    BY <1>0, <2>3, PileOfRetry, PileOfFailure, NoLaterDelivery, PileOfFinishedRange DEF Failures
  <2>4. CASE Restart \/ CrashAfterCharge \/ CrashAfterRefund
    BY <1>0, <2>4, PileOfCrashes, PileOfLostLaunch
  <2>5. CASE UNCHANGED triageVars
    <3>1. UNCHANGED <<status, drop, parse, rank, deep, bill, frontier, batches, worker, adding>>
      BY <2>5 DEF triageVars, cvs, money
    <3>2. StagesInv'
      BY <3>1 DEF PileInv, StagesInv, Charged
    <3>3. StageRowsInv' /\ OwingInv'
      BY <3>1, StageRowsKept, OwingKept DEF PileInv, SessionInv, TablesInv, StageRowsInv
    <3>4. RestingInv'
      BY <3>1 DEF PileInv, RestingInv, Open, Settle
    <3> QED BY <3>2, <3>3, <3>4
  <2> QED BY <2>1, <2>2, <2>3, <2>4, <2>5 DEF NextCrash, NextKept
<1> QED
  BY <1>0, <1>1 DEF PileInv

(* A session of one pile, of any number of CVs and however often its process dies, gives
   back exactly the CVs that could not be read, all of them if it fails, ranks everyone it
   read, and its status at rest says what the rows say. *)
THEOREM PileStaysSound ==
  ASSUME MaxDrops = 1
  PROVE  SpecCrash => []PileIsSound
<1>1. Init => PileInv
  <2> SUFFICES ASSUME Init PROVE PileInv
    OBVIOUS
  <2>1. SessionInv
    BY SessionBegins
  <2>2. 1 \in Drops /\ Len(batches) = 0 /\ DOMAIN batches = {} /\ bill[1].charged = 0 /\ bill[1].refunded = 0
    BY DEF Init, Drops, Unpaid
  <2>3. StagesInv
    BY <2>2 DEF StagesInv
  <2>4. StageRowsInv
    BY <2>2 DEF Init, StageRowsInv, NobodyIsHidden, Charged, Idle
  <2>5. OwingInv
    <3>1. Cardinality(Unreadable(1)) \in Nat
      BY PileSize
    <3> QED BY <2>2, <3>1 DEF Init, OwingInv
  <2> QED BY <2>1, <2>3, <2>4, <2>5 DEF Init, PileInv, RestingInv
<1>2. PileInv /\ [NextCrash]_triageVars => PileInv'
  BY PileStep
<1>3. PileInv => PileIsSound
  BY OnePileIsSound
<1> QED
  BY <1>1, <1>2, <1>3, PTL DEF SpecCrash
=============================================================================
