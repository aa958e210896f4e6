---------------------------- MODULE TriageQueue ----------------------------
(***************************************************************************)
(* One triage session: the deliveries of CVs that are charged for, the     *)
(* queue of batches that reads, ranks and analyses them, and the status    *)
(* the recruiter sees (triageQueue.js, triage.js, the charging half of     *)
(* wallet.js and the triage routes of index.js).                           *)
(*                                                                         *)
(* One worker, the pump, runs one batch at a time; it stops at an await    *)
(* for every CV it reads or analyses, and while the model reads the job    *)
(* description.  Between those points the routes run: deliveries, scrolls, *)
(* retries, removals.  A delivery itself stops at an await between its     *)
(* rows and its charge.  Whether a CV can be read, how the preliminary     *)
(* scorer orders the CVs and whether an analysis or a batch fails is       *)
(* decided outside.                                                        *)
(***************************************************************************)
EXTENDS Integers, FiniteSets, FiniteSetsExt, SequencesExt

CONSTANTS
    MaxCvs,      \* bound: CVs ever uploaded
    MaxDrops,    \* bound: deliveries; the first is the draft's own pile
    Capacity,    \* companies.triage_cv_balance to begin with
    InitialDeep, \* TRIAGE.initialDeep
    Tranche,     \* TRIAGE.tranche
    MaxAttempts, \* TRIAGE.maxAttempts
    MaxRestarts, \* bound: restarts of the process
    MaxBatches,  \* bound: no retry is asked for beyond so many batches
    Person,      \* the person whose address a CV carries (emailKey)
    Address      \* the address as it is spelled in the CV

Cvs == 1..MaxCvs     \* in upload order: triage_applicants.created_at, id
Drops == 1..MaxDrops

ASSUME TriageAssumption ==
    /\ MaxCvs \in Nat /\ MaxDrops \in Nat \ {0} /\ Capacity \in Nat
    /\ InitialDeep \in Nat \ {0} /\ Tranche \in Nat \ {0}
    /\ MaxAttempts \in Nat \ {0} /\ MaxRestarts \in Nat /\ MaxBatches \in Nat
    /\ DOMAIN Person = Cvs /\ DOMAIN Address = Cvs
    /\ \A c, d \in Cvs : Address[c] = Address[d] => Person[c] = Person[d]

VARIABLES
    status,   \* triages.status
    drop,     \* triage_applicants.drop_id, 0 for a CV not uploaded yet
    parse,    \* triage_applicants.parse_status; "absent" without a row
    rank,     \* triage_applicants.prelim_rank, 0 for NULL
    deep,     \* triage_applicants.deep_status
    bill,     \* triage_drops.charged_cvs and refunded_cvs
    frontier, \* triages.analysis_frontier
    batches,  \* triage_batches, in id order
    worker,   \* the batch the pump is running, and the CVs left in it
    adding,   \* deliveries whose request is waiting at the await
    balance,  \* companies.triage_cv_balance
    restarts  \* how often the process has come back

cvs == <<drop, parse, rank, deep>>
money == <<bill, balance>>
triageVars == <<status, cvs, money, frontier, batches, worker, adding, restarts>>

Present == {c \in Cvs : parse[c] # "absent"}
Opened == {drop[c] : c \in Cvs} \ {0}
Charged(d) == bill[d].charged > 0
Launched == \E d \in Drops : Charged(d)

Unpaid == [charged |-> 0, refunded |-> 0]
Idle == [batch |-> 0, left |-> {}]
OfSession == 0  \* triage_batches.drop_id IS NULL

Keys == [kind : {"parse", "preliminary", "initial", "rolling"}, drop : Drops \cup {OfSession},
         from : Nat, to : Nat, again : {<<>>} \cup ({"retry", "promote"} \X Nat)]

TypeOK ==
    /\ status \in {"draft", "processing", "ready", "completed", "failed"}
    /\ drop \in [Cvs -> Drops \cup {0}]
    /\ parse \in [Cvs -> {"absent", "pending", "parsed", "failed", "duplicate"}]
    /\ rank \in [Cvs -> Nat]
    /\ deep \in [Cvs -> {"pending", "running", "scored", "failed"}]
    /\ bill \in [Drops -> [charged : 0..MaxCvs, refunded : 0..MaxCvs]]
    /\ frontier \in Nat
    /\ \A i \in DOMAIN batches :
         /\ batches[i].key \in Keys
         /\ batches[i].state \in {"queued", "running", "done", "failed"}
         /\ batches[i].attempts \in 0..MaxAttempts
    /\ worker.batch \in {0} \cup DOMAIN batches
    /\ worker.left \subseteq Cvs
    /\ adding \subseteq Drops
    /\ balance \in Nat
    /\ restarts \in 0..MaxRestarts

Init ==
    /\ status = "draft"
    /\ drop = [c \in Cvs |-> 0]
    /\ parse = [c \in Cvs |-> "absent"]
    /\ rank = [c \in Cvs |-> 0]
    /\ deep = [c \in Cvs |-> "pending"]
    /\ bill = [d \in Drops |-> Unpaid]
    /\ frontier = 0
    /\ batches = <<>>
    /\ worker = Idle
    /\ adding = {}
    /\ balance = Capacity
    /\ restarts = 0

-----------------------------------------------------------------------------
(***************************************************************************)
(* The queue                                                               *)
(***************************************************************************)

Key(kind, d, from, to, again) ==
    [kind |-> kind, drop |-> d, from |-> from, to |-> to, again |-> again]

(* Faulty variant: one batch of a kind is enough. *)
EnqueueOncePerKind(queue, key) ==
    IF \E i \in DOMAIN queue : queue[i].key.kind = key.kind THEN queue
    ELSE Append(queue, [key |-> key, state |-> "queued", attempts |-> 0])

(* enqueue: the key is the identity of the work, whatever became of it. *)
Enqueue(queue, key) ==
    IF \E i \in DOMAIN queue : queue[i].key = key THEN queue
    ELSE Append(queue, [key |-> key, state |-> "queued", attempts |-> 0])

Open(i) == batches[i].state \in {"queued", "running"}

Owed == {batches[i].key : i \in {j \in DOMAIN batches : Open(j)}}

Queued == {i \in DOMAIN batches : batches[i].state = "queued"}

(* The batch the pump claims next. *)
NextBatch == Min(Queued)

Running == batches[worker.batch].key

(* The running batch ends in `state`. *)
Ended(queue, state) == [queue EXCEPT ![worker.batch].state = state]

(* The highest rank there is. *)
Top(ranks) == Max({ranks[c] : c \in Cvs} \cup {0})

Further(a, b) == IF a > b THEN a ELSE b
Nearer(a, b) == IF a < b THEN a ELSE b

(* settleStatus, for rows that have become `p` and `d`. *)
Settle(now, p, d) ==
    LET scored  == \E c \in Cvs : p[c] # "absent" /\ d[c] = "scored"
        waiting == \E c \in Cvs : p[c] = "pending" \/ (p[c] = "parsed" /\ d[c] # "scored")
    IN  IF now \in {"draft", "failed"} THEN now
        ELSE IF ~scored THEN "processing"
        ELSE IF waiting THEN "ready" ELSE "completed"

(* refundTriageDrop: `total` is what should have gone back by now. *)
RefundDrop(d, total) ==
    LET back == Further(bill[d].refunded, Nearer(total, bill[d].charged)) IN
    /\ bill' = [bill EXCEPT ![d].refunded = back]
    /\ balance' = balance + (back - bill[d].refunded)

(* refundTriageSession *)
RefundSession ==
    /\ bill' = [d \in Drops |-> [bill[d] EXCEPT !.refunded = bill[d].charged]]
    /\ balance' = balance + MapThenSumSet(LAMBDA d : bill[d].charged - bill[d].refunded, Drops)

-----------------------------------------------------------------------------
(***************************************************************************)
(* Deliveries                                                              *)
(***************************************************************************)

RowsOf(d) == {c \in Cvs : drop[c] = d}

NewRows(n) ==
    LET used == Cardinality({c \in Cvs : drop[c] # 0}) IN (used + 1)..(used + n)

AddRows(n, d) ==
    /\ NewRows(n) \subseteq Cvs
    /\ drop' = [c \in Cvs |-> IF c \in NewRows(n) THEN d ELSE drop[c]]
    /\ parse' = [c \in Cvs |-> IF c \in NewRows(n) THEN "pending" ELSE parse[c]]

(* POST /api/hr/triage/:id/files: a file joins the draft. *)
Upload ==
    /\ status = "draft" /\ ~Launched
    /\ AddRows(1, 1)
    /\ UNCHANGED <<status, rank, deep, money, frontier, batches, worker, adding, restarts>>

(* Faulty variant: a failed session is started again. *)
StartProcessingAnyway(d) ==
    /\ status' = "processing"
    /\ batches' = Enqueue(batches, Key("parse", d, 0, 0, <<>>))

(* startProcessing *)
StartProcessing(d) ==
    /\ status' = IF status = "failed" THEN status ELSE "processing"
    /\ batches' = Enqueue(batches, Key("parse", d, 0, 0, <<>>))

(* Faulty variant: the balance was checked earlier. *)
ChargeUnchecked(d, n) ==
    /\ bill' = [bill EXCEPT ![d].charged = n]
    /\ balance' = balance - n

(* consumeTriageDrop; the balance is checked by the statement that spends. *)
Charge(d, n) ==
    /\ balance >= n
    /\ bill' = [bill EXCEPT ![d].charged = n]
    /\ balance' = balance - n

DraftPile == {c \in RowsOf(1) : c \in Present}

(* POST /api/hr/triage/:id/launch *)
Launch ==
    /\ status = "draft" /\ ~Launched
    /\ DraftPile # {}
    /\ Charge(1, Cardinality(DraftPile))
    /\ StartProcessing(1)
    /\ UNCHANGED <<cvs, frontier, worker, adding, restarts>>

(* POST /api/hr/triage/:id/cvs up to the await: the rows of a new delivery  *)
(* are written, and the files that were turned away are being unlinked.    *)
AddCvs(n) ==
    LET d == Max(Opened \cup {1}) + 1 IN
    /\ Launched /\ status # "failed"
    /\ d \in Drops
    /\ balance >= n
    /\ AddRows(n, d)
    /\ adding' = adding \cup {d}
    /\ UNCHANGED <<status, rank, deep, money, frontier, batches, worker, restarts>>

(* ... and after it: exactly the rows that were added are charged for. *)
ChargeAdded(d) ==
    /\ d \in adding
    /\ Charge(d, Cardinality(RowsOf(d)))
    /\ StartProcessing(d)
    /\ adding' = adding \ {d}
    /\ UNCHANGED <<cvs, frontier, worker, restarts>>

(* dropDelivery, when the capacity has gone by then. *)
RefuseAdded(d) ==
    /\ d \in adding
    /\ balance < Cardinality(RowsOf(d))
    /\ parse' = [c \in Cvs |-> IF c \in RowsOf(d) THEN "absent" ELSE parse[c]]
    /\ adding' = adding \ {d}
    /\ UNCHANGED <<status, drop, rank, deep, money, frontier, batches, worker, restarts>>

-----------------------------------------------------------------------------
(***************************************************************************)
(* The pump                                                                *)
(***************************************************************************)

(* claim, for the oldest batch if it is of these kinds. *)
Claim(kinds, state) ==
    /\ worker = Idle
    /\ Queued # {}
    /\ batches[NextBatch].key.kind \in kinds
    /\ batches' = [batches EXCEPT ![NextBatch].state = state,
                                  ![NextBatch].attempts = Nearer(@ + 1, MaxAttempts)]

(* A failed session is not worked on. *)
ClaimOnFailed ==
    /\ status = "failed"
    /\ Claim({"parse", "preliminary", "initial", "rolling"}, "failed")
    /\ UNCHANGED <<status, cvs, money, frontier, worker, adding, restarts>>

(* runParse begins with what its delivery holds. *)
ClaimParse ==
    /\ status # "failed"
    /\ Claim({"parse"}, "running")
    /\ worker' = [batch |-> NextBatch,
                  left |-> {c \in RowsOf(batches[NextBatch].key.drop) : parse[c] = "pending"}]
    /\ UNCHANGED <<status, cvs, money, frontier, adding, restarts>>

(* A CV has been read, or turned out not to be readable; its row may have   *)
(* been removed meanwhile.                                                 *)
ReadCv(c, outcome) ==
    /\ worker.batch # 0 /\ Running.kind = "parse"
    /\ c \in worker.left
    /\ worker' = [worker EXCEPT !.left = @ \ {c}]
    /\ parse' = [parse EXCEPT ![c] = IF @ = "absent" THEN @ ELSE outcome]
    /\ UNCHANGED <<status, drop, rank, deep, money, frontier, batches, adding, restarts>>

Unreadable(d) == {c \in RowsOf(d) : parse[c] = "failed"}

(* resolveDuplicatePeople: the newest CV of each person is the current one. *)
Versions == {c \in Cvs : parse[c] \in {"parsed", "duplicate"}}

Resolved ==
    [c \in Cvs |->
        IF c \notin Versions THEN parse[c]
        ELSE IF \E e \in Versions : Person[e] = Person[c] /\ e > c THEN "duplicate"
        ELSE "parsed"]

(* Faulty variant: nobody asks for the ranking. *)
FinishParseUnranked ==
    /\ worker.batch # 0 /\ Running.kind = "parse"
    /\ worker.left = {}
    /\ RefundDrop(Running.drop, Cardinality(Unreadable(Running.drop)))
    /\ parse' = Resolved
    /\ batches' = Ended(batches, "done")
    /\ worker' = Idle
    /\ UNCHANGED <<status, drop, rank, deep, frontier, adding, restarts>>

(* runParse, once every file is read: what could not be read is returned,   *)
(* the versions are resolved and ranking is asked for.                     *)
FinishParse ==
    /\ worker.batch # 0 /\ Running.kind = "parse"
    /\ worker.left = {}
    /\ RefundDrop(Running.drop, Cardinality(Unreadable(Running.drop)))
    /\ parse' = Resolved
    /\ batches' = Ended(Enqueue(batches, Key("preliminary", Running.drop, 0, 0, <<>>)), "done")
    /\ worker' = Idle
    /\ UNCHANGED <<status, drop, rank, deep, frontier, adding, restarts>>

(* runPreliminary begins: the model reads the job description. *)
ClaimPreliminary ==
    /\ status # "failed"
    /\ Claim({"preliminary"}, "running")
    /\ worker' = [batch |-> NextBatch, left |-> {}]
    /\ UNCHANGED <<status, cvs, money, frontier, adding, restarts>>

Unranked == {c \in Cvs : parse[c] = "parsed" /\ rank[c] = 0}

(* Faulty variant: the cursor is forgotten. *)
OffsetOfRanks == Top(rank)

(* Ranks are handed out above everything that was ever handed out. *)
Offset == Further(Top(rank), frontier)

(* The CVs without a rank, in the order the preliminary scorer puts them;   *)
(* the range the session now owes, from the cursor, is asked for.          *)
RankCvs(order) ==
    LET ranks == [c \in Cvs |-> IF c \in Unranked THEN Offset + order[c] ELSE rank[c]]
        kind  == IF Offset = 0 THEN "initial" ELSE "rolling"
        upTo  == Nearer(Top(ranks), frontier + InitialDeep)
    IN
    /\ worker.batch # 0 /\ Running.kind = "preliminary"
    /\ rank' = ranks
    /\ IF Top(ranks) = 0 THEN status' = "failed"
       ELSE IF frontier >= Top(ranks) THEN status' = Settle(status, parse, deep)
       ELSE status' = status
    /\ batches' = Ended(IF frontier < Top(ranks)
                        THEN Enqueue(batches, Key(kind, OfSession, frontier + 1, upTo, <<>>))
                        ELSE batches, "done")
    /\ worker' = Idle
    /\ UNCHANGED <<drop, parse, deep, money, frontier, adding, restarts>>

Orders == {order \in [Unranked -> 1..Cardinality(Unranked)] :
             \A c, e \in Unranked : c # e => order[c] # order[e]}

InRange(key) ==
    {c \in Cvs : parse[c] = "parsed" /\ rank[c] # 0 /\ key.from <= rank[c] /\ rank[c] <= key.to}

ToAnalyse(key) == {c \in InRange(key) : deep[c] \in {"pending", "failed"}}

(* runDeep begins: the rows of its range are claimed. *)
ClaimDeep ==
    LET rows == ToAnalyse(batches[NextBatch].key) IN
    /\ status # "failed"
    /\ Claim({"initial", "rolling"}, "running")
    /\ rows # {}
    /\ worker' = [batch |-> NextBatch, left |-> rows]
    /\ deep' = [c \in Cvs |-> IF c \in rows THEN "running" ELSE deep[c]]
    /\ UNCHANGED <<status, drop, parse, rank, money, frontier, adding, restarts>>

(* ... or there are none: the cursor moves as far as ranks exist. *)
NothingToAnalyse ==
    LET key == batches[NextBatch].key IN
    /\ status # "failed"
    /\ Claim({"initial", "rolling"}, "done")
    /\ ToAnalyse(key) = {}
    /\ frontier' = Max({frontier} \cup {rank[c] : c \in {e \in Cvs : rank[e] <= key.to}})
    /\ status' = Settle(status, parse, deep)
    /\ UNCHANGED <<cvs, money, worker, adding, restarts>>

(* One CV has been analysed, or that failed. *)
AnalyseCv(c, outcome) ==
    /\ worker.batch # 0 /\ Running.kind \in {"initial", "rolling"}
    /\ c \in worker.left
    /\ worker' = [worker EXCEPT !.left = @ \ {c}]
    /\ deep' = [deep EXCEPT ![c] = IF c \in Present THEN outcome ELSE @]
    /\ UNCHANGED <<status, drop, parse, rank, money, frontier, batches, adding, restarts>>

FinishDeep ==
    /\ worker.batch # 0 /\ Running.kind \in {"initial", "rolling"}
    /\ worker.left = {}
    /\ frontier' = Further(frontier, Running.to)
    /\ status' = Settle(status, parse, deep)
    /\ batches' = Ended(batches, "done")
    /\ worker' = Idle
    /\ UNCHANGED <<cvs, money, adding, restarts>>

-----------------------------------------------------------------------------
(***************************************************************************)
(* A batch throws                                                          *)
(***************************************************************************)

Permanent == batches[worker.batch].attempts >= MaxAttempts

Released == [c \in Cvs |-> IF c \in worker.left /\ deep[c] = "running" THEN "pending" ELSE deep[c]]

(* It is tried again; analyses in progress are released. *)
BatchRetried ==
    /\ worker.batch # 0 /\ ~Permanent
    /\ batches' = Ended(batches, "queued")
    /\ deep' = Released
    /\ worker' = Idle
    /\ UNCHANGED <<status, drop, parse, rank, money, frontier, adding, restarts>>

Reading == Running.kind \in {"parse", "preliminary"}
OpeningPile == Running.drop \in {OfSession, 1}

(* The opening pile could not be read: the session fails, and owes          *)
(* everything it took.                                                     *)
SessionFails ==
    /\ worker.batch # 0 /\ Permanent
    /\ Reading /\ OpeningPile
    /\ status' = "failed"
    /\ RefundSession
    /\ batches' = Ended(batches, "failed")
    /\ worker' = Idle
    /\ UNCHANGED <<cvs, frontier, adding, restarts>>

(* A later delivery could not be read: it is refunded, the session goes on. *)
DeliveryFails ==
    /\ worker.batch # 0 /\ Permanent
    /\ Reading /\ ~OpeningPile
    /\ parse' = [c \in Cvs |-> IF c \in RowsOf(Running.drop) /\ parse[c] = "pending"
                               THEN "failed" ELSE parse[c]]
    /\ RefundDrop(Running.drop, bill[Running.drop].charged)
    /\ status' = Settle(status, parse', deep)
    /\ batches' = Ended(batches, "failed")
    /\ worker' = Idle
    /\ UNCHANGED <<drop, rank, deep, frontier, adding, restarts>>

(* A range could not be analysed: its CVs are marked, and the cursor passes. *)
RangeFails ==
    /\ worker.batch # 0 /\ Permanent
    /\ ~Reading
    /\ deep' = [c \in Cvs |-> IF c \in InRange(Running) /\ Released[c] = "pending"
                              THEN "failed" ELSE Released[c]]
    /\ frontier' = Further(frontier, Running.to)
    /\ status' = Settle(status, parse, deep')
    /\ batches' = Ended(batches, "failed")
    /\ worker' = Idle
    /\ UNCHANGED <<drop, parse, rank, money, adding, restarts>>

-----------------------------------------------------------------------------
(***************************************************************************)
(* The recruiter                                                           *)
(***************************************************************************)

(* requestNextTranche, from the end of a page of results. *)
RequestNextTranche ==
    /\ status # "draft"
    /\ frontier < Top(rank)
    /\ batches' = Enqueue(batches, Key("rolling", OfSession, frontier + 1,
                                       Nearer(frontier + Tranche, Top(rank)), <<>>))
    /\ UNCHANGED <<status, cvs, money, frontier, worker, adding, restarts>>

FailedRanks == {rank[c] : c \in {e \in Cvs : /\ parse[e] = "parsed" /\ rank[e] # 0
                                             /\ deep[e] = "failed"}}

(* requeueFailedAnalyses: the bands that hold a failure, asked for by rank   *)
(* (the highest last) under the number of this round.                      *)
RequeueFailedAnalyses ==
    LET round == Cardinality({i \in DOMAIN batches : batches[i].key.kind = "rolling"})
        bands == {((r - 1) \div Tranche) * Tranche + 1 : r \in FailedRanks}
        band(from) == Key("rolling", OfSession, from,
                          Nearer(from + Tranche - 1, Max(FailedRanks)), <<"retry", round>>)
    IN
    /\ FailedRanks # {}
    /\ Len(batches) < MaxBatches
    /\ deep' = [c \in Cvs |-> IF parse[c] = "parsed" /\ deep[c] = "failed"
                              THEN "pending" ELSE deep[c]]
    /\ batches' = MapThenFoldSet(LAMBDA key, queue : Enqueue(queue, key), batches,
                                 LAMBDA from : band(from), LAMBDA some : Max(some), bands)
    /\ status' = IF status = "completed" THEN "ready" ELSE status
    /\ UNCHANGED <<drop, parse, rank, money, frontier, worker, adding, restarts>>

(* Faulty variant: no older version takes its place. *)
HeirsForgotten(c) == {}

(* removeApplicant: the newest older version spelled the same way takes the *)
(* place of a current CV.                                                  *)
Heirs(c) == IF parse[c] = "parsed"
            THEN {e \in Cvs : parse[e] = "duplicate" /\ Address[e] = Address[c]}
            ELSE {}

(* DELETE /api/hr/triage/:id/applicants/:applicantId: removeApplicant,       *)
(* rankPending for a promoted CV, resettle.                                *)
RemoveApplicant(c) ==
    LET left == [parse EXCEPT ![c] = "absent"]
        now  == IF Heirs(c) = {} THEN left ELSE [left EXCEPT ![Max(Heirs(c))] = "parsed"]
        waiting == {e \in Cvs : now[e] = "parsed" /\ rank[e] = 0}
    IN
    /\ c \in Present
    /\ parse' = now
    /\ rank' = [rank EXCEPT ![c] = 0]
    /\ deep' = [deep EXCEPT ![c] = "pending"]
    /\ batches' = IF Heirs(c) # {} /\ waiting # {}
                  THEN Enqueue(batches, Key("preliminary", OfSession, 0, 0,
                                            <<"promote", Cardinality(waiting)>>))
                  ELSE batches
    /\ status' = Settle(status, parse', deep')
    /\ UNCHANGED <<drop, money, frontier, worker, adding, restarts>>

-----------------------------------------------------------------------------
(***************************************************************************)
(* Crashes                                                                 *)
(***************************************************************************)

(* Faulty variant: the batch that was running is not queued again. *)
ResumeForgotten(queue) ==
    /\ restarts < MaxRestarts
    /\ restarts' = restarts + 1
    /\ batches' = queue
    /\ deep' = [c \in Cvs |-> IF deep[c] = "running" THEN "pending" ELSE deep[c]]
    /\ worker' = Idle
    /\ adding' = {}

(* resumeQueue, on boot. *)
Resume(queue) ==
    /\ restarts < MaxRestarts
    /\ restarts' = restarts + 1
    /\ batches' = [i \in DOMAIN queue |->
         [queue[i] EXCEPT !.state = IF @ = "running" THEN "queued" ELSE @]]
    /\ deep' = [c \in Cvs |-> IF deep[c] = "running" THEN "pending" ELSE deep[c]]
    /\ worker' = Idle
    /\ adding' = {}

(* The process dies while nothing is between two transactions. *)
Restart ==
    /\ Resume(batches)
    /\ UNCHANGED <<status, drop, parse, rank, money, frontier>>

(* It dies after the charge and before startProcessing. *)
CrashAfterCharge ==
    /\ \/ /\ status = "draft" /\ ~Launched
          /\ DraftPile # {}
          /\ Charge(1, Cardinality(DraftPile))
       \/ \E d \in adding : Charge(d, Cardinality(RowsOf(d)))
    /\ Resume(batches)
    /\ UNCHANGED <<status, drop, parse, rank, frontier>>

(* It dies in runParse, between what is given back and the end of the batch. *)
CrashAfterRefund ==
    /\ worker.batch # 0 /\ Running.kind = "parse"
    /\ worker.left = {}
    /\ RefundDrop(Running.drop, Cardinality(Unreadable(Running.drop)))
    /\ Resume(batches)
    /\ UNCHANGED <<status, drop, parse, rank, frontier>>

-----------------------------------------------------------------------------
Routes ==
    \/ Upload
    \/ Launch
    \/ \E n \in 1..MaxCvs : AddCvs(n)
    \/ \E d \in Drops : ChargeAdded(d)
    \/ \E d \in Drops : RefuseAdded(d)
    \/ RequestNextTranche
    \/ RequeueFailedAnalyses

Work ==
    \/ ClaimOnFailed
    \/ ClaimParse
    \/ \E c \in Cvs, outcome \in {"parsed", "failed"} : ReadCv(c, outcome)
    \/ FinishParse
    \/ ClaimPreliminary
    \/ \E order \in Orders : RankCvs(order)
    \/ ClaimDeep
    \/ NothingToAnalyse
    \/ \E c \in Cvs, outcome \in {"scored", "failed"} : AnalyseCv(c, outcome)
    \/ FinishDeep

Failures ==
    \/ BatchRetried
    \/ SessionFails
    \/ DeliveryFails
    \/ RangeFails

(* A session nobody removes a CV from. *)
NextKept == Routes \/ Work \/ Failures \/ Restart

Next == NextKept \/ \E c \in Cvs : RemoveApplicant(c)

NextCrash == NextKept \/ CrashAfterCharge \/ CrashAfterRefund

SpecKept == Init /\ [][NextKept]_triageVars
Spec == Init /\ [][Next]_triageVars
SpecCrash == Init /\ [][NextCrash]_triageVars

(* The pump is woken whenever something is queued (startQueueWaker) and goes *)
(* on until the queue is empty; its calls to the model time out.           *)
FairSpecKept == SpecKept /\ WF_triageVars(Work)

-----------------------------------------------------------------------------
(***************************************************************************)
(* Properties                                                              *)
(***************************************************************************)

Paid(c) == drop[c] # 0 /\ Charged(drop[c])

(* No capacity is minted or lost: what the organization has left is what it *)
(* had, less what each delivery was charged and not given back.            *)
Books ==
    /\ \A d \in Drops : bill[d].refunded <= bill[d].charged
    /\ balance = Capacity - MapThenSumSet(LAMBDA d : bill[d].charged - bill[d].refunded, Drops)

(* "One valid CV consumes capacity once": a delivery that has been read has *)
(* been given back exactly the CVs that could not be read, however often   *)
(* the batch ran, unless the whole of it was.                              *)
ReadCvsArePaidFor ==
    \A i \in DOMAIN batches :
        batches[i].key.kind = "parse" /\ batches[i].state = "done" =>
          LET d == batches[i].key.drop IN
          bill[d].refunded \in {Cardinality(Unreadable(d)), bill[d].charged}

(* A CV that was paid for and not read yet has a batch that will read it.   *)
PaidWorkIsQueued ==
    status # "failed" =>
      \A c \in Cvs : parse[c] = "pending" /\ Paid(c) =>
          Key("parse", drop[c], 0, 0, <<>>) \in Owed

(* The cursor leaves nobody behind: a CV at or below it is analysed, shown  *)
(* as failed, or in a batch that is still owed.                            *)
NobodyIsPassed ==
    status # "failed" =>
      \A c \in Cvs : parse[c] = "parsed" /\ rank[c] # 0 /\ rank[c] <= frontier =>
          \/ deep[c] \in {"scored", "failed"}
          \/ \E key \in Owed : /\ key.kind \in {"initial", "rolling"}
                               /\ key.from <= rank[c] /\ rank[c] <= key.to

(* A person with a readable CV in the session is in the results: a CV only  *)
(* steps aside for another one of theirs.                                  *)
NobodyIsHidden ==
    \A c \in Cvs : parse[c] = "duplicate" =>
        \E e \in Cvs : parse[e] = "parsed" /\ Person[e] = Person[c]

(* A new rank is above the cursor, which never comes back for a lower one.  *)
RanksAreAhead ==
    [][\A c \in Cvs : rank[c] = 0 /\ rank'[c] # 0 => rank'[c] > frontier]_triageVars

(* A failed session stays failed and nothing more is analysed in it.        *)
FailedSessionRests ==
    [][status = "failed" =>
         /\ status' = "failed"
         /\ \A c \in Cvs : deep'[c] = "scored" => deep[c] = "scored"]_triageVars

Quiet == worker = Idle /\ Queued = {} /\ adding = {}

(* When nothing is left to run, the status says what the rows say.          *)
StatusIsSettled == Quiet => status = Settle(status, parse, deep)

(* The ladder can always be climbed: when nothing is running and there are  *)
(* ranks above the cursor, the range a scroll asks for is new work.        *)
LadderIsOpen ==
    Quiet /\ status # "failed" /\ frontier < Top(rank) =>
      \A i \in DOMAIN batches :
        batches[i].key # Key("rolling", OfSession, frontier + 1,
                             Nearer(frontier + Tranche, Top(rank)), <<>>)

(* What the deliveries are charged and given back is what TriageBilling     *)
(* promises, through sweeps that are repeated after failures and crashes.  *)
Billing == INSTANCE TriageBilling

ImplementsBilling == Billing!Spec

(* A session that failed has given back everything it took.                 *)
FailedOwesNothing ==
    status = "failed" => \A d \in Drops : bill[d].refunded = bill[d].charged

(* Every CV that was paid for is read or reported, however often a batch is *)
(* tried again or the process restarts, unless the whole session fails.    *)
PaidIsRead ==
    \A c \in Cvs : Paid(c) /\ parse[c] = "pending"
                     ~> parse[c] # "pending" \/ status = "failed"

(* No CV stays claimed by a worker that is gone.                            *)
ClaimIsReleased == \A c \in Cvs : deep[c] = "running" ~> deep[c] # "running"

(* The CVs of a delivery that failed do not vanish, and a promoted CV is    *)
(* ranked: a CV that was read has a rank, or a batch that will give it one. *)
ReadCvsAreRanked ==
    status # "failed" =>
      \A c \in Unranked : \E key \in Owed : key.kind \in {"parse", "preliminary"}

(* The queue against money and rows: charges and refunds balance, paid work *)
(* has a batch, the cursor passes nobody, the next scroll finds new work.   *)
QueueIsSound == TypeOK /\ Books /\ PaidWorkIsQueued /\ NobodyIsPassed /\ LadderIsOpen

(* What one pile owes when everything has ended: exactly the CVs that were  *)
(* read are paid for and ranked, and the status says what the rows say.     *)
PileIsSound == ReadCvsArePaidFor /\ FailedOwesNothing /\ ReadCvsAreRanked /\ StatusIsSettled

(* The queue goes on: what was paid for is read, what was claimed is let go. *)
QueueGoesOn == PaidIsRead /\ ClaimIsReleased
=============================================================================
