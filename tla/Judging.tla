------------------------------ MODULE Judging ------------------------------
(***************************************************************************)
(* One batch of candidates before the model: analyseMatches and analyseMatch   *)
(* of ai.js, between the ceiling and the ledger of analyseBatch                  *)
(* (matching/analysis.js, costs.js).  One call goes ahead to warm the prompt     *)
(* cache, workers take the rest from a queue, and an unusable answer is asked    *)
(* for once more.  What an answer says, and tokens, are not modelled: a call      *)
(* the provider answered is one unit of the bill.                                 *)
(***************************************************************************)
EXTENDS Naturals, FiniteSets, FiniteSetsExt

CONSTANTS
    Misses,         \* candidates of the batch that are not in the cache
    Concurrency     \* workers of analyseMatches

ASSUME JudgingAssumption ==
    /\ IsFiniteSet(Misses) /\ Misses # {}
    /\ Concurrency \in Nat \ {0}

VARIABLES
    phase,      \* how far the batch is
    at,         \* where each candidate is
    billed,     \* answers the provider gave, and charges for
    usage,      \* what the result of each candidate says was charged
    aborted,    \* the recruiter has gone
    ledger,     \* ai_cost_events of the batch: calls, and the attempts their usage adds up to
    kept        \* candidate_job_analyses written

judgingVars == <<phase, at, billed, usage, aborted, ledger, kept>>

(* The candidate whose call goes ahead: the first of the batch. *)
Lead == CHOOSE c \in Misses : TRUE

Waiting == {c \in Misses : at[c] = "queued"}
InFlight == {c \in Misses : at[c] \in {"asked", "again"}}
Read == {c \in Misses : at[c] = "read"}

JudgingTypeOK ==
    /\ phase \in {"begin", "lead", "pool", "booked"}
    /\ at \in [Misses -> {"queued", "asked", "again", "read", "unread"}]
    /\ billed \in [Misses -> 0..2] /\ usage \in [Misses -> 0..2]
    /\ aborted \in BOOLEAN
    /\ ledger.calls \in 0..Cardinality(Misses) /\ ledger.attempts \in 0..(2 * Cardinality(Misses))
    /\ kept \subseteq Misses

JudgingInit ==
    /\ phase = "begin"
    /\ at = [c \in Misses |-> "queued"]
    /\ billed = [c \in Misses |-> 0] /\ usage = [c \in Misses |-> 0]
    /\ aborted = FALSE
    /\ ledger = [calls |-> 0, attempts |-> 0] /\ kept = {}

(* `where` with as many of those waiting as there are workers free; the workers
   take them within the same turn of the event loop. *)
Taken(where, free) ==
    LET queue == {c \in Misses : where[c] = "queued"}
        take == Min({free, Cardinality(queue)})
    IN  {[c \in Misses |-> IF c \in some THEN "asked" ELSE where[c]] : some \in kSubset(take, queue)}

(* analyseBatch: nothing is sent over the ceiling or without a key. *)
Begin(allowed) ==
    /\ phase = "begin"
    /\ IF allowed
           THEN phase' = "lead" /\ at' = [at EXCEPT ![Lead] = "asked"]
           ELSE phase' = "pool" /\ at' = [c \in Misses |-> "unread"]
    /\ UNCHANGED <<billed, usage, aborted, ledger, kept>>

(* The race with the warm-up is lost: the rest goes without it. *)
Warmed ==
    /\ phase = "lead"
    /\ phase' = "pool"
    /\ at' \in Taken(at, Concurrency)
    /\ UNCHANGED <<billed, usage, aborted, ledger, kept>>

(* Faulty variant: whoever finishes makes room for two. *)
SettledForTwo(c, outcome) ==
    LET where == [at EXCEPT ![c] = outcome]
    IN  /\ phase' = "pool"
        /\ at' \in Taken(where, IF phase = "lead" THEN Concurrency ELSE 2)

(* A candidate is done with.  The lead opens the pool; a worker takes the next. *)
Settled(c, outcome) ==
    LET where == [at EXCEPT ![c] = outcome]
    IN  /\ phase' = "pool"
        /\ at' \in Taken(where, IF phase = "lead" THEN Concurrency ELSE IF c = Lead THEN 0 ELSE 1)

(* addUsage: both attempts, where there were two. *)
AddUsage(c) == [usage EXCEPT ![c] = billed'[c]]

(* A usable answer, or one whose prose was replaced after the retry as well. *)
Answered(c) ==
    /\ c \in InFlight /\ ~aborted
    /\ billed' = [billed EXCEPT ![c] = @ + 1]
    /\ usage' = AddUsage(c)
    /\ Settled(c, "read")
    /\ UNCHANGED <<aborted, ledger, kept>>

(* One retry: "Once, not twice". *)
AsksAgain(c) == at[c] = "asked"

(* The answer is cut off, or is not language. *)
Unusable(c) ==
    /\ c \in InFlight /\ AsksAgain(c) /\ ~aborted
    /\ billed' = [billed EXCEPT ![c] = @ + 1]
    /\ at' = [at EXCEPT ![c] = "again"]
    /\ UNCHANGED <<phase, usage, aborted, ledger, kept>>

(* A refusal, an answer without text, or a retry that cannot be parsed or is cut
   off again: paid for, and analyseMatch returns null. *)
Refused(c) ==
    /\ c \in InFlight /\ ~aborted
    /\ billed' = [billed EXCEPT ![c] = @ + 1]
    /\ Settled(c, "unread")
    /\ UNCHANGED <<usage, aborted, ledger, kept>>

(* The request throws: a network error, a timeout of the SDK, the abort. *)
Failed(c) ==
    /\ c \in InFlight
    /\ Settled(c, "unread")
    /\ UNCHANGED <<billed, usage, aborted, ledger, kept>>

(* abortOnClose, while the batch is under way; the warm-up wait ends with it. *)
Abort ==
    /\ phase \in {"lead", "pool"} /\ ~aborted
    /\ aborted' = TRUE
    /\ UNCHANGED <<phase, at, billed, usage, ledger, kept>>

(* Promise.all([lead, ...workers]). *)
AllEnded == InFlight = {} /\ Waiting = {}

(* writeCached, for those the model answered for. *)
Kept == Read

(* sumUsage over the answers, recordCost, then the rows. *)
Book ==
    /\ phase = "pool" /\ AllEnded
    /\ phase' = "booked"
    /\ ledger' = [calls |-> Cardinality(Read),
                  attempts |-> FoldSet(LAMBDA c, n : usage[c] + n, 0, Read)]
    /\ kept' = Kept
    /\ UNCHANGED <<at, billed, usage, aborted>>

JudgingNext ==
    \/ \E allowed \in BOOLEAN : Begin(allowed)
    \/ Warmed \/ Abort \/ Book
    \/ \E c \in Misses : Answered(c) \/ Unusable(c) \/ Refused(c) \/ Failed(c)

JudgingSpec == JudgingInit /\ [][JudgingNext]_judgingVars

-----------------------------------------------------------------------------
(* "Bounded so a large result set does not open hundreds of sockets at once":
   never more calls in flight than the workers and the one that went ahead,
   whoever answers, fails, or is asked again meanwhile (analyseMatches). *)
CallsAreBounded == Cardinality(InFlight) <= Concurrency + 1

(* A batch is booked when every candidate of it is done with, the one that went
   ahead included, which may well be the last (Promise.all). *)
NobodyIsLeftOut == phase = "booked" => \A c \in Misses : at[c] \in {"read", "unread"}

(* "Both attempts, where there were two": the usage booked for a batch is every
   answer the provider charged for on a candidate that was read (addUsage,
   sumUsage). *)
AttemptsAreBooked ==
    phase = "booked" => ledger.attempts = FoldSet(LAMBDA c, n : billed[c] + n, 0, Read)

(* A batch of model calls, whatever the order its answers come in: bounded calls,
   everybody settled before the batch is booked, every paid attempt in the books. *)
JudgingIsSound == JudgingTypeOK /\ CallsAreBounded /\ NobodyIsLeftOut /\ AttemptsAreBooked
=============================================================================
