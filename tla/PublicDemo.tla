----------------------------- MODULE PublicDemo -----------------------------
(***************************************************************************)
(* The demo of the landing page (publicDemo.js, the /api/public/demo routes):    *)
(* what a search of nobody's leaves behind, the account that registers and         *)
(* claims it, the durable allowance and the sweep.  A search awaits the model        *)
(* twice and stores its row last.  All visitors paste one job description, and         *)
(* jobs are found by their text; the in-memory rate limit is not modelled.             *)
(***************************************************************************)
EXTENDS Naturals, Sequences, FiniteSets, SequencesExt, FiniteSetsExt

CONSTANTS
    Visitors,       \* client fingerprints; each registers one company at most
    Calls,          \* searches that may be in flight at once
    Allowance,      \* PUBLIC_DEMO.searchesPerWindow
    MaxRuns,        \* bound: searches and Triage runs stored
    MaxEras,        \* bound: how often a window or the retention passes
    Nobody          \* ANONYMOUS_RECRUITER_ID

ASSUME DemoAssumption ==
    /\ IsFiniteSet(Calls) /\ Nobody \notin Visitors
    /\ Allowance \in Nat /\ MaxRuns \in Nat /\ MaxEras \in Nat

(* Ages: within the window of the allowance, kept all the same, past DEMO_RETENTION_DAYS. *)
Ages == 0..2
OlderDemo(age) == IF age = 2 THEN 2 ELSE age + 1

VARIABLES
    postings,   \* jobs with this text: owner, age, whether the row is there
    pools,      \* retrieval_sessions: owner, job, age, there
    stored,     \* public_searches, and public_demo_runs as rows of no job
    call,       \* what each search in flight goes on with
    eras

demoVars == <<postings, pools, stored, call, eras>>

Owners == Visitors \union {Nobody}
NoCall == [stage |-> "free"]

DemoTypeOK ==
    /\ \A j \in DOMAIN postings : postings[j] \in [owner : Owners, age : Ages, there : BOOLEAN]
    /\ \A p \in DOMAIN pools :
        pools[p] \in [owner : Owners, job : DOMAIN postings, age : Ages, there : BOOLEAN]
    /\ \A i \in DOMAIN stored :
        /\ stored[i].by \in Visitors /\ stored[i].claimed \in Owners /\ stored[i].age \in Ages
        /\ stored[i].pool \in 0..Len(pools)
        /\ stored[i].claimed # Nobody => stored[i].there
    /\ Len(stored) <= MaxRuns + Cardinality(Calls)

DemoInit ==
    /\ postings = <<>> /\ pools = <<>> /\ stored = <<>>
    /\ call = [q \in Calls |-> NoCall] /\ eras = 0

RunsOf(v) == {i \in DOMAIN stored : stored[i].by = v /\ stored[i].age = 0 /\ stored[i].there}

(* recentSearchCount: both kinds of run, against one allowance. *)
RunOut(v) == Cardinality(RunsOf(v)) >= Allowance

(* findOrCreateJob, for nobody. *)
NobodysJobs == {j \in DOMAIN postings : postings[j].owner = Nobody /\ postings[j].there}

(* POST /api/public/demo/search up to the await of the job profile. *)
BeginDemo(q, v) ==
    /\ call[q] = NoCall
    /\ ~RunOut(v)
    /\ Len(stored) < MaxRuns /\ Len(pools) < MaxRuns
    /\ IF NobodysJobs = {}
           THEN postings' = Append(postings, [owner |-> Nobody, age |-> 0, there |-> TRUE])
           ELSE UNCHANGED postings
    /\ call' = [call EXCEPT ![q] =
            [stage |-> "profile", by |-> v, fresh |-> NobodysJobs = {},
             job |-> IF NobodysJobs = {} THEN Len(postings') ELSE Max(NobodysJobs)]]
    /\ UNCHANGED <<pools, stored, eras>>

(* latestSession, which a search that made its own job does not look for. *)
Resumable(c) ==
    {p \in DOMAIN pools : ~c.fresh /\ pools[p].there /\ pools[p].owner = Nobody /\ pools[p].job = c.job}

(* createSession and the batch that awaits the model. *)
TakeSession(q) ==
    /\ pools' = Append(pools, [owner |-> Nobody, job |-> call[q].job, age |-> 0, there |-> TRUE])
    /\ call' = [call EXCEPT ![q] =
            [stage |-> "judge", by |-> @.by, job |-> @.job, resumed |-> FALSE, pool |-> Len(pools')]]

(* runSearch after it: the session of whoever pasted this text before, or a new one. *)
BeginJudging(q) ==
    /\ call[q].stage = "profile"
    /\ LET old == Resumable(call[q])
       IN  IF old = {} THEN TakeSession(q)
           ELSE /\ call' = [call EXCEPT ![q] =
                        [stage |-> "judge", by |-> @.by, job |-> @.job, resumed |-> TRUE, pool |-> Max(old)]]
                /\ UNCHANGED pools
    /\ UNCHANGED <<postings, stored, eras>>

(* Nobody is left in the session resumed: another one is taken. *)
FoundEmpty(q) ==
    /\ call[q].stage = "judge" /\ call[q].resumed
    /\ TakeSession(q)
    /\ UNCHANGED <<postings, stored, eras>>

DemoRow(v, pool) ==
    [by |-> v, pool |-> pool, claimed |-> Nobody, age |-> 0, there |-> TRUE,
     late |-> pool # 0 /\ ~(pools[pool].there /\ postings[pools[pool].job].there)]

(* The answer, behind the INSERT into public_searches. *)
FinishDemo(q) ==
    /\ call[q].stage = "judge"
    /\ stored' = Append(stored, DemoRow(call[q].by, call[q].pool))
    /\ call' = [call EXCEPT ![q] = NoCall]
    /\ UNCHANGED <<postings, pools, eras>>

(* POST /api/public/demo/triage keeps nothing but recordDemoRun, written before the work. *)
RunTriage(v) ==
    /\ ~RunOut(v)
    /\ Len(stored) < MaxRuns
    /\ stored' = Append(stored, DemoRow(v, 0))
    /\ UNCHANGED <<postings, pools, call, eras>>

-----------------------------------------------------------------------------
(* Registration.                                                           *)

(* The UPDATEs of claimPublicSearch leave alone what is not nobody's. *)
TakenOver(owner, v) == IF owner = Nobody THEN v ELSE owner

JobAndSession(i, v) ==
    /\ postings' = [postings EXCEPT ![pools[stored[i].pool].job].owner = TakenOver(@, v)]
    /\ pools' = [pools EXCEPT ![stored[i].pool].owner = TakenOver(@, v)]

(* POST /api/company/register with the token of a search, which who ran it has. *)
Claim(v, i) ==
    /\ stored[i].by = v /\ stored[i].pool # 0
    /\ stored[i].there /\ stored[i].claimed = Nobody
    /\ \A k \in DOMAIN stored : stored[k].claimed # v
    /\ JobAndSession(i, v)
    /\ stored' = [stored EXCEPT ![i].claimed = v]
    /\ UNCHANGED <<call, eras>>

-----------------------------------------------------------------------------
(* Time.                                                                   *)

(* A search takes minutes, an era an hour at least: none passes while one is in flight. *)
EraPasses ==
    /\ eras < MaxEras
    /\ \A q \in Calls : call[q] = NoCall
    /\ eras' = eras + 1
    /\ postings' = [j \in DOMAIN postings |-> [postings[j] EXCEPT !.age = OlderDemo(@)]]
    /\ pools' = [p \in DOMAIN pools |-> [pools[p] EXCEPT !.age = OlderDemo(@)]]
    /\ stored' = [i \in DOMAIN stored |-> [stored[i] EXCEPT !.age = OlderDemo(@)]]
    /\ UNCHANGED call

(* Faulty variant: an expired session goes, whoever still points at it. *)
ExpiredPools(rows) == {p \in DOMAIN pools : pools[p].owner = Nobody /\ pools[p].age = 2}

(* Sessions of nobody's that no row left over points at. *)
LeftPools(rows) ==
    ExpiredPools(rows) \ {rows[i].pool : i \in {k \in DOMAIN rows : rows[k].there}}

(* Rows past their date that nobody claimed. *)
LeftRows == {i \in DOMAIN stored : stored[i].age = 2 /\ stored[i].claimed = Nobody}

DemoSwept(rows, left) ==
    [r \in DOMAIN rows |-> IF r \in left THEN [rows[r] EXCEPT !.there = FALSE] ELSE rows[r]]

(* sweepAnonymousDemoArtefacts, one transaction: searches, sessions, jobs. *)
SweepDemo ==
    /\ stored' = DemoSwept(stored, LeftRows)
    /\ pools' = DemoSwept(pools, LeftPools(stored'))
    /\ LET named == {pools'[p].job : p \in {k \in DOMAIN pools : pools'[k].there}}
                    \union {pools[stored[i].pool].job :
                            i \in {k \in DOMAIN stored : stored'[k].there /\ stored[k].pool # 0}}
       IN  postings' = DemoSwept(postings, {j \in DOMAIN postings :
                        postings[j].owner = Nobody /\ postings[j].age = 2 /\ j \notin named})
    /\ UNCHANGED <<call, eras>>

DemoRestart ==
    /\ \E q \in Calls : call[q] # NoCall
    /\ call' = [q \in Calls |-> NoCall]
    /\ UNCHANGED <<postings, pools, stored, eras>>

DemoNext ==
    \/ \E q \in Calls :
        \/ \E v \in Visitors : BeginDemo(q, v)
        \/ BeginJudging(q) \/ FoundEmpty(q) \/ FinishDemo(q)
    \/ \E v \in Visitors : RunTriage(v) \/ \E i \in DOMAIN stored : Claim(v, i)
    \/ EraPasses \/ SweepDemo \/ DemoRestart

DemoSpec == DemoInit /\ [][DemoNext]_demoVars

-----------------------------------------------------------------------------
(* Runs of one connection pass the allowance by at most the searches that were in
   flight beside it: the count is asked before the awaits and the row stored
   after them (recentSearchCount, runPublicSearch). *)
AllowanceBends == \A v \in Visitors : Cardinality(RunsOf(v)) <= Allowance + Cardinality(Calls)

(* What a search on record points at is there, however the sweep takes away what
   nobody's searches left - unless it was gone before the row was stored, when a
   search in flight had resumed a session of last week's (sweepAnonymousDemoArtefacts). *)
NothingDangles ==
    \A i \in DOMAIN stored :
        stored[i].there /\ stored[i].pool # 0 /\ ~stored[i].late
        => pools[stored[i].pool].there /\ postings[pools[stored[i].pool].job].there

(* A search that was claimed stays with its company: its session belongs to it
   for good, unless another visitor ran the same session and claimed it first
   (claimPublicSearch, the sweep). *)
ClaimedIsKept ==
    \A i \in DOMAIN stored :
        stored[i].claimed # Nobody /\ ~stored[i].late
        => \/ pools[stored[i].pool].there /\ pools[stored[i].pool].owner = stored[i].claimed
           \/ \E k \in DOMAIN stored \ {i} : stored[k].pool = stored[i].pool /\ stored[k].claimed # Nobody

(* Idempotent and one-way: no request moves a search that is somebody's onto
   another account (claimPublicSearch). *)
OwnersStay ==
    [][/\ \A j \in DOMAIN postings : postings[j].owner # Nobody => postings'[j].owner = postings[j].owner
       /\ \A p \in DOMAIN pools : pools[p].owner # Nobody => pools'[p].owner = pools[p].owner]_demoVars

(* The demo between a visitor's calls and the sweep: the allowance bends by what is in
   flight, nothing points at what the sweep removed, a claimed search survives it and
   stays whose it is. *)
DemoIsSound ==
    [](DemoTypeOK /\ AllowanceBends /\ NothingDangles /\ ClaimedIsKept) /\ OwnersStay
=============================================================================
