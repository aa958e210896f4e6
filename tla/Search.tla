------------------------------- MODULE Search -------------------------------
(***************************************************************************)
(* The searches of one recruiter for one job and the analyses they keep       *)
(* (matching/pipeline.js, session.js, analysis.js): retrieval, Show more,       *)
(* resuming, the cache of judgements, the daily ceiling.  The model is awaited   *)
(* before retrieval and before the answer; meanwhile candidates replace their    *)
(* CV, withdraw or are erased, and the other request goes on.  A CV is the        *)
(* number of times it was saved.                                                 *)
(***************************************************************************)
EXTENDS Naturals, Sequences, FiniteSets, SequencesExt, FiniteSetsExt

CONSTANTS
    People,
    Requests,       \* requests of the recruiter in flight at once
    PageSize,       \* MATCHING.deepAnalysisBatch
    Editors,        \* bound: who replaces their CV
    Leavers,        \* bound: who withdraws or is erased
    Cap,            \* MATCHING.companyDailyAnalyses
    MaxVersion,     \* bound: versions of a profile
    MaxSessions     \* bound: searches started afresh

ASSUME SearchAssumption ==
    /\ IsFiniteSet(People) /\ IsFiniteSet(Requests) /\ Requests # {}
    /\ Editors \subseteq People /\ Leavers \subseteq People
    /\ PageSize \in Nat \ {0} /\ Cap \in Nat
    /\ MaxVersion \in Nat \ {0} /\ MaxSessions \in Nat

VARIABLES
    text,       \* candidates.cv_text and what else is judged
    version,    \* candidates.profile_version
    saving,     \* edits between the UPDATE of the CV and that of the version
    crossed,    \* history: an edit crossed a judgement, or a restart lost its second half
    withdrawn,  \* hidden, deactivated or blocking this employer
    gone,       \* erased
    jobKnown,   \* the row in jobs
    cache,      \* candidate_job_analyses: by candidate and version, the text that was judged
    sessions,   \* retrieval_sessions: retrieved_ids, cursor
    shown,      \* displayed_match_state
    request,    \* what each request in flight goes on with
    spent,      \* analyses bought in the window of the ceiling
    page        \* who is on the answer that was just sent, if one was

peopleVars == <<text, version, saving, crossed, withdrawn, gone>>
searchVars == <<peopleVars, jobKnown, cache, sessions, shown, request, spent, page>>

NoRequest == [stage |-> "free"]
CvVersions == 1..MaxVersion

SearchTypeOK ==
    /\ text \in [People -> CvVersions] /\ version \in [People -> CvVersions]
    /\ {saving, crossed, withdrawn, gone} \subseteq SUBSET People
    /\ jobKnown \in BOOLEAN
    /\ DOMAIN cache \subseteq People \X CvVersions /\ Range(cache) \subseteq CvVersions
    /\ Len(sessions) <= MaxSessions /\ Len(shown) = Len(sessions)
    /\ \A s \in DOMAIN sessions :
        /\ sessions[s].cursor \in 0..Len(sessions[s].ids)
        /\ ToSet(sessions[s].ids) \intersect gone = {}
    /\ spent \in Nat
    /\ page \subseteq People

SearchInit ==
    /\ text = [c \in People |-> 1] /\ version = [c \in People |-> 1]
    /\ saving = {} /\ crossed = {} /\ withdrawn = {} /\ gone = {}
    /\ jobKnown = FALSE /\ cache = <<>>
    /\ sessions = <<>> /\ shown = <<>>
    /\ request = [q \in Requests |-> NoRequest]
    /\ spent = 0 /\ page = {}

-----------------------------------------------------------------------------
(* Candidates.                                                             *)

(* PATCH /api/candidate/me saves the new CV ... *)
SaveCv(c) ==
    /\ c \notin gone \union saving
    /\ text[c] < MaxVersion
    /\ text' = [text EXCEPT ![c] = @ + 1]
    /\ saving' = saving \union {c}
    /\ crossed' = crossed \union {d \in {c} : \E q \in Requests :
                        request[q].stage = "judge" /\ d \in DOMAIN request[q].reads}
    /\ page' = {}
    /\ UNCHANGED <<version, withdrawn, gone, jobKnown, cache, sessions, shown, request, spent>>

(* ... and bumpProfileVersion follows, some awaits later. *)
BumpVersion(c) ==
    /\ c \in saving \ gone
    /\ version' = [version EXCEPT ![c] = @ + 1]
    /\ saving' = saving \ {c}
    /\ page' = {}
    /\ UNCHANGED <<text, crossed, withdrawn, gone, jobKnown, cache, sessions, shown, request, spent>>

Withdraw(c) ==
    /\ c \notin withdrawn \union gone
    /\ withdrawn' = withdrawn \union {c}
    /\ page' = {}
    /\ UNCHANGED <<text, version, saving, crossed, gone, jobKnown, cache, sessions, shown, request, spent>>

Return(c) ==
    /\ c \in withdrawn \ gone
    /\ withdrawn' = withdrawn \ {c}
    /\ page' = {}
    /\ UNCHANGED <<text, version, saving, crossed, gone, jobKnown, cache, sessions, shown, request, spent>>

(* retrieved.indexOf: who is in a line is in it once. *)
TurnOf(line, c) == CHOOSE i \in DOMAIN line : line[i] = c

(* Faulty variant: the entry is dropped and the cursor stays. *)
WithoutCursorMove(sess, c) ==
    LET i == TurnOf(sess.ids, c)
    IN  IF c \notin ToSet(sess.ids) THEN sess
        ELSE [ids |-> RemoveAt(sess.ids, i), cursor |-> Min({sess.cursor, Len(sess.ids) - 1})]

(* The cursor moves back with an entry ahead of it. *)
Without(sess, c) ==
    LET i == TurnOf(sess.ids, c)
    IN  IF c \notin ToSet(sess.ids) THEN sess
        ELSE [ids |-> RemoveAt(sess.ids, i),
              cursor |-> IF i <= sess.cursor THEN sess.cursor - 1 ELSE sess.cursor]

(* deleteCandidateCompletely, as far as searches go. *)
Erase(c) ==
    /\ c \notin gone
    /\ gone' = gone \union {c}
    /\ version' = [version EXCEPT ![c] = 1]
    /\ cache' = [k \in {k \in DOMAIN cache : k[1] # c} |-> cache[k]]
    /\ sessions' = [s \in DOMAIN sessions |-> Without(sessions[s], c)]
    /\ shown' = [s \in DOMAIN shown |-> shown[s] \ {c}]
    /\ page' = {}
    /\ UNCHANGED <<text, saving, crossed, withdrawn, jobKnown, request, spent>>

-----------------------------------------------------------------------------
(* Requests.                                                               *)

(* POST /api/hr/search up to the await of the job profile.  Whether the job is
   new is known by then; a refresh never resumes. *)
BeginSearch(q, refresh) ==
    /\ request[q] = NoRequest
    /\ jobKnown' = TRUE
    /\ request' = [request EXCEPT ![q] = [stage |-> "retrieve", resume |-> jobKnown /\ ~refresh]]
    /\ page' = {}
    /\ UNCHANGED <<peopleVars, cache, sessions, shown, spent>>

(* POST /api/hr/search/:sessionId/more, up to the same await. *)
BeginMore(q, s) ==
    /\ request[q] = NoRequest
    /\ request' = [request EXCEPT ![q] = [stage |-> "more", session |-> s]]
    /\ page' = {}
    /\ UNCHANGED <<peopleVars, jobKnown, cache, sessions, shown, spent>>

Eligible == People \ (withdrawn \union gone)

WithinDailyCeiling(wanted) == spent + wanted <= Cap

(* analyseBatch up to the model: cached rows are reused, and what is missing is
   read now and sent, unless that would pass the ceiling. *)
Judging(s, ids, resumed) ==
    LET misses == {c \in ids \ gone : <<c, version[c]>> \notin DOMAIN cache}
    IN  [stage |-> "judge", session |-> s, resumed |-> resumed,
         reads |-> [c \in (IF WithinDailyCeiling(Cardinality(misses)) THEN misses ELSE {}) |-> text[c]]]

(* claimNextBatch: where the cursor is afterwards. *)
Claimed(sess) == Min({sess.cursor + PageSize, Len(sess.ids)})

Batch(sess) == ToSet(SubSeq(sess.ids, sess.cursor + 1, Min({sess.cursor + PageSize, Len(sess.ids)})))

(* runSearch after the job profile: the latest session again, everybody it has
   shown, or a new one over the people eligible now, in the order they rank. *)
Resume(q) ==
    /\ request[q].stage = "retrieve"
    /\ request[q].resume /\ sessions # <<>>
    /\ request' = [request EXCEPT ![q] = Judging(Len(sessions), Last(shown), TRUE)]
    /\ page' = {}
    /\ UNCHANGED <<peopleVars, jobKnown, cache, sessions, shown, spent>>

Retrieve(q) ==
    /\ request[q].stage = "retrieve"
    /\ ~request[q].resume \/ sessions = <<>>
    /\ Len(sessions) < MaxSessions
    /\ \E pool \in SetToSeqs(Eligible) :
        LET new == [ids |-> pool, cursor |-> 0]
        IN  /\ sessions' = Append(sessions, [new EXCEPT !.cursor = Claimed(new)])
            /\ shown' = Append(shown, Batch(new))
            /\ request' = [request EXCEPT ![q] = Judging(Len(sessions'), Batch(new), FALSE)]
    /\ page' = {}
    /\ UNCHANGED <<peopleVars, jobKnown, cache, spent>>

(* showMore after it: the batch is claimed and the cursor moved in one transaction. *)
ShowMore(q) ==
    /\ request[q].stage = "more"
    /\ LET s == request[q].session
       IN  /\ sessions' = [sessions EXCEPT ![s].cursor = Claimed(sessions[s])]
           /\ shown' = [shown EXCEPT ![s] = @ \union Batch(sessions[s])]
           /\ request' = [request EXCEPT ![q] = Judging(s, Batch(sessions[s]), FALSE)]
    /\ page' = {}
    /\ UNCHANGED <<peopleVars, jobKnown, cache, spent>>

(* writeCached of every answer the model gave - under the version the candidate
   has now.  A score from the fallback is not kept. *)
Cached(reads, answered) ==
    LET new == {<<c, version[c]>> : c \in answered}
    IN  [k \in new \union DOMAIN cache |-> IF k \in new THEN reads[k[1]] ELSE cache[k]]

(* Faulty variant: only who was eligible at retrieval is asked about. *)
VisibleAsRetrieved(s) == shown[s] \ gone

(* finishBatch asks again who may be seen. *)
Visible(s) == shown[s] \ (gone \union withdrawn)

(* The model has answered for some of them; an abandoned request gets no answer
   and goes on all the same.  A resumed search nobody is left in starts afresh. *)
Respond(q, answered) ==
    /\ request[q].stage = "judge"
    /\ LET r == request[q]
       IN  /\ answered \subseteq DOMAIN r.reads
           /\ cache' = Cached(r.reads, answered)
           /\ spent' = spent + Cardinality(answered)
           /\ IF r.resumed /\ Visible(r.session) = {}
                  THEN /\ request' = [request EXCEPT ![q] = [stage |-> "retrieve", resume |-> FALSE]]
                       /\ page' = {}
                  ELSE /\ request' = [request EXCEPT ![q] = NoRequest]
                       /\ page' = Visible(r.session)
    /\ UNCHANGED <<peopleVars, jobKnown, sessions, shown>>

(* The process dies; requests and edits between their UPDATEs are lost. *)
SearchRestart ==
    /\ saving # {} \/ \E q \in Requests : request[q] # NoRequest
    /\ request' = [q \in Requests |-> NoRequest]
    /\ cache' = [k \in {k \in DOMAIN cache : k[1] \notin gone} |-> cache[k]]
    /\ saving' = {} /\ crossed' = crossed \union saving
    /\ page' = {}
    /\ UNCHANGED <<text, version, withdrawn, gone, jobKnown, sessions, shown, spent>>

SearchNext ==
    \/ \E c \in Editors : SaveCv(c) \/ BumpVersion(c)
    \/ \E c \in Leavers : Withdraw(c) \/ Return(c) \/ Erase(c)
    \/ \E q \in Requests :
        \/ \E refresh \in BOOLEAN : BeginSearch(q, refresh)
        \/ \E s \in DOMAIN sessions : BeginMore(q, s)
        \/ Resume(q) \/ Retrieve(q) \/ ShowMore(q)
        \/ \E answered \in SUBSET People : Respond(q, answered)
    \/ SearchRestart

SearchSpec == SearchInit /\ [][SearchNext]_searchVars

-----------------------------------------------------------------------------
(* Show more hands out the line of a search a page at a time, nobody twice and
   nobody skipped, whoever clicks twice and whoever is erased (claimNextBatch,
   deleteCandidateCompletely). *)
Pages == INSTANCE Paging WITH
    waiting <- [s \in DOMAIN sessions |->
                    SubSeq(sessions[s].ids, sessions[s].cursor + 1, Len(sessions[s].ids))],
    given <- shown

IsPaging == Pages!PagingSpec

(* Nobody who has withdrawn or was erased is on an answer, although they were
   when it was retrieved or resumed (finishBatch). *)
ShownMayBeSeen == page \intersect (withdrawn \union gone) = {}

(* Requests that asked the ceiling side by side pass it by at most what the
   others had in flight (withinDailyCeiling before the await, recordCost after). *)
CeilingBends ==
    spent <= Cap + (Cardinality(Requests) - 1) * Cardinality(People)

(* The judgement on record for a profile's version is of the CV that version
   stands for, unless the edit came while the model was reading (readCached,
   writeCached, bumpProfileVersion). *)
JudgedAsItIs(c) == <<c, version[c]>> \in DOMAIN cache => cache[<<c, version[c]>>] = text[c]

CurrentUnlessCrossed == \A c \in People \ (gone \union saving \union crossed) : JudgedAsItIs(c)

(* Every judgement on record was bought: no score made without the model is ever
   read back as one of its own, whatever failed or was over the ceiling, and the
   next search asks about exactly those (analyseBatch, writeCached, recordCost). *)
JudgementsAreBought == Cardinality(DOMAIN cache) <= spent

(* The pages shown and the judgements behind them, with two requests in flight:
   the ceiling bends by what is in flight and no more, a kept judgement was bought
   and is of the version it is kept under, and nobody is shown who may not be. *)
SearchIsSound ==
    SearchTypeOK /\ CeilingBends /\ CurrentUnlessCrossed /\ JudgementsAreBought /\ ShownMayBeSeen
=============================================================================
