---------------------------- MODULE TriageScreen ----------------------------
(* The page of a launched Triage (TriageResults, TriageTab.jsx) beside the server it
   watches: it polls the first page while there is work, appends a page at every
   Show More, and nothing orders the answers of requests that overlap.

   Applicants are numbered by fit, 1 for the best; the list is everybody scored, best
   first, paged by offset.  The server runs the batches of the session one after the
   other: a delivery is read, what is read is ranked behind everything ranked before,
   and CVs are analysed by rank, from a frontier on.  What fails, is paid or is removed
   is in TriageQueue; here every CV can be read, is analysed and stays. *)
EXTENDS Naturals, Sequences, FiniteSets, FiniteSetsExt, Functions

CONSTANTS
    Pile,       \* applicants of the launch
    Arrivals,   \* applicants who may be added later, together or one by one
    Quick,      \* preliminary scores
    RowsAPage,  \* TRIAGE.pageSize
    Opening,    \* TRIAGE.initialDeep
    Rung,       \* TRIAGE.tranche
    Wires       \* bound: requests under way at a time

ASSUME ScreenAssumption ==
    /\ Pile \union Arrivals \subseteq Nat /\ IsFiniteSet(Pile \union Arrivals)
    /\ Pile \intersect Arrivals = {} /\ Pile # {}
    /\ Quick \in [Pile \union Arrivals -> Nat]
    /\ Rung \in Nat \ {0} /\ RowsAPage \in Nat \ {0} /\ Opening \in Nat \ {0}

VARIABLES
    \* the server
    queue,      \* batches queued, the running one first
    parsed,     \* CVs that were read
    ladder,     \* those that have a prelim_rank, by rank
    frontier,   \* analysis_frontier: batches were done up to this rank
    listed,     \* scored and current
    \* the page
    wires,      \* requests
    rows, screen, signature,
    \* history
    shaken,     \* the list changed among the rows on screen and no poll would mend it
    misled      \* answers crossed or were lost, or a colleague set work going, since the
                \* last answer that came in order

screenServer == <<queue, parsed, ladder, frontier, listed>>
screenVars == <<screenServer, wires, rows, screen, signature, shaken, misled>>

Everybody == Pile \union Arrivals
Quiet == [at |-> "quiet"]
FreeWire(w) == wires[w] = Quiet /\ \A v \in Wires : v < w => wires[v] # Quiet
AllQuiet == \A w \in Wires : wires[w] = Quiet
LoadingMore == \E w \in Wires : wires[w] # Quiet /\ wires[w].kind = "more"

(* ORDER BY absolute_fit DESC: at each place whoever has as many above. *)
Ranking(list) ==
    [i \in 1..Cardinality(list) |->
        CHOOSE a \in list : Cardinality({b \in list : b < a}) = i - 1]

(* LIMIT n OFFSET k *)
Slice(list, k, n) == SubSeq(Ranking(list), k + 1, Min({k + n, Cardinality(list)}))

(* results() *)
PageAt(offset) == Slice(listed, offset, RowsAPage)

(* What `shown`, loaded as far as it is, should be. *)
InPlace(shown, list) == Slice(list, 0, Max({Len(shown), RowsAPage}))

Parse(cvs) == [does |-> "parse", cvs |-> cvs]
Preliminary == [does |-> "preliminary"]
Deep(kind, to) == [does |-> kind, from |-> frontier + 1, to |-> to]
Running(kinds) == queue # <<>> /\ Head(queue).does \in kinds

(* Uploaded and not read, read and not ranked, not yet scored. *)
Unread == UNION {b.cvs : b \in {c \in Range(queue) : c.does = "parse"}}
Unranked == parsed \ Range(ladder)
Waiting == (Unread \union parsed) \ listed

(* enqueue: INSERT OR IGNORE by kind and range.  Of the batches that are done none is
   asked for again: they ended at the frontier or below. *)
Enqueued(batches, batch) ==
    IF batch \in Range(batches) THEN batches ELSE Append(batches, batch)

(* What an answer says of a session with `batches` to do: queueDepth and hasMore. *)
Told(offset, batches) ==
    [working |-> batches # <<>>, hasMore |-> offset + RowsAPage < Cardinality(listed)]

(* pipelineStates, by count.  Whether a CV is being read or analysed at the moment is
   told as well; no page differs by it. *)
States == <<Cardinality(Unread), Cardinality(parsed \ listed), Cardinality(listed)>>

Ask(w, kind, offset) ==
    wires' = [wires EXCEPT ![w] = [at |-> "asked", kind |-> kind, offset |-> offset]]

(* Answers on their way have not heard of what happens now. *)
Overtaken == [w \in Wires |-> IF wires[w].at = "answered" THEN [wires[w] EXCEPT !.late = TRUE]
                              ELSE wires[w]]

ScreenTypeOK ==
    /\ parsed \union listed \subseteq Everybody /\ ladder \in Seq(Everybody)
    /\ frontier \in 0..Len(ladder)
    /\ \A b \in Range(queue) :
        b.does \in {"initial", "rolling"} => b.from <= frontier + 1 /\ b.to \in 1..Len(ladder)
    /\ rows \in Seq(Everybody) /\ screen.working \in BOOLEAN /\ screen.hasMore \in BOOLEAN
    /\ \A w \in Wires : wires[w].at \in {"quiet", "asked", "answered", "added"}

(* The page opens on a session that has just been launched, and asks at once. *)
ScreenInit ==
    /\ queue = <<Parse(Pile)>> /\ parsed = {} /\ ladder = <<>> /\ frontier = 0 /\ listed = {}
    /\ rows = <<>> /\ screen = Told(0, queue) /\ signature = <<>>
    /\ wires = [w \in Wires |-> IF w = Min(Wires) THEN [at |-> "asked", kind |-> "poll", offset |-> 0]
                                ELSE Quiet]
    /\ shaken = FALSE /\ misled = FALSE

-----------------------------------------------------------------------------
(* The server *)

(* No poll mends rows beyond the first page, or any once polling has stopped. *)
ListBecomes(list) ==
    /\ listed' = list
    /\ shaken' = (shaken \/ /\ InPlace(rows, list) # rows
                            /\ Len(rows) > RowsAPage \/ LoadingMore \/ ~screen.working)

(* runParse: the files of one delivery. *)
ReadDelivery ==
    /\ Running({"parse"})
    /\ parsed' = parsed \union Head(queue).cvs
    /\ queue' = Append(Tail(queue), Preliminary)
    /\ UNCHANGED <<ladder, frontier, listed, wires, rows, screen, signature, shaken, misled>>

(* By preliminary score, the highest first.  Of equal ones whoever was uploaded first
   precedes; in which order that was is left open. *)
Orders(cvs) ==
    {order \in Bijection(1..Cardinality(cvs), cvs) :
        \A i, j \in DOMAIN order : i < j => Quick[order[j]] <= Quick[order[i]]}

(* runPreliminary: whoever has no rank is placed behind everybody who has one, and the
   next of the ladder are to be analysed, came they with this delivery or before it. *)
RankDelivery ==
    /\ Running({"preliminary"})
    /\ \E order \in Orders(Unranked) : ladder' = ladder \o order
    /\ LET total == Len(ladder')
           kind == IF ladder = <<>> THEN "initial" ELSE "rolling"
       IN  queue' = IF frontier >= total THEN Tail(queue)
                    ELSE Enqueued(Tail(queue), Deep(kind, Min({total, frontier + Opening})))
    /\ UNCHANGED <<parsed, frontier, listed, wires, rows, screen, signature, shaken, misled>>

(* The frontier moves in the turn in which the last CV of the range is scored. *)
Covered(list) == \A rank \in Head(queue).from..Head(queue).to : ladder[rank] \in list
BatchEnds ==
    /\ frontier' = Max({frontier, Head(queue).to})
    /\ queue' = Tail(queue)

(* runDeep: the CVs of its range, in whatever order the answers come... *)
FinishAnalysis(a) ==
    /\ Running({"initial", "rolling"})
    /\ a \notin listed /\ \E rank \in Head(queue).from..Head(queue).to : a = ladder[rank]
    /\ ListBecomes(listed \union {a})
    /\ IF Covered(listed \union {a}) THEN BatchEnds ELSE UNCHANGED <<queue, frontier>>
    /\ UNCHANGED <<parsed, ladder, wires, rows, screen, signature, misled>>

(* ... and nothing for a range that another batch has covered. *)
SkipBatch ==
    /\ Running({"initial", "rolling"})
    /\ Covered(listed) /\ BatchEnds
    /\ UNCHANGED <<parsed, ladder, listed, wires, rows, screen, signature, shaken, misled>>

(* startProcessing for one more delivery. *)
Deliver(cvs) ==
    /\ cvs # {} /\ cvs \intersect (Unread \union parsed) = {}
    /\ queue' = Append(queue, Parse(cvs))
    /\ UNCHANGED <<parsed, ladder, frontier, listed>>

ColleagueAdds(cvs) ==
    /\ Deliver(cvs)
    /\ wires' = Overtaken /\ misled' = TRUE
    /\ UNCHANGED <<rows, screen, signature, shaken>>

(* requestNextTranche: the same batch is not queued twice. *)
WithNextRung ==
    IF frontier >= Len(ladder) THEN queue
    ELSE Enqueued(queue, Deep("rolling", Min({Len(ladder), frontier + Rung})))

(* GET /api/hr/triage/:id/results: the page is read, then the ladder moves. *)
AnswerPage(w) ==
    /\ wires[w].at = "asked" /\ wires[w].kind # "add"
    /\ queue' = IF wires[w].kind = "more" THEN WithNextRung ELSE queue
    /\ wires' = [Overtaken EXCEPT ![w] =
                    [at |-> "answered", kind |-> wires[w].kind, offset |-> wires[w].offset,
                     late |-> FALSE, page |-> PageAt(wires[w].offset),
                     says |-> Told(wires[w].offset, queue'), states |-> States]]
    /\ UNCHANGED <<parsed, ladder, frontier, listed, rows, screen, signature, shaken, misled>>

(* POST /api/hr/triage/:id/cvs, of the recruiter at the page. *)
AnswerAdd(w, cvs) ==
    /\ wires[w].at = "asked" /\ wires[w].kind = "add"
    /\ Deliver(cvs)
    /\ wires' = [Overtaken EXCEPT ![w] = [at |-> "added", kind |-> "add"]]
    /\ UNCHANGED <<rows, screen, signature, shaken, misled>>

-----------------------------------------------------------------------------
(* The page *)

(* setInterval, which does not wait for the answer of the poll before. *)
Poll(w) ==
    /\ screen.working /\ FreeWire(w)
    /\ Ask(w, "poll", 0)
    /\ UNCHANGED <<screenServer, rows, screen, signature, shaken, misled>>

(* showMore: the button is disabled while it loads. *)
PressMore(w) ==
    /\ screen.hasMore /\ rows # <<>> /\ ~LoadingMore /\ FreeWire(w)
    /\ Ask(w, "more", Len(rows))
    /\ shaken' = (shaken \/ InPlace(rows, listed) # rows)
    /\ UNCHANGED <<screenServer, rows, screen, signature, misled>>

(* submitStaged *)
SubmitStaged(w) ==
    /\ FreeWire(w)
    /\ Ask(w, "add", 0)
    /\ UNCHANGED <<screenServer, rows, screen, signature, shaken, misled>>

(* Faulty variant: the page waits for its next poll. *)
AddDoneSilently(w) ==
    /\ wires[w].at = "added"
    /\ wires' = [wires EXCEPT ![w] = Quiet]
    /\ UNCHANGED <<screenServer, rows, screen, signature, shaken, misled>>

(* Once its CVs are in, it refreshes. *)
AddDone(w) ==
    /\ wires[w].at = "added"
    /\ Ask(w, "poll", 0)
    /\ UNCHANGED <<screenServer, rows, screen, signature, shaken, misled>>

(* refresh: rows only if something moved, and never fewer than there are. *)
Refreshed(page, states) ==
    IF signature # <<states, Len(page)>> /\ Len(rows) <= Len(page) THEN page ELSE rows

(* An answer, in whatever order it comes. *)
Hear(w) ==
    /\ wires[w].at = "answered"
    /\ LET it == wires[w] IN
       /\ screen' = it.says
       /\ rows' = IF it.kind = "more" THEN rows \o it.page ELSE Refreshed(it.page, it.states)
       /\ signature' = IF it.kind = "more" THEN signature ELSE <<it.states, Len(it.page)>>
       /\ misled' = it.late
    /\ wires' = [wires EXCEPT ![w] = Quiet]
    /\ shaken' = /\ rows' # InPlace(rows', listed)
                 /\ (shaken \/ wires[w].page # PageAt(wires[w].offset))
    /\ UNCHANGED screenServer

(* The connection goes, before the server has heard or after. *)
Lose(w) ==
    /\ wires[w] # Quiet
    /\ misled' = TRUE
    /\ wires' = [Overtaken EXCEPT ![w] = Quiet]
    /\ UNCHANGED <<screenServer, rows, screen, signature, shaken>>

ScreenNext ==
    \/ \E w \in Wires :
        \/ AnswerPage(w) \/ Poll(w) \/ PressMore(w) \/ SubmitStaged(w)
        \/ AddDone(w) \/ Hear(w) \/ Lose(w)
        \/ \E cvs \in SUBSET Arrivals : AnswerAdd(w, cvs)
    \/ ReadDelivery \/ RankDelivery \/ SkipBatch
    \/ \E a \in Everybody : FinishAnalysis(a)
    \/ \E cvs \in SUBSET Arrivals : ColleagueAdds(cvs)

ScreenSpec == ScreenInit /\ [][ScreenNext]_screenVars

-----------------------------------------------------------------------------
(* Work that this page set going, by Show More or by adding CVs, is watched: the page
   polls as long as the server works, whatever answers overlapped, unless the last one
   heard was overtaken by another or none came. *)
WorkIsWatched == AllQuiet /\ ~misled /\ queue # <<>> => screen.working

(* Pages loaded one after the other while analyses finish join up: the rows are the
   ranking as far as it is loaded, nobody twice and nobody left out, unless somebody
   came in above the last of them, whom only a page of its own would show. *)
RowsAreTheRanking ==
    AllQuiet /\ ~misled /\ ~shaken /\ (~screen.working \/ Len(rows) > RowsAPage) =>
        rows = InPlace(rows, listed)

(* CVs of the launch and of every delivery are analysed a range of ranks at a time, and
   past the range a delivery sets going only the button goes on: while CVs wait and
   nothing is under way the page offers it, provided an opening range is more than a
   page (50 and 25 unless configured otherwise). *)
WaitingIsOffered ==
    Opening > RowsAPage =>
        (AllQuiet /\ ~misled /\ ~screen.working /\ Waiting # {} => screen.hasMore)

ScreenIsSound == ScreenTypeOK /\ WorkIsWatched /\ RowsAreTheRanking /\ WaitingIsOffered
=============================================================================
