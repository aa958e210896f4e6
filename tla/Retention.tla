----------------------------- MODULE Retention -----------------------------
(* How long the CVs of a launched Triage session are held (retention.js, the
   lifecycle and the removals of triage.js) and what becomes of their files
   (UPLOAD_DIR and the sweep at boot, index.js).

   A file is on disk before its row is written and until after its row is gone,
   and the process may die in between.  Days stand for dates: a CV is due on the
   day its date falls on.  No route calls setLifecycle today.  Ranks, batches and
   charges are those of TriageQueue and TriageWallet. *)
EXTENDS Naturals, FiniteSets, FiniteSetsExt

CONSTANTS
    Piles,      \* launched sessions
    Senders,    \* addresses read off CVs
    CloseDays,  \* TRIAGE.retainAfterCloseDays
    AgeDays,    \* TRIAGE.retainMaxDays
    MaxCvs,     \* bound: uploads, one of them in flight at a time
    LastDay,    \* bound: the calendar
    NoDate      \* NULL

ASSUME RetentionAssumption ==
    /\ CloseDays \in Nat \ {0} /\ AgeDays \in Nat \ {0}
    /\ MaxCvs \in Nat \ {0, 1} /\ LastDay \in Nat
    /\ NoDate \notin Nat \union Senders \union {"open", "paused", "closed"}

VARIABLES
    today,
    pile,       \* triages
    cvs,        \* uploads in the order of their rows: triage_applicants
    bytes,      \* plain files in UPLOAD_DIR
    doomed,     \* files about to be unlinked, which no row names any more
    worked      \* history: when a session was last given CVs, moved or first finished

retentionVars == <<today, pile, cvs, bytes, doomed, worked>>

Cvs == 1..MaxCvs
Days == 0..LastDay

Unsent == [is |-> "unsent"]
Gone == [is |-> "gone"]
Sending == {c \in Cvs : cvs[c].is = "sending"}
Held == {c \in Cvs : cvs[c].is \in {"pending", "parsed", "duplicate", "unreadable"}}

RetentionTypeOK ==
    /\ today \in Days
    /\ pile \in [Piles -> [there : BOOLEAN,
                           lifecycle : {"open", "paused", "closed", NoDate},
                           status : {"processing", "ready", "completed", "failed"},
                           completed : Days \union {NoDate}, touched : Days,
                           purge : Nat \union {NoDate}]]
    /\ \A c \in Held : cvs[c] \in [is : {"pending", "parsed", "duplicate", "unreadable"},
                                   pile : {t \in Piles : pile[t].there}, at : 0..today,
                                   from : Senders \union {NoDate}, scored : BOOLEAN]
    /\ bytes \subseteq Cvs /\ doomed \subseteq bytes /\ worked \in [Piles -> 0..today]

(* A session of today says where it stands; one older than the column says nothing. *)
PileRow(lifecycle, status) ==
    [there |-> TRUE, lifecycle |-> lifecycle, status |-> status,
     completed |-> IF status = "completed" THEN 0 ELSE NoDate, touched |-> 0, purge |-> NoDate]

(* A CV that was there on the first day. *)
OldCv(t, is, sender, scored) ==
    [is |-> is, pile |-> t, at |-> 0, from |-> sender, scored |-> scored]

(* One session has the two CVs it was launched with: one of today has read neither, *)
(* one older than the column found them to be of one sender.  The rest are empty.    *)
RetentionInit ==
    /\ today = 0
    /\ \E t \in Piles, s \in Senders, first \in BOOLEAN,
          row \in {PileRow("open", "processing"), PileRow(NoDate, "ready"),
                  PileRow(NoDate, "completed"), PileRow(NoDate, "failed")} :
        /\ pile = [u \in Piles |-> IF u = t THEN row ELSE PileRow("open", "processing")]
        /\ cvs = [c \in Cvs |->
                    IF c > 2 THEN Unsent
                    ELSE IF row.lifecycle = "open" THEN OldCv(t, "pending", NoDate, FALSE)
                    ELSE IF c = 1 THEN OldCv(t, "duplicate", s, first)
                    ELSE OldCv(t, "parsed", s, row.status = "completed")]
    /\ bytes = {1, 2} /\ doomed = {}
    /\ worked = [t \in Piles |-> 0]

-----------------------------------------------------------------------------
(* What a row says *)

(* lifecycleOf *)
Lifecycle(p) ==
    IF p.lifecycle # NoDate THEN p.lifecycle
    ELSE IF p.status \in {"completed", "failed"} THEN "closed" ELSE "open"

(* purge_after, or the day counted from completed_at or updated_at. *)
PurgeDay(p) ==
    IF p.purge # NoDate THEN p.purge
    ELSE CloseDays + IF p.completed # NoDate THEN p.completed ELSE p.touched

(* dueForDeletion: two clocks, whichever comes first. *)
Due(c) ==
    LET p == pile[cvs[c].pile] IN
    \/ Lifecycle(p) = "closed" /\ PurgeDay(p) <= today
    \/ cvs[c].at + AgeDays <= today

(* settleStatus, for the rows of `t` in `rows`; every writer stamps updated_at. *)
SettledPile(t, rows) ==
    LET of == {c \in Cvs : rows[c].is \in {"pending", "parsed", "duplicate"} /\ rows[c].pile = t}
        scored == \E c \in of : rows[c].scored
        waiting == \E c \in of : rows[c].is = "pending" \/ (rows[c].is = "parsed" /\ ~rows[c].scored)
        status == IF pile[t].status = "failed" THEN "failed"
                  ELSE IF ~scored THEN "processing" ELSE IF waiting THEN "ready" ELSE "completed"
    IN [pile[t] EXCEPT !.status = status, !.touched = today,
                       !.completed = IF status = "completed" /\ @ = NoDate THEN today ELSE @]

(* The rows change to `rows`, and the session `t` is settled. *)
SettlePile(t, rows) ==
    /\ cvs' = rows
    /\ pile' = [pile EXCEPT ![t] = SettledPile(t, rows)]
    /\ worked' = IF Lifecycle(pile[t]) # "closed" /\ pile'[t].completed # pile[t].completed
                 THEN [worked EXCEPT ![t] = today] ELSE worked

-----------------------------------------------------------------------------
(* CVs come in *)

(* multer has the file on disk before the route runs. *)
Upload(c) ==
    /\ cvs[c] = Unsent /\ Sending = {}
    /\ \A d \in Cvs : d < c => cvs[d] # Unsent
    /\ cvs' = [cvs EXCEPT ![c] = [is |-> "sending"]]
    /\ bytes' = bytes \union {c}
    /\ UNCHANGED <<today, pile, doomed, worked>>

(* Faulty variant: only a session that was closed is reopened. *)
ReopenedIfClosed(p) ==
    IF p.lifecycle # "closed" THEN p
    ELSE [p EXCEPT !.lifecycle = "open", !.purge = NoDate, !.touched = today]

(* reopenForCvs *)
Reopened(p) ==
    IF p.lifecycle = "open" /\ p.purge = NoDate THEN p
    ELSE [p EXCEPT !.lifecycle = "open", !.purge = NoDate, !.touched = today]

(* POST /api/hr/triage/:id/cvs, as far as the row. *)
AddCv(t, c) ==
    /\ c \in Sending /\ pile[t].there /\ pile[t].status # "failed"
    /\ cvs' = [cvs EXCEPT ![c] = [is |-> "pending", pile |-> t, at |-> today,
                                  from |-> NoDate, scored |-> FALSE]]
    /\ pile' = [pile EXCEPT ![t] = [Reopened(pile[t]) EXCEPT !.touched = today]]
    /\ worked' = [worked EXCEPT ![t] = today]
    /\ UNCHANGED <<today, bytes, doomed>>

(* A full session, no capacity, the same bytes again: the session has been reopened. *)
RefuseCv(t, c) ==
    /\ c \in Sending /\ pile[t].there
    /\ cvs' = [cvs EXCEPT ![c] = Gone]
    /\ doomed' = doomed \union {c}
    /\ IF pile[t].status = "failed" THEN UNCHANGED <<pile, worked>>
       ELSE /\ pile' = [pile EXCEPT ![t] = Reopened(@)]
            /\ worked' = [worked EXCEPT ![t] = today]
    /\ UNCHANGED <<today, bytes>>

(* A parse batch, which ends in resolveDuplicatePeople: of the CVs of one sender the *)
(* newest is current.                                                                 *)
ReadCv(c, sender) ==
    /\ c \in Held /\ cvs[c].is = "pending" /\ pile[cvs[c].pile].status # "failed"
    /\ LET read == [cvs EXCEPT ![c].is = "parsed", ![c].from = sender]
           same(d) == d \in Held /\ read[d].is \in {"parsed", "duplicate"} /\ sender # NoDate
                      /\ read[d].pile = cvs[c].pile /\ read[d].from = sender
           newest == Max({c} \union {d \in Cvs : same(d)})
       IN SettlePile(cvs[c].pile,
                 [d \in Cvs |-> IF same(d)
                                THEN [read[d] EXCEPT !.is = IF d = newest THEN "parsed" ELSE "duplicate"]
                                ELSE read[d]])
    /\ UNCHANGED <<today, bytes, doomed>>

(* markUnreadable *)
CannotRead(c) ==
    /\ c \in Held /\ cvs[c].is = "pending" /\ pile[cvs[c].pile].status # "failed"
    /\ SettlePile(cvs[c].pile, [cvs EXCEPT ![c].is = "unreadable"])
    /\ UNCHANGED <<today, bytes, doomed>>

(* A deep batch of the CV. *)
ScoreCv(c) ==
    /\ c \in Held /\ cvs[c].is = "parsed" /\ ~cvs[c].scored /\ pile[cvs[c].pile].status # "failed"
    /\ SettlePile(cvs[c].pile, [cvs EXCEPT ![c].scored = TRUE])
    /\ UNCHANGED <<today, bytes, doomed>>

(* A batch has failed as often as it may. *)
SessionGivesUp(t) ==
    /\ \E c \in Held : cvs[c].pile = t /\ (cvs[c].is = "pending" \/ ~cvs[c].scored)
    /\ pile[t].status # "failed"
    /\ pile' = [pile EXCEPT ![t].status = "failed", ![t].touched = today]
    /\ worked' = IF Lifecycle(pile[t]) = "closed" \/ pile[t].completed # NoDate
                 THEN worked ELSE [worked EXCEPT ![t] = today]
    /\ UNCHANGED <<today, cvs, bytes, doomed>>

-----------------------------------------------------------------------------
(* The recruiter *)

(* setLifecycle: only opening clears the date. *)
SetLifecycle(t, to) ==
    /\ pile[t].there /\ Lifecycle(pile[t]) # to
    /\ ~(pile[t].status = "failed" /\ to = "open")
    /\ pile' = [pile EXCEPT ![t].lifecycle = to, ![t].touched = today,
                            ![t].purge = CASE to = "closed" -> today + CloseDays
                                           [] to = "open" -> NoDate
                                           [] OTHER -> @]
    /\ worked' = [worked EXCEPT ![t] = today]
    /\ UNCHANGED <<today, cvs, bytes, doomed>>

(* removeApplicant: the newest of the CVs it stood before takes its place. *)
RemoveCv(c) ==
    /\ c \in Held
    /\ LET heirs == {d \in Held : /\ cvs[d].is = "duplicate" /\ cvs[d].pile = cvs[c].pile
                                  /\ cvs[c].is = "parsed" /\ cvs[c].from # NoDate
                                  /\ cvs[d].from = cvs[c].from}
           left == [cvs EXCEPT ![c] = Gone]
       IN SettlePile(cvs[c].pile,
                 IF heirs = {} THEN left ELSE [left EXCEPT ![Max(heirs)].is = "parsed"])
    /\ doomed' = doomed \union {c}
    /\ UNCHANGED <<today, bytes>>

(* DELETE /api/hr/triage/:id *)
DeletePile(t) ==
    /\ pile[t].there
    /\ LET of == {c \in Held : cvs[c].pile = t} IN
       /\ cvs' = [c \in Cvs |-> IF c \in of THEN Gone ELSE cvs[c]]
       /\ doomed' = doomed \union of
    /\ pile' = [pile EXCEPT ![t].there = FALSE]
    /\ UNCHANGED <<today, bytes, worked>>

-----------------------------------------------------------------------------
(* The clocks, the disk and the process *)

NextDay ==
    /\ today < LastDay
    /\ today' = today + 1
    /\ UNCHANGED <<pile, cvs, bytes, doomed, worked>>

(* runRetention where it deletes: every session, or the one named by hand.  Counters *)
(* are recounted; nobody is promoted and no status settled.  `rest` is a history.     *)
Expire(scope) ==
    /\ LET due == {c \in Held : cvs[c].pile \in scope /\ Due(c)} IN
       /\ due # {}
       /\ cvs' = [c \in Cvs |->
                    IF c \in due
                    THEN [is |-> "expired", age |-> today - cvs[c].at,
                          rest |-> today - worked[cvs[c].pile]]
                    ELSE cvs[c]]
       /\ pile' = [t \in Piles |-> IF \E c \in due : cvs[c].pile = t
                                   THEN [pile[t] EXCEPT !.touched = today] ELSE pile[t]]
       /\ doomed' = doomed \union due
    /\ UNCHANGED <<today, bytes, worked>>

(* The unlink that follows a removal; nobody waits for it. *)
Unlink(c) ==
    /\ c \in doomed
    /\ bytes' = bytes \ {c} /\ doomed' = doomed \ {c}
    /\ UNCHANGED <<today, pile, cvs, worked>>

(* triageUploadNames: what the sweep at boot spares. *)
Named == Held

(* The process dies, and sweepOrphanUploads moves aside what no row names. *)
RestartServer ==
    /\ cvs' = [c \in Cvs |-> IF c \in Sending THEN Gone ELSE cvs[c]]
    /\ bytes' = bytes \intersect Named
    /\ doomed' = {}
    /\ UNCHANGED <<today, pile, worked>>

RetentionNext ==
    \/ NextDay \/ RestartServer
    \/ \E c \in Cvs :
        \/ Upload(c) \/ CannotRead(c) \/ ScoreCv(c) \/ RemoveCv(c) \/ Unlink(c)
        \/ \E s \in Senders \union {NoDate} : ReadCv(c, s)
        \/ \E t \in Piles : AddCv(t, c) \/ RefuseCv(t, c)
    \/ \E t \in Piles :
        \/ SessionGivesUp(t) \/ DeletePile(t) \/ Expire({t})
        \/ \E to \in {"open", "paused", "closed"} : SetLifecycle(t, to)
    \/ Expire(Piles)

RetentionSpec == RetentionInit /\ [][RetentionNext]_retentionVars

-----------------------------------------------------------------------------
(* Every CV a recruiter can see has its file: neither an unlink nor the sweep of a
   boot takes a file from under a row. *)
RowsHaveFiles == Held \subseteq bytes

(* The other way about: a file that no row names is on its way in or out.  What an
   unlink lost to a crash left behind is moved aside by the next boot. *)
FilesHaveRows == bytes \subseteq Held \union doomed \union Sending

(* Whoever has a CV in a session has one that is shown.  Retention promotes nobody,
   unlike a removal: it can rely on the newest CV falling due last. *)
SendersAreShown ==
    \A c \in Held : cvs[c].is = "duplicate" =>
        \E d \in Held : /\ cvs[d].is = "parsed" /\ cvs[d].pile = cvs[c].pile
                        /\ cvs[d].from = cvs[c].from

(* Retention takes a CV that is too old, or one of a session nobody has given CVs,
   opened, paused, closed or seen finish for as long as a closed session is kept:
   no date set by a decision that was reversed since is acted on. *)
NothingGoesEarly ==
    \A c \in Cvs : cvs[c].is = "expired" => cvs[c].age >= AgeDays \/ cvs[c].rest >= CloseDays

RetentionIsSound ==
    /\ RetentionTypeOK /\ RowsHaveFiles /\ FilesHaveRows /\ SendersAreShown /\ NothingGoesEarly
=============================================================================
