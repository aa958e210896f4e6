---------------------------- MODULE OfficeProofs ----------------------------
(* Proofs about the office: the CVs that are kept, the scores that are moved, and the
   two pages that await the server.                                                  *)
EXTENDS ScoreMigration, Retention, TriageScreen, SearchScreen, DataLemmas
-----------------------------------------------------------------------------
(* CVs in keeping.                                                           *)

PileRows == [there : BOOLEAN, lifecycle : {"open", "paused", "closed", NoDate},
             status : {"processing", "ready", "completed", "failed"},
             completed : Days \cup {NoDate}, touched : Days, purge : Nat \cup {NoDate}]
HeldRows == [is : {"pending", "parsed", "duplicate", "unreadable"}, pile : Piles, at : Nat,
             from : Senders \cup {NoDate}, scored : BOOLEAN]
OtherRows == {Unsent, Gone, [is |-> "sending"]} \cup [is : {"expired"}, age : Int, rest : Int]

KeepingTypes ==
    /\ today \in Days /\ pile \in [Piles -> PileRows] /\ cvs \in [Cvs -> HeldRows \cup OtherRows]
    /\ bytes \subseteq Cvs /\ doomed \subseteq bytes
    /\ worked \in [Piles -> Nat] /\ \A t \in Piles : worked[t] <= today

(* A row is of a session that is there. *)
HeldIsOfAPile == \A c \in Held : pile[cvs[c].pile].there /\ cvs[c].at <= today

(* A file is of a row, on its way in, or on its way out. *)
FilesAreSomewhere ==
    /\ Held \cup Sending \subseteq bytes /\ \A c \in doomed : cvs[c].is \in {"gone", "expired"}
    /\ bytes \subseteq Held \cup doomed \cup Sending

(* Uploads come one after the other. *)
UploadsInTurn ==
    /\ \A c, d \in Cvs : c < d /\ cvs[c].is \in {"unsent", "sending"} => cvs[d].is = "unsent"
    /\ \A c, d \in Held : c < d => cvs[c].at <= cvs[d].at

(* Of the CVs of one sender the newest is the one that is shown. *)
NewestIsShown ==
    \A c \in Held : cvs[c].is = "duplicate" =>
        /\ cvs[c].from # NoDate
        /\ \E d \in Held : /\ c < d /\ cvs[d].is = "parsed" /\ cvs[d].pile = cvs[c].pile
                           /\ cvs[d].from = cvs[c].from

(* The date of a closed session counts from the last time anything happened to it. *)
Rested(p, since) ==
    /\ p.lifecycle = NoDate =>
        p.purge = NoDate /\ since <= (IF p.completed # NoDate THEN p.completed ELSE p.touched)
    /\ p.lifecycle = "closed" => p.purge # NoDate /\ p.purge >= since + CloseDays
ClocksRun == \A t \in Piles : Rested(pile[t], worked[t])

KeepingInv ==
    /\ KeepingTypes /\ HeldIsOfAPile /\ FilesAreSomewhere /\ UploadsInTurn /\ NewestIsShown /\ ClocksRun
    /\ NothingGoesEarly

LEMMA KeepingNames ==
  /\ CloseDays \in Nat /\ AgeDays \in Nat /\ CloseDays >= 1 /\ AgeDays >= 1
  /\ MaxCvs \in Nat /\ MaxCvs >= 2 /\ LastDay \in Nat /\ 0 \in Days
  /\ NoDate \notin Nat /\ NoDate \notin Senders /\ NoDate \notin {"open", "paused", "closed"}
  /\ Unsent.is = "unsent" /\ Gone.is = "gone"
  /\ \A x \in OtherRows : x.is \in {"unsent", "gone", "sending", "expired"}
<1>1. Unsent.is = "unsent" /\ Gone.is = "gone"
  BY DEF Unsent, Gone
<1>2. \A x \in OtherRows : x.is \in {"unsent", "gone", "sending", "expired"}
  BY <1>1 DEF OtherRows
<1>3. MaxCvs \in Nat /\ MaxCvs >= 2 /\ CloseDays \in Nat /\ AgeDays \in Nat /\ CloseDays >= 1 /\ AgeDays >= 1
  BY RetentionAssumption
<1>4. LastDay \in Nat /\ 0 \in Days
  BY RetentionAssumption DEF Days
<1> QED
  BY <1>1, <1>2, <1>3, <1>4, RetentionAssumption

LEMMA CvsAreFinite == IsFiniteSet(Cvs)
<1>1. 1 \in Int /\ MaxCvs \in Int
  BY RetentionAssumption
<1> QED
  BY <1>1, FS_Interval DEF Cvs

(* A row that is held has its columns, and the others have none of them. *)
LEMMA HeldHasColumns ==
  ASSUME KeepingTypes, NEW c \in Cvs
  PROVE  /\ c \in Held => cvs[c] \in HeldRows
         /\ c \notin Held => cvs[c] \in OtherRows
  BY KeepingNames DEF KeepingTypes, Held, HeldRows

LEMMA KeepingStarts ==
  ASSUME RetentionInit
  PROVE  KeepingInv
<1>1. /\ today = 0 /\ bytes = {1, 2} /\ doomed = {} /\ worked = [t \in Piles |-> 0]
  BY DEF RetentionInit
<1>2. PICK t \in Piles, s \in Senders, first \in BOOLEAN,
           p \in {PileRow("open", "processing"), PileRow(NoDate, "ready"),
                  PileRow(NoDate, "completed"), PileRow(NoDate, "failed")} :
        /\ pile = [u \in Piles |-> IF u = t THEN p ELSE PileRow("open", "processing")]
        /\ cvs = [c \in Cvs |->
                    IF c > 2 THEN Unsent
                    ELSE IF p.lifecycle = "open" THEN OldCv(t, "pending", NoDate, FALSE)
                    ELSE IF c = 1 THEN OldCv(t, "duplicate", s, first)
                    ELSE OldCv(t, "parsed", s, p.status = "completed")]
  BY DEF RetentionInit
<1>3. Cvs \subseteq Nat /\ 1 \in Cvs /\ 2 \in Cvs /\ \A c \in Cvs : c >= 1
  BY KeepingNames DEF Cvs
<1>4. /\ p \in PileRows /\ p.there = TRUE /\ p.touched = 0 /\ p.purge = NoDate /\ p.completed \in {0, NoDate}
      /\ p.lifecycle \in {"open", NoDate}
      /\ PileRow("open", "processing") \in PileRows /\ PileRow("open", "processing").there = TRUE
      /\ PileRow("open", "processing").lifecycle = "open"
  <2>1. \A lifecycle \in {"open", NoDate}, status \in {"processing", "ready", "completed", "failed"} :
           LET r == PileRow(lifecycle, status)
           IN  /\ r \in PileRows /\ r.there = TRUE /\ r.touched = 0 /\ r.purge = NoDate /\ r.completed \in {0, NoDate}
               /\ r.lifecycle = lifecycle
    BY KeepingNames DEF PileRow, PileRows
  <2> QED BY <2>1
<1>5. \A c \in Cvs : c > 2 => cvs[c] = Unsent
  BY <1>2, <1>3
<1>6. CASE p.lifecycle = "open"
  <2>1. cvs[1] = OldCv(t, "pending", NoDate, FALSE) /\ cvs[2] = OldCv(t, "pending", NoDate, FALSE)
    BY <1>2, <1>3, <1>6
  <2>2. OldCv(t, "pending", NoDate, FALSE) \in HeldRows /\ OldCv(t, "pending", NoDate, FALSE).is = "pending"
        /\ OldCv(t, "pending", NoDate, FALSE).at = 0 /\ OldCv(t, "pending", NoDate, FALSE).pile = t
    BY DEF OldCv, HeldRows
  <2>3. \A c \in Cvs : (c = 1 \/ c = 2) \/ cvs[c] = Unsent
    BY <1>3, <1>5
  <2>4. Held = {1, 2} /\ Sending = {}
    BY <1>3, <2>1, <2>2, <2>3, KeepingNames DEF Held, Sending
  <2>5. cvs \in [Cvs -> HeldRows \cup OtherRows]
    <3>1. \A c \in Cvs : cvs[c] \in HeldRows \cup OtherRows
      BY <2>1, <2>2, <2>3 DEF OtherRows
    <3>2. cvs = [c \in Cvs |-> cvs[c]]
      BY <1>2
    <3> QED BY <3>1, <3>2
  <2>6. KeepingTypes
    <3>1. pile \in [Piles -> PileRows]
      BY <1>2, <1>4
    <3> QED BY <1>1, <1>3, <2>5, <3>1, KeepingNames DEF KeepingTypes
  <2>7. HeldIsOfAPile /\ FilesAreSomewhere /\ NewestIsShown
    <3>1. pile[t] = p
      BY <1>2
    <3>2. \A c \in Held : cvs[c].pile = t /\ cvs[c].at = 0
      BY <2>1, <2>2, <2>4
    <3>5. HeldIsOfAPile
      BY <1>1, <1>4, <3>1, <3>2 DEF HeldIsOfAPile
    <3>3. FilesAreSomewhere
      BY <1>1, <2>4 DEF FilesAreSomewhere
    <3>4. NewestIsShown
      BY <2>1, <2>2, <2>4 DEF NewestIsShown
    <3> QED BY <3>3, <3>4, <3>5
  <2>8. UploadsInTurn
    <3>1. \A c \in Cvs : cvs[c].is \in {"unsent", "sending"} => c # 1 /\ c # 2
      BY <2>1, <2>2
    <3>2. \A c \in Cvs : cvs[c].is \in {"unsent", "sending"} => c > 2
      BY <1>3, <3>1
    <3>3. \A c, d \in Cvs : c < d /\ cvs[c].is \in {"unsent", "sending"} => cvs[d].is = "unsent"
      <4> SUFFICES ASSUME NEW c \in Cvs, NEW d \in Cvs, c < d, cvs[c].is \in {"unsent", "sending"}
                   PROVE  cvs[d].is = "unsent"
        OBVIOUS
      <4>1. d > 2
        BY <1>3, <3>2
      <4> QED BY <1>5, <4>1, KeepingNames
    <3>4. \A c \in Held : cvs[c].at = 0
      BY <2>1, <2>2, <2>4
    <3> QED BY <3>3, <3>4 DEF UploadsInTurn
  <2>9. ClocksRun
    BY <1>1, <1>2, <1>4, <1>6, KeepingNames DEF ClocksRun, Rested
  <2>10. NothingGoesEarly
    BY <2>1, <2>2, <2>3, KeepingNames DEF NothingGoesEarly
  <2> QED BY <2>6, <2>7, <2>8, <2>9, <2>10 DEF KeepingInv
<1>7. CASE p.lifecycle # "open"
  <2> DEFINE old == OldCv(t, "duplicate", s, first)
             new == OldCv(t, "parsed", s, p.status = "completed")
  <2>1. cvs[1] = old /\ cvs[2] = new
    BY <1>2, <1>3, <1>7
  <2>2. old \in HeldRows /\ old.is = "duplicate" /\ old.at = 0 /\ old.pile = t /\ old.from = s
        /\ new \in HeldRows /\ new.is = "parsed" /\ new.at = 0 /\ new.pile = t /\ new.from = s
    BY DEF OldCv, HeldRows
  <2> HIDE DEF old, new
  <2>3. \A c \in Cvs : (c = 1 \/ c = 2) \/ cvs[c] = Unsent
    BY <1>3, <1>5
  <2>4. Held = {1, 2} /\ Sending = {}
    BY <1>3, <2>1, <2>2, <2>3, KeepingNames DEF Held, Sending
  <2>5. cvs \in [Cvs -> HeldRows \cup OtherRows]
    <3>1. \A c \in Cvs : cvs[c] \in HeldRows \cup OtherRows
      BY <2>1, <2>2, <2>3 DEF OtherRows
    <3>2. cvs = [c \in Cvs |-> cvs[c]]
      BY <1>2
    <3> QED BY <3>1, <3>2
  <2>6. KeepingTypes
    <3>1. pile \in [Piles -> PileRows]
      BY <1>2, <1>4
    <3> QED BY <1>1, <1>3, <2>5, <3>1, KeepingNames DEF KeepingTypes
  <2>7. HeldIsOfAPile /\ FilesAreSomewhere /\ NewestIsShown
    <3>1. HeldIsOfAPile /\ FilesAreSomewhere
      <4>1. pile[t] = p
        BY <1>2
      <4>2. HeldIsOfAPile
        BY <1>1, <1>4, <2>1, <2>2, <2>4, <4>1 DEF HeldIsOfAPile
      <4>3. FilesAreSomewhere
        BY <1>1, <2>4 DEF FilesAreSomewhere
      <4> QED BY <4>2, <4>3
    <3>2. NewestIsShown
      BY <2>1, <2>2, <2>4, KeepingNames DEF NewestIsShown
    <3> QED BY <3>1, <3>2
  <2>8. UploadsInTurn
    <3>1. \A c \in Cvs : cvs[c].is \in {"unsent", "sending"} => c # 1 /\ c # 2
      BY <2>1, <2>2
    <3>2. \A c \in Cvs : cvs[c].is \in {"unsent", "sending"} => c > 2
      BY <1>3, <3>1
    <3>3. \A c, d \in Cvs : c < d /\ cvs[c].is \in {"unsent", "sending"} => cvs[d].is = "unsent"
      <4> SUFFICES ASSUME NEW c \in Cvs, NEW d \in Cvs, c < d, cvs[c].is \in {"unsent", "sending"}
                   PROVE  cvs[d].is = "unsent"
        OBVIOUS
      <4>1. d > 2
        BY <1>3, <3>2
      <4> QED BY <1>5, <4>1, KeepingNames
    <3>4. \A c \in Held : cvs[c].at = 0
      BY <2>1, <2>2, <2>4
    <3> QED BY <3>3, <3>4 DEF UploadsInTurn
  <2>9. ClocksRun
    BY <1>1, <1>2, <1>4, KeepingNames DEF ClocksRun, Rested
  <2>10. NothingGoesEarly
    BY <2>1, <2>2, <2>3, KeepingNames DEF NothingGoesEarly
  <2> QED BY <2>6, <2>7, <2>8, <2>9, <2>10 DEF KeepingInv
<1> QED
  BY <1>6, <1>7

(* Rows that stay do so with their session and their day; none begins again. *)
LEMMA TurnsAreKept ==
  ASSUME UploadsInTurn, HeldIsOfAPile, today' = today,
         \A c \in Held' : c \in Held /\ cvs'[c].at = cvs[c].at /\ cvs'[c].pile = cvs[c].pile
                          /\ pile'[cvs[c].pile].there = pile[cvs[c].pile].there,
         \A c \in Cvs : cvs'[c].is \in {"unsent", "sending"} => cvs[c].is \in {"unsent", "sending"},
         \A c \in Cvs : cvs[c].is = "unsent" => cvs'[c].is = "unsent"
  PROVE  UploadsInTurn' /\ HeldIsOfAPile'
<1>1. HeldIsOfAPile'
  BY DEF HeldIsOfAPile
<1>2. \A c, d \in Cvs : c < d /\ cvs'[c].is \in {"unsent", "sending"} => cvs'[d].is = "unsent"
  BY DEF UploadsInTurn
<1>3. \A c, d \in Held' : c < d => cvs'[c].at <= cvs'[d].at
  BY DEF UploadsInTurn
<1> QED
  BY <1>1, <1>2, <1>3 DEF UploadsInTurn

(* Settling moves the clocks of one session forward with what it does. *)
LEMMA SettlingKeepsTime ==
  ASSUME KeepingTypes, ClocksRun, NEW t \in Piles, NEW new, SettlePile(t, new), today' = today
  PROVE  /\ cvs' = new /\ pile' \in [Piles -> PileRows] /\ ClocksRun'
         /\ worked' \in [Piles -> Nat] /\ (\A u \in Piles : worked'[u] <= today)
         /\ \A u \in Piles : pile'[u].there = pile[u].there
<1> DEFINE p == pile[t]
           q == SettledPile(t, new)
<1>1. /\ cvs' = new /\ pile' = [pile EXCEPT ![t] = q]
      /\ worked' = IF Lifecycle(p) # "closed" /\ pile'[t].completed # p.completed
                   THEN [worked EXCEPT ![t] = today] ELSE worked
  BY DEF SettlePile
<1>2. p \in PileRows /\ today \in Days /\ today \in Nat /\ worked \in [Piles -> Nat] /\ pile \in [Piles -> PileRows]
      /\ (\A u \in Piles : worked[u] <= today)
  BY KeepingNames DEF KeepingTypes, Days
<1>3. /\ q \in PileRows /\ q.there = p.there /\ q.lifecycle = p.lifecycle /\ q.purge = p.purge /\ q.touched = today
      /\ q.completed = p.completed \/ (p.completed = NoDate /\ q.completed = today /\ q.status = "completed")
      /\ p.status = "failed" => q.status = "failed"
  <2>1. PICK status \in {"processing", "ready", "completed", "failed"} :
          /\ q = [p EXCEPT !.status = status, !.touched = today,
                           !.completed = IF status = "completed" /\ p.completed = NoDate THEN today ELSE p.completed]
          /\ p.status = "failed" => status = "failed"
    <3> DEFINE of == {c \in Cvs : new[c].is \in {"pending", "parsed", "duplicate"} /\ new[c].pile = t}
               scored == \E c \in of : new[c].scored
               waiting == \E c \in of : new[c].is = "pending" \/ (new[c].is = "parsed" /\ ~new[c].scored)
               status == IF pile[t].status = "failed" THEN "failed"
                         ELSE IF ~scored THEN "processing" ELSE IF waiting THEN "ready" ELSE "completed"
    <3>1. q = [p EXCEPT !.status = status, !.touched = today,
                        !.completed = IF status = "completed" /\ p.completed = NoDate THEN today ELSE p.completed]
      BY DEF SettledPile
    <3>2. status \in {"processing", "ready", "completed", "failed"} /\ (p.status = "failed" => status = "failed")
      OBVIOUS
    <3> HIDE DEF q, status
    <3> QED BY <3>1, <3>2
  <2> HIDE DEF p, q
  <2>2. CASE status = "completed" /\ p.completed = NoDate
    BY <1>2, <2>1, <2>2 DEF PileRows
  <2>3. CASE ~(status = "completed" /\ p.completed = NoDate)
    BY <1>2, <2>1, <2>3 DEF PileRows
  <2> QED BY <2>2, <2>3
<1> HIDE DEF q
<1>4. pile' \in [Piles -> PileRows] /\ pile'[t] = q /\ \A u \in Piles : u # t => pile'[u] = pile[u]
  BY <1>1, <1>2, <1>3
<1>5. worked' \in [Piles -> Nat] /\ (\A u \in Piles : worked'[u] <= today)
      /\ (\A u \in Piles : u # t => worked'[u] = worked[u])
      /\ worked'[t] = IF Lifecycle(p) # "closed" /\ q.completed # p.completed THEN today ELSE worked[t]
  <2>1. today <= today
    BY <1>2
  <2>2. CASE Lifecycle(p) # "closed" /\ q.completed # p.completed
    <3>1. worked' = [worked EXCEPT ![t] = today]
      BY <1>1, <1>4, <2>2
    <3> QED BY <1>2, <2>1, <2>2, <3>1
  <2>3. CASE ~(Lifecycle(p) # "closed" /\ q.completed # p.completed)
    BY <1>1, <1>2, <1>4, <2>3
  <2> QED BY <2>2, <2>3
<1>6. Rested(q, worked'[t])
  <2>0. Rested(p, worked[t])
    BY DEF ClocksRun
  <2>1. p.touched \in Nat /\ p.completed \in Nat \cup {NoDate} /\ p.touched \in Days /\ worked[t] \in Nat /\ worked[t] <= today
    BY <1>2, KeepingNames DEF PileRows, Days
  <2>2. CASE p.lifecycle = NoDate
    <3>1. q.lifecycle # "closed" /\ q.lifecycle = NoDate /\ q.purge = NoDate
      BY <1>3, <2>0, <2>2, KeepingNames DEF Rested
    <3>2. CASE q.completed = p.completed
      <4>1. worked'[t] = worked[t]
        BY <1>5, <3>2
      <4>2. worked[t] <= (IF q.completed # NoDate THEN q.completed ELSE q.touched)
        BY <1>3, <2>0, <2>1, <2>2, <3>2 DEF Rested
      <4> QED BY <3>1, <4>1, <4>2 DEF Rested
    <3>3. CASE q.completed # p.completed
      <4>1. q.completed = today /\ q.completed # NoDate
        BY <1>2, <1>3, <3>3, KeepingNames
      <4>2. worked'[t] <= today
        BY <1>5
      <4> QED BY <3>1, <4>1, <4>2 DEF Rested
    <3> QED BY <3>2, <3>3
  <2>3. CASE p.lifecycle = "closed"
    <3>1. Lifecycle(p) = "closed"
      BY <2>3, KeepingNames DEF Lifecycle
    <3>2. worked'[t] = worked[t]
      BY <1>5, <3>1
    <3> QED BY <1>3, <2>0, <2>3, <3>2, KeepingNames DEF Rested
  <2>4. CASE p.lifecycle \notin {NoDate, "closed"}
    BY <1>3, <2>4 DEF Rested
  <2> QED BY <2>2, <2>3, <2>4
<1>7. ClocksRun'
  BY <1>4, <1>5, <1>6 DEF ClocksRun
<1>8. \A u \in Piles : pile'[u].there = pile[u].there
  BY <1>3, <1>4
<1> QED
  BY <1>1, <1>4, <1>5, <1>7, <1>8

(* CVs on their way in. *)
LEMMA KeepingUploads ==
  ASSUME KeepingInv, NEW c \in Cvs, Upload(c)
  PROVE  KeepingInv'
<1>1. /\ cvs[c] = Unsent /\ Sending = {} /\ (\A d \in Cvs : d < c => cvs[d] # Unsent)
      /\ cvs' = [cvs EXCEPT ![c] = [is |-> "sending"]] /\ bytes' = bytes \cup {c}
      /\ UNCHANGED <<today, pile, doomed, worked>>
  BY DEF Upload
<1>2. cvs \in [Cvs -> HeldRows \cup OtherRows] /\ Cvs \subseteq Nat /\ cvs[c].is = "unsent"
  BY <1>1, KeepingNames DEF KeepingInv, KeepingTypes, Cvs
<1>3. cvs' \in [Cvs -> HeldRows \cup OtherRows] /\ cvs'[c].is = "sending" /\ \A d \in Cvs : d # c => cvs'[d] = cvs[d]
  BY <1>1, <1>2 DEF OtherRows
<1>4. Held' = Held /\ Sending' = {c}
  BY <1>1, <1>2, <1>3 DEF Held, Sending
<1>5. KeepingTypes'
  BY <1>1, <1>3 DEF KeepingInv, KeepingTypes
<1>6. \A d \in Held : d # c
  BY <1>2 DEF Held
<1>7. HeldIsOfAPile' /\ NewestIsShown' /\ ClocksRun' /\ NothingGoesEarly'
  <2>1. HeldIsOfAPile' /\ NewestIsShown'
    BY <1>1, <1>3, <1>4, <1>6 DEF KeepingInv, HeldIsOfAPile, NewestIsShown, Held
  <2>2. ClocksRun' /\ NothingGoesEarly'
    BY <1>1, <1>3 DEF KeepingInv, ClocksRun, NothingGoesEarly
  <2> QED BY <2>1, <2>2
<1>8. FilesAreSomewhere'
  <2>1. \A d \in doomed : d # c /\ d \in Cvs
    BY <1>2 DEF KeepingInv, KeepingTypes, FilesAreSomewhere
  <2> QED BY <1>1, <1>3, <1>4, <2>1 DEF KeepingInv, FilesAreSomewhere
<1>9. UploadsInTurn'
  <2>1. \A d, e \in Cvs : d < e /\ cvs'[d].is \in {"unsent", "sending"} => cvs'[e].is = "unsent"
    <3> SUFFICES ASSUME NEW d \in Cvs, NEW e \in Cvs, d < e, cvs'[d].is \in {"unsent", "sending"}
                 PROVE  cvs'[e].is = "unsent"
      OBVIOUS
    <3>1. cvs[d].is \in {"unsent", "sending"}
      BY <1>2, <1>3
    <3>2. cvs[e].is = "unsent"
      BY <3>1 DEF KeepingInv, UploadsInTurn
    <3>3. e # c
      <4>1. CASE d = c
        BY <1>2, <4>1
      <4>2. CASE d # c
        <5>1. cvs[d].is = "unsent" => cvs[d] = Unsent
          BY <1>2, KeepingNames DEF HeldRows, OtherRows
        <5>2. cvs[d].is # "sending"
          BY <1>1 DEF Sending
        <5>3. cvs[d] = Unsent
          BY <1>3, <3>1, <4>2, <5>1, <5>2
        <5> QED BY <1>1, <5>3
      <4> QED BY <4>1, <4>2
    <3> QED BY <1>3, <3>2, <3>3
  <2>2. \A d, e \in Held' : d < e => cvs'[d].at <= cvs'[e].at
    BY <1>3, <1>4, <1>6 DEF KeepingInv, UploadsInTurn, Held
  <2> QED BY <2>1, <2>2 DEF UploadsInTurn
<1> QED
  BY <1>5, <1>7, <1>8, <1>9 DEF KeepingInv

(* The row of the upload. *)
LEMMA ReopeningIs ==
  ASSUME today \in Days, NEW p \in PileRows
  PROVE  Reopened(p) \in PileRows /\ Reopened(p).there = p.there /\ Reopened(p).lifecycle = "open"
<1>1. CASE p.lifecycle = "open" /\ p.purge = NoDate
  BY <1>1 DEF Reopened
<1>2. CASE ~(p.lifecycle = "open" /\ p.purge = NoDate)
  <2>1. Reopened(p) = [p EXCEPT !.lifecycle = "open", !.purge = NoDate, !.touched = today]
    BY <1>2 DEF Reopened
  <2> QED BY <2>1 DEF PileRows
<1> QED
  BY <1>1, <1>2

LEMMA KeepingAdds ==
  ASSUME KeepingInv, NEW t \in Piles, NEW c \in Cvs, AddCv(t, c)
  PROVE  KeepingInv'
<1> DEFINE fresh == [is |-> "pending", pile |-> t, at |-> today, from |-> NoDate, scored |-> FALSE]
           q == [Reopened(pile[t]) EXCEPT !.touched = today]
<1>1. /\ c \in Sending /\ pile[t].there /\ pile[t].status # "failed"
      /\ cvs' = [cvs EXCEPT ![c] = fresh] /\ pile' = [pile EXCEPT ![t] = q]
      /\ worked' = [worked EXCEPT ![t] = today] /\ UNCHANGED <<today, bytes, doomed>>
  BY DEF AddCv
<1>2. /\ cvs \in [Cvs -> HeldRows \cup OtherRows] /\ Cvs \subseteq Nat /\ cvs[c].is = "sending"
      /\ pile \in [Piles -> PileRows] /\ today \in Days /\ today \in Nat /\ worked \in [Piles -> Nat]
  BY <1>1, KeepingNames DEF KeepingInv, KeepingTypes, Cvs, Days, Sending
<1>3. fresh \in HeldRows /\ fresh.is = "pending" /\ fresh.pile = t /\ fresh.at = today
  BY <1>2 DEF HeldRows
<1>4. q \in PileRows /\ q.there = pile[t].there /\ q.lifecycle = "open"
  <2>1. Reopened(pile[t]) \in PileRows /\ Reopened(pile[t]).there = pile[t].there /\ Reopened(pile[t]).lifecycle = "open"
    BY <1>2, ReopeningIs
  <2> QED BY <1>2, <2>1 DEF PileRows
<1> HIDE DEF fresh, q
<1>5. /\ cvs' \in [Cvs -> HeldRows \cup OtherRows] /\ cvs'[c] = fresh /\ (\A d \in Cvs : d # c => cvs'[d] = cvs[d])
      /\ pile' \in [Piles -> PileRows] /\ pile'[t] = q /\ (\A u \in Piles : u # t => pile'[u] = pile[u])
      /\ worked' \in [Piles -> Nat] /\ worked'[t] = today /\ (\A u \in Piles : u # t => worked'[u] = worked[u])
  BY <1>1, <1>2, <1>3, <1>4
<1>6. c \notin Held /\ Held' = Held \cup {c} /\ Sending' = Sending \ {c} /\ \A d \in Held : cvs'[d] = cvs[d]
  BY <1>2, <1>3, <1>5 DEF Held, Sending
<1>7. KeepingTypes'
  <2>1. today <= today
    BY <1>2
  <2> QED BY <1>1, <1>5, <2>1 DEF KeepingInv, KeepingTypes
<1>8. HeldIsOfAPile'
  <2>1. \A d \in Held : cvs[d].pile \in Piles
    BY HeldHasColumns DEF KeepingInv, HeldRows, Held
  <2>2. \A u \in Piles : pile[u].there => pile'[u].there
    BY <1>1, <1>4, <1>5
  <2>3. today <= today
    BY <1>2
  <2> QED BY <1>1, <1>3, <1>4, <1>5, <1>6, <2>1, <2>2, <2>3 DEF KeepingInv, HeldIsOfAPile
<1>9. FilesAreSomewhere'
  <2>1. \A d \in doomed : d # c /\ d \in Cvs
    BY <1>2 DEF KeepingInv, KeepingTypes, FilesAreSomewhere
  <2> QED BY <1>1, <1>5, <1>6, <2>1 DEF KeepingInv, FilesAreSomewhere
<1>10. UploadsInTurn'
  <2>1. \A d \in Cvs : c < d => cvs[d].is = "unsent"
    BY <1>2 DEF KeepingInv, UploadsInTurn
  <2>2. \A d \in Held : ~(c < d)
    BY <2>1 DEF Held
  <2>3. \A d \in Held : cvs[d].at <= today
    BY DEF KeepingInv, HeldIsOfAPile
  <2>4. \A d, e \in Held' : d < e => cvs'[d].at <= cvs'[e].at
    <3> SUFFICES ASSUME NEW d \in Held', NEW e \in Held', d < e PROVE cvs'[d].at <= cvs'[e].at
      OBVIOUS
    <3>1. CASE e = c
      <4>1. d \in Held
        BY <1>2, <1>6, <3>1
      <4> QED BY <1>3, <1>5, <1>6, <2>3, <3>1, <4>1
    <3>2. CASE e # c
      <4>1. d # c /\ d \in Held /\ e \in Held
        BY <1>6, <2>2, <3>2
      <4> QED BY <1>6, <4>1 DEF KeepingInv, UploadsInTurn
    <3> QED BY <3>1, <3>2
  <2>5. \A d, e \in Cvs : d < e /\ cvs'[d].is \in {"unsent", "sending"} => cvs'[e].is = "unsent"
    <3> SUFFICES ASSUME NEW d \in Cvs, NEW e \in Cvs, d < e, cvs'[d].is \in {"unsent", "sending"}
                 PROVE  cvs'[e].is = "unsent"
      OBVIOUS
    <3>1. d # c /\ cvs[d].is \in {"unsent", "sending"}
      BY <1>3, <1>5
    <3>2. cvs[e].is = "unsent"
      BY <3>1 DEF KeepingInv, UploadsInTurn
    <3>3. e # c
      BY <1>2, <3>2
    <3> QED BY <1>5, <3>2, <3>3
  <2> QED BY <2>4, <2>5 DEF UploadsInTurn
<1>11. NewestIsShown'
  BY <1>3, <1>5, <1>6 DEF KeepingInv, NewestIsShown
<1>12. ClocksRun'
  <2>1. Rested(q, today)
    BY <1>4, KeepingNames DEF Rested
  <2> QED BY <1>5, <2>1 DEF KeepingInv, ClocksRun
<1>13. NothingGoesEarly'
  <2>1. \A d \in Cvs : cvs'[d].is = "expired" => d # c
    BY <1>3, <1>5
  <2> QED BY <1>5, <2>1 DEF KeepingInv, NothingGoesEarly
<1> QED
  BY <1>7, <1>8, <1>9, <1>10, <1>11, <1>12, <1>13 DEF KeepingInv

(* The upload is refused; its session was opened again for it. *)
LEMMA KeepingRefuses ==
  ASSUME KeepingInv, NEW t \in Piles, NEW c \in Cvs, RefuseCv(t, c)
  PROVE  KeepingInv'
<1> DEFINE q == Reopened(pile[t])
<1>1. /\ c \in Sending /\ cvs' = [cvs EXCEPT ![c] = Gone] /\ doomed' = doomed \cup {c}
      /\ (pile[t].status = "failed" => pile' = pile /\ worked' = worked)
      /\ (pile[t].status # "failed" => pile' = [pile EXCEPT ![t] = q] /\ worked' = [worked EXCEPT ![t] = today])
      /\ UNCHANGED <<today, bytes>>
  BY DEF RefuseCv
<1>2. /\ cvs \in [Cvs -> HeldRows \cup OtherRows] /\ Cvs \subseteq Nat /\ cvs[c].is = "sending" /\ c \in bytes
      /\ pile \in [Piles -> PileRows] /\ today \in Days /\ today \in Nat /\ worked \in [Piles -> Nat]
  <2>1. Cvs \subseteq Nat /\ cvs[c].is = "sending" /\ c \in bytes
    BY <1>1 DEF KeepingInv, Cvs, Sending, FilesAreSomewhere
  <2> QED BY <2>1, KeepingNames DEF KeepingInv, KeepingTypes, Days
<1>3. q \in PileRows /\ q.there = pile[t].there /\ q.lifecycle = "open"
  <2>1. Reopened(pile[t]) \in PileRows /\ Reopened(pile[t]).there = pile[t].there /\ Reopened(pile[t]).lifecycle = "open"
    BY <1>2, ReopeningIs
  <2> QED BY <1>2, <2>1 DEF PileRows
<1> HIDE DEF q
<1>4. cvs' \in [Cvs -> HeldRows \cup OtherRows] /\ cvs'[c].is = "gone" /\ (\A d \in Cvs : d # c => cvs'[d] = cvs[d])
  BY <1>1, <1>2, KeepingNames DEF OtherRows
<1>5. /\ pile' \in [Piles -> PileRows] /\ worked' \in [Piles -> Nat] /\ (\A u \in Piles : worked'[u] <= today)
      /\ ClocksRun' /\ \A u \in Piles : pile'[u].there = pile[u].there
  <2>1. CASE pile[t].status = "failed"
    BY <1>1, <1>2, <2>1 DEF KeepingInv, KeepingTypes, ClocksRun
  <2>2. CASE pile[t].status # "failed"
    <3>1. /\ pile' \in [Piles -> PileRows] /\ pile'[t] = q /\ (\A u \in Piles : u # t => pile'[u] = pile[u])
          /\ worked' \in [Piles -> Nat] /\ worked'[t] = today /\ (\A u \in Piles : u # t => worked'[u] = worked[u])
      BY <1>1, <1>2, <1>3, <2>2
    <3>2. Rested(q, today)
      BY <1>3, KeepingNames DEF Rested
    <3>3. today <= today
      BY <1>2
    <3> QED BY <1>3, <3>1, <3>2, <3>3 DEF KeepingInv, KeepingTypes, ClocksRun
  <2> QED BY <2>1, <2>2
<1>6. c \notin Held /\ Held' = Held /\ Sending' = Sending \ {c} /\ \A d \in Held : cvs'[d] = cvs[d]
  BY <1>2, <1>4 DEF Held, Sending
<1>7. KeepingTypes'
  BY <1>1, <1>2, <1>4, <1>5 DEF KeepingInv, KeepingTypes
<1>8. HeldIsOfAPile' /\ UploadsInTurn'
  <2>1. \A d \in Held : cvs[d].pile \in Piles
    BY HeldHasColumns DEF KeepingInv, HeldRows, Held
  <2>2. \A d \in Held' : d \in Held /\ cvs'[d].at = cvs[d].at /\ cvs'[d].pile = cvs[d].pile
                         /\ pile'[cvs[d].pile].there = pile[cvs[d].pile].there
    BY <1>5, <1>6, <2>1
  <2>3. \A d \in Cvs : cvs'[d].is \in {"unsent", "sending"} => cvs[d].is \in {"unsent", "sending"}
    BY <1>4
  <2>4. \A d \in Cvs : cvs[d].is = "unsent" => cvs'[d].is = "unsent"
    BY <1>2, <1>4
  <2> QED BY <1>1, <2>2, <2>3, <2>4, TurnsAreKept DEF KeepingInv
<1>9. FilesAreSomewhere'
  <2>1. \A d \in doomed : d \in Cvs
    BY DEF KeepingInv, KeepingTypes
  <2> QED BY <1>1, <1>4, <1>6, <2>1 DEF KeepingInv, FilesAreSomewhere
<1>10. NewestIsShown' /\ NothingGoesEarly'
  <2>1. \A d \in Cvs : cvs'[d].is = "expired" => d # c
    BY <1>4
  <2> QED BY <1>4, <1>6, <2>1 DEF KeepingInv, NewestIsShown, NothingGoesEarly
<1> QED
  BY <1>5, <1>7, <1>8, <1>9, <1>10 DEF KeepingInv

(* Rows settle: those held stay with their session, their day and their file, or are
   on their way out. *)
LEMMA KeepingSettles ==
  ASSUME KeepingInv, NEW t \in Piles, NEW new, SettlePile(t, new), UNCHANGED <<today, bytes>>,
         new \in [Cvs -> HeldRows \cup OtherRows],
         NEW out \in SUBSET Held, doomed' = doomed \cup out,
         \A c \in Cvs : new[c].is = "gone" <=> cvs[c].is = "gone" \/ c \in out,
         \A c \in Held \ out : new[c] \in HeldRows /\ new[c].at = cvs[c].at /\ new[c].pile = cvs[c].pile,
         \A c \in Cvs \ Held : new[c] = cvs[c]
  PROVE  /\ KeepingTypes' /\ HeldIsOfAPile' /\ FilesAreSomewhere' /\ UploadsInTurn' /\ ClocksRun' /\ NothingGoesEarly'
         /\ Held' = Held \ out /\ cvs' = new
<1>1. /\ cvs' = new /\ pile' \in [Piles -> PileRows] /\ ClocksRun'
      /\ worked' \in [Piles -> Nat] /\ (\A u \in Piles : worked'[u] <= today)
      /\ \A u \in Piles : pile'[u].there = pile[u].there
  BY SettlingKeepsTime DEF KeepingInv
<1>2. \A r \in HeldRows : r.is \in {"pending", "parsed", "duplicate", "unreadable"}
  BY DEF HeldRows
<1>3. Held' = Held \ out /\ Sending' = Sending
  <2>1. \A c \in Held \ out : cvs'[c].is \in {"pending", "parsed", "duplicate", "unreadable"}
    BY <1>1, <1>2
  <2>2. \A c \in out : cvs'[c].is = "gone" /\ c \in Cvs
    BY <1>1 DEF Held
  <2>3. \A c \in Cvs : c \notin Held => cvs'[c] = cvs[c]
    BY <1>1
  <2>4. Held' = Held \ out
    BY <2>1, <2>2, <2>3 DEF Held
  <2>5. Sending' = Sending
    BY <2>1, <2>2, <2>3 DEF Held, Sending
  <2> QED BY <2>4, <2>5
<1>4. KeepingTypes'
  <2>1. doomed' \subseteq bytes
    BY DEF KeepingInv, KeepingTypes, FilesAreSomewhere
  <2> QED BY <1>1, <2>1 DEF KeepingInv, KeepingTypes
<1>5. HeldIsOfAPile' /\ UploadsInTurn'
  <2>1. \A c \in Held : cvs[c].pile \in Piles
    BY HeldHasColumns DEF KeepingInv, HeldRows, Held
  <2>2. \A c \in Held' : c \in Held /\ cvs'[c].at = cvs[c].at /\ cvs'[c].pile = cvs[c].pile
                         /\ pile'[cvs[c].pile].there = pile[cvs[c].pile].there
    BY <1>1, <1>3, <2>1
  <2>3. \A c \in Cvs : cvs'[c].is \in {"unsent", "sending"} => c \notin Held
    <3>1. \A c \in Held : c \in out \/ c \in Held'
      BY <1>3
    <3> QED BY <1>1, <3>1 DEF Held
  <2>4. \A c \in Cvs : cvs'[c].is \in {"unsent", "sending"} => cvs[c].is \in {"unsent", "sending"}
    BY <1>1, <2>3
  <2>5. \A c \in Cvs : cvs[c].is = "unsent" => cvs'[c].is = "unsent"
    BY <1>1 DEF Held
  <2> QED BY <2>2, <2>4, <2>5, TurnsAreKept DEF KeepingInv
<1>6. FilesAreSomewhere'
  <2>1. \A c \in doomed' : cvs'[c].is \in {"gone", "expired"}
    <3>1. \A c \in doomed : c \in Cvs /\ cvs[c].is \in {"gone", "expired"} /\ c \notin Held
      BY DEF KeepingInv, KeepingTypes, FilesAreSomewhere, Held
    <3>2. \A c \in out : c \in Cvs
      BY DEF Held
    <3> QED BY <1>1, <3>1, <3>2
  <2> QED BY <1>3, <2>1 DEF KeepingInv, FilesAreSomewhere
<1>7. NothingGoesEarly'
  <2> SUFFICES ASSUME NEW c \in Cvs, cvs'[c].is = "expired"
               PROVE  cvs'[c].age >= AgeDays \/ cvs'[c].rest >= CloseDays
    BY DEF NothingGoesEarly
  <2>1. c \notin Held
    <3>1. c \notin Held'
      BY DEF Held
    <3>2. c \notin out
      BY <1>1
    <3> QED BY <1>3, <3>1, <3>2
  <2> QED BY <1>1, <2>1 DEF KeepingInv, NothingGoesEarly
<1> QED
  BY <1>1, <1>3, <1>4, <1>5, <1>6, <1>7

(* A CV cannot be read, or is scored. *)
LEMMA KeepingMarks ==
  ASSUME KeepingInv, NEW c \in Cvs, CannotRead(c) \/ ScoreCv(c)
  PROVE  KeepingInv'
<1> DEFINE t == cvs[c].pile
<1>1. c \in Held /\ UNCHANGED <<today, bytes, doomed>>
  BY DEF CannotRead, ScoreCv
<1>2. cvs[c] \in HeldRows /\ t \in Piles /\ cvs \in [Cvs -> HeldRows \cup OtherRows]
  <2>1. cvs[c] \in HeldRows
    BY <1>1, HeldHasColumns DEF KeepingInv
  <2> QED BY <2>1 DEF HeldRows, KeepingInv, KeepingTypes
<1>3. PICK r \in HeldRows :
        /\ SettlePile(t, [cvs EXCEPT ![c] = r])
        /\ r.at = cvs[c].at /\ r.pile = cvs[c].pile /\ r.from = cvs[c].from
        /\ r.is = cvs[c].is \/ (r.is = "unreadable" /\ cvs[c].is = "pending")
  <2>1. CASE CannotRead(c)
    <3> DEFINE r == [cvs[c] EXCEPT !.is = "unreadable"]
    <3>1. r \in HeldRows /\ r.at = cvs[c].at /\ r.pile = cvs[c].pile /\ r.from = cvs[c].from /\ r.is = "unreadable"
      BY <1>2 DEF HeldRows
    <3>2. cvs[c].is = "pending" /\ SettlePile(t, [cvs EXCEPT ![c] = r])
      BY <2>1 DEF CannotRead
    <3> HIDE DEF r, t
    <3> QED BY <3>1, <3>2
  <2>2. CASE ScoreCv(c)
    <3> DEFINE r == [cvs[c] EXCEPT !.scored = TRUE]
    <3>1. r \in HeldRows /\ r.at = cvs[c].at /\ r.pile = cvs[c].pile /\ r.from = cvs[c].from /\ r.is = cvs[c].is
      BY <1>2 DEF HeldRows
    <3>2. SettlePile(t, [cvs EXCEPT ![c] = r])
      BY <2>2 DEF ScoreCv
    <3> HIDE DEF r, t
    <3> QED BY <3>1, <3>2
  <2> QED BY <2>1, <2>2
<1> DEFINE new == [cvs EXCEPT ![c] = r]
<1>5. new \in [Cvs -> HeldRows \cup OtherRows] /\ new[c] = r /\ \A d \in Cvs : d # c => new[d] = cvs[d]
  BY <1>2
<1>4. SettlePile(t, new)
  BY <1>3
<1> HIDE DEF new
<1>6. /\ \A d \in Cvs : new[d].is = "gone" <=> cvs[d].is = "gone" \/ d \in {}
      /\ \A d \in Held \ {} : new[d] \in HeldRows /\ new[d].at = cvs[d].at /\ new[d].pile = cvs[d].pile
      /\ \A d \in Cvs \ Held : new[d] = cvs[d]
  <2>1. \A d \in Held : d \in Cvs /\ cvs[d] \in HeldRows
    BY HeldHasColumns DEF KeepingInv, Held
  <2>2. cvs[c].is # "gone" /\ r.is # "gone"
    BY <1>1, <1>3 DEF Held
  <2> QED BY <1>1, <1>3, <1>5, <2>1, <2>2
<1>7. /\ KeepingTypes' /\ HeldIsOfAPile' /\ FilesAreSomewhere' /\ UploadsInTurn' /\ ClocksRun' /\ NothingGoesEarly'
      /\ Held' = Held /\ cvs' = new
  <2>1. doomed' = doomed \cup {} /\ {} \in SUBSET Held /\ UNCHANGED <<today, bytes>>
    BY <1>1
  <2> HIDE DEF t
  <2>2. /\ KeepingTypes' /\ HeldIsOfAPile' /\ FilesAreSomewhere' /\ UploadsInTurn' /\ ClocksRun' /\ NothingGoesEarly'
        /\ Held' = Held \ {} /\ cvs' = new
    BY <1>2, <1>4, <1>5, <1>6, <2>1, KeepingSettles
  <2> QED BY <2>2
<1>8. NewestIsShown'
  <2>1. \A d \in Held : d \in Cvs /\ cvs'[d].pile = cvs[d].pile /\ cvs'[d].from = cvs[d].from
                        /\ (cvs[d].is = "parsed" => cvs'[d].is = "parsed")
                        /\ (cvs'[d].is = "duplicate" => cvs[d].is = "duplicate")
    BY <1>3, <1>5, <1>7 DEF Held
  <2> QED BY <1>7, <2>1 DEF KeepingInv, NewestIsShown
<1> QED
  BY <1>7, <1>8 DEF KeepingInv

(* A CV is read: of its sender's the newest is shown from now on. *)
LEMMA KeepingReads ==
  ASSUME KeepingInv, NEW c \in Cvs, NEW sender \in Senders \cup {NoDate}, ReadCv(c, sender)
  PROVE  KeepingInv'
<1> DEFINE t == cvs[c].pile
           read == [cvs EXCEPT ![c].is = "parsed", ![c].from = sender]
           same(d) == d \in Held /\ read[d].is \in {"parsed", "duplicate"} /\ sender # NoDate
                      /\ read[d].pile = cvs[c].pile /\ read[d].from = sender
           those == {d \in Cvs : same(d)}
           newest == Max({c} \cup those)
           new == [d \in Cvs |-> IF same(d) THEN [read[d] EXCEPT !.is = IF d = newest THEN "parsed" ELSE "duplicate"]
                                 ELSE read[d]]
<1>1. c \in Held /\ cvs[c].is = "pending" /\ SettlePile(t, new) /\ UNCHANGED <<today, bytes, doomed>>
  BY DEF ReadCv
<1>2. cvs[c] \in HeldRows /\ t \in Piles /\ cvs \in [Cvs -> HeldRows \cup OtherRows] /\ Cvs \subseteq Nat
  <2>1. cvs[c] \in HeldRows
    BY <1>1, HeldHasColumns DEF KeepingInv
  <2> QED BY <2>1 DEF HeldRows, KeepingInv, KeepingTypes, Cvs
<1> DEFINE r == [cvs[c] EXCEPT !.is = "parsed", !.from = sender]
<1>3. /\ r \in HeldRows /\ r.is = "parsed" /\ r.from = sender /\ r.pile = cvs[c].pile /\ r.at = cvs[c].at
      /\ read = [cvs EXCEPT ![c] = r]
  BY <1>2 DEF HeldRows
<1> HIDE DEF r
<1>4. /\ read \in [Cvs -> HeldRows \cup OtherRows] /\ read[c] = r /\ (\A d \in Cvs : d # c => read[d] = cvs[d])
  BY <1>2, <1>3
<1> HIDE DEF read
<1>5. \A d \in Held : d \in Cvs /\ read[d] \in HeldRows /\ read[d].at = cvs[d].at /\ read[d].pile = cvs[d].pile
  <2>1. \A d \in Held : d \in Cvs /\ cvs[d] \in HeldRows
    BY HeldHasColumns DEF KeepingInv, Held
  <2> QED BY <1>3, <1>4, <2>1
<1>6. those \subseteq Held /\ those \subseteq Cvs /\ (\A d \in Cvs : same(d) <=> d \in those)
      /\ \A d \in those : read[d].is \in {"parsed", "duplicate"} /\ sender # NoDate
                          /\ read[d].pile = cvs[c].pile /\ read[d].from = sender
  OBVIOUS
<1>7. sender # NoDate => c \in those
  BY <1>1, <1>3, <1>4
<1>8. newest \in {c} \cup those /\ \A d \in {c} \cup those : d <= newest
  <2> HIDE DEF those, same
  <2>1. {c} \cup those \subseteq Cvs
    BY <1>6
  <2>2. IsFiniteSet({c} \cup those)
    <3>1. IsFiniteSet(Cvs)
      BY CvsAreFinite
    <3> QED BY <2>1, <3>1, FS_Subset
  <2>3. {c} \cup those \subseteq Int /\ {c} \cup those # {}
    <3>1. \A d \in Cvs : d \in Int
      BY DEF Cvs
    <3> QED BY <2>1, <3>1
  <2> QED BY <2>2, <2>3, MaxIsGreatest DEF newest
<1>9. \A d \in those : new[d] = [read[d] EXCEPT !.is = IF d = newest THEN "parsed" ELSE "duplicate"]
  BY <1>6
<1>10. \A d \in Cvs \ those : new[d] = read[d]
  BY <1>6
<1>11. DOMAIN new = Cvs /\ new = [d \in Cvs |-> new[d]]
  OBVIOUS
<1> HIDE DEF new, newest, those
<1>12. \A d \in those : /\ new[d] \in HeldRows /\ new[d].at = cvs[d].at /\ new[d].pile = cvs[d].pile
                        /\ new[d].from = sender /\ new[d].pile = cvs[c].pile
                        /\ new[d].is = IF d = newest THEN "parsed" ELSE "duplicate"
  <2> SUFFICES ASSUME NEW d \in those
               PROVE  /\ new[d] \in HeldRows /\ new[d].at = cvs[d].at /\ new[d].pile = cvs[d].pile
                      /\ new[d].from = sender /\ new[d].pile = cvs[c].pile
                      /\ new[d].is = IF d = newest THEN "parsed" ELSE "duplicate"
    OBVIOUS
  <2>1. PICK is \in {"parsed", "duplicate"} : is = IF d = newest THEN "parsed" ELSE "duplicate"
    OBVIOUS
  <2>2. new[d] = [read[d] EXCEPT !.is = is] /\ read[d] \in HeldRows
    BY <1>5, <1>6, <1>9, <2>1
  <2> QED BY <1>5, <1>6, <2>1, <2>2 DEF HeldRows
<1>13. new \in [Cvs -> HeldRows \cup OtherRows]
  <2>1. \A d \in Cvs : new[d] \in HeldRows \cup OtherRows
    BY <1>4, <1>10, <1>12
  <2> QED BY <1>11, <2>1
<1>14. /\ \A d \in Cvs : new[d].is = "gone" <=> cvs[d].is = "gone" \/ d \in {}
       /\ \A d \in Held \ {} : new[d] \in HeldRows /\ new[d].at = cvs[d].at /\ new[d].pile = cvs[d].pile
       /\ \A d \in Cvs \ Held : new[d] = cvs[d]
  <2>1. \A d \in Held : new[d] \in HeldRows /\ new[d].at = cvs[d].at /\ new[d].pile = cvs[d].pile
    <3> SUFFICES ASSUME NEW d \in Held
                 PROVE  new[d] \in HeldRows /\ new[d].at = cvs[d].at /\ new[d].pile = cvs[d].pile
      OBVIOUS
    <3>1. CASE d \in those
      BY <1>12, <3>1
    <3>2. CASE d \notin those
      BY <1>5, <1>10, <3>2
    <3> QED BY <3>1, <3>2
  <2>2. \A d \in Cvs \ Held : new[d] = cvs[d]
    BY <1>1, <1>4, <1>6, <1>10
  <2>3. \A d \in Held : new[d].is # "gone" /\ cvs[d].is # "gone"
    BY <2>1 DEF Held, HeldRows
  <2> QED BY <2>1, <2>2, <2>3
<1>15. /\ KeepingTypes' /\ HeldIsOfAPile' /\ FilesAreSomewhere' /\ UploadsInTurn' /\ ClocksRun' /\ NothingGoesEarly'
       /\ Held' = Held /\ cvs' = new
  <2>1. doomed' = doomed \cup {} /\ {} \in SUBSET Held /\ UNCHANGED <<today, bytes>>
    BY <1>1
  <2>0. SettlePile(t, new)
    BY <1>1
  <2> HIDE DEF t
  <2>2. /\ KeepingTypes' /\ HeldIsOfAPile' /\ FilesAreSomewhere' /\ UploadsInTurn' /\ ClocksRun' /\ NothingGoesEarly'
        /\ Held' = Held \ {} /\ cvs' = new
    BY <1>2, <1>13, <1>14, <2>0, <2>1, KeepingSettles
  <2> QED BY <2>2
<1>16. NewestIsShown'
  <2> SUFFICES ASSUME NEW d \in Held, new[d].is = "duplicate"
               PROVE  /\ new[d].from # NoDate
                      /\ \E e \in Held : /\ d < e /\ new[e].is = "parsed" /\ new[e].pile = new[d].pile
                                         /\ new[e].from = new[d].from
    BY <1>15 DEF NewestIsShown
  <2>1. CASE d \in those
    <3>1. d # newest /\ sender # NoDate /\ newest \in those
      BY <1>6, <1>7, <1>8, <1>12, <2>1
    <3>2. d < newest
      BY <1>2, <1>6, <1>8, <2>1, <3>1
    <3> QED BY <1>6, <1>12, <2>1, <3>1, <3>2
  <2>2. CASE d \notin those
    <3>1. d # c /\ new[d] = cvs[d] /\ cvs[d].is = "duplicate"
      BY <1>3, <1>4, <1>5, <1>10, <2>2
    <3>2. cvs[d].from # NoDate
      BY <3>1 DEF KeepingInv, NewestIsShown
    <3>3. PICK e \in Held : d < e /\ cvs[e].is = "parsed" /\ cvs[e].pile = cvs[d].pile /\ cvs[e].from = cvs[d].from
      BY <3>1 DEF KeepingInv, NewestIsShown
    <3>4. e \notin those /\ e # c
      <4>1. e # c
        BY <1>1, <3>3
      <4>2. e \in those => read[d].from = sender /\ read[d].pile = cvs[c].pile /\ sender # NoDate
        BY <1>4, <1>5, <1>6, <3>1, <3>3, <4>1
      <4>3. read[d].is = "duplicate" /\ d \in Cvs
        BY <1>4, <1>5, <3>1
      <4>4. read[d].from = sender /\ read[d].pile = cvs[c].pile /\ sender # NoDate => d \in those
        BY <4>3 DEF those
      <4> QED BY <2>2, <4>1, <4>2, <4>4
    <3>5. new[e] = cvs[e]
      BY <1>4, <1>5, <1>10, <3>4
    <3> QED BY <3>1, <3>2, <3>3, <3>5
  <2> QED BY <2>1, <2>2
<1> QED
  BY <1>15, <1>16 DEF KeepingInv

(* A CV is taken away: the newest of those it stood before takes its place. *)
LEMMA KeepingRemoves ==
  ASSUME KeepingInv, NEW c \in Cvs, RemoveCv(c)
  PROVE  KeepingInv'
<1> DEFINE t == cvs[c].pile
           heirs == {d \in Held : /\ cvs[d].is = "duplicate" /\ cvs[d].pile = cvs[c].pile
                                  /\ cvs[c].is = "parsed" /\ cvs[c].from # NoDate
                                  /\ cvs[d].from = cvs[c].from}
           left == [cvs EXCEPT ![c] = Gone]
           heir == Max(heirs)
           new == IF heirs = {} THEN left ELSE [left EXCEPT ![heir].is = "parsed"]
<1>1. c \in Held /\ SettlePile(t, new) /\ doomed' = doomed \cup {c} /\ UNCHANGED <<today, bytes>>
  BY DEF RemoveCv
<1>2. cvs[c] \in HeldRows /\ t \in Piles /\ cvs \in [Cvs -> HeldRows \cup OtherRows] /\ Cvs \subseteq Nat
  <2>1. cvs[c] \in HeldRows
    BY <1>1, HeldHasColumns DEF KeepingInv
  <2> QED BY <2>1 DEF HeldRows, KeepingInv, KeepingTypes, Cvs
<1>3. left \in [Cvs -> HeldRows \cup OtherRows] /\ left[c] = Gone /\ \A d \in Cvs : d # c => left[d] = cvs[d]
  BY <1>2 DEF OtherRows
<1>4. heirs \subseteq Held \ {c} /\ Held \subseteq Cvs
  BY DEF Held
<1>5. \A d \in heirs : /\ cvs[d].is = "duplicate" /\ cvs[d].pile = cvs[c].pile /\ cvs[c].is = "parsed"
                       /\ cvs[c].from # NoDate /\ cvs[d].from = cvs[c].from
  OBVIOUS
<1>6. \A d \in Held : cvs[d].is = "duplicate" /\ cvs[d].pile = cvs[c].pile /\ cvs[d].from = cvs[c].from
                      /\ cvs[c].is = "parsed" /\ cvs[c].from # NoDate => d \in heirs
  OBVIOUS
<1> HIDE DEF left, heirs
<1>7. heirs # {} => heir \in heirs /\ \A d \in heirs : d <= heir
  <2>1. IsFiniteSet(heirs)
    <3>1. IsFiniteSet(Cvs)
      BY CvsAreFinite
    <3>2. heirs \subseteq Cvs
      BY <1>4
    <3> QED BY <3>1, <3>2, FS_Subset
  <2>2. heirs \subseteq Int
    BY <1>2, <1>4
  <2> QED BY <2>1, <2>2, MaxIsGreatest
<1> HIDE DEF heir
<1> DEFINE r == [cvs[heir] EXCEPT !.is = "parsed"]
<1>8. heirs # {} => /\ heir \in Held /\ heir # c /\ heir \in Cvs /\ cvs[heir] \in HeldRows
                    /\ r \in HeldRows /\ r.is = "parsed" /\ r.at = cvs[heir].at /\ r.pile = cvs[heir].pile
                    /\ r.from = cvs[heir].from
                    /\ new = [left EXCEPT ![heir] = r]
  <2> SUFFICES ASSUME heirs # {}
               PROVE  /\ heir \in Held /\ heir # c /\ heir \in Cvs /\ cvs[heir] \in HeldRows
                      /\ r \in HeldRows /\ r.is = "parsed" /\ r.at = cvs[heir].at /\ r.pile = cvs[heir].pile
                      /\ r.from = cvs[heir].from
                      /\ new = [left EXCEPT ![heir] = r]
    OBVIOUS
  <2>1. heir \in Held /\ heir # c /\ heir \in Cvs
    BY <1>4, <1>7
  <2>2. cvs[heir] \in HeldRows
    BY <2>1, HeldHasColumns DEF KeepingInv
  <2>3. r \in HeldRows /\ r.is = "parsed" /\ r.at = cvs[heir].at /\ r.pile = cvs[heir].pile /\ r.from = cvs[heir].from
    BY <2>2 DEF HeldRows
  <2>4. new = [left EXCEPT ![heir] = [left[heir] EXCEPT !.is = "parsed"]]
    OBVIOUS
  <2>5. left[heir] = cvs[heir]
    BY <1>3, <2>1
  <2> QED BY <2>1, <2>2, <2>3, <2>4, <2>5
<1>9. heirs = {} => new = left
  OBVIOUS
<1> HIDE DEF r, new
<1>10. /\ new \in [Cvs -> HeldRows \cup OtherRows] /\ new[c] = Gone
       /\ \A d \in Cvs : d # c /\ ~(heirs # {} /\ d = heir) => new[d] = cvs[d]
       /\ heirs # {} => new[heir] = r
  <2>1. CASE heirs = {}
    BY <1>3, <1>9, <2>1
  <2>2. CASE heirs # {}
    BY <1>3, <1>8, <2>2
  <2> QED BY <2>1, <2>2
<1>11. /\ \A d \in Cvs : new[d].is = "gone" <=> cvs[d].is = "gone" \/ d \in {c}
       /\ \A d \in Held \ {c} : new[d] \in HeldRows /\ new[d].at = cvs[d].at /\ new[d].pile = cvs[d].pile
                                /\ new[d].from = cvs[d].from
       /\ \A d \in Cvs \ Held : new[d] = cvs[d]
  <2>1. \A d \in Held : d \in Cvs /\ cvs[d] \in HeldRows /\ cvs[d].is # "gone"
    BY HeldHasColumns DEF KeepingInv, Held
  <2>2. \A d \in Held \ {c} : new[d] \in HeldRows /\ new[d].at = cvs[d].at /\ new[d].pile = cvs[d].pile
                              /\ new[d].from = cvs[d].from
    BY <1>8, <1>10, <2>1
  <2>3. \A d \in Cvs \ Held : new[d] = cvs[d]
    BY <1>1, <1>8, <1>10
  <2>4. \A d \in Held \ {c} : new[d].is # "gone"
    BY <2>2 DEF HeldRows
  <2> QED BY <1>10, <2>1, <2>2, <2>3, <2>4, KeepingNames
<1>12. /\ KeepingTypes' /\ HeldIsOfAPile' /\ FilesAreSomewhere' /\ UploadsInTurn' /\ ClocksRun' /\ NothingGoesEarly'
       /\ Held' = Held \ {c} /\ cvs' = new
  <2>1. {c} \in SUBSET Held /\ UNCHANGED <<today, bytes>>
    BY <1>1
  <2>2. \A d \in Held \ {c} : new[d] \in HeldRows /\ new[d].at = cvs[d].at /\ new[d].pile = cvs[d].pile
    BY <1>11
  <2> HIDE DEF t
  <2> QED BY <1>1, <1>2, <1>10, <1>11, <2>1, <2>2, KeepingSettles
<1>13. NewestIsShown'
  <2> SUFFICES ASSUME NEW d \in Held \ {c}, new[d].is = "duplicate"
               PROVE  /\ new[d].from # NoDate
                      /\ \E e \in Held \ {c} : /\ d < e /\ new[e].is = "parsed" /\ new[e].pile = new[d].pile
                                               /\ new[e].from = new[d].from
    BY <1>12 DEF NewestIsShown
  <2>1. ~(heirs # {} /\ d = heir) /\ new[d] = cvs[d] /\ d \in Cvs
    BY <1>4, <1>8, <1>10
  <2>2. cvs[d].from # NoDate
    BY <2>1 DEF KeepingInv, NewestIsShown
  <2>3. PICK e \in Held : d < e /\ cvs[e].is = "parsed" /\ cvs[e].pile = cvs[d].pile /\ cvs[e].from = cvs[d].from
    BY <2>1 DEF KeepingInv, NewestIsShown
  <2>4. CASE e # c
    <3>1. ~(heirs # {} /\ e = heir)
      BY <1>5, <1>7, <2>3
    <3> QED BY <1>4, <1>10, <2>1, <2>2, <2>3, <2>4, <3>1
  <2>5. CASE e = c
    <3>1. d \in heirs
      BY <1>6, <2>1, <2>2, <2>3, <2>5
    <3>2. d # heir /\ heir \in Held \ {c} /\ d <= heir /\ heirs # {}
      BY <1>4, <1>7, <2>1, <3>1
    <3>3. d < heir
      BY <1>2, <1>4, <2>1, <3>2
    <3>4. new[heir].is = "parsed" /\ new[heir].pile = cvs[d].pile /\ new[heir].from = cvs[d].from
      BY <1>5, <1>7, <1>8, <1>10, <3>1, <3>2
    <3> QED BY <2>1, <2>2, <3>2, <3>3, <3>4
  <2> QED BY <2>4, <2>5
<1> QED
  BY <1>12, <1>13 DEF KeepingInv

(* Only the sessions change. *)
LEMMA KeepingDecides ==
  ASSUME KeepingInv, NEW t \in Piles, NEW q \in PileRows, q.there = pile[t].there,
         pile' = [pile EXCEPT ![t] = q], UNCHANGED <<today, cvs, bytes, doomed>>,
         NEW since \in Nat, since <= today, worked' = [worked EXCEPT ![t] = since], Rested(q, since)
  PROVE  KeepingInv'
<1>1. /\ pile' \in [Piles -> PileRows] /\ pile'[t] = q /\ (\A u \in Piles : u # t => pile'[u] = pile[u])
      /\ worked' \in [Piles -> Nat] /\ worked'[t] = since /\ (\A u \in Piles : u # t => worked'[u] = worked[u])
  BY DEF KeepingInv, KeepingTypes
<1>2. Held' = Held /\ Sending' = Sending
  BY DEF Held, Sending
<1>3. KeepingTypes'
  BY <1>1 DEF KeepingInv, KeepingTypes
<1>4. HeldIsOfAPile'
  <2>1. \A d \in Held : cvs[d].pile \in Piles
    BY HeldHasColumns DEF KeepingInv, HeldRows, Held
  <2> QED BY <1>1, <1>2, <2>1 DEF KeepingInv, HeldIsOfAPile
<1>5. FilesAreSomewhere' /\ UploadsInTurn' /\ NewestIsShown' /\ NothingGoesEarly'
  BY <1>2 DEF KeepingInv, FilesAreSomewhere, UploadsInTurn, NewestIsShown, NothingGoesEarly
<1>6. ClocksRun'
  BY <1>1 DEF KeepingInv, ClocksRun
<1> QED
  BY <1>3, <1>4, <1>5, <1>6 DEF KeepingInv

LEMMA KeepingGivesUp ==
  ASSUME KeepingInv, NEW t \in Piles, SessionGivesUp(t)
  PROVE  KeepingInv'
<1> DEFINE p == pile[t]
           q == [p EXCEPT !.status = "failed", !.touched = today]
           since == IF Lifecycle(p) = "closed" \/ p.completed # NoDate THEN worked[t] ELSE today
<1>1. /\ p.status # "failed" /\ pile' = [pile EXCEPT ![t] = q]
      /\ worked' = (IF Lifecycle(p) = "closed" \/ p.completed # NoDate THEN worked ELSE [worked EXCEPT ![t] = today])
      /\ UNCHANGED <<today, cvs, bytes, doomed>>
  BY DEF SessionGivesUp
<1>2. /\ p \in PileRows /\ today \in Days /\ today \in Nat /\ worked \in [Piles -> Nat] /\ worked[t] <= today
  BY KeepingNames DEF KeepingInv, KeepingTypes, Days
<1>3. /\ q \in PileRows /\ q.there = p.there /\ q.lifecycle = p.lifecycle /\ q.purge = p.purge
      /\ q.completed = p.completed /\ q.touched = today
  BY <1>2 DEF PileRows
<1>4. since \in Nat /\ since <= today /\ worked' = [worked EXCEPT ![t] = since]
  <2>1. CASE Lifecycle(p) = "closed" \/ p.completed # NoDate
    BY <1>1, <1>2, <2>1
  <2>2. CASE ~(Lifecycle(p) = "closed" \/ p.completed # NoDate)
    BY <1>1, <1>2, <2>2
  <2> QED BY <2>1, <2>2
<1>5. Rested(q, since)
  <2>0. Rested(p, worked[t])
    BY DEF KeepingInv, ClocksRun
  <2>1. CASE p.lifecycle = NoDate
    <3>1. q.lifecycle # "closed" /\ q.purge = NoDate
      BY <1>3, <2>0, <2>1, KeepingNames DEF Rested
    <3>2. CASE p.completed # NoDate
      <4>1. since = worked[t] /\ worked[t] <= p.completed
        BY <2>0, <2>1, <3>2 DEF Rested
      <4> QED BY <1>3, <3>1, <3>2, <4>1 DEF Rested
    <3>3. CASE p.completed = NoDate
      BY <1>3, <1>4, <3>1, <3>3 DEF Rested
    <3> QED BY <3>2, <3>3
  <2>2. CASE p.lifecycle = "closed"
    <3>1. Lifecycle(p) = "closed"
      BY <2>2, KeepingNames DEF Lifecycle
    <3>2. since = worked[t]
      BY <3>1
    <3> QED BY <1>3, <2>0, <2>2, <3>2, KeepingNames DEF Rested
  <2>3. CASE p.lifecycle \notin {NoDate, "closed"}
    BY <1>3, <2>3 DEF Rested
  <2> QED BY <2>1, <2>2, <2>3
<1> HIDE DEF q, since
<1> QED
  BY <1>1, <1>3, <1>4, <1>5, KeepingDecides

LEMMA KeepingTurns ==
  ASSUME KeepingInv, NEW t \in Piles, NEW to \in {"open", "paused", "closed"}, SetLifecycle(t, to)
  PROVE  KeepingInv'
<1> DEFINE p == pile[t]
           date == CASE to = "closed" -> today + CloseDays
                     [] to = "open" -> NoDate
                     [] OTHER -> p.purge
           q == [p EXCEPT !.lifecycle = to, !.touched = today, !.purge = date]
<1>1. /\ pile' = [pile EXCEPT ![t] = q] /\ worked' = [worked EXCEPT ![t] = today]
      /\ UNCHANGED <<today, cvs, bytes, doomed>>
  BY DEF SetLifecycle
<1>2. p \in PileRows /\ today \in Days /\ today \in Nat /\ CloseDays \in Nat /\ p.purge \in Nat \cup {NoDate}
  BY KeepingNames DEF KeepingInv, KeepingTypes, Days, PileRows
<1>3. date \in Nat \cup {NoDate} /\ (to = "closed" => date = today + CloseDays)
  <2>1. CASE to = "closed"
    BY <1>2, <2>1
  <2>2. CASE to = "open"
    BY <1>2, <2>2
  <2>3. CASE to = "paused"
    BY <1>2, <2>3
  <2> QED BY <2>1, <2>2, <2>3
<1> HIDE DEF date
<1>4. /\ q \in PileRows /\ q.there = p.there /\ q.lifecycle = to /\ q.purge = date
  BY <1>2, <1>3 DEF PileRows
<1>5. Rested(q, today)
  BY <1>2, <1>3, <1>4, KeepingNames DEF Rested
<1> HIDE DEF q
<1>6. today <= today
  BY <1>2
<1> QED
  BY <1>1, <1>2, <1>4, <1>5, <1>6, KeepingDecides

(* The session goes with its CVs. *)
LEMMA KeepingDeletes ==
  ASSUME KeepingInv, NEW t \in Piles, DeletePile(t)
  PROVE  KeepingInv'
<1> DEFINE of == {c \in Held : cvs[c].pile = t}
           q == [pile[t] EXCEPT !.there = FALSE]
<1>1. /\ cvs' = [c \in Cvs |-> IF c \in of THEN Gone ELSE cvs[c]] /\ doomed' = doomed \cup of
      /\ pile' = [pile EXCEPT ![t] = q] /\ UNCHANGED <<today, bytes, worked>>
  BY DEF DeletePile
<1>2. /\ cvs \in [Cvs -> HeldRows \cup OtherRows] /\ pile \in [Piles -> PileRows]
  BY DEF KeepingInv, KeepingTypes
<1>3. of \subseteq Held /\ Held \subseteq Cvs /\ \A c \in Held : c \notin of => cvs[c].pile # t
  BY DEF Held
<1>4. q \in PileRows /\ q.lifecycle = pile[t].lifecycle /\ q.purge = pile[t].purge
      /\ q.completed = pile[t].completed /\ q.touched = pile[t].touched
  BY <1>2 DEF PileRows
<1> HIDE DEF of, q
<1>5. /\ cvs' \in [Cvs -> HeldRows \cup OtherRows] /\ (\A c \in of : cvs'[c] = Gone)
      /\ \A c \in Cvs \ of : cvs'[c] = cvs[c]
  BY <1>1, <1>2, <1>3 DEF OtherRows
<1>6. pile' \in [Piles -> PileRows] /\ pile'[t] = q /\ (\A u \in Piles : u # t => pile'[u] = pile[u])
  BY <1>1, <1>2, <1>4
<1>7. Held' = Held \ of /\ Sending' = Sending
  <2>1. \A c \in of : cvs'[c].is = "gone"
    BY <1>5, KeepingNames
  <2> QED BY <1>3, <1>5, <2>1 DEF Held, Sending
<1>8. KeepingTypes'
  <2>1. doomed' \subseteq bytes
    BY <1>1, <1>3 DEF KeepingInv, KeepingTypes, FilesAreSomewhere
  <2> QED BY <1>1, <1>5, <1>6, <2>1 DEF KeepingInv, KeepingTypes
<1>9. HeldIsOfAPile' /\ UploadsInTurn'
  <2>1. \A d \in Held : cvs[d].pile \in Piles
    BY HeldHasColumns DEF KeepingInv, HeldRows, Held
  <2>2. \A c \in Held' : c \in Held /\ cvs'[c].at = cvs[c].at /\ cvs'[c].pile = cvs[c].pile
                         /\ pile'[cvs[c].pile].there = pile[cvs[c].pile].there
    BY <1>3, <1>5, <1>6, <1>7, <2>1
  <2>3. \A c \in Cvs : cvs'[c].is \in {"unsent", "sending"} => cvs[c].is \in {"unsent", "sending"}
    BY <1>5, KeepingNames
  <2>4. \A c \in Cvs : cvs[c].is = "unsent" => cvs'[c].is = "unsent"
    BY <1>3, <1>5 DEF Held
  <2> QED BY <1>1, <2>2, <2>3, <2>4, TurnsAreKept DEF KeepingInv
<1>10. FilesAreSomewhere'
  <2>1. \A c \in doomed' : cvs'[c].is \in {"gone", "expired"}
    <3>1. \A c \in doomed : c \in Cvs /\ cvs[c].is \in {"gone", "expired"}
      BY DEF KeepingInv, KeepingTypes, FilesAreSomewhere
    <3> QED BY <1>1, <1>5, <3>1, KeepingNames
  <2> QED BY <1>1, <1>7, <2>1 DEF KeepingInv, FilesAreSomewhere
<1>11. NewestIsShown'
  <2>1. \A c, d \in Held : c \notin of /\ cvs[d].pile = cvs[c].pile => d \notin of
    BY <1>3 DEF of
  <2>2. \A c \in Held' : cvs'[c] = cvs[c] /\ c \in Held /\ c \notin of
    BY <1>3, <1>5, <1>7
  <2>3. \A d \in Held : d \notin of => d \in Held' /\ cvs'[d] = cvs[d]
    BY <1>3, <1>5, <1>7
  <2> SUFFICES ASSUME NEW c \in Held', cvs'[c].is = "duplicate"
               PROVE  /\ cvs'[c].from # NoDate
                      /\ \E d \in Held' : /\ c < d /\ cvs'[d].is = "parsed" /\ cvs'[d].pile = cvs'[c].pile
                                          /\ cvs'[d].from = cvs'[c].from
    BY DEF NewestIsShown
  <2>4. cvs[c].from # NoDate
    BY <2>2 DEF KeepingInv, NewestIsShown
  <2>5. PICK d \in Held : c < d /\ cvs[d].is = "parsed" /\ cvs[d].pile = cvs[c].pile /\ cvs[d].from = cvs[c].from
    BY <2>2 DEF KeepingInv, NewestIsShown
  <2> QED BY <2>1, <2>2, <2>3, <2>4, <2>5
<1>12. ClocksRun'
  <2>1. Rested(q, worked[t])
    BY <1>4 DEF KeepingInv, ClocksRun, Rested
  <2> QED BY <1>1, <1>6, <2>1 DEF KeepingInv, ClocksRun
<1>13. NothingGoesEarly'
  <2>1. \A c \in Cvs : cvs'[c].is = "expired" => c \notin of
    BY <1>5, KeepingNames
  <2> QED BY <1>5, <2>1 DEF KeepingInv, NothingGoesEarly
<1> QED
  BY <1>8, <1>9, <1>10, <1>11, <1>12, <1>13 DEF KeepingInv

LEMMA KeepingDays ==
  ASSUME KeepingInv, NextDay
  PROVE  KeepingInv'
<1>1. today' = today + 1 /\ today < LastDay /\ UNCHANGED <<pile, cvs, bytes, doomed, worked>>
  BY DEF NextDay
<1>2. today \in Nat /\ today' \in Days /\ today <= today'
  BY <1>1, KeepingNames DEF KeepingInv, KeepingTypes, Days
<1>3. Held' = Held /\ Sending' = Sending
  BY <1>1 DEF Held, Sending
<1>4. KeepingTypes'
  <2>1. \A t \in Piles : worked[t] <= today'
    BY <1>2 DEF KeepingInv, KeepingTypes
  <2> QED BY <1>1, <1>2, <2>1 DEF KeepingInv, KeepingTypes
<1>5. HeldIsOfAPile'
  <2>1. \A c \in Held : cvs[c].at \in Nat /\ cvs[c].at <= today
    BY HeldHasColumns DEF KeepingInv, HeldIsOfAPile, HeldRows, Held
  <2>2. \A c \in Held : cvs[c].at <= today'
    <3> SUFFICES ASSUME NEW c \in Held
                 PROVE  cvs[c].at <= today'
      OBVIOUS
    <3>1. PICK n \in Nat : n = cvs[c].at /\ n <= today
      BY <2>1
    <3>2. n <= today'
      BY <1>1, <1>2, <3>1
    <3> QED BY <3>1, <3>2
  <2> QED BY <1>1, <1>3, <2>2 DEF KeepingInv, HeldIsOfAPile
<1>6. FilesAreSomewhere' /\ UploadsInTurn' /\ NewestIsShown' /\ NothingGoesEarly'
  BY <1>1, <1>3 DEF KeepingInv, FilesAreSomewhere, UploadsInTurn, NewestIsShown, NothingGoesEarly
<1>7. ClocksRun'
  BY <1>1 DEF KeepingInv, ClocksRun
<1> QED
  BY <1>4, <1>5, <1>6, <1>7 DEF KeepingInv

(* What is due is due by one of the two clocks the code means. *)
LEMMA DueIsLate ==
  ASSUME KeepingInv, NEW c \in Held, Due(c)
  PROVE  /\ today - cvs[c].at \in Int /\ today - worked[cvs[c].pile] \in Int
         /\ today - cvs[c].at >= AgeDays \/ today - worked[cvs[c].pile] >= CloseDays
<1> DEFINE p == pile[cvs[c].pile]
           since == worked[cvs[c].pile]
<1>1. cvs[c].pile \in Piles /\ cvs[c].at \in Nat
  BY HeldHasColumns DEF KeepingInv, Held, HeldRows
<1>2. today \in Nat /\ since \in Nat /\ p \in PileRows /\ Rested(p, since)
  BY <1>1 DEF KeepingInv, KeepingTypes, Days, ClocksRun
<1>3. CASE cvs[c].at + AgeDays <= today
  BY <1>1, <1>2, <1>3, KeepingNames
<1>4. CASE Lifecycle(p) = "closed" /\ PurgeDay(p) <= today
  <2> HIDE DEF p, since
  <2>1. CASE p.lifecycle = "closed"
    <3>1. p.purge \in Nat /\ p.purge >= since + CloseDays /\ PurgeDay(p) = p.purge
      BY <1>2, <2>1, KeepingNames DEF Rested, PileRows, PurgeDay
    <3>2. today - since >= CloseDays
      BY <1>2, <1>4, <3>1, KeepingNames
    <3> QED BY <1>1, <1>2, <3>2, KeepingNames DEF since
  <2>2. CASE p.lifecycle = NoDate
    <3> DEFINE day == IF p.completed # NoDate THEN p.completed ELSE p.touched
    <3>1. day \in Nat /\ since <= day
      BY <1>2, <2>2, KeepingNames DEF Rested, PileRows, Days
    <3>2. PurgeDay(p) = CloseDays + day
      BY <1>2, <2>2 DEF Rested, PurgeDay
    <3> HIDE DEF day
    <3>3. today - since >= CloseDays
      BY <1>2, <1>4, <3>1, <3>2, KeepingNames
    <3> QED BY <1>1, <1>2, <3>3, KeepingNames DEF since
  <2>3. CASE p.lifecycle \in {"open", "paused"}
    BY <1>4, <2>3, KeepingNames DEF Lifecycle
  <2> QED BY <1>2, <2>1, <2>2, <2>3 DEF PileRows
<1> QED
  BY <1>3, <1>4 DEF Due

(* Retention takes what is due: of a sender's CVs never the newest without the rest. *)
LEMMA KeepingExpires ==
  ASSUME KeepingInv, NEW scope, Expire(scope)
  PROVE  KeepingInv'
<1> DEFINE due == {c \in Held : cvs[c].pile \in scope /\ Due(c)}
           Late(c) == [is |-> "expired", age |-> today - cvs[c].at, rest |-> today - worked[cvs[c].pile]]
<1>1. /\ cvs' = [c \in Cvs |-> IF c \in due THEN Late(c) ELSE cvs[c]]
      /\ pile' = [t \in Piles |-> IF \E c \in due : cvs[c].pile = t
                                  THEN [pile[t] EXCEPT !.touched = today] ELSE pile[t]]
      /\ doomed' = doomed \cup due /\ UNCHANGED <<today, bytes, worked>>
  BY DEF Expire
<1>2. /\ cvs \in [Cvs -> HeldRows \cup OtherRows] /\ pile \in [Piles -> PileRows] /\ today \in Days /\ today \in Nat
      /\ worked \in [Piles -> Nat] /\ \A t \in Piles : worked[t] <= today
  BY KeepingNames DEF KeepingInv, KeepingTypes, Days
<1>3. due \subseteq Held /\ Held \subseteq Cvs
  BY DEF Held
<1>4. \A c \in due : /\ Late(c) \in OtherRows /\ Late(c).is = "expired"
                     /\ Late(c).age >= AgeDays \/ Late(c).rest >= CloseDays
  <2> SUFFICES ASSUME NEW c \in due
               PROVE  /\ Late(c) \in OtherRows /\ Late(c).is = "expired"
                      /\ Late(c).age >= AgeDays \/ Late(c).rest >= CloseDays
    OBVIOUS
  <2>1. /\ today - cvs[c].at \in Int /\ today - worked[cvs[c].pile] \in Int
        /\ today - cvs[c].at >= AgeDays \/ today - worked[cvs[c].pile] >= CloseDays
    BY DueIsLate
  <2> QED BY <2>1 DEF OtherRows
<1>5. \A c, d \in Held : c < d /\ cvs[d].pile = cvs[c].pile /\ d \in due => c \in due
  <2> SUFFICES ASSUME NEW c \in Held, NEW d \in Held, c < d, cvs[d].pile = cvs[c].pile, d \in due
               PROVE  c \in due
    OBVIOUS
  <2>1. cvs[c].at \in Nat /\ cvs[d].at \in Nat
    BY HeldHasColumns DEF KeepingInv, Held, HeldRows
  <2>2. cvs[c].at <= cvs[d].at
    BY DEF KeepingInv, UploadsInTurn
  <2>3. cvs[d].at + AgeDays <= today => cvs[c].at + AgeDays <= today
    BY <1>2, <2>1, <2>2, KeepingNames
  <2> QED BY <2>3 DEF Due
<1> HIDE DEF due
<1>6. /\ cvs' \in [Cvs -> HeldRows \cup OtherRows] /\ \A c \in Cvs \ due : cvs'[c] = cvs[c]
  BY <1>1, <1>2, <1>4
<1>7. \A c \in due : cvs'[c].is = "expired" /\ (cvs'[c].age >= AgeDays \/ cvs'[c].rest >= CloseDays)
  BY <1>1, <1>3, <1>4
<1> HIDE DEF Late
<1>8. pile' \in [Piles -> PileRows]
  <2>1. \A t \in Piles : pile[t] \in PileRows /\ [pile[t] EXCEPT !.touched = today] \in PileRows
    BY <1>2 DEF PileRows
  <2> QED BY <1>1, <2>1
<1>9. \A t \in Piles : /\ pile'[t].there = pile[t].there /\ pile'[t].lifecycle = pile[t].lifecycle
                       /\ pile'[t].purge = pile[t].purge /\ pile'[t].completed = pile[t].completed
                       /\ pile'[t].touched \in {pile[t].touched, today}
  <2> SUFFICES ASSUME NEW t \in Piles
               PROVE  /\ pile'[t].there = pile[t].there /\ pile'[t].lifecycle = pile[t].lifecycle
                      /\ pile'[t].purge = pile[t].purge /\ pile'[t].completed = pile[t].completed
                      /\ pile'[t].touched \in {pile[t].touched, today}
    OBVIOUS
  <2>1. pile'[t] = [pile[t] EXCEPT !.touched = today] \/ pile'[t] = pile[t]
    BY <1>1
  <2>2. pile[t] \in PileRows
    BY <1>2
  <2> QED BY <2>1, <2>2 DEF PileRows
<1>10. Held' = Held \ due /\ Sending' = Sending
  BY <1>3, <1>6, <1>7 DEF Held, Sending
<1>11. KeepingTypes'
  <2>1. doomed' \subseteq bytes
    BY <1>1, <1>3 DEF KeepingInv, KeepingTypes, FilesAreSomewhere
  <2> QED BY <1>1, <1>6, <1>8, <2>1 DEF KeepingInv, KeepingTypes
<1>12. HeldIsOfAPile' /\ UploadsInTurn'
  <2>1. \A d \in Held : cvs[d].pile \in Piles
    BY HeldHasColumns DEF KeepingInv, HeldRows, Held
  <2>2. \A c \in Held' : c \in Held /\ cvs'[c].at = cvs[c].at /\ cvs'[c].pile = cvs[c].pile
                         /\ pile'[cvs[c].pile].there = pile[cvs[c].pile].there
    BY <1>3, <1>6, <1>9, <1>10, <2>1
  <2>3. \A c \in Cvs : cvs'[c].is \in {"unsent", "sending"} => cvs[c].is \in {"unsent", "sending"}
    BY <1>6, <1>7
  <2>4. \A c \in Cvs : cvs[c].is = "unsent" => cvs'[c].is = "unsent"
    BY <1>3, <1>6 DEF Held
  <2> QED BY <1>1, <2>2, <2>3, <2>4, TurnsAreKept DEF KeepingInv
<1>13. FilesAreSomewhere'
  <2>1. \A c \in doomed' : cvs'[c].is \in {"gone", "expired"}
    <3>1. \A c \in doomed : c \in Cvs /\ cvs[c].is \in {"gone", "expired"}
      BY DEF KeepingInv, KeepingTypes, FilesAreSomewhere
    <3> QED BY <1>1, <1>6, <1>7, <3>1
  <2> QED BY <1>1, <1>10, <2>1 DEF KeepingInv, FilesAreSomewhere
<1>14. NewestIsShown'
  <2>1. \A c \in Held' : cvs'[c] = cvs[c] /\ c \in Held /\ c \notin due
    BY <1>3, <1>6, <1>10
  <2>2. \A d \in Held : d \notin due => d \in Held' /\ cvs'[d] = cvs[d]
    BY <1>3, <1>6, <1>10
  <2> SUFFICES ASSUME NEW c \in Held', cvs'[c].is = "duplicate"
               PROVE  /\ cvs'[c].from # NoDate
                      /\ \E d \in Held' : /\ c < d /\ cvs'[d].is = "parsed" /\ cvs'[d].pile = cvs'[c].pile
                                          /\ cvs'[d].from = cvs'[c].from
    BY DEF NewestIsShown
  <2>3. cvs[c].from # NoDate
    BY <2>1 DEF KeepingInv, NewestIsShown
  <2>4. PICK d \in Held : c < d /\ cvs[d].is = "parsed" /\ cvs[d].pile = cvs[c].pile /\ cvs[d].from = cvs[c].from
    BY <2>1 DEF KeepingInv, NewestIsShown
  <2> QED BY <1>5, <2>1, <2>2, <2>3, <2>4
<1>15. ClocksRun'
  <2> SUFFICES ASSUME NEW t \in Piles
               PROVE  Rested(pile'[t], worked[t])
    BY <1>1 DEF ClocksRun
  <2>1. Rested(pile[t], worked[t]) /\ worked[t] <= today
    BY <1>2 DEF KeepingInv, ClocksRun
  <2> QED BY <1>9, <2>1 DEF Rested
<1>16. NothingGoesEarly'
  BY <1>6, <1>7 DEF KeepingInv, NothingGoesEarly
<1> QED
  BY <1>11, <1>12, <1>13, <1>14, <1>15, <1>16 DEF KeepingInv

(* A file goes only when no row names it. *)
LEMMA KeepingUnlinks ==
  ASSUME KeepingInv, NEW c \in Cvs, Unlink(c)
  PROVE  KeepingInv'
<1>1. c \in doomed /\ bytes' = bytes \ {c} /\ doomed' = doomed \ {c} /\ UNCHANGED <<today, pile, cvs, worked>>
  BY DEF Unlink
<1>2. Held' = Held /\ Sending' = Sending
  BY <1>1 DEF Held, Sending
<1>3. c \notin Held /\ c \notin Sending
  BY <1>1 DEF KeepingInv, FilesAreSomewhere, Held, Sending
<1>4. KeepingTypes'
  BY <1>1 DEF KeepingInv, KeepingTypes
<1>5. FilesAreSomewhere'
  <2>1. Held \cup Sending \subseteq bytes'
    BY <1>1, <1>3 DEF KeepingInv, FilesAreSomewhere
  <2>2. bytes' \subseteq Held \cup doomed' \cup Sending
    BY <1>1 DEF KeepingInv, FilesAreSomewhere
  <2>3. \A d \in doomed' : cvs[d].is \in {"gone", "expired"}
    BY <1>1 DEF KeepingInv, FilesAreSomewhere
  <2> QED BY <1>1, <1>2, <2>1, <2>2, <2>3 DEF FilesAreSomewhere
<1>6. HeldIsOfAPile' /\ UploadsInTurn' /\ NewestIsShown' /\ NothingGoesEarly' /\ ClocksRun'
  BY <1>1, <1>2 DEF KeepingInv, HeldIsOfAPile, UploadsInTurn, NewestIsShown, NothingGoesEarly, ClocksRun
<1> QED
  BY <1>4, <1>5, <1>6 DEF KeepingInv

(* The sweep of a boot spares what a row names. *)
LEMMA KeepingRestarts ==
  ASSUME KeepingInv, RestartServer
  PROVE  KeepingInv'
<1>1. /\ cvs' = [c \in Cvs |-> IF c \in Sending THEN Gone ELSE cvs[c]]
      /\ bytes' = bytes \cap Held /\ doomed' = {} /\ UNCHANGED <<today, pile, worked>>
  BY DEF RestartServer, Named
<1>2. cvs \in [Cvs -> HeldRows \cup OtherRows]
  BY DEF KeepingInv, KeepingTypes
<1>3. /\ cvs' \in [Cvs -> HeldRows \cup OtherRows] /\ (\A c \in Sending : cvs'[c] = Gone)
      /\ \A c \in Cvs \ Sending : cvs'[c] = cvs[c]
  BY <1>1, <1>2 DEF OtherRows, Sending
<1>4. Held' = Held /\ Sending' = {} /\ \A c \in Held : c \in Cvs /\ cvs'[c] = cvs[c]
  <2>1. Held \subseteq Cvs \ Sending /\ Sending \subseteq Cvs
    BY DEF Held, Sending
  <2>2. \A c \in Sending : cvs'[c].is = "gone"
    BY <1>3, KeepingNames
  <2>3. Held' = Held
    BY <1>3, <2>1, <2>2 DEF Held
  <2>4. Sending' = {}
    BY <1>3, <2>1, <2>2 DEF Sending
  <2> QED BY <1>3, <2>1, <2>3, <2>4
<1>5. KeepingTypes'
  BY <1>1, <1>3 DEF KeepingInv, KeepingTypes
<1>6. NewestIsShown'
  BY <1>4 DEF KeepingInv, NewestIsShown
<1>10. HeldIsOfAPile'
  BY <1>1, <1>4 DEF KeepingInv, HeldIsOfAPile
<1>7. FilesAreSomewhere'
  BY <1>1, <1>4 DEF KeepingInv, FilesAreSomewhere
<1>8. UploadsInTurn'
  <2>1. \A c \in Cvs : cvs'[c].is \in {"unsent", "sending"} => cvs[c].is \in {"unsent", "sending"}
    BY <1>3, KeepingNames
  <2>2. \A c \in Cvs : cvs[c].is = "unsent" => cvs'[c].is = "unsent"
    BY <1>3 DEF Sending
  <2>3. \A c, d \in Cvs : c < d /\ cvs'[c].is \in {"unsent", "sending"} => cvs'[d].is = "unsent"
    BY <2>1, <2>2 DEF KeepingInv, UploadsInTurn
  <2>4. \A c, d \in Held' : c < d => cvs'[c].at <= cvs'[d].at
    BY <1>4 DEF KeepingInv, UploadsInTurn
  <2> QED BY <2>3, <2>4 DEF UploadsInTurn
<1>9. ClocksRun' /\ NothingGoesEarly'
  <2>1. \A c \in Cvs : cvs'[c].is = "expired" => c \notin Sending
    BY <1>3, KeepingNames
  <2> QED BY <1>1, <1>3, <2>1 DEF KeepingInv, ClocksRun, NothingGoesEarly
<1> QED
  BY <1>5, <1>6, <1>7, <1>8, <1>9, <1>10 DEF KeepingInv
(* Every step of the CVs, their files and the calendar keeps the invariant. *)
LEMMA KeepingSteps ==
  ASSUME KeepingInv, [RetentionNext]_retentionVars
  PROVE  KeepingInv'
<1>1. CASE UNCHANGED retentionVars
  BY <1>1 DEF retentionVars, KeepingInv, KeepingTypes, HeldIsOfAPile, FilesAreSomewhere, UploadsInTurn, NewestIsShown,
              ClocksRun, NothingGoesEarly, Held, Sending
<1>2. ASSUME NextDay PROVE KeepingInv'
  BY <1>2, KeepingDays
<1>3. ASSUME RestartServer PROVE KeepingInv'
  BY <1>3, KeepingRestarts
<1>4. ASSUME NEW c \in Cvs, Upload(c) PROVE KeepingInv'
  BY <1>4, KeepingUploads
<1>5. ASSUME NEW c \in Cvs, CannotRead(c) \/ ScoreCv(c) PROVE KeepingInv'
  BY <1>5, KeepingMarks
<1>6. ASSUME NEW c \in Cvs, RemoveCv(c) PROVE KeepingInv'
  BY <1>6, KeepingRemoves
<1>7. ASSUME NEW c \in Cvs, Unlink(c) PROVE KeepingInv'
  BY <1>7, KeepingUnlinks
<1>8. ASSUME NEW c \in Cvs, NEW s \in Senders \cup {NoDate}, ReadCv(c, s) PROVE KeepingInv'
  BY <1>8, KeepingReads
<1>9. ASSUME NEW c \in Cvs, NEW t \in Piles, AddCv(t, c) PROVE KeepingInv'
  BY <1>9, KeepingAdds
<1>10. ASSUME NEW c \in Cvs, NEW t \in Piles, RefuseCv(t, c) PROVE KeepingInv'
  BY <1>10, KeepingRefuses
<1>11. ASSUME NEW t \in Piles, SessionGivesUp(t) PROVE KeepingInv'
  BY <1>11, KeepingGivesUp
<1>12. ASSUME NEW t \in Piles, DeletePile(t) PROVE KeepingInv'
  BY <1>12, KeepingDeletes
<1>13. ASSUME NEW t \in Piles, Expire({t}) PROVE KeepingInv'
  BY <1>13, KeepingExpires
<1>14. ASSUME NEW t \in Piles, NEW to \in {"open", "paused", "closed"}, SetLifecycle(t, to) PROVE KeepingInv'
  BY <1>14, KeepingTurns
<1>15. ASSUME Expire(Piles) PROVE KeepingInv'
  BY <1>15, KeepingExpires
<1> QED
  BY <1>1, <1>2, <1>3, <1>4, <1>5, <1>6, <1>7, <1>8, <1>9, <1>10, <1>11, <1>12, <1>13, <1>14, <1>15 DEF RetentionNext

LEMMA KeepingMeans ==
  ASSUME KeepingInv
  PROVE  RetentionIsSound
<1>1. \A c \in Held : c \in Cvs /\ cvs[c] \in HeldRows /\ cvs[c].at <= today /\ pile[cvs[c].pile].there
  BY HeldHasColumns DEF KeepingInv, HeldIsOfAPile, Held
<1>2. today \in Nat
  BY DEF KeepingInv, KeepingTypes, Days
<1>3. RetentionTypeOK
  <2>1. worked \in [Piles -> 0..today]
    <3>1. \A t \in Piles : worked[t] \in 0..today
      BY <1>2 DEF KeepingInv, KeepingTypes
    <3> QED BY <3>1 DEF KeepingInv, KeepingTypes
  <2>2. \A c \in Held : cvs[c] \in [is : {"pending", "parsed", "duplicate", "unreadable"}, pile : {t \in Piles : pile[t].there}, at : 0..today,
                                    from : Senders \cup {NoDate}, scored : BOOLEAN]
    <3> SUFFICES ASSUME NEW c \in Held
                 PROVE  cvs[c] \in [is : {"pending", "parsed", "duplicate", "unreadable"}, pile : {t \in Piles : pile[t].there}, at : 0..today,
                                    from : Senders \cup {NoDate}, scored : BOOLEAN]
      OBVIOUS
    <3>1. cvs[c] \in HeldRows
      BY <1>1
    <3>2. cvs[c].at \in 0..today
      BY <1>1, <1>2, <3>1 DEF HeldRows
    <3>3. cvs[c].pile \in {t \in Piles : pile[t].there}
      BY <1>1, <3>1 DEF HeldRows
    <3>4. PICK S \in {{t \in Piles : pile[t].there}} : TRUE
      OBVIOUS
    <3>5. PICK D \in {0..today} : TRUE
      OBVIOUS
    <3>6. PICK r \in HeldRows : r = cvs[c] /\ r.pile \in S /\ r.at \in D
      BY <3>1, <3>2, <3>3, <3>4, <3>5
    <3>7. r \in [is : {"pending", "parsed", "duplicate", "unreadable"}, pile : S, at : D, from : Senders \cup {NoDate}, scored : BOOLEAN]
      <4>1. r = [is |-> r.is, pile |-> r.pile, at |-> r.at, from |-> r.from, scored |-> r.scored]
        BY DEF HeldRows
      <4>2. r.is \in {"pending", "parsed", "duplicate", "unreadable"}
        BY DEF HeldRows
      <4>3. r.from \in Senders \cup {NoDate} /\ r.scored \in BOOLEAN
        BY DEF HeldRows
      <4> QED BY <3>6, <4>1, <4>2, <4>3
    <3> QED BY <3>4, <3>5, <3>6, <3>7
  <2>3. pile \in [Piles -> [there : BOOLEAN, lifecycle : {"open", "paused", "closed", NoDate},
                            status : {"processing", "ready", "completed", "failed"},
                            completed : Days \cup {NoDate}, touched : Days, purge : Nat \cup {NoDate}]]
    BY DEF KeepingInv, KeepingTypes, PileRows
  <2> QED BY <2>1, <2>2, <2>3 DEF KeepingInv, KeepingTypes, RetentionTypeOK
<1>4. RowsHaveFiles /\ FilesHaveRows
  BY DEF KeepingInv, FilesAreSomewhere, RowsHaveFiles, FilesHaveRows
<1>5. SendersAreShown
  BY DEF KeepingInv, NewestIsShown, SendersAreShown
<1> QED
  BY <1>3, <1>4, <1>5 DEF KeepingInv, RetentionIsSound

(* Retention, the removals, the sweep of a boot and the crashes between them leave every
   shown CV its file and every file an owner, hide nobody behind a CV that is gone, and
   take nothing before its time: for any number of sessions, senders and uploads, any
   periods and any calendar (retention.js, settleStatus and the removals of triage.js,
   sweepOrphanUploads of index.js). *)
THEOREM RetentionStaysSound == RetentionSpec => []RetentionIsSound
<1>1. RetentionInit => KeepingInv
  BY KeepingStarts
<1>2. KeepingInv /\ [RetentionNext]_retentionVars => KeepingInv'
  BY KeepingSteps
<1>3. KeepingInv => RetentionIsSound
  BY KeepingMeans
<1> QED
  BY <1>1, <1>2, <1>3, PTL DEF RetentionSpec

-----------------------------------------------------------------------------
(* Scores that are moved.  What holds of a row is graded: some whatever the processes
   do, most while no two of them overlap, and where a value came from while every
   manifest is kept besides.                                                        *)

RunRow == [scope : SUBSET Scored, refresh : BOOLEAN, done : BOOLEAN, reverted : BOOLEAN,
           stale : BOOLEAN, notes : SUBSET Note]
AtRead == [at : {"read"}, run : Nat, passed : Nat, dial : Dials]
AtWrite == [at : {"write"}, run : Nat, passed : Scored, dial : Dials, was : ScoreRow \union {NoScore}]

Working(m) == migrator[m] # Unstarted
Writing(m) == migrator[m].at = "write"
RunOf(m) == runs[migrator[m].run]
IsErased(r) == r \in Analyses /\ author[r] = "erased"
Standing(i) == ~ runs[i].reverted
NotedIn(i, r) == \E n \in runs[i].notes : n.row = r
ByMove(v) == v # NoScore => v.by = "moved"

MigrationTables ==
    /\ before \in [Scored -> BOOLEAN] /\ after \in [Scored -> ScoreRow \union {NoScore}]
    /\ runs \in Seq(RunRow) /\ migrator \in [Migrators -> {Unstarted} \union AtRead \union AtWrite]
    /\ dial \in Dials /\ asked \subseteq Analyses
    /\ author \in [Analyses -> {"as analysed", "edited", "erased"}]
    /\ storedOver \subseteq Analyses /\ lost \subseteq Analyses /\ inHand \subseteq Analyses
    /\ overlapped \in BOOLEAN /\ pruned \in BOOLEAN

PagesFit ==
    \A m \in Migrators : Working(m) =>
        /\ migrator[m].run \in DOMAIN runs
        /\ Writing(m) /\ RunOf(m).refresh => migrator[m].was # NoScore
        /\ Writing(m) /\ migrator[m].passed \in Graded => ByMove(migrator[m].was)
        /\ Writing(m) /\ IsErased(migrator[m].passed) => migrator[m].passed \in inHand

NotesFit ==
    \A i \in DOMAIN runs : \A n \in runs[i].notes :
        /\ runs[i].refresh => n.was # NoScore
        /\ ~runs[i].refresh /\ n.row \in Analyses => n.was = NoScore
        /\ n.row \in Graded => ByMove(n.was)

(* A Triage row is never judged by the server; an erased candidate is gone. *)
RowsFit ==
    /\ \A a \in Graded : ByMove(after[a])
    /\ \A k \in Analyses : IsErased(k) => ~before[k] /\ k \notin asked
    /\ \A k \in Analyses \ inHand : IsErased(k) =>
        after[k] = NoScore /\ \A i \in DOMAIN runs : ~ NotedIn(i, k)

(* One process at a time, at the latest run, and its notes are of rows it has passed. *)
OneProcess ==
    \A m \in Migrators : Working(m) =>
        /\ migrator[m].run = Len(runs) /\ Standing(Len(runs))
        /\ \A o \in Migrators : Working(o) => o = m
        /\ \A n \in RunOf(m).notes :
            n.row <= migrator[m].passed /\ (Writing(m) => n.row # migrator[m].passed)

(* What a page holds is what is there, or it was erased or stored over meanwhile. *)
HeldAsRead ==
    \A m \in Migrators : Writing(m) =>
        LET r == migrator[m].passed IN
        IF RunOf(m).refresh
        THEN /\ after[r] = NoScore => IsErased(r)
             /\ after[r] = migrator[m].was \/ (after[r] = NoScore /\ r \in inHand) \/ r \in storedOver
        ELSE /\ ~ IsErased(r) => before[r]
             /\ r \in Graded => migrator[m].was = after[r]
             /\ IsErased(r) => after[r] = NoScore /\ \A i \in DOMAIN runs : ~ NotedIn(i, r)

OneVersion == \A a \in Graded : before[a] <=> after[a] = NoScore

(* What a standing run wrote is there, and moved unless stored over. *)
WrittenIsThere ==
    \A i \in DOMAIN runs : Standing(i) => \A n \in runs[i].notes :
        /\ after[n.row] = NoScore => IsErased(n.row)
        /\ n.row \notin storedOver /\ after[n.row] # NoScore =>
            after[n.row].by = (IF runs[i].refresh THEN n.was.by ELSE "moved")

(* A row is moved once, before it is refreshed. *)
MovedFirst ==
    \A i \in DOMAIN runs : Standing(i) /\ ~runs[i].refresh => \A n \in runs[i].notes :
        /\ n.was = NoScore
        /\ \A j \in DOMAIN runs : j < i /\ Standing(j) => ~ NotedIn(j, n.row)

(* Nothing is left to move of this row. *)
IsMoved(r) ==
    /\ r \in Graded => ~before[r]
    /\ r \in Analyses /\ before[r] /\ author[r] = "as analysed" => after[r] # NoScore

Shuts(i) == ~runs[i].refresh /\ runs[i].scope = Scored /\ runs[i].done /\ Standing(i)

(* A run over everything leaves nothing behind it, ... *)
NothingLeftBehind ==
    \A m \in Migrators : Working(m) /\ ~RunOf(m).refresh /\ RunOf(m).scope = Scored =>
        \A r \in Movable :
            r < migrator[m].passed \/ (r = migrator[m].passed /\ ~Writing(m)) => IsMoved(r)

(* ... so that whatever is forced after it moves nothing but a candidate who goes. *)
ForcedMovesNothing ==
    \A i, j \in DOMAIN runs :
        i < j /\ Shuts(i) /\ Standing(j) /\ ~runs[j].refresh =>
            \A n \in runs[j].notes : IsErased(n.row)

(* A value is one the server gave, or there is a note of it. *)
Original(v) == v = NoScore \/ (v.by = "judged" /\ v.dial = v.first)

ValuesAreTraced ==
    \A r \in Scored \ (inHand \union storedOver) :
        /\ Original(after[r]) \/ \E i \in DOMAIN runs : Standing(i) /\ NotedIn(i, r)
        /\ \A i \in DOMAIN runs : Standing(i) => \A n \in runs[i].notes :
            n.row = r => \/ Original(n.was)
                         \/ \E j \in DOMAIN runs : j < i /\ Standing(j) /\ NotedIn(j, r)

(* What each action does to what the invariant speaks of.  Some do nothing to it: the
   dial, a month, a question to the model, a run that is killed or comes to its end. *)
SameRuns == Len(runs') = Len(runs) /\ DOMAIN runs' = DOMAIN runs

SameRun(i) ==
    /\ runs'[i].refresh = runs[i].refresh /\ runs'[i].scope = runs[i].scope
    /\ runs'[i].reverted = runs[i].reverted

OthersStay(m) == \A o \in Migrators : o # m => migrator'[o] = migrator[o]

AsItWas ==
    /\ UNCHANGED <<after, before, author, storedOver, lost, inHand>>
    /\ SameRuns /\ overlapped' = overlapped /\ (pruned => pruned')
    /\ \A i \in DOMAIN runs :
        /\ SameRun(i) /\ runs'[i].notes \subseteq runs[i].notes
        /\ ~pruned' => runs'[i].notes = runs[i].notes
    /\ \A m \in Migrators : Working(m)' => migrator'[m] = migrator[m]
    /\ \A k \in Analyses : k \in asked' => k \in asked \/ ~ IsErased(k)

(* What a shut gate says may begin to hold with the end of the latest run only. *)
ShutsHonestly ==
    \A i \in DOMAIN runs :
        Shuts(i)' => Shuts(i) \/ (i = Len(runs) /\ \A r \in Movable : IsMoved(r))

Starts(m, i) ==
    /\ UNCHANGED <<after, before, author, asked, storedOver, lost, pruned, inHand>>
    /\ i = Len(runs) + 1 /\ Len(runs') = i /\ i \in DOMAIN runs' /\ i \notin DOMAIN runs
    /\ \A j \in DOMAIN runs : j \in DOMAIN runs' /\ j < i /\ runs'[j] = runs[j]
    /\ \A j \in DOMAIN runs' : j \in DOMAIN runs \/ j = i
    /\ runs'[i].done = FALSE /\ runs'[i].reverted = FALSE /\ runs'[i].notes = {}
    /\ ~ Working(m) /\ Working(m)' /\ ~ Writing(m)'
    /\ migrator'[m].run = i /\ migrator'[m].passed = 0
    /\ OthersStay(m)
    /\ ~overlapped' => ~overlapped /\ \A o \in Migrators : ~ Working(o)

Reads(m, r) ==
    /\ UNCHANGED <<after, before, author, asked, runs, storedOver, lost, overlapped, pruned, inHand>>
    /\ Working(m) /\ ~ Writing(m) /\ Working(m)' /\ Writing(m)'
    /\ migrator[m].run \in DOMAIN runs /\ migrator[m].passed \in Nat
    /\ migrator'[m].run = migrator[m].run /\ migrator'[m].passed = r /\ migrator'[m].was = after[r]
    /\ r \in Walked(RunOf(m)) /\ r \in Scored /\ r \in Nat /\ migrator[m].passed < r
    /\ \A x \in Walked(RunOf(m)) : x > migrator[m].passed => r <= x
    /\ OthersStay(m)

(* Row r of run i is written, or passed over. *)
Writes(m, i, r, writes, was, score) ==
    /\ UNCHANGED <<author, asked, storedOver, overlapped, pruned, inHand>>
    /\ Working(m) /\ Writing(m) /\ Working(m)' /\ ~ Writing(m)'
    /\ i = migrator[m].run /\ i = migrator'[m].run /\ i \in DOMAIN runs
    /\ r = migrator[m].passed /\ r = migrator'[m].passed /\ r \in Scored /\ r \in Nat
    /\ OthersStay(m) /\ SameRuns
    /\ \A j \in DOMAIN runs : SameRun(j) /\ runs'[j].done = runs[j].done
    /\ \A j \in DOMAIN runs : j # i => runs'[j].notes = runs[j].notes
    /\ writes => runs'[i].notes = runs[i].notes \union {[row |-> r, was |-> was]}
    /\ ~writes => runs'[i].notes = runs[i].notes
    /\ writes => after'[r] = score
    /\ \A x \in Scored : x # r \/ ~writes => after'[x] = after[x]
    /\ lost \subseteq lost'
    /\ \A k \in lost' : \/ k \in lost
                         \/ /\ k = r /\ writes /\ after[r] # NoScore
                            /\ after[r].by = "judged" /\ score.by # "judged"

Erases(k) ==
    /\ UNCHANGED <<migrator, storedOver, lost, overlapped, pruned>>
    /\ IsErased(k)' /\ before'[k] = FALSE /\ after'[k] = NoScore /\ k \notin asked' /\ asked' \subseteq asked
    /\ \A x \in Scored : x # k => before'[x] = before[x] /\ after'[x] = after[x]
    /\ \A x \in Analyses : x # k => author'[x] = author[x]
    /\ SameRuns
    /\ \A i \in DOMAIN runs :
        /\ SameRun(i) /\ runs'[i].done = runs[i].done
        /\ runs'[i].notes = {n \in runs[i].notes : n.row # k}
    /\ inHand \subseteq inHand'
    /\ \A m \in Migrators : Writing(m) /\ migrator[m].passed = k => k \in inHand'

(* Run i is undone; was says what is put back. *)
Undoes(i, was) ==
    /\ UNCHANGED <<migrator, author, asked, storedOver, pruned, inHand>>
    /\ i \in DOMAIN runs /\ Standing(i) /\ \A j \in DOMAIN runs : Standing(j) => j <= i
    /\ \A r \in Scored : NotedIn(i, r) => \E n \in runs[i].notes : n.row = r /\ n.was = was[r]
    /\ \A r \in Scored :
        IF NotedIn(i, r) /\ (~runs[i].refresh \/ after[r] # NoScore \/ r \in Graded)
        THEN after'[r] = was[r] ELSE after'[r] = after[r]
    /\ \A r \in Scored : before'[r] = (before[r] \/ (r \in Graded /\ NotedIn(i, r) /\ ~runs[i].refresh))
    /\ SameRuns
    /\ \A j \in DOMAIN runs :
        /\ runs'[j].refresh = runs[j].refresh /\ runs'[j].scope = runs[j].scope
        /\ runs'[j].reverted = (runs[j].reverted \/ j = i) /\ runs'[j].done = runs[j].done
        /\ runs'[j].notes = runs[j].notes
    /\ \A k \in lost' : \/ k \in lost
                         \/ /\ k \in Analyses /\ after[k] # NoScore /\ after[k].by = "judged"
                            /\ after'[k] = NoScore \/ after'[k].by = "moved"
    /\ ~overlapped' => ~overlapped /\ \A m \in Migrators : ~ Working(m)

TablesFit == MigrationTables /\ PagesFit /\ NotesFit /\ RowsFit

AloneInv ==
    /\ OneProcess /\ HeldAsRead /\ OneVersion /\ WrittenIsThere /\ MovedFirst
    /\ NothingLeftBehind /\ ForcedMovesNothing
    /\ GateIsHonest /\ lost \subseteq storedOver

MigrationInv ==
    /\ TablesFit
    /\ ~overlapped => AloneInv
    /\ ~overlapped /\ ~pruned => ValuesAreTraced

-----------------------------------------------------------------------------
LEMMA RowsAreNumbers ==
  /\ Scored \subseteq Nat /\ 0 \notin Scored /\ Analyses \subseteq Scored /\ Graded \subseteq Scored
  /\ Movable \subseteq Scored /\ \A r \in Analyses : r \notin Graded
  /\ 1 \in Dials /\ Dials \subseteq Nat /\ NoScore \notin ScoreRow
<1>1. \A k \in Analyses, a \in Graded : k < a /\ k \in Nat
  BY MigrationAssumption DEF Scored
<1>2. \A r \in Analyses : r \notin Graded
  BY <1>1
<1> QED
  BY <1>2, MigrationAssumption DEF Scored, Dials

(* The rows of the tables, by their columns. *)
LEMMA RunsAreRows ==
  ASSUME MigrationTables
  PROVE  /\ Len(runs) \in Nat /\ DOMAIN runs = 1..Len(runs)
         /\ \A i \in DOMAIN runs :
              /\ runs[i] \in RunRow /\ runs[i].scope \subseteq Scored /\ runs[i].notes \subseteq Note
              /\ runs[i].refresh \in BOOLEAN /\ runs[i].done \in BOOLEAN
              /\ runs[i].reverted \in BOOLEAN /\ runs[i].stale \in BOOLEAN
              /\ \A n \in runs[i].notes : n.row \in Scored /\ n.was \in ScoreRow \union {NoScore}
<1>1. /\ Len(runs) \in Nat /\ DOMAIN runs = 1..Len(runs) /\ \A i \in DOMAIN runs : runs[i] \in RunRow
  <2>1. runs \in Seq(RunRow)
    BY DEF MigrationTables
  <2> QED BY <2>1
<1>2. ASSUME NEW i \in DOMAIN runs
      PROVE  /\ runs[i].scope \subseteq Scored /\ runs[i].notes \subseteq Note
             /\ runs[i].refresh \in BOOLEAN /\ runs[i].done \in BOOLEAN
             /\ runs[i].reverted \in BOOLEAN /\ runs[i].stale \in BOOLEAN
  BY <1>1 DEF RunRow
<1>3. ASSUME NEW i \in DOMAIN runs, NEW n \in runs[i].notes
      PROVE  n.row \in Scored /\ n.was \in ScoreRow \union {NoScore}
  <2>1. n \in Note
    BY <1>2
  <2> QED BY <2>1 DEF Note
<1> QED
  BY <1>1, <1>2, <1>3

LEMMA ProcessesAre ==
  ASSUME MigrationTables
  PROVE  \A m \in Migrators :
           /\ Working(m) =>
                /\ migrator[m].at \in {"read", "write"} /\ migrator[m].run \in Nat
                /\ migrator[m].passed \in Nat /\ migrator[m].dial \in Dials
                /\ migrator[m].at = "read" => migrator[m] \in AtRead
           /\ Writing(m) =>
                /\ Working(m) /\ migrator[m] \in AtWrite /\ migrator[m].at # "read"
                /\ migrator[m].passed \in Scored /\ migrator[m].was \in ScoreRow \union {NoScore}
           /\ migrator[m].at = "read" => Working(m) /\ ~ Writing(m)
           /\ ~ Working(m) => ~ Writing(m)
<1> SUFFICES ASSUME NEW m \in Migrators
             PROVE  /\ Working(m) =>
                          /\ migrator[m].at \in {"read", "write"} /\ migrator[m].run \in Nat
                          /\ migrator[m].passed \in Nat /\ migrator[m].dial \in Dials
                          /\ migrator[m].at = "read" => migrator[m] \in AtRead
                    /\ Writing(m) =>
                          /\ Working(m) /\ migrator[m] \in AtWrite /\ migrator[m].at # "read"
                          /\ migrator[m].passed \in Scored /\ migrator[m].was \in ScoreRow \union {NoScore}
                    /\ migrator[m].at = "read" => Working(m) /\ ~ Writing(m)
                    /\ ~ Working(m) => ~ Writing(m)
  OBVIOUS
<1>1. migrator[m] \in {Unstarted} \union AtRead \union AtWrite
  BY DEF MigrationTables
<1>2. CASE migrator[m] = Unstarted
  <2>1. migrator[m].at = "unstarted"
    BY <1>2 DEF Unstarted
  <2> QED BY <1>2, <2>1 DEF Working, Writing
<1>3. CASE migrator[m] \in AtRead
  <2>1. /\ migrator[m].at = "read" /\ migrator[m].run \in Nat
        /\ migrator[m].passed \in Nat /\ migrator[m].dial \in Dials
    BY <1>3 DEF AtRead
  <2>2. Working(m)
    BY <2>1 DEF Working, Unstarted
  <2> QED BY <1>3, <2>1, <2>2 DEF Writing
<1>4. CASE migrator[m] \in AtWrite
  <2>1. /\ migrator[m].at = "write" /\ migrator[m].run \in Nat
        /\ migrator[m].passed \in Scored /\ migrator[m].dial \in Dials
        /\ migrator[m].was \in ScoreRow \union {NoScore}
    BY <1>4 DEF AtWrite
  <2>2. Working(m)
    BY <2>1 DEF Working, Unstarted
  <2> QED BY <1>4, <2>1, <2>2, RowsAreNumbers DEF Writing
<1> QED
  BY <1>1, <1>2, <1>3, <1>4

LEMMA MigrationStarts == MigrationInit => MigrationInv
<1> SUFFICES ASSUME MigrationInit PROVE MigrationInv
  OBVIOUS
<1>1. /\ before = [r \in Scored |-> TRUE] /\ after = [r \in Scored |-> NoScore]
      /\ runs = <<>> /\ migrator = [m \in Migrators |-> Unstarted]
      /\ dial = 1 /\ author = [k \in Analyses |-> "as analysed"] /\ asked = {}
      /\ storedOver = {} /\ lost = {} /\ overlapped = FALSE /\ pruned = FALSE /\ inHand = {}
  BY DEF MigrationInit
<1>2. \A m \in Migrators : ~ Working(m) /\ ~ Writing(m)
  BY <1>1 DEF Working, Writing, Unstarted
<1>3. runs \in Seq(RunRow) /\ DOMAIN runs = {}
  <2>1. runs = <<>>
    BY <1>1
  <2>2. <<>> \in Seq(RunRow) /\ DOMAIN <<>> = {}
    OBVIOUS
  <2> QED BY <2>1, <2>2
<1>4. MigrationTables
  BY <1>1, <1>3, RowsAreNumbers DEF MigrationTables
<1>5. \A k \in Analyses : author[k] # "erased"
  BY <1>1
<1>6. PagesFit /\ NotesFit
  BY <1>2, <1>3 DEF PagesFit, NotesFit
<1>7. RowsFit
  BY <1>1, <1>5, RowsAreNumbers DEF RowsFit, IsErased, ByMove
<1>8. OneProcess /\ HeldAsRead /\ NothingLeftBehind
  BY <1>2 DEF OneProcess, HeldAsRead, NothingLeftBehind
<1>9. WrittenIsThere /\ MovedFirst /\ ForcedMovesNothing
  BY <1>3 DEF WrittenIsThere, MovedFirst, ForcedMovesNothing
<1>10. OneVersion /\ GateIsHonest /\ lost \subseteq storedOver
  BY <1>1, <1>3, RowsAreNumbers DEF OneVersion, GateIsHonest, GateShut
<1>11. ValuesAreTraced
  BY <1>1, <1>3 DEF ValuesAreTraced, Original
<1> QED
  BY <1>4, <1>6, <1>7, <1>8, <1>9, <1>10, <1>11 DEF MigrationInv, TablesFit, AloneInv

(* One process goes on. *)
LEMMA OneGoesOn ==
  ASSUME MigrationTables, NEW m \in Migrators, NEW v \in {Unstarted} \union AtRead \union AtWrite,
         migrator' = [migrator EXCEPT ![m] = v]
  PROVE  /\ migrator' \in [Migrators -> {Unstarted} \union AtRead \union AtWrite]
         /\ migrator'[m] = v
         /\ \A o \in Migrators : o # m => migrator'[o] = migrator[o]
<1>1. migrator \in [Migrators -> {Unstarted} \union AtRead \union AtWrite]
  BY DEF MigrationTables
<1> QED
  BY <1>1

(* One run is written anew. *)
LEMMA OneRunChanges ==
  ASSUME NEW s \in Seq(RunRow), NEW i \in DOMAIN s, NEW v \in RunRow
  PROVE  /\ [s EXCEPT ![i] = v] \in Seq(RunRow) /\ Len([s EXCEPT ![i] = v]) = Len(s)
         /\ DOMAIN [s EXCEPT ![i] = v] = DOMAIN s
         /\ [s EXCEPT ![i] = v][i] = v /\ \A j \in DOMAIN s : j # i => [s EXCEPT ![i] = v][j] = s[j]
  OBVIOUS

(* All runs are written anew. *)
LEMMA EveryRunChanges ==
  ASSUME NEW s \in Seq(RunRow), NEW f, f = [i \in DOMAIN s |-> f[i]], \A i \in DOMAIN s : f[i] \in RunRow
  PROVE  f \in Seq(RunRow) /\ Len(f) = Len(s) /\ DOMAIN f = DOMAIN s
<1>1. Len(s) \in Nat /\ DOMAIN s = 1..Len(s)
  OBVIOUS
<1>2. f \in [1..Len(s) -> RunRow]
  BY <1>1
<1>3. f \in Seq(RunRow)
  BY <1>1, <1>2
<1> QED
  BY <1>1, <1>2, <1>3

LEMMA StartIs ==
  ASSUME MigrationTables, NEW m \in Migrators, NEW scope \in {Scored, Analyses},
         NEW refresh \in BOOLEAN, NEW force \in BOOLEAN, StartRun(m, scope, refresh, force)
  PROVE  Starts(m, Len(runs) + 1) /\ MigrationTables'
<1> DEFINE row == [scope |-> scope, refresh |-> refresh, done |-> FALSE, reverted |-> FALSE,
                   stale |-> FALSE, notes |-> {}]
           v == [at |-> "read", run |-> Len(runs) + 1, passed |-> 0, dial |-> dial]
<1>1. /\ runs' = Append(runs, row) /\ migrator' = [migrator EXCEPT ![m] = v]
      /\ migrator[m] = Unstarted /\ overlapped' = (overlapped \/ AtWork # {})
      /\ UNCHANGED <<after, before, author, asked, dial, storedOver, lost, pruned, inHand>>
  BY DEF StartRun, serverVars
<1>2. /\ row \in RunRow /\ row.scope = scope /\ row.refresh = refresh /\ row.done = FALSE
      /\ row.reverted = FALSE /\ row.notes = {}
  BY DEF RunRow, Scored
<1>3. /\ v \in AtRead /\ v.run = Len(runs) + 1 /\ v.passed = 0 /\ v.at = "read" /\ v # Unstarted
  <2>1. Len(runs) \in Nat
    BY RunsAreRows
  <2>2. dial \in Dials
    BY DEF MigrationTables
  <2> QED BY <2>1, <2>2 DEF AtRead, Unstarted
<1> HIDE DEF row, v
<1>4. /\ migrator' \in [Migrators -> {Unstarted} \union AtRead \union AtWrite] /\ migrator'[m] = v
      /\ \A o \in Migrators : o # m => migrator'[o] = migrator[o]
  BY <1>1, <1>3, OneGoesOn
<1>5. runs \in Seq(RunRow)
  BY DEF MigrationTables
<1>6. /\ runs' \in Seq(RunRow) /\ Len(runs') = Len(runs) + 1 /\ DOMAIN runs' = 1..(Len(runs) + 1)
      /\ runs'[Len(runs) + 1] = row /\ \A i \in 1..Len(runs) : runs'[i] = runs[i]
  BY <1>1, <1>2, <1>5
<1>7. Len(runs) \in Nat /\ DOMAIN runs = 1..Len(runs)
  BY <1>5
<1>8. overlapped' \in BOOLEAN /\ (~ overlapped' => ~ overlapped /\ \A o \in Migrators : ~ Working(o))
  BY <1>1 DEF AtWork, Working, MigrationTables
<1>9. ~ Working(m) /\ Working(m)' /\ ~ Writing(m)'
  BY <1>1, <1>3, <1>4 DEF Working, Writing
<1>10. /\ \A j \in DOMAIN runs : j \in DOMAIN runs' /\ j < Len(runs) + 1 /\ runs'[j] = runs[j]
       /\ \A j \in DOMAIN runs' : j \in DOMAIN runs \/ j = Len(runs) + 1
       /\ Len(runs) + 1 \in DOMAIN runs' /\ Len(runs) + 1 \notin DOMAIN runs
  BY <1>6, <1>7
<1>11. Starts(m, Len(runs) + 1)
  BY <1>1, <1>2, <1>3, <1>4, <1>6, <1>8, <1>9, <1>10 DEF Starts, OthersStay
<1>12. MigrationTables'
  BY <1>1, <1>4, <1>6, <1>8 DEF MigrationTables
<1> QED
  BY <1>11, <1>12

LEMMA ReadIs ==
  ASSUME MigrationTables, PagesFit, NEW m \in Migrators, ReadPage(m)
  PROVE  MigrationTables' /\ \E r : Reads(m, r)
<1> DEFINE r == Min(Ahead(m))
           v == [at |-> "write", run |-> migrator[m].run, passed |-> r, dial |-> migrator[m].dial,
                 was |-> after[r]]
<1>1. /\ migrator[m].at = "read" /\ Ahead(m) # {} /\ migrator' = [migrator EXCEPT ![m] = v]
      /\ UNCHANGED <<after, before, author, asked, runs, dial, storedOver, lost, overlapped, pruned, inHand>>
  BY DEF ReadPage, serverVars, scoreHistory
<1>2. Working(m) /\ ~ Writing(m) /\ migrator[m].run \in Nat /\ migrator[m].dial \in Dials
      /\ migrator[m].passed \in Nat
  BY <1>1, ProcessesAre
<1>3. migrator[m].run \in DOMAIN runs
  BY <1>2 DEF PagesFit
<1>4. Ahead(m) \subseteq Scored /\ Ahead(m) \subseteq Walked(RunOf(m))
  BY <1>3, RunsAreRows DEF Ahead, Walked, RunOf
<1>5. r \in Ahead(m) /\ \A x \in Ahead(m) : r <= x
  <2>1. Ahead(m) \subseteq Nat
    BY <1>4, RowsAreNumbers
  <2> QED BY <1>1, <2>1, MinIsLeast
<1> HIDE DEF r
<1>6. /\ v \in AtWrite /\ v.run = migrator[m].run /\ v.passed = r /\ v.at = "write" /\ v # Unstarted
      /\ v.was = after[r]
  BY <1>2, <1>4, <1>5 DEF AtWrite, MigrationTables, Unstarted
<1> HIDE DEF v
<1>7. /\ migrator' \in [Migrators -> {Unstarted} \union AtRead \union AtWrite] /\ migrator'[m] = v
      /\ \A o \in Migrators : o # m => migrator'[o] = migrator[o]
  BY <1>1, <1>6, OneGoesOn
<1>8. Working(m)' /\ Writing(m)'
  BY <1>6, <1>7 DEF Working, Writing
<1>9. r \in Walked(RunOf(m)) /\ r > migrator[m].passed
      /\ \A x \in Walked(RunOf(m)) : x > migrator[m].passed => r <= x
  BY <1>5 DEF Ahead, RunOf
<1>10. r \in Scored /\ r \in Nat
  BY <1>4, <1>5, RowsAreNumbers
<1>11. Reads(m, r)
  BY <1>1, <1>2, <1>3, <1>6, <1>7, <1>8, <1>9, <1>10 DEF Reads, OthersStay
<1>12. MigrationTables'
  BY <1>1, <1>7 DEF MigrationTables
<1> QED
  BY <1>11, <1>12

(* What the transaction of a page changes besides the row. *)
LEMMA WriteIs ==
  ASSUME MigrationTables, PagesFit, NEW m \in Migrators, Writing(m),
         NEW writes \in BOOLEAN, NEW was \in ScoreRow \union {NoScore},
         NEW score \in ScoreRow \union {NoScore}, WriteScore(m, writes, was, score)
  PROVE  /\ Writes(m, migrator[m].run, migrator[m].passed, writes, was, score)
         /\ before' \in [Scored -> BOOLEAN] /\ lost' \subseteq Analyses => MigrationTables'
<1> DEFINE r == migrator[m].passed
           i == migrator[m].run
           v == [at |-> "read", run |-> i, passed |-> r, dial |-> migrator[m].dial]
           note == [row |-> r, was |-> was]
           row == [runs[i] EXCEPT !.notes = runs[i].notes \union {note}]
<1>1. /\ after' = IF writes THEN [after EXCEPT ![r] = score] ELSE after
      /\ runs' = IF writes
                 THEN [runs EXCEPT ![i].notes = @ \union {note}]
                 ELSE runs
      /\ lost' = IF writes /\ after[r] # NoScore /\ after[r].by = "judged" /\ score.by # "judged"
                 THEN lost \union {r} ELSE lost
      /\ migrator' = [migrator EXCEPT ![m] = v]
      /\ UNCHANGED <<dial, author, asked, storedOver, overlapped, pruned, inHand>>
  BY DEF WriteScore
<1>2. /\ Working(m) /\ i \in Nat /\ r \in Scored /\ r \in Nat /\ migrator[m].dial \in Dials /\ i \in DOMAIN runs
  <2>1. Working(m) /\ i \in Nat /\ r \in Scored /\ r \in Nat /\ migrator[m].dial \in Dials
    BY ProcessesAre
  <2> QED BY <2>1 DEF PagesFit
<1>3. /\ v \in AtRead /\ v.run = i /\ v.passed = r /\ v.at = "read" /\ v # Unstarted
  BY <1>2 DEF AtRead, Unstarted
<1>4. note \in Note
  BY <1>2 DEF Note
<1>5. /\ row \in RunRow /\ row.refresh = runs[i].refresh /\ row.scope = runs[i].scope
      /\ row.done = runs[i].done /\ row.reverted = runs[i].reverted
      /\ row.notes = runs[i].notes \union {note}
  <2>1. runs[i] \in RunRow /\ runs[i].notes \subseteq Note
    BY <1>2, RunsAreRows
  <2> HIDE DEF note
  <2> QED BY <1>4, <2>1 DEF RunRow
<1>6. runs' = IF writes THEN [runs EXCEPT ![i] = row] ELSE runs
  BY <1>1
<1> HIDE DEF v, note, row
<1>7. /\ migrator' \in [Migrators -> {Unstarted} \union AtRead \union AtWrite] /\ migrator'[m] = v
      /\ \A o \in Migrators : o # m => migrator'[o] = migrator[o]
  BY <1>1, <1>3, OneGoesOn
<1>8. Working(m)' /\ ~ Writing(m)'
  BY <1>3, <1>7 DEF Working, Writing
<1>9. /\ runs' \in Seq(RunRow) /\ Len(runs') = Len(runs) /\ DOMAIN runs' = DOMAIN runs
      /\ writes => runs'[i] = row
      /\ ~ writes => runs' = runs
      /\ \A j \in DOMAIN runs : j # i => runs'[j] = runs[j]
  <2>1. runs \in Seq(RunRow)
    BY DEF MigrationTables
  <2> QED BY <1>2, <1>5, <1>6, <2>1, OneRunChanges
<1>10. ASSUME NEW j \in DOMAIN runs
       PROVE  /\ runs'[j].refresh = runs[j].refresh /\ runs'[j].scope = runs[j].scope
              /\ runs'[j].done = runs[j].done /\ runs'[j].reverted = runs[j].reverted
              /\ (j # i \/ ~ writes) => runs'[j].notes = runs[j].notes
              /\ j = i /\ writes => runs'[j].notes = runs[j].notes \union {note}
  <2>1. CASE j = i /\ writes
    BY <1>5, <1>9, <2>1
  <2>2. CASE ~ (j = i /\ writes)
    BY <1>9, <2>2
  <2> QED BY <2>1, <2>2
<1>11. /\ writes => after'[r] = score
       /\ \A x \in Scored : x # r \/ ~writes => after'[x] = after[x]
       /\ after' \in [Scored -> ScoreRow \union {NoScore}]
  <2>1. after \in [Scored -> ScoreRow \union {NoScore}]
    BY DEF MigrationTables
  <2> QED BY <1>1, <1>2, <2>1
<1>12. Writes(m, i, r, writes, was, score)
  <2>1. \A j \in DOMAIN runs : SameRun(j) /\ runs'[j].done = runs[j].done
    BY <1>10 DEF SameRun
  <2>2. /\ lost \subseteq lost'
        /\ \A k \in lost' : \/ k \in lost
                             \/ /\ k = r /\ writes /\ after[r] # NoScore
                                /\ after[r].by = "judged" /\ score.by # "judged"
    BY <1>1
  <2>3. /\ \A j \in DOMAIN runs : j # i => runs'[j].notes = runs[j].notes
        /\ writes => runs'[i].notes = runs[i].notes \union {[row |-> r, was |-> was]}
        /\ ~writes => runs'[i].notes = runs[i].notes
    BY <1>2, <1>10 DEF note
  <2>4. i = migrator'[m].run /\ r = migrator'[m].passed
    BY <1>3, <1>7
  <2> QED
    BY <1>1, <1>2, <1>7, <1>8, <1>9, <1>11, <2>1, <2>2, <2>3, <2>4 DEF Writes, OthersStay, SameRuns
<1>13. before' \in [Scored -> BOOLEAN] /\ lost' \subseteq Analyses => MigrationTables'
  BY <1>1, <1>7, <1>9, <1>11 DEF MigrationTables
<1> QED
  BY <1>12, <1>13

LEMMA CompleteIs ==
  ASSUME MigrationTables, PagesFit, NEW m \in Migrators, CompleteRun(m)
  PROVE  AsItWas /\ MigrationTables' /\ (AloneInv => ShutsHonestly)
<1> DEFINE i == migrator[m].run
           drops(j) == ~runs[i].refresh /\ runs[j].done /\ runs[j].stale /\ j # i
           row(j) == IF j = i THEN [runs[j] EXCEPT !.done = TRUE]
                     ELSE IF drops(j) THEN [runs[j] EXCEPT !.notes = {}] ELSE runs[j]
           f == [j \in DOMAIN runs |-> row(j)]
<1>1. /\ migrator[m].at = "read" /\ Ahead(m) = {} /\ runs' = f
      /\ pruned' = (pruned \/ \E j \in DOMAIN runs : drops(j) /\ runs[j].notes # {})
      /\ migrator' = [migrator EXCEPT ![m] = Unstarted]
      /\ UNCHANGED <<after, before, author, asked, dial, storedOver, lost, overlapped, inHand>>
  BY DEF CompleteRun, serverVars
<1>2. Working(m) /\ ~ Writing(m)
  BY <1>1, ProcessesAre
<1>3. i \in DOMAIN runs /\ i \in Nat
  BY <1>2, ProcessesAre DEF PagesFit
<1>4. ASSUME NEW j \in DOMAIN runs
      PROVE  /\ row(j) \in RunRow
             /\ row(j).refresh = runs[j].refresh /\ row(j).scope = runs[j].scope
             /\ row(j).reverted = runs[j].reverted
             /\ row(j).done = (runs[j].done \/ j = i)
             /\ row(j).notes = runs[j].notes \/ (drops(j) /\ row(j).notes = {})
  <2>1. runs[j] \in RunRow
    BY RunsAreRows
  <2>2. CASE j = i
    <3>1. row(j) = [runs[j] EXCEPT !.done = TRUE]
      BY <2>2
    <3>2. TRUE = (runs[j].done \/ j = i)
      BY <2>2
    <3> HIDE DEF row
    <3> QED BY <2>1, <3>1, <3>2 DEF RunRow
  <2>3. CASE j # i /\ drops(j)
    <3>1. row(j) = [runs[j] EXCEPT !.notes = {}]
      BY <2>3
    <3>2. runs[j].done \in BOOLEAN /\ runs[j].done
      BY <2>1, <2>3 DEF RunRow
    <3> HIDE DEF row
    <3> QED BY <2>1, <2>3, <3>1, <3>2 DEF RunRow
  <2>4. CASE j # i /\ ~ drops(j)
    <3>1. row(j) = runs[j]
      BY <2>4
    <3>2. runs[j].done \in BOOLEAN
      BY <2>1 DEF RunRow
    <3> HIDE DEF row, drops
    <3> QED BY <2>1, <2>4, <3>1, <3>2
  <2> QED BY <2>2, <2>3, <2>4
<1> HIDE DEF row
<1>5. f \in Seq(RunRow) /\ Len(f) = Len(runs) /\ DOMAIN f = DOMAIN runs
  <2>1. runs \in Seq(RunRow)
    BY DEF MigrationTables
  <2>2. f = [j \in DOMAIN runs |-> f[j]] /\ \A j \in DOMAIN runs : f[j] \in RunRow
    BY <1>4
  <2> HIDE DEF f
  <2> QED BY <2>1, <2>2, EveryRunChanges
<1>6. pruned' \in BOOLEAN /\ (pruned => pruned')
      /\ (~ pruned' => \A j \in DOMAIN runs : ~ (drops(j) /\ runs[j].notes # {}))
  <2>1. pruned \in BOOLEAN
    BY DEF MigrationTables
  <2> HIDE DEF drops
  <2> QED BY <1>1, <2>1
<1> HIDE DEF drops
<1>7. ASSUME NEW j \in DOMAIN runs
      PROVE  /\ runs'[j].refresh = runs[j].refresh /\ runs'[j].scope = runs[j].scope
             /\ runs'[j].reverted = runs[j].reverted
             /\ runs'[j].done = (runs[j].done \/ j = i)
             /\ runs'[j].notes = runs[j].notes \/ runs'[j].notes = {}
             /\ ~ pruned' => runs'[j].notes = runs[j].notes
  <2>1. runs'[j] = row(j)
    BY <1>1
  <2>2. ~ pruned' => ~ (drops(j) /\ runs[j].notes # {})
    BY <1>6
  <2>3. row(j).notes = runs[j].notes \/ (drops(j) /\ row(j).notes = {})
    BY <1>4
  <2>4. ~ pruned' => row(j).notes = runs[j].notes
    BY <2>2, <2>3
  <2>5. /\ row(j).refresh = runs[j].refresh /\ row(j).scope = runs[j].scope
        /\ row(j).reverted = runs[j].reverted
        /\ row(j).done = (runs[j].done \/ j = i)
    BY <1>4
  <2> QED BY <2>1, <2>3, <2>4, <2>5
<1>8. /\ migrator' \in [Migrators -> {Unstarted} \union AtRead \union AtWrite] /\ migrator'[m] = Unstarted
      /\ \A o \in Migrators : o # m => migrator'[o] = migrator[o]
  BY <1>1, OneGoesOn
<1>9. \A o \in Migrators : Working(o)' => migrator'[o] = migrator[o]
  BY <1>8 DEF Working
<1>10. runs' \in Seq(RunRow) /\ Len(runs') = Len(runs) /\ DOMAIN runs' = DOMAIN runs
  BY <1>1, <1>5
<1> HIDE DEF f
<1>11. AsItWas
  <2>1. \A j \in DOMAIN runs :
            /\ SameRun(j) /\ runs'[j].notes \subseteq runs[j].notes
            /\ ~pruned' => runs'[j].notes = runs[j].notes
    BY <1>7 DEF SameRun
  <2> QED BY <1>1, <1>6, <1>9, <1>10, <2>1 DEF AsItWas, SameRuns
<1>12. MigrationTables'
  BY <1>1, <1>6, <1>8, <1>10 DEF MigrationTables
<1>13. ASSUME AloneInv PROVE ShutsHonestly
  <2> SUFFICES ASSUME NEW j \in DOMAIN runs, Shuts(j)', ~ Shuts(j)
               PROVE  j = Len(runs) /\ \A r \in Movable : IsMoved(r)
    BY DEF ShutsHonestly
  <2>1. j = i /\ ~ runs[i].refresh /\ runs[i].scope = Scored
    BY <1>7, <1>10 DEF Shuts, Standing
  <2>2. i = Len(runs)
    BY <1>2, <1>13 DEF AloneInv, OneProcess
  <2>3. ASSUME NEW r \in Movable PROVE IsMoved(r)
    <3>1. r \in Scored /\ r \in Nat /\ migrator[m].passed \in Nat
      BY <1>2, RowsAreNumbers, ProcessesAre
    <3>2. CASE r <= migrator[m].passed
      <4>1. r < migrator[m].passed \/ r = migrator[m].passed
        BY <3>1, <3>2
      <4> QED BY <1>2, <1>13, <2>1, <4>1 DEF AloneInv, NothingLeftBehind, RunOf
    <3>3. CASE r > migrator[m].passed
      <4>1. ~ before[r]
        BY <1>1, <2>1, <3>1, <3>3 DEF Ahead, Walked
      <4> QED BY <4>1 DEF IsMoved
    <3> QED BY <3>1, <3>2, <3>3
  <2> QED BY <2>1, <2>2, <2>3
<1> QED
  BY <1>11, <1>12, <1>13

LEMMA QuietIs ==
  ASSUME MigrationTables,
         TurnDial \/ MonthPasses \/ (\E m \in Migrators : KillMigrator(m)) \/ (\E k \in Analyses : AskModel(k))
  PROVE  AsItWas /\ MigrationTables' /\ ShutsHonestly
<1> DEFINE Still == UNCHANGED <<after, before, author, storedOver, lost, overlapped, pruned, inHand>>
<1>1. pruned \in BOOLEAN
  BY DEF MigrationTables
<1>2. ASSUME UNCHANGED runs
      PROVE  /\ SameRuns /\ ShutsHonestly
             /\ \A i \in DOMAIN runs : SameRun(i) /\ runs'[i].notes = runs[i].notes
  BY <1>2 DEF SameRuns, SameRun, ShutsHonestly, Shuts, Standing
<1>3. CASE TurnDial
  <2>1. dial \in Nat /\ MaxDial \in Nat /\ dial >= 1
    <3>1. MaxDial \in Nat
      BY MigrationAssumption
    <3>2. dial \in 1..MaxDial
      BY DEF MigrationTables, Dials
    <3> QED BY <3>1, <3>2
  <2>2. Still /\ UNCHANGED <<runs, migrator, asked>> /\ dial' = dial + 1 /\ dial < MaxDial
    BY <1>3 DEF TurnDial, serverVars, scoreHistory
  <2>3. dial' \in Dials
    BY <2>1, <2>2 DEF Dials
  <2>4. /\ SameRuns /\ ShutsHonestly
        /\ \A i \in DOMAIN runs : SameRun(i) /\ runs'[i].notes = runs[i].notes
    BY <1>2, <2>2
  <2>5. AsItWas
    BY <1>1, <2>2, <2>4 DEF AsItWas, SameRuns
  <2>6. MigrationTables'
    BY <2>2, <2>3 DEF MigrationTables
  <2> QED BY <2>4, <2>5, <2>6
<1>4. CASE MonthPasses
  <2> DEFINE row(j) == [runs[j] EXCEPT !.stale = (runs[j].stale \/ runs[j].done)]
             f == [j \in DOMAIN runs |-> row(j)]
  <2>1. runs' = f /\ Still /\ UNCHANGED <<migrator, asked, dial>>
    BY <1>4 DEF MonthPasses, serverVars, scoreHistory
  <2>2. ASSUME NEW j \in DOMAIN runs
        PROVE  /\ row(j) \in RunRow
               /\ row(j).refresh = runs[j].refresh /\ row(j).scope = runs[j].scope
               /\ row(j).reverted = runs[j].reverted /\ row(j).done = runs[j].done
               /\ row(j).notes = runs[j].notes
    <3>1. runs[j] \in RunRow
      BY RunsAreRows
    <3>2. (runs[j].stale \/ runs[j].done) \in BOOLEAN
      OBVIOUS
    <3> QED BY <3>1, <3>2 DEF RunRow
  <2> HIDE DEF row
  <2>3. f \in Seq(RunRow) /\ Len(f) = Len(runs) /\ DOMAIN f = DOMAIN runs
    <3>1. runs \in Seq(RunRow)
      BY DEF MigrationTables
    <3>2. f = [j \in DOMAIN runs |-> f[j]] /\ \A j \in DOMAIN runs : f[j] \in RunRow
      BY <2>2
    <3> HIDE DEF f
    <3> QED BY <3>1, <3>2, EveryRunChanges
  <2>4. \A j \in DOMAIN runs : runs'[j] = row(j)
    BY <2>1
  <2> HIDE DEF f
  <2>5. \A j \in DOMAIN runs : SameRun(j) /\ runs'[j].notes = runs[j].notes /\ runs'[j].done = runs[j].done
    BY <2>2, <2>4 DEF SameRun
  <2>6. AsItWas
    BY <1>1, <2>1, <2>3, <2>5 DEF AsItWas, SameRuns
  <2>7. ShutsHonestly
    BY <2>5 DEF ShutsHonestly, Shuts, Standing, SameRun
  <2>8. MigrationTables'
    BY <2>1, <2>3 DEF MigrationTables
  <2> QED BY <2>6, <2>7, <2>8
<1>5. ASSUME NEW m \in Migrators, KillMigrator(m) PROVE AsItWas /\ MigrationTables' /\ ShutsHonestly
  <2>1. /\ migrator' = [migrator EXCEPT ![m] = Unstarted] /\ Still /\ UNCHANGED <<runs, asked, dial>>
    BY <1>5 DEF KillMigrator, serverVars, scoreHistory
  <2>2. /\ migrator' \in [Migrators -> {Unstarted} \union AtRead \union AtWrite] /\ migrator'[m] = Unstarted
        /\ \A o \in Migrators : o # m => migrator'[o] = migrator[o]
    BY <2>1, OneGoesOn
  <2>3. \A o \in Migrators : Working(o)' => migrator'[o] = migrator[o]
    BY <2>2 DEF Working
  <2>4. /\ SameRuns /\ ShutsHonestly
        /\ \A i \in DOMAIN runs : SameRun(i) /\ runs'[i].notes = runs[i].notes
    BY <1>2, <2>1
  <2>5. AsItWas
    BY <1>1, <2>1, <2>3, <2>4 DEF AsItWas, SameRuns
  <2>6. MigrationTables'
    BY <2>1, <2>2 DEF MigrationTables
  <2> QED BY <2>4, <2>5, <2>6
<1>6. ASSUME NEW k \in Analyses, AskModel(k) PROVE AsItWas /\ MigrationTables' /\ ShutsHonestly
  <2>1. /\ asked' = asked \union {k} /\ author[k] # "erased" /\ Still /\ UNCHANGED <<runs, migrator, dial>>
    BY <1>6 DEF AskModel, scoreHistory
  <2>2. /\ SameRuns /\ ShutsHonestly
        /\ \A i \in DOMAIN runs : SameRun(i) /\ runs'[i].notes = runs[i].notes
    BY <1>2, <2>1
  <2>3. \A x \in Analyses : x \in asked' => x \in asked \/ ~ IsErased(x)
    BY <2>1 DEF IsErased
  <2>4. AsItWas
    BY <1>1, <2>1, <2>2, <2>3 DEF AsItWas, SameRuns
  <2>5. MigrationTables'
    BY <2>1 DEF MigrationTables
  <2> QED BY <2>2, <2>4, <2>5
<1> QED
  BY <1>3, <1>4, <1>5, <1>6

LEMMA EraseIs ==
  ASSUME MigrationTables, NEW k \in Analyses, EraseCandidate(k)
  PROVE  Erases(k) /\ MigrationTables'
<1> DEFINE row(j) == [runs[j] EXCEPT !.notes = {n \in runs[j].notes : n.row # k}]
           f == [j \in DOMAIN runs |-> row(j)]
<1>1. /\ author[k] # "erased" /\ author' = [author EXCEPT ![k] = "erased"]
      /\ before' = [before EXCEPT ![k] = FALSE] /\ after' = [after EXCEPT ![k] = NoScore]
      /\ asked' = asked \ {k}
      /\ runs' = [i \in DOMAIN runs |-> [runs[i] EXCEPT !.notes = {n \in @ : n.row # k}]]
      /\ inHand' = inHand \union
            {j \in {k} : \E m \in Migrators : migrator[m].at = "write" /\ migrator[m].passed = j}
      /\ UNCHANGED <<migrator, dial, storedOver, lost, overlapped, pruned>>
  BY DEF EraseCandidate
<1>2. runs' = f
  BY <1>1
<1>3. ASSUME NEW j \in DOMAIN runs
      PROVE  /\ row(j) \in RunRow
             /\ row(j).refresh = runs[j].refresh /\ row(j).scope = runs[j].scope
             /\ row(j).reverted = runs[j].reverted /\ row(j).done = runs[j].done
             /\ row(j).notes = {n \in runs[j].notes : n.row # k}
  <2>1. runs[j] \in RunRow
    BY RunsAreRows
  <2>2. PICK left \in SUBSET Note : left = {n \in runs[j].notes : n.row # k}
    BY RunsAreRows
  <2> QED BY <2>1, <2>2 DEF RunRow
<1> HIDE DEF row
<1>4. f \in Seq(RunRow) /\ Len(f) = Len(runs) /\ DOMAIN f = DOMAIN runs
  <2>1. runs \in Seq(RunRow)
    BY DEF MigrationTables
  <2>2. f = [j \in DOMAIN runs |-> f[j]] /\ \A j \in DOMAIN runs : f[j] \in RunRow
    BY <1>3
  <2> HIDE DEF f
  <2> QED BY <2>1, <2>2, EveryRunChanges
<1>5. \A j \in DOMAIN runs : runs'[j] = row(j)
  BY <1>2
<1> HIDE DEF f
<1>6. /\ inHand \subseteq inHand' /\ inHand' \subseteq inHand \union {k}
      /\ \A m \in Migrators : Writing(m) /\ migrator[m].passed = k => k \in inHand'
  BY <1>1 DEF Writing
<1>7. k \in Scored /\ Analyses \subseteq Scored
  BY RowsAreNumbers
<1>8. /\ IsErased(k)' /\ before'[k] = FALSE /\ after'[k] = NoScore /\ k \notin asked' /\ asked' \subseteq asked
      /\ \A x \in Scored : x # k => before'[x] = before[x] /\ after'[x] = after[x]
      /\ \A x \in Analyses : x # k => author'[x] = author[x]
  <2>1. /\ after \in [Scored -> ScoreRow \union {NoScore}] /\ before \in [Scored -> BOOLEAN]
        /\ author \in [Analyses -> {"as analysed", "edited", "erased"}]
    BY DEF MigrationTables
  <2> QED BY <1>1, <1>7, <2>1 DEF IsErased
<1>9. MigrationTables'
  BY <1>1, <1>4, <1>6, <1>2 DEF MigrationTables
<1>10. \A j \in DOMAIN runs : /\ SameRun(j) /\ runs'[j].done = runs[j].done
                              /\ runs'[j].notes = {n \in runs[j].notes : n.row # k}
  BY <1>3, <1>5 DEF SameRun
<1>11. SameRuns
  BY <1>2, <1>4 DEF SameRuns
<1>12. Erases(k)
  BY <1>1, <1>6, <1>8, <1>10, <1>11 DEF Erases
<1> QED
  BY <1>9, <1>12

LEMMA RevertIs ==
  ASSUME MigrationTables, Revert
  PROVE  MigrationTables' /\ \E i, was : Undoes(i, was)
<1> DEFINE standings == {i \in DOMAIN runs : ~runs[i].reverted}
           i == Max(standings)
           was(r) == (CHOOSE o \in runs[i].notes : o.row = r).was
           w == [r \in Scored |-> IF NotedIn(i, r) THEN was(r) ELSE NoScore]
           back == [r \in Scored |->
                    IF NotedIn(i, r) /\ (~runs[i].refresh \/ after[r] # NoScore \/ r \in Graded)
                    THEN was(r) ELSE after[r]]
<1>1. /\ standings # {} /\ after' = back
      /\ before' = [r \in Scored |-> before[r] \/ (r \in Graded /\ NotedIn(i, r) /\ ~runs[i].refresh)]
      /\ runs' = [runs EXCEPT ![i].reverted = TRUE]
      /\ lost' = lost \union {k \in Analyses : /\ after[k] # NoScore /\ after[k].by = "judged"
                                             /\ (back[k] = NoScore \/ back[k].by = "moved")}
      /\ overlapped' = (overlapped \/ AtWork # {})
      /\ UNCHANGED <<migrator, dial, author, asked, storedOver, pruned, inHand>>
  BY DEF Revert, NotedIn
<1>2. i \in standings /\ \A j \in standings : j <= i
  <2>1. standings \subseteq Int /\ IsFiniteSet(standings)
    <3>1. standings \subseteq DOMAIN runs /\ DOMAIN runs = 1..Len(runs) /\ Len(runs) \in Nat
      BY RunsAreRows
    <3>2. IsFiniteSet(1..Len(runs))
      BY <3>1, FS_Interval
    <3> QED BY <3>1, <3>2, FS_Subset
  <2> QED BY <1>1, <2>1, MaxIsGreatest
<1>3. i \in DOMAIN runs /\ Standing(i) /\ \A j \in DOMAIN runs : Standing(j) => j <= i
  BY <1>2 DEF Standing
<1> HIDE DEF i
<1>4. ASSUME NEW r \in Scored, NotedIn(i, r)
      PROVE  \E n \in runs[i].notes : n.row = r /\ n.was = was(r) /\ n.was \in ScoreRow \union {NoScore}
  <2>1. \E n \in runs[i].notes : n.row = r
    BY <1>4 DEF NotedIn
  <2>2. PICK n : n = CHOOSE o \in runs[i].notes : o.row = r
    OBVIOUS
  <2>3. n \in runs[i].notes /\ n.row = r
    BY <2>1, <2>2
  <2>4. n.was \in ScoreRow \union {NoScore}
    BY <1>3, <2>3, RunsAreRows
  <2> QED BY <2>2, <2>3, <2>4
<1> HIDE DEF was
<1>5. /\ w \in [Scored -> ScoreRow \union {NoScore}]
      /\ \A r \in Scored : NotedIn(i, r) => w[r] = was(r) /\ \E n \in runs[i].notes : n.row = r /\ n.was = w[r]
  BY <1>4
<1>6. /\ after' \in [Scored -> ScoreRow \union {NoScore}]
      /\ \A r \in Scored :
              IF NotedIn(i, r) /\ (~runs[i].refresh \/ after[r] # NoScore \/ r \in Graded)
              THEN after'[r] = w[r] ELSE after'[r] = after[r]
  <2>1. after \in [Scored -> ScoreRow \union {NoScore}]
    BY DEF MigrationTables
  <2> QED BY <1>1, <1>4, <1>5, <2>1
<1> HIDE DEF w
<1>7. lost' = lost \union {k \in Analyses : /\ after[k] # NoScore /\ after[k].by = "judged"
                                            /\ (after'[k] = NoScore \/ after'[k].by = "moved")}
  BY <1>1
<1> HIDE DEF back
<1> DEFINE row == [runs[i] EXCEPT !.reverted = TRUE]
<1>8. /\ row \in RunRow /\ row.refresh = runs[i].refresh /\ row.scope = runs[i].scope
      /\ row.done = runs[i].done /\ row.reverted = TRUE /\ row.notes = runs[i].notes
  <2>1. runs[i] \in RunRow
    BY <1>3, RunsAreRows
  <2> QED BY <2>1 DEF RunRow
<1>9. runs' = [runs EXCEPT ![i] = row]
  BY <1>1
<1> HIDE DEF row
<1>10. /\ runs' \in Seq(RunRow) /\ Len(runs') = Len(runs) /\ DOMAIN runs' = DOMAIN runs
       /\ runs'[i] = row /\ \A j \in DOMAIN runs : j # i => runs'[j] = runs[j]
  <2>1. runs \in Seq(RunRow)
    BY DEF MigrationTables
  <2> QED BY <1>3, <1>8, <1>9, <2>1, OneRunChanges
<1>11. ASSUME NEW j \in DOMAIN runs
       PROVE  /\ runs'[j].refresh = runs[j].refresh /\ runs'[j].scope = runs[j].scope
              /\ runs'[j].reverted = (runs[j].reverted \/ j = i) /\ runs'[j].done = runs[j].done
              /\ runs'[j].notes = runs[j].notes
  <2>1. runs[j].reverted \in BOOLEAN
    BY RunsAreRows
  <2>2. CASE j = i
    BY <1>8, <1>10, <2>2
  <2>3. CASE j # i
    BY <1>10, <2>1, <2>3
  <2> QED BY <2>2, <2>3
<1>12. overlapped' \in BOOLEAN /\ (~ overlapped' => ~ overlapped /\ \A m \in Migrators : ~ Working(m))
  BY <1>1 DEF AtWork, Working, MigrationTables
<1>13. /\ before' = [r \in Scored |-> before[r] \/ (r \in Graded /\ NotedIn(i, r) /\ ~runs[i].refresh)]
       /\ UNCHANGED <<migrator, dial, author, asked, storedOver, pruned, inHand>>
  BY <1>1
<1>14. /\ before' \in [Scored -> BOOLEAN]
       /\ \A r \in Scored : before'[r] = (before[r] \/ (r \in Graded /\ NotedIn(i, r) /\ ~runs[i].refresh))
  <2>1. \A r \in Scored : (before[r] \/ (r \in Graded /\ NotedIn(i, r) /\ ~runs[i].refresh)) \in BOOLEAN
    OBVIOUS
  <2> QED BY <1>13, <2>1
<1>15. MigrationTables'
  BY <1>6, <1>7, <1>10, <1>12, <1>13, <1>14 DEF MigrationTables
<1>16. \A k \in lost' : \/ k \in lost
                       \/ /\ k \in Analyses /\ after[k] # NoScore /\ after[k].by = "judged"
                          /\ after'[k] = NoScore \/ after'[k].by = "moved"
  BY <1>7
<1>17. \A r \in Scored : NotedIn(i, r) => \E n \in runs[i].notes : n.row = r /\ n.was = w[r]
  BY <1>5
<1>18. Undoes(i, w)
  BY <1>3, <1>6, <1>10, <1>11, <1>12, <1>13, <1>14, <1>16, <1>17 DEF Undoes, SameRuns
<1> QED
  BY <1>15, <1>18

(* What holds whatever the processes do, action by action. *)
LEMMA QuietKeepsTables ==
  ASSUME TablesFit, AsItWas
  PROVE  PagesFit' /\ NotesFit' /\ RowsFit'
<1>1. PagesFit'
  <2> SUFFICES ASSUME NEW m \in Migrators, Working(m)'
               PROVE  /\ migrator'[m].run \in DOMAIN runs'
                      /\ Writing(m)' /\ RunOf(m)'.refresh => migrator'[m].was # NoScore
                      /\ Writing(m)' /\ migrator'[m].passed \in Graded => ByMove(migrator'[m].was)
                      /\ Writing(m)' /\ IsErased(migrator[m].passed)' => migrator'[m].passed \in inHand'
    BY DEF PagesFit
  <2>1. migrator'[m] = migrator[m] /\ Working(m)
    BY DEF AsItWas, Working
  <2>2. migrator[m].run \in DOMAIN runs
    BY <2>1 DEF TablesFit, PagesFit
  <2>3. Writing(m)' <=> Writing(m)
    BY <2>1 DEF Writing
  <2>4. RunOf(m)'.refresh = RunOf(m).refresh
    BY <2>1, <2>2 DEF AsItWas, SameRun, RunOf
  <2> QED BY <2>1, <2>2, <2>3, <2>4 DEF TablesFit, PagesFit, AsItWas, SameRuns, IsErased
<1>2. NotesFit'
  BY DEF TablesFit, NotesFit, AsItWas, SameRuns, SameRun
<1>3. RowsFit'
  <2>1. \A i \in DOMAIN runs, k \in Analyses : NotedIn(i, k)' => NotedIn(i, k)
    BY DEF AsItWas, NotedIn
  <2>2. \A k \in Analyses : IsErased(k)' <=> IsErased(k)
    BY DEF AsItWas, IsErased
  <2> QED BY <2>1, <2>2 DEF TablesFit, RowsFit, AsItWas, SameRuns
<1> QED BY <1>1, <1>2, <1>3

LEMMA StartKeepsTables ==
  ASSUME TablesFit, NEW m \in Migrators, NEW i, Starts(m, i)
  PROVE  PagesFit' /\ NotesFit' /\ RowsFit'
<1>1. ASSUME NEW o \in Migrators, Working(o)'
      PROVE  /\ migrator'[o].run \in DOMAIN runs'
             /\ Writing(o)' /\ RunOf(o)'.refresh => migrator'[o].was # NoScore
             /\ Writing(o)' /\ migrator'[o].passed \in Graded => ByMove(migrator'[o].was)
             /\ Writing(o)' /\ IsErased(migrator[o].passed)' => migrator'[o].passed \in inHand'
  <2>1. CASE o = m
    BY <2>1 DEF Starts
  <2>2. CASE o # m
    <3>1. migrator'[o] = migrator[o] /\ Working(o) /\ (Writing(o)' <=> Writing(o))
      BY <1>1, <2>2 DEF Starts, OthersStay, Working, Writing
    <3>2. migrator[o].run \in DOMAIN runs
      BY <3>1 DEF TablesFit, PagesFit
    <3>3. RunOf(o)' = RunOf(o) /\ migrator[o].run \in DOMAIN runs'
      BY <3>1, <3>2 DEF Starts, RunOf
    <3> QED BY <3>1, <3>2, <3>3 DEF TablesFit, PagesFit, Starts, IsErased
  <2> QED BY <2>1, <2>2
<1>2. PagesFit'
  <2>1. \A o \in Migrators : Working(o)' /\ Writing(o)' => migrator'[o] = migrator[o]
    BY DEF Starts, OthersStay
  <2> QED BY <1>1, <2>1 DEF PagesFit
<1>3. NotesFit'
  BY DEF TablesFit, NotesFit, Starts
<1>4. RowsFit'
  <2>1. \A j \in DOMAIN runs', k \in Analyses : NotedIn(j, k)' => j \in DOMAIN runs /\ NotedIn(j, k)
    BY DEF Starts, NotedIn
  <2>2. \A k \in Analyses : IsErased(k)' <=> IsErased(k)
    BY DEF Starts, IsErased
  <2> QED BY <2>1, <2>2 DEF TablesFit, RowsFit, Starts
<1> QED BY <1>2, <1>3, <1>4

LEMMA ReadKeepsTables ==
  ASSUME TablesFit, NEW m \in Migrators, NEW r, Reads(m, r)
  PROVE  PagesFit' /\ NotesFit' /\ RowsFit'
<1>1. RunOf(m).refresh => after[r] # NoScore
  BY DEF Reads, Walked
<1>2. ~ RunOf(m).refresh => before[r]
  BY DEF Reads, Walked
<1>3. r \in Graded => ByMove(after[r])
  BY DEF TablesFit, RowsFit
<1>4. IsErased(r) => r \in inHand
  BY <1>1, <1>2 DEF TablesFit, RowsFit, IsErased
<1>5. \A o \in Migrators : Working(o)' =>
        /\ migrator'[o].run \in DOMAIN runs'
        /\ Writing(o)' /\ runs'[migrator'[o].run].refresh => migrator'[o].was # NoScore
        /\ Writing(o)' /\ migrator'[o].passed \in Graded => ByMove(migrator'[o].was)
        /\ Writing(o)' /\ IsErased(migrator'[o].passed) => migrator'[o].passed \in inHand'
  <2> SUFFICES ASSUME NEW o \in Migrators, Working(o)'
               PROVE  /\ migrator'[o].run \in DOMAIN runs'
                      /\ Writing(o)' /\ runs'[migrator'[o].run].refresh => migrator'[o].was # NoScore
                      /\ Writing(o)' /\ migrator'[o].passed \in Graded => ByMove(migrator'[o].was)
                      /\ Writing(o)' /\ IsErased(migrator'[o].passed) => migrator'[o].passed \in inHand'
    OBVIOUS
  <2>1. CASE o = m
    BY <1>1, <1>3, <1>4, <2>1 DEF Reads, RunOf
  <2>2. CASE o # m
    <3>1. migrator'[o] = migrator[o] /\ Working(o) /\ (Writing(o)' <=> Writing(o))
      BY <2>2 DEF Reads, OthersStay, Working, Writing
    <3> QED BY <3>1 DEF TablesFit, PagesFit, Reads, RunOf
  <2> QED BY <2>1, <2>2
<1>6. PagesFit'
  BY <1>5 DEF PagesFit, RunOf, Reads, IsErased
<1>7. NotesFit' /\ RowsFit'
  BY DEF TablesFit, NotesFit, RowsFit, Reads, NotedIn, IsErased
<1> QED BY <1>6, <1>7

(* A row is written as it may be noted, and if its candidate is erased was in hand. *)
LEMMA WriteKeepsTables ==
  ASSUME TablesFit, NEW m \in Migrators, NEW i, NEW r, NEW writes, NEW was, NEW score,
         Writes(m, i, r, writes, was, score),
         \A x \in Scored : before'[x] => before[x],
         writes => /\ runs[i].refresh => was # NoScore
                   /\ ~runs[i].refresh /\ r \in Analyses => was = NoScore
                   /\ r \in Graded => ByMove(was) /\ ByMove(score)
  PROVE  PagesFit' /\ NotesFit' /\ RowsFit'
<1>1. PagesFit'
  <2> SUFFICES ASSUME NEW o \in Migrators, Working(o)'
               PROVE  /\ migrator'[o].run \in DOMAIN runs'
                      /\ Writing(o)' /\ runs'[migrator'[o].run].refresh => migrator'[o].was # NoScore
                      /\ Writing(o)' /\ migrator'[o].passed \in Graded => ByMove(migrator'[o].was)
                      /\ Writing(o)' /\ IsErased(migrator[o].passed)' => migrator'[o].passed \in inHand'
    BY DEF PagesFit, RunOf
  <2>1. CASE o = m
    BY <2>1 DEF Writes, SameRuns
  <2>2. CASE o # m
    <3>1. migrator'[o] = migrator[o] /\ Working(o) /\ (Writing(o)' <=> Writing(o))
      BY <2>2 DEF Writes, OthersStay, Working, Writing
    <3>2. migrator[o].run \in DOMAIN runs
      BY <3>1 DEF TablesFit, PagesFit
    <3>3. runs'[migrator[o].run].refresh = runs[migrator[o].run].refresh
      BY <3>2 DEF Writes, SameRun
    <3>4. IsErased(migrator[o].passed)' <=> IsErased(migrator[o].passed)
      BY <3>1 DEF Writes, IsErased
    <3> QED BY <3>1, <3>2, <3>3, <3>4 DEF TablesFit, PagesFit, Writes, SameRuns, RunOf
  <2> QED BY <2>1, <2>2
<1>2. NotesFit'
  <2> SUFFICES ASSUME NEW j \in DOMAIN runs', NEW n \in runs'[j].notes
               PROVE  /\ runs'[j].refresh => n.was # NoScore
                      /\ ~runs'[j].refresh /\ n.row \in Analyses => n.was = NoScore
                      /\ n.row \in Graded => ByMove(n.was)
    BY DEF NotesFit
  <2>1. j \in DOMAIN runs /\ runs'[j].refresh = runs[j].refresh
    BY DEF Writes, SameRuns, SameRun
  <2>2. CASE n \in runs[j].notes
    BY <2>1, <2>2 DEF TablesFit, NotesFit
  <2>3. CASE n \notin runs[j].notes
    <3>1. j = i /\ writes /\ n = [row |-> r, was |-> was]
      BY <2>1, <2>3 DEF Writes
    <3>2. n.row = r /\ n.was = was
      BY <3>1
    <3> QED BY <2>1, <3>1, <3>2
  <2> QED BY <2>2, <2>3
<1>3. RowsFit'
  <2>1. \A a \in Graded : ByMove(after[a])'
    <3> SUFFICES ASSUME NEW a \in Graded PROVE ByMove(after'[a])
      BY DEF ByMove
    <3>1. a \in Scored /\ ByMove(after[a])
      BY RowsAreNumbers DEF TablesFit, RowsFit
    <3>2. CASE a = r /\ writes
      <4>1. after'[a] = score
        BY <3>2 DEF Writes
      <4> QED BY <3>2, <4>1
    <3>3. CASE ~(a = r /\ writes)
      <4>1. after'[a] = after[a]
        BY <3>1, <3>3 DEF Writes
      <4> QED BY <3>1, <4>1
    <3> QED BY <3>2, <3>3
  <2>2. ASSUME NEW k \in Analyses, IsErased(k)' PROVE IsErased(k) /\ ~before'[k] /\ k \notin asked'
    BY <2>2, RowsAreNumbers DEF TablesFit, RowsFit, Writes, IsErased
  <2>3. ASSUME NEW k \in Analyses \ inHand', IsErased(k)'
        PROVE  after'[k] = NoScore /\ \A j \in DOMAIN runs' : ~ NotedIn(j, k)'
    <3>1. k # r /\ k \in Scored /\ IsErased(k)
      <4>1. k \in Scored /\ IsErased(k) /\ k \notin inHand
        BY <2>2, <2>3, RowsAreNumbers DEF Writes
      <4>2. Working(m) /\ Writing(m) /\ r = migrator[m].passed
        BY DEF Writes
      <4>3. IsErased(migrator[m].passed) => migrator[m].passed \in inHand
        BY <4>2 DEF TablesFit, PagesFit
      <4> QED BY <4>1, <4>2, <4>3
    <3>2. after'[k] = after[k] /\ after[k] = NoScore
      BY <2>3, <3>1 DEF Writes, TablesFit, RowsFit
    <3>3. ASSUME NEW j \in DOMAIN runs', NotedIn(j, k)' PROVE FALSE
      <4>1. j \in DOMAIN runs
        BY DEF Writes, SameRuns
      <4>2. PICK n \in runs'[j].notes : n.row = k
        BY <3>3 DEF NotedIn
      <4>3. n \in runs[j].notes
        BY <3>1, <4>1, <4>2 DEF Writes
      <4> QED BY <2>3, <3>1, <4>1, <4>2, <4>3 DEF Writes, TablesFit, RowsFit, NotedIn
    <3> QED BY <3>2, <3>3
  <2> QED BY <2>1, <2>2, <2>3 DEF RowsFit, ByMove
<1> QED BY <1>1, <1>2, <1>3

LEMMA EraseKeepsTables ==
  ASSUME TablesFit, NEW k \in Analyses, Erases(k)
  PROVE  PagesFit' /\ NotesFit' /\ RowsFit'
<1>1. \A x \in Analyses : x # k => (IsErased(x)' <=> IsErased(x))
  BY DEF Erases, IsErased
<1>2. PagesFit'
  <2> SUFFICES ASSUME NEW o \in Migrators, Working(o)'
               PROVE  /\ migrator'[o].run \in DOMAIN runs'
                      /\ Writing(o)' /\ runs'[migrator'[o].run].refresh => migrator'[o].was # NoScore
                      /\ Writing(o)' /\ migrator'[o].passed \in Graded => ByMove(migrator'[o].was)
                      /\ Writing(o)' /\ IsErased(migrator[o].passed)' => migrator'[o].passed \in inHand'
    BY DEF PagesFit, RunOf
  <2>1. migrator'[o] = migrator[o] /\ Working(o) /\ (Writing(o)' <=> Writing(o))
    BY DEF Erases, Working, Writing
  <2>2. migrator[o].run \in DOMAIN runs
    BY <2>1 DEF TablesFit, PagesFit
  <2>3. runs'[migrator[o].run].refresh = runs[migrator[o].run].refresh
    BY <2>2 DEF Erases, SameRun
  <2>4. ASSUME Writing(o), IsErased(migrator[o].passed)' PROVE migrator[o].passed \in inHand'
    <3>1. CASE migrator[o].passed = k
      BY <2>4, <3>1 DEF Erases
    <3>2. CASE migrator[o].passed # k
      <4>1. IsErased(migrator[o].passed)
        BY <2>1, <2>4, <3>2 DEF Erases, IsErased
      <4> QED BY <2>1, <2>4, <4>1 DEF TablesFit, PagesFit, Erases
    <3> QED BY <3>1, <3>2
  <2> QED BY <2>1, <2>2, <2>3, <2>4 DEF TablesFit, PagesFit, Erases, SameRuns, RunOf
<1>3. NotesFit'
  BY DEF TablesFit, NotesFit, Erases, SameRuns, SameRun
<1>4. RowsFit'
  <2>1. \A a \in Graded : ByMove(after[a])'
    BY RowsAreNumbers DEF TablesFit, RowsFit, Erases, ByMove
  <2>2. ASSUME NEW x \in Analyses, IsErased(x)' PROVE ~before'[x] /\ x \notin asked'
    BY <1>1, <2>2, RowsAreNumbers DEF TablesFit, RowsFit, Erases
  <2>3. ASSUME NEW x \in Analyses \ inHand', IsErased(x)', NEW j \in DOMAIN runs'
        PROVE  after'[x] = NoScore /\ ~ NotedIn(j, x)'
    <3>1. j \in DOMAIN runs /\ x \in Scored
      BY RowsAreNumbers DEF Erases, SameRuns
    <3>2. CASE x = k
      BY <3>1, <3>2 DEF Erases, NotedIn
    <3>3. CASE x # k
      <4>1. after[x] = NoScore /\ ~ NotedIn(j, x)
        BY <1>1, <2>3, <3>1, <3>3 DEF TablesFit, RowsFit, Erases
      <4> QED BY <3>1, <3>3, <4>1 DEF Erases, NotedIn
    <3> QED BY <3>2, <3>3
  <2>4. ASSUME NEW x \in Analyses \ inHand', IsErased(x)' PROVE after'[x] = NoScore
    <3>1. CASE x = k
      BY <3>1 DEF Erases
    <3>2. CASE x # k
      BY <1>1, <2>4, <3>2, RowsAreNumbers DEF TablesFit, RowsFit, Erases
    <3> QED BY <3>1, <3>2
  <2> QED BY <2>1, <2>2, <2>3, <2>4 DEF RowsFit, ByMove
<1> QED BY <1>2, <1>3, <1>4

LEMMA UndoKeepsTables ==
  ASSUME TablesFit, NEW i, NEW was, Undoes(i, was)
  PROVE  PagesFit' /\ NotesFit' /\ RowsFit'
<1>1. \A x \in Analyses : IsErased(x)' <=> IsErased(x)
  BY DEF Undoes, IsErased
<1>2. PagesFit'
  <2> SUFFICES ASSUME NEW o \in Migrators, Working(o)'
               PROVE  /\ migrator'[o].run \in DOMAIN runs'
                      /\ Writing(o)' /\ runs'[migrator'[o].run].refresh => migrator'[o].was # NoScore
                      /\ Writing(o)' /\ migrator'[o].passed \in Graded => ByMove(migrator'[o].was)
                      /\ Writing(o)' /\ IsErased(migrator[o].passed)' => migrator'[o].passed \in inHand'
    BY DEF PagesFit, RunOf
  <2>1. migrator'[o] = migrator[o] /\ Working(o) /\ (Writing(o)' <=> Writing(o))
    BY DEF Undoes, Working, Writing
  <2>2. migrator[o].run \in DOMAIN runs
    BY <2>1 DEF TablesFit, PagesFit
  <2>3. runs'[migrator[o].run].refresh = runs[migrator[o].run].refresh
    BY <2>2 DEF Undoes
  <2>4. IsErased(migrator[o].passed)' <=> IsErased(migrator[o].passed)
    BY <2>1 DEF Undoes, IsErased
  <2> QED BY <2>1, <2>2, <2>3, <2>4 DEF TablesFit, PagesFit, Undoes, SameRuns, RunOf
<1>3. NotesFit'
  BY DEF TablesFit, NotesFit, Undoes, SameRuns
<1>4. RowsFit'
  <2>1. ASSUME NEW a \in Graded PROVE ByMove(after[a])'
    <3>1. a \in Scored
      BY RowsAreNumbers
    <3>2. CASE after'[a] = after[a]
      BY <3>2 DEF TablesFit, RowsFit, ByMove
    <3>3. CASE after'[a] # after[a]
      <4>1. NotedIn(i, a) /\ after'[a] = was[a]
        BY <3>1, <3>3 DEF Undoes
      <4>2. PICK n \in runs[i].notes : n.row = a /\ n.was = was[a]
        BY <3>1, <4>1 DEF Undoes
      <4>3. ByMove(n.was)
        BY <4>2 DEF TablesFit, NotesFit, Undoes
      <4> QED BY <4>1, <4>2, <4>3 DEF ByMove
    <3> QED BY <3>2, <3>3
  <2>2. ASSUME NEW x \in Analyses, IsErased(x)' PROVE ~before'[x] /\ x \notin asked'
    BY <1>1, <2>2, RowsAreNumbers DEF TablesFit, RowsFit, Undoes
  <2>3. ASSUME NEW x \in Analyses \ inHand', IsErased(x)'
        PROVE  after'[x] = NoScore /\ \A j \in DOMAIN runs' : ~ NotedIn(j, x)'
    <3>1. x \in Scored
      BY RowsAreNumbers
    <3>2. after[x] = NoScore /\ \A j \in DOMAIN runs : ~ NotedIn(j, x)
      BY <1>1, <2>3 DEF TablesFit, RowsFit, Undoes
    <3>3. after'[x] = after[x]
      BY <3>1, <3>2 DEF Undoes
    <3>4. \A j \in DOMAIN runs' : ~ NotedIn(j, x)'
      BY <3>2 DEF Undoes, SameRuns, NotedIn
    <3> QED BY <3>2, <3>3, <3>4
  <2> QED BY <2>1, <2>2, <2>3 DEF RowsFit, ByMove
<1> QED BY <1>2, <1>3, <1>4

(* The server writes a judgement, of a candidate who is there, or one is edited. *)
LEMMA ServerKeepsTables ==
  ASSUME TablesFit, NEW k \in Analyses, StoreJudgement(k) \/ EditCandidate(k)
  PROVE  MigrationTables' /\ PagesFit' /\ NotesFit' /\ RowsFit'
<1>1. /\ UNCHANGED <<before, runs, migrator, dial, lost, overlapped, pruned, inHand>>
      /\ asked' \subseteq asked
  BY DEF StoreJudgement, EditCandidate, scoreHistory
<1>2. MigrationTables /\ dial \in Dials
  BY DEF TablesFit, MigrationTables
<1>3. NewScore("judged", dial) \in ScoreRow
  BY <1>2 DEF NewScore, ScoreRow
<1>4. MigrationTables'
  <2>1. CASE StoreJudgement(k)
    BY <1>1, <1>2, <1>3, <2>1 DEF StoreJudgement, MigrationTables
  <2>2. CASE EditCandidate(k)
    BY <1>1, <1>2, <2>2 DEF EditCandidate, scoreHistory, MigrationTables
  <2> QED BY <2>1, <2>2
<1>5. \A x \in Analyses : IsErased(x)' <=> IsErased(x)
  <2>1. author \in [Analyses -> {"as analysed", "edited", "erased"}]
    BY <1>2 DEF MigrationTables
  <2> QED BY <2>1 DEF StoreJudgement, EditCandidate, IsErased
<1>6. \A x \in Scored : IsErased(x) \/ x \in Graded => after'[x] = after[x]
  <2>1. CASE EditCandidate(k)
    BY <2>1 DEF EditCandidate
  <2>2. CASE StoreJudgement(k)
    <3>1. ~ IsErased(k) /\ k \notin Graded
      BY <2>2, RowsAreNumbers DEF StoreJudgement, TablesFit, RowsFit
    <3>2. after \in [Scored -> ScoreRow \union {NoScore}]
      BY <1>2 DEF MigrationTables
    <3>3. after' = after \/ after' = [after EXCEPT ![k] = NewScore("judged", dial)]
      BY <2>2 DEF StoreJudgement
    <3> QED BY <3>1, <3>2, <3>3
  <2> QED BY <2>1, <2>2
<1>7. PagesFit'
  <2>1. \A m \in Migrators : (Working(m)' <=> Working(m)) /\ (Writing(m)' <=> Writing(m)) /\ RunOf(m)' = RunOf(m)
    BY <1>1 DEF Working, Writing, RunOf
  <2>2. \A m \in Migrators : IsErased(migrator[m].passed)' => IsErased(migrator[m].passed)
    BY <1>1, <1>5 DEF IsErased
  <2> QED BY <1>1, <2>1, <2>2 DEF TablesFit, PagesFit
<1>8. NotesFit'
  BY <1>1 DEF TablesFit, NotesFit
<1>9. RowsFit'
  <2>1. \A x \in Analyses, i \in DOMAIN runs : NotedIn(i, x)' <=> NotedIn(i, x)
    BY <1>1 DEF NotedIn
  <2> QED BY <1>1, <1>5, <1>6, <2>1, RowsAreNumbers DEF TablesFit, RowsFit
<1> QED BY <1>4, <1>7, <1>8, <1>9

(* What holds while no two processes overlap, action by action. *)
LEMMA GateIs == GateShut <=> \E i \in DOMAIN runs : Shuts(i)
BY DEF GateShut, Shuts, Standing

LEMMA HonestIs == GateIsHonest <=> (~overlapped /\ GateShut => \A r \in Movable : IsMoved(r))
BY DEF GateIsHonest, IsMoved

LEMMA GateIsPrimed == GateShut' <=> \E i \in DOMAIN runs' : Shuts(i)'
BY DEF GateShut, Shuts, Standing

LEMMA HonestIsPrimed ==
  GateIsHonest' <=> (~overlapped' /\ GateShut' => \A r \in Movable : IsMoved(r)')
BY DEF GateIsHonest, IsMoved

LEMMA QuietKeepsAlone ==
  ASSUME TablesFit, AloneInv, AsItWas, ShutsHonestly, ~overlapped
  PROVE  AloneInv'
<1>1. \A r : IsMoved(r)' <=> IsMoved(r)
  BY DEF AsItWas, IsMoved
<1>2. \A r : IsErased(r)' <=> IsErased(r)
  BY DEF AsItWas, IsErased
<1>3. \A i \in DOMAIN runs : /\ i \in DOMAIN runs' /\ (Standing(i)' <=> Standing(i))
                             /\ runs'[i].refresh = runs[i].refresh /\ runs'[i].scope = runs[i].scope
                             /\ runs'[i].notes \subseteq runs[i].notes
  BY DEF AsItWas, SameRuns, SameRun, Standing
<1>4. DOMAIN runs' = DOMAIN runs /\ Len(runs') = Len(runs)
  BY DEF AsItWas, SameRuns
<1>5. ASSUME NEW m \in Migrators, Working(m)'
      PROVE  /\ Working(m) /\ migrator'[m] = migrator[m] /\ (Writing(m)' <=> Writing(m))
             /\ migrator[m].run \in DOMAIN runs
             /\ RunOf(m)'.refresh = RunOf(m).refresh /\ RunOf(m)'.scope = RunOf(m).scope
             /\ RunOf(m)'.notes \subseteq RunOf(m).notes
  <2>1. Working(m) /\ migrator'[m] = migrator[m] /\ (Writing(m)' <=> Writing(m))
    BY <1>5 DEF AsItWas, Working, Writing
  <2>2. migrator[m].run \in DOMAIN runs
    BY <2>1 DEF TablesFit, PagesFit
  <2> QED BY <1>3, <2>1, <2>2 DEF RunOf
<1>6. \A m \in Migrators : Writing(m)' => Working(m)'
  BY DEF Writing, Working, Unstarted
<1>7. OneProcess'
  <2>1. ASSUME NEW m \in Migrators, Working(m)' PROVE Standing(Len(runs))'
    BY <1>3, <1>4, <1>5, <2>1 DEF AloneInv, OneProcess
  <2> QED BY <1>4, <1>5, <2>1 DEF AloneInv, OneProcess
<1>8. HeldAsRead'
  <2>1. \A i \in DOMAIN runs : \A r : NotedIn(i, r)' => NotedIn(i, r)
    BY <1>3 DEF NotedIn
  <2> QED BY <1>2, <1>4, <1>5, <1>6, <2>1 DEF AloneInv, HeldAsRead, AsItWas
<1>9. OneVersion'
  BY DEF AloneInv, OneVersion, AsItWas
<1>10. WrittenIsThere'
  BY <1>2, <1>3, <1>4 DEF AloneInv, WrittenIsThere, AsItWas
<1>11. MovedFirst'
  BY <1>3, <1>4 DEF AloneInv, MovedFirst, NotedIn
<1>12. NothingLeftBehind'
  BY <1>1, <1>5 DEF AloneInv, NothingLeftBehind
<1>13. ForcedMovesNothing'
  <2> SUFFICES ASSUME NEW i \in DOMAIN runs, NEW j \in DOMAIN runs, i < j, Shuts(i)', Standing(j)',
                      ~runs'[j].refresh, NEW n \in runs'[j].notes
               PROVE  IsErased(n.row)'
    BY <1>4 DEF ForcedMovesNothing
  <2>1. j <= Len(runs) /\ i \in Nat /\ j \in Nat /\ Len(runs) \in Nat
    BY RunsAreRows DEF TablesFit
  <2>2. Shuts(i)
    BY <2>1 DEF ShutsHonestly
  <2> QED BY <1>2, <1>3, <2>2 DEF AloneInv, ForcedMovesNothing
<1>14. GateIsHonest'
  <2>1. GateShut' => GateShut \/ \A r \in Movable : IsMoved(r)
    BY <1>4, GateIs, GateIsPrimed DEF ShutsHonestly
  <2>2. GateShut => \A r \in Movable : IsMoved(r)
    BY HonestIs DEF AloneInv
  <2> QED BY <1>1, <2>1, <2>2, HonestIsPrimed
<1>15. (lost \subseteq storedOver)'
  BY DEF AloneInv, AsItWas
<1> QED
  BY <1>7, <1>8, <1>9, <1>10, <1>11, <1>12, <1>13, <1>14, <1>15 DEF AloneInv

LEMMA StartKeepsAlone ==
  ASSUME TablesFit, AloneInv, NEW m \in Migrators, NEW i, Starts(m, i), ~overlapped'
  PROVE  AloneInv'
<1>1. /\ \A r : IsMoved(r)' <=> IsMoved(r)
      /\ \A r : IsErased(r)' <=> IsErased(r)
  BY DEF Starts, IsMoved, IsErased
<1>2. ~ overlapped /\ \A o \in Migrators : ~ Working(o)
  BY DEF Starts
<1>3. \A o \in Migrators : o # m => ~ Working(o)' /\ ~ Writing(o)'
  BY <1>2 DEF Starts, OthersStay, Working, Writing, Unstarted
<1>4. /\ \A j \in DOMAIN runs' : j \in DOMAIN runs \/ j = i
      /\ \A j \in DOMAIN runs : j < i /\ runs'[j] = runs[j] /\ (Standing(j)' <=> Standing(j)) /\ (Shuts(j)' <=> Shuts(j))
      /\ runs'[i].notes = {} /\ Standing(i)' /\ ~ Shuts(i)' /\ i \in Nat
  <2>1. i \in Nat
    BY RunsAreRows DEF TablesFit, Starts
  <2> QED BY <2>1 DEF Starts, Standing, Shuts
<1>5. OneProcess'
  BY <1>3, <1>4 DEF OneProcess, Starts, RunOf
<1>6. HeldAsRead'
  BY <1>3 DEF HeldAsRead, Starts
<1>7. OneVersion'
  BY DEF AloneInv, OneVersion, Starts
<1>8. WrittenIsThere'
  <2>1. storedOver' = storedOver /\ after' = after
    BY DEF Starts
  <2> QED BY <1>1, <1>4, <2>1 DEF AloneInv, WrittenIsThere
<1>9. MovedFirst'
  <2> SUFFICES ASSUME NEW a \in DOMAIN runs', Standing(a)', ~runs'[a].refresh, NEW n \in runs'[a].notes
               PROVE  /\ n.was = NoScore
                      /\ \A j \in DOMAIN runs' : j < a /\ Standing(j)' => ~ NotedIn(j, n.row)'
    BY DEF MovedFirst
  <2>1. a \in DOMAIN runs /\ runs'[a] = runs[a] /\ Standing(a)
    BY <1>4
  <2>2. ASSUME NEW j \in DOMAIN runs', j < a, Standing(j)' PROVE ~ NotedIn(j, n.row)'
    <3>1. CASE j = i
      BY <1>4, <3>1 DEF NotedIn
    <3>2. CASE j # i
      BY <1>4, <2>1, <2>2, <3>2 DEF AloneInv, MovedFirst, NotedIn
    <3> QED BY <3>1, <3>2
  <2> QED BY <2>1, <2>2 DEF AloneInv, MovedFirst
<1>10. NothingLeftBehind'
  <2>1. ASSUME NEW r \in Movable PROVE ~ (r < 0) /\ r # 0
    BY RowsAreNumbers
  <2> QED BY <1>3, <2>1 DEF NothingLeftBehind, Starts
<1>11. ForcedMovesNothing'
  BY <1>1, <1>4 DEF AloneInv, ForcedMovesNothing
<1>12. GateIsHonest'
  <2>1. GateShut' => GateShut
    BY <1>4, GateIs, GateIsPrimed
  <2> QED BY <1>1, <1>2, <2>1, HonestIs, HonestIsPrimed DEF AloneInv
<1>13. (lost \subseteq storedOver)'
  BY DEF AloneInv, Starts
<1> QED
  BY <1>5, <1>6, <1>7, <1>8, <1>9, <1>10, <1>11, <1>12, <1>13 DEF AloneInv

LEMMA ReadKeepsAlone ==
  ASSUME TablesFit, AloneInv, NEW m \in Migrators, NEW r, Reads(m, r), ~overlapped
  PROVE  AloneInv'
<1>1. /\ \A x : IsMoved(x)' <=> IsMoved(x)
      /\ \A x : IsErased(x)' <=> IsErased(x)
      /\ \A j : (Standing(j)' <=> Standing(j)) /\ (Shuts(j)' <=> Shuts(j))
      /\ \A j, x : NotedIn(j, x)' <=> NotedIn(j, x)
      /\ UNCHANGED <<runs, after, before, author, storedOver, lost, overlapped>>
  BY DEF Reads, IsMoved, IsErased, Standing, Shuts, NotedIn
<1>2. \A o \in Migrators : o # m => ~ Working(o)' /\ ~ Writing(o)'
  <2>1. \A o \in Migrators : o # m => ~ Working(o)
    BY DEF Reads, AloneInv, OneProcess
  <2> QED BY <2>1 DEF Reads, OthersStay, Working, Writing, Unstarted
<1>3. RunOf(m)' = RunOf(m)
  BY DEF Reads, RunOf
<1>4. ASSUME NEW n \in RunOf(m).notes PROVE n.row \in Nat /\ n.row < r
  <2>1. n.row \in Nat
    BY RunsAreRows, RowsAreNumbers DEF TablesFit, Reads, RunOf
  <2>2. n.row <= migrator[m].passed
    BY DEF Reads, AloneInv, OneProcess
  <2> QED BY <2>1, <2>2 DEF Reads
<1>5. OneProcess'
  <2>1. \A n \in RunOf(m).notes : n.row <= r /\ n.row # r
    BY <1>4 DEF Reads
  <2> QED BY <1>1, <1>2, <1>3, <2>1 DEF AloneInv, OneProcess, Reads
<1>6. HeldAsRead'
  <2>1. CASE RunOf(m).refresh
    BY <1>1, <1>2, <1>3, <2>1 DEF HeldAsRead, Reads, Walked
  <2>2. CASE ~ RunOf(m).refresh
    <3>1. before[r]
      BY <2>2 DEF Reads, Walked
    <3>2. ~ IsErased(r)
      BY <3>1 DEF TablesFit, RowsFit, IsErased
    <3> QED BY <1>1, <1>2, <1>3, <2>2, <3>1, <3>2 DEF HeldAsRead, Reads
  <2> QED BY <2>1, <2>2
<1>7. OneVersion' /\ WrittenIsThere' /\ MovedFirst' /\ ForcedMovesNothing' /\ (lost \subseteq storedOver)'
  BY <1>1 DEF AloneInv, OneVersion, WrittenIsThere, MovedFirst, ForcedMovesNothing
<1>8. NothingLeftBehind'
  <2> SUFFICES ASSUME ~RunOf(m).refresh, RunOf(m).scope = Scored, NEW x \in Movable, x < r
               PROVE  IsMoved(x)
    BY <1>1, <1>2, <1>3 DEF NothingLeftBehind, Reads
  <2>1. x \in Nat /\ x \in Scored /\ migrator[m].passed \in Nat /\ r \in Nat
    BY RowsAreNumbers DEF Reads
  <2>2. CASE x <= migrator[m].passed
    <3>1. x < migrator[m].passed \/ x = migrator[m].passed
      BY <2>1, <2>2
    <3> QED BY <3>1 DEF Reads, AloneInv, NothingLeftBehind
  <2>3. CASE x > migrator[m].passed
    <3>1. ~ (r <= x)
      BY <2>1
    <3>2. x \notin Walked(RunOf(m))
      BY <2>3, <3>1 DEF Reads
    <3>3. ~ before[x]
      BY <2>1, <3>2 DEF Walked
    <3> QED BY <3>3 DEF IsMoved
  <2> QED BY <2>1, <2>2, <2>3
<1>9. GateIsHonest'
  <2>1. GateShut' <=> GateShut
    BY <1>1, GateIs, GateIsPrimed
  <2> QED BY <1>1, <2>1, HonestIs, HonestIsPrimed DEF AloneInv
<1> QED
  BY <1>5, <1>6, <1>7, <1>8, <1>9 DEF AloneInv

(* What any write of a page leaves as it was. *)
LEMMA WriteLeaves ==
  ASSUME TablesFit, AloneInv, NEW m \in Migrators, NEW i, NEW r, NEW writes, NEW was, NEW score,
         Writes(m, i, r, writes, was, score)
  PROVE  /\ i = Len(runs) /\ Standing(i) /\ i \in Nat
         /\ \A o \in Migrators : ~ Writing(o)' /\ (o # m => ~ Working(o)')
         /\ \A x : IsErased(x)' <=> IsErased(x)
         /\ \A j \in DOMAIN runs : /\ j \in DOMAIN runs' /\ j \in Nat /\ j <= i
                                   /\ (Standing(j)' <=> Standing(j)) /\ (Shuts(j)' <=> Shuts(j))
                                   /\ runs'[j].refresh = runs[j].refresh
                                   /\ \A n \in runs'[j].notes :
                                        n \in runs[j].notes
                                        \/ (j = i /\ writes /\ n.row = r /\ n.was = was)
         /\ DOMAIN runs' = DOMAIN runs
         /\ \A n \in runs[i].notes : n.row # r /\ n.row \in Nat /\ n.row < r
         /\ OneProcess' /\ HeldAsRead'
<1>1. i = Len(runs) /\ Standing(i) /\ \A o \in Migrators : o # m => ~ Working(o)
  BY DEF Writes, AloneInv, OneProcess
<1>2. \A o \in Migrators : ~ Writing(o)' /\ (o # m => ~ Working(o)')
  BY <1>1 DEF Writes, OthersStay, Working, Writing, Unstarted
<1>3. \A x : IsErased(x)' <=> IsErased(x)
  BY DEF Writes, IsErased
<1>4. i \in Nat /\ \A j \in DOMAIN runs : j \in Nat /\ j <= i
  BY <1>1, RunsAreRows DEF TablesFit
<1>5. \A j \in DOMAIN runs : /\ j \in DOMAIN runs'
                             /\ (Standing(j)' <=> Standing(j)) /\ (Shuts(j)' <=> Shuts(j))
                             /\ runs'[j].refresh = runs[j].refresh
  BY DEF Writes, SameRuns, SameRun, Standing, Shuts
<1>6. ASSUME NEW j \in DOMAIN runs, NEW n \in runs'[j].notes, n \notin runs[j].notes
      PROVE  j = i /\ writes /\ n.row = r /\ n.was = was
  <2>1. j = i /\ writes /\ n = [row |-> r, was |-> was]
    BY <1>6 DEF Writes
  <2> QED BY <2>1
<1>7. \A n \in runs[i].notes : n.row # r /\ n.row \in Nat /\ n.row < r
  <2> SUFFICES ASSUME NEW n \in runs[i].notes PROVE n.row # r /\ n.row \in Nat /\ n.row < r
    OBVIOUS
  <2>1. n.row \in Nat /\ r \in Nat
    BY RunsAreRows, RowsAreNumbers DEF TablesFit, Writes
  <2>2. n.row <= r /\ n.row # r
    BY DEF Writes, AloneInv, OneProcess, RunOf
  <2> QED BY <2>1, <2>2
<1>8. OneProcess'
  <2>1. \A n \in RunOf(m)'.notes : n.row <= r
    <3> SUFFICES ASSUME NEW n \in runs'[i].notes PROVE n.row <= r
      BY DEF Writes, RunOf
    <3>1. r \in Nat /\ i \in DOMAIN runs
      BY DEF Writes
    <3>2. CASE n \in runs[i].notes
      BY <1>7, <3>1, <3>2
    <3>3. CASE n \notin runs[i].notes
      BY <1>6, <3>1, <3>3
    <3> QED BY <3>2, <3>3
  <2>2. Standing(Len(runs))' /\ Len(runs') = Len(runs)
    BY <1>1, <1>5 DEF Writes, SameRuns, Standing
  <2> QED BY <1>1, <1>2, <2>1, <2>2 DEF OneProcess, Writes
<1>9. HeldAsRead'
  BY <1>2 DEF HeldAsRead
<1>10. DOMAIN runs' = DOMAIN runs
  BY DEF Writes, SameRuns
<1> QED
  BY <1>1, <1>2, <1>3, <1>4, <1>5, <1>6, <1>7, <1>8, <1>9, <1>10

(* A row is moved, or passed over for it is not to be or is there. *)
MovesRow(m, i, r, writes, was, score) ==
    /\ Writes(m, i, r, writes, was, score) /\ ~runs[i].refresh
    /\ writes => /\ r \in Movable /\ after[r] = NoScore /\ was = NoScore
                 /\ score # NoScore /\ score.by = "moved"
                 /\ r \in Analyses => author[r] # "edited"
    /\ ~writes /\ r \in Movable => /\ r \in Analyses
                                   /\ author[r] = "edited" \/ after[r] # NoScore
    /\ \A x \in Scored : before'[x] <=> before[x] /\ ~(x = r /\ x \in Graded /\ writes)

LEMMA MoveKeepsAlone ==
  ASSUME TablesFit, AloneInv, NEW m \in Migrators, NEW i, NEW r, NEW writes \in BOOLEAN, NEW was, NEW score,
         MovesRow(m, i, r, writes, was, score), ~overlapped
  PROVE  AloneInv'
<1>1. Writes(m, i, r, writes, was, score) /\ i \in DOMAIN runs /\ r \in Scored
  BY DEF MovesRow, Writes
<1>2. /\ i = Len(runs) /\ Standing(i) /\ i \in Nat
      /\ \A o \in Migrators : ~ Writing(o)' /\ (o # m => ~ Working(o)')
      /\ \A x : IsErased(x)' <=> IsErased(x)
      /\ \A j \in DOMAIN runs : /\ j \in DOMAIN runs' /\ j \in Nat /\ j <= i
                                /\ (Standing(j)' <=> Standing(j)) /\ (Shuts(j)' <=> Shuts(j))
                                /\ runs'[j].refresh = runs[j].refresh
                                /\ \A n \in runs'[j].notes :
                                     n \in runs[j].notes
                                     \/ (j = i /\ writes /\ n.row = r /\ n.was = was)
      /\ DOMAIN runs' = DOMAIN runs
      /\ OneProcess' /\ HeldAsRead'
  BY <1>1, WriteLeaves
<1>3. /\ ~ IsErased(r) => before[r]
      /\ IsErased(r) => \A j \in DOMAIN runs : ~ NotedIn(j, r)
  BY <1>1 DEF MovesRow, Writes, AloneInv, HeldAsRead, RunOf
<1>4. \A x \in Scored : x # r => after'[x] = after[x]
  BY <1>1 DEF Writes
<1>5. writes => after'[r] # NoScore /\ after'[r].by = "moved" /\ after[r] = NoScore
  BY <1>1 DEF MovesRow, Writes
<1>6. ~writes => after'[r] = after[r]
  BY <1>1 DEF Writes
<1>7. writes => \A j \in DOMAIN runs : Standing(j) => ~ NotedIn(j, r)
  <2>1. ASSUME writes, NEW j \in DOMAIN runs, Standing(j), NotedIn(j, r) PROVE FALSE
    <3>1. PICK n \in runs[j].notes : n.row = r
      BY <2>1 DEF NotedIn
    <3>2. IsErased(r)
      BY <1>5, <2>1, <3>1 DEF AloneInv, WrittenIsThere
    <3> QED BY <1>3, <2>1, <3>2
  <2> QED BY <2>1
<1>8. OneVersion'
  <2>1. \A a \in Graded : a \in Scored
    BY RowsAreNumbers
  <2> QED BY <1>4, <1>5, <1>6, <2>1 DEF AloneInv, OneVersion, MovesRow
<1>9. WrittenIsThere'
  <2> SUFFICES ASSUME NEW j \in DOMAIN runs', Standing(j)', NEW n \in runs'[j].notes
               PROVE  /\ after'[n.row] = NoScore => IsErased(n.row)'
                      /\ n.row \notin storedOver' /\ after'[n.row] # NoScore =>
                          after'[n.row].by = (IF runs'[j].refresh THEN n.was.by ELSE "moved")
    BY DEF WrittenIsThere
  <2>1. j \in DOMAIN runs /\ Standing(j) /\ runs'[j].refresh = runs[j].refresh /\ storedOver' = storedOver
    BY <1>1, <1>2 DEF Writes
  <2>2. CASE n \in runs[j].notes
    <3>1. n.row \in Scored
      BY <2>1, <2>2, RunsAreRows DEF TablesFit
    <3>2. NotedIn(j, n.row)
      BY <2>2 DEF NotedIn
    <3>3. after'[n.row] = after[n.row]
      BY <1>4, <1>6, <1>7, <2>1, <3>1, <3>2
    <3> QED BY <1>2, <2>1, <2>2, <3>3 DEF AloneInv, WrittenIsThere
  <2>3. CASE n \notin runs[j].notes
    <3>1. j = i /\ writes /\ n.row = r
      BY <1>2, <2>1, <2>3
    <3>2. ~ runs[j].refresh
      BY <3>1 DEF MovesRow
    <3> QED BY <1>5, <2>1, <3>1, <3>2
  <2> QED BY <2>2, <2>3
<1>10. MovedFirst'
  <2> SUFFICES ASSUME NEW a \in DOMAIN runs', Standing(a)', ~runs'[a].refresh, NEW n \in runs'[a].notes
               PROVE  /\ n.was = NoScore
                      /\ \A j \in DOMAIN runs' : j < a /\ Standing(j)' => ~ NotedIn(j, n.row)'
    BY DEF MovedFirst
  <2>1. a \in DOMAIN runs /\ Standing(a) /\ ~runs[a].refresh /\ a \in Nat /\ a <= i
    BY <1>2
  <2>2. ASSUME NEW j \in DOMAIN runs', j < a, Standing(j)' PROVE NotedIn(j, n.row)' => NotedIn(j, n.row)
    <3>1. j \in DOMAIN runs /\ j \in Nat
      BY <1>2
    <3>2. j # i
      BY <1>2, <2>1, <2>2, <3>1
    <3> QED BY <1>2, <3>1, <3>2 DEF NotedIn
  <2>3. CASE n \in runs[a].notes
    <3>1. n.was = NoScore /\ \A j \in DOMAIN runs : j < a /\ Standing(j) => ~ NotedIn(j, n.row)
      BY <2>1, <2>3 DEF AloneInv, MovedFirst
    <3> QED BY <1>2, <2>2, <3>1
  <2>4. CASE n \notin runs[a].notes
    <3>1. a = i /\ writes /\ n.row = r /\ n.was = was
      BY <1>2, <2>1, <2>4
    <3>2. n.was = NoScore
      BY <3>1 DEF MovesRow
    <3> QED BY <1>2, <1>7, <2>2, <3>1, <3>2
  <2> QED BY <2>3, <2>4
<1>11. ASSUME NEW x \in Movable, IsMoved(x) PROVE IsMoved(x)'
  <2>1. x \in Scored /\ author' = author
    BY <1>1, RowsAreNumbers DEF Writes
  <2>2. before'[x] => before[x]
    BY <2>1 DEF MovesRow
  <2>3. after[x] # NoScore => after'[x] # NoScore
    BY <1>4, <1>5, <1>6, <2>1
  <2> QED BY <1>11, <2>1, <2>2, <2>3 DEF IsMoved
<1>12. ASSUME r \in Movable PROVE IsMoved(r)'
  <2>1. r \in Graded => r \notin Analyses
    BY RowsAreNumbers
  <2>2. author' = author
    BY <1>1 DEF Writes
  <2>3. CASE writes
    <3>1. r \in Graded => ~ before'[r]
      BY <1>1, <2>3 DEF MovesRow
    <3> QED BY <1>5, <2>3, <3>1 DEF IsMoved
  <2>4. CASE ~writes
    <3>1. r \in Analyses /\ (author[r] = "edited" \/ after[r] # NoScore)
      BY <1>12, <2>4 DEF MovesRow
    <3> QED BY <1>6, <2>1, <2>2, <2>4, <3>1 DEF IsMoved
  <2> QED BY <2>3, <2>4
<1>13. NothingLeftBehind'
  <2> SUFFICES ASSUME Working(m)', RunOf(m)'.scope = Scored, NEW x \in Movable, x < r \/ x = r
               PROVE  IsMoved(x)'
    BY <1>1, <1>2 DEF NothingLeftBehind, Writes
  <2>1. CASE x = r
    BY <1>12, <2>1
  <2>2. CASE x < r
    <3>1. Working(m) /\ ~RunOf(m).refresh /\ RunOf(m).scope = Scored /\ r = migrator[m].passed
      BY <1>1 DEF MovesRow, Writes, RunOf, SameRun
    <3>2. IsMoved(x)
      BY <2>2, <3>1 DEF AloneInv, NothingLeftBehind
    <3> QED BY <1>11, <3>2
  <2> QED BY <2>1, <2>2
<1>14. ForcedMovesNothing'
  <2> SUFFICES ASSUME NEW a \in DOMAIN runs', NEW j \in DOMAIN runs', a < j, Shuts(a)', Standing(j)',
                      ~runs'[j].refresh, NEW n \in runs'[j].notes
               PROVE  IsErased(n.row)
    BY <1>2 DEF ForcedMovesNothing
  <2>1. a \in DOMAIN runs /\ j \in DOMAIN runs /\ Shuts(a) /\ Standing(j) /\ ~runs[j].refresh
    BY <1>2
  <2>2. CASE n \in runs[j].notes
    BY <2>1, <2>2 DEF AloneInv, ForcedMovesNothing
  <2>3. CASE n \notin runs[j].notes
    <3>1. j = i /\ writes /\ n.row = r
      BY <1>2, <2>1, <2>3
    <3>2. r \in Movable /\ (r \in Analyses => author[r] # "edited") /\ after[r] = NoScore
      BY <3>1 DEF MovesRow
    <3>3. IsMoved(r)
      BY <2>1, <3>2, GateIs, HonestIs DEF AloneInv
    <3>4. r \in Analyses \/ r \in Graded
      BY <1>1 DEF Scored
    <3>5. author \in [Analyses -> {"as analysed", "edited", "erased"}]
      BY DEF TablesFit, MigrationTables
    <3>6. ASSUME ~ IsErased(r) PROVE FALSE
      <4>1. before[r]
        BY <1>3, <3>6
      <4>2. r \in Analyses
        BY <3>3, <3>4, <4>1 DEF IsMoved
      <4>3. author[r] = "as analysed"
        BY <3>2, <3>5, <3>6, <4>2 DEF IsErased
      <4> QED BY <3>2, <3>3, <4>1, <4>2, <4>3 DEF IsMoved
    <3> QED BY <3>1, <3>6
  <2> QED BY <2>2, <2>3
<1>15. GateIsHonest'
  <2>1. GateShut' => GateShut
    BY <1>2, GateIs, GateIsPrimed
  <2> QED BY <1>11, <2>1, HonestIs, HonestIsPrimed DEF AloneInv
<1>16. (lost \subseteq storedOver)'
  <2>1. \A k \in lost' : k \in lost
    BY <1>1, <1>5 DEF Writes
  <2> QED BY <1>1, <2>1 DEF AloneInv, Writes
<1> QED
  BY <1>2, <1>8, <1>9, <1>10, <1>13, <1>14, <1>15, <1>16 DEF AloneInv

(* A row is refreshed: what the page held, at another dial, unless it is gone. *)
RefreshesRow(m, i, r, writes, was, score) ==
    /\ Writes(m, i, r, writes, was, score) /\ writes /\ runs[i].refresh /\ UNCHANGED before
    /\ was = migrator[m].was /\ was # NoScore
    /\ score = NoScore <=> after[r] = NoScore
    /\ score # NoScore => score.by = was.by

LEMMA RefreshKeepsAlone ==
  ASSUME TablesFit, AloneInv, NEW m \in Migrators, NEW i, NEW r, NEW writes \in BOOLEAN,
         NEW was, NEW score, RefreshesRow(m, i, r, writes, was, score), ~overlapped
  PROVE  AloneInv'
<1>1. Writes(m, i, r, writes, was, score)
  BY DEF RefreshesRow
<1>2. Writes(m, i, r, writes, was, score) /\ writes /\ i \in DOMAIN runs /\ r \in Scored /\ runs[i].refresh
  BY DEF RefreshesRow, Writes
<1>3. /\ i = Len(runs) /\ Standing(i) /\ i \in Nat
      /\ \A o \in Migrators : ~ Writing(o)' /\ (o # m => ~ Working(o)')
      /\ \A x : IsErased(x)' <=> IsErased(x)
      /\ \A j \in DOMAIN runs : /\ j \in DOMAIN runs' /\ j \in Nat /\ j <= i
                                /\ (Standing(j)' <=> Standing(j)) /\ (Shuts(j)' <=> Shuts(j))
                                /\ runs'[j].refresh = runs[j].refresh
                                /\ \A n \in runs'[j].notes :
                                     n \in runs[j].notes
                                     \/ (j = i /\ writes /\ n.row = r /\ n.was = was)
      /\ DOMAIN runs' = DOMAIN runs
      /\ OneProcess' /\ HeldAsRead'
  BY <1>1, WriteLeaves
<1>4. /\ after[r] = NoScore => IsErased(r)
      /\ after[r] = was \/ after[r] = NoScore \/ r \in storedOver
  BY <1>2 DEF RefreshesRow, Writes, AloneInv, HeldAsRead, RunOf
<1>5. \A x \in Scored : x # r => after'[x] = after[x]
  BY <1>2 DEF Writes
<1>6. /\ after'[r] = NoScore <=> after[r] = NoScore
      /\ after'[r] # NoScore => after'[r].by = was.by
      /\ before' = before /\ storedOver' = storedOver /\ author' = author
  BY <1>2 DEF RefreshesRow, Writes
<1>7. \A x \in Scored : after'[x] = NoScore <=> after[x] = NoScore
  BY <1>5, <1>6
<1>8. OneVersion'
  <2>1. \A a \in Graded : a \in Scored
    BY RowsAreNumbers
  <2> QED BY <1>6, <1>7, <2>1 DEF AloneInv, OneVersion
<1>9. WrittenIsThere'
  <2> SUFFICES ASSUME NEW j \in DOMAIN runs', Standing(j)', NEW n \in runs'[j].notes
               PROVE  /\ after'[n.row] = NoScore => IsErased(n.row)'
                      /\ n.row \notin storedOver' /\ after'[n.row] # NoScore =>
                          after'[n.row].by = (IF runs'[j].refresh THEN n.was.by ELSE "moved")
    BY DEF WrittenIsThere
  <2>1. j \in DOMAIN runs /\ Standing(j) /\ runs'[j].refresh = runs[j].refresh
    BY <1>3
  <2>2. CASE n \in runs[j].notes
    <3>1. n.row \in Scored
      BY <2>1, <2>2, RunsAreRows DEF TablesFit
    <3>2. /\ after[n.row] = NoScore => IsErased(n.row)
          /\ n.row \notin storedOver /\ after[n.row] # NoScore =>
              after[n.row].by = (IF runs[j].refresh THEN n.was.by ELSE "moved")
      BY <2>1, <2>2 DEF AloneInv, WrittenIsThere
    <3>3. CASE n.row # r
      BY <1>3, <1>5, <1>6, <2>1, <3>1, <3>2, <3>3
    <3>4. CASE n.row = r
      <4>1. after'[r] = NoScore => IsErased(r)'
        BY <1>3, <1>4, <1>6
      <4>2. ASSUME r \notin storedOver', after'[r] # NoScore
            PROVE  after'[r].by = after[r].by /\ after[r] # NoScore /\ r \notin storedOver
        BY <1>4, <1>6, <4>2
      <4> QED BY <2>1, <3>2, <3>4, <4>1, <4>2
    <3> QED BY <3>3, <3>4
  <2>3. CASE n \notin runs[j].notes
    <3>1. j = i /\ n.row = r /\ n.was = was
      BY <1>3, <2>1, <2>3
    <3> QED BY <1>2, <1>3, <1>4, <1>6, <2>1, <3>1
  <2> QED BY <2>2, <2>3
<1>10. MovedFirst'
  <2> SUFFICES ASSUME NEW a \in DOMAIN runs', Standing(a)', ~runs'[a].refresh, NEW n \in runs'[a].notes
               PROVE  /\ n.was = NoScore
                      /\ \A j \in DOMAIN runs' : j < a /\ Standing(j)' => ~ NotedIn(j, n.row)'
    BY DEF MovedFirst
  <2>1. a \in DOMAIN runs /\ Standing(a) /\ ~runs[a].refresh /\ a \in Nat /\ a <= i
    BY <1>3
  <2>2. n \in runs[a].notes
    BY <1>2, <1>3, <2>1
  <2>3. n.was = NoScore /\ \A j \in DOMAIN runs : j < a /\ Standing(j) => ~ NotedIn(j, n.row)
    BY <2>1, <2>2 DEF AloneInv, MovedFirst
  <2>4. ASSUME NEW j \in DOMAIN runs', j < a, Standing(j)' PROVE NotedIn(j, n.row)' => NotedIn(j, n.row)
    <3>1. j \in DOMAIN runs /\ j \in Nat
      BY <1>3
    <3>2. j # i
      BY <1>3, <2>1, <2>4, <3>1
    <3> QED BY <1>3, <3>1, <3>2 DEF NotedIn
  <2> QED BY <1>3, <2>3, <2>4
<1>11. NothingLeftBehind'
  <2>1. RunOf(m)'.refresh
    BY <1>2, <1>3 DEF Writes, RunOf
  <2> QED BY <1>3, <2>1 DEF NothingLeftBehind
<1>12. ForcedMovesNothing'
  <2> SUFFICES ASSUME NEW a \in DOMAIN runs', NEW j \in DOMAIN runs', a < j, Shuts(a)', Standing(j)',
                      ~runs'[j].refresh, NEW n \in runs'[j].notes
               PROVE  IsErased(n.row)
    BY <1>3 DEF ForcedMovesNothing
  <2>1. a \in DOMAIN runs /\ j \in DOMAIN runs /\ Shuts(a) /\ Standing(j) /\ ~runs[j].refresh
    BY <1>3
  <2>2. n \in runs[j].notes
    BY <1>2, <1>3, <2>1
  <2> QED BY <2>1, <2>2 DEF AloneInv, ForcedMovesNothing
<1>13. GateIsHonest'
  <2>1. GateShut' => GateShut
    BY <1>3, GateIs, GateIsPrimed
  <2>2. ASSUME NEW x \in Movable, IsMoved(x) PROVE IsMoved(x)'
    <3>1. x \in Scored
      BY RowsAreNumbers
    <3> QED BY <1>6, <1>7, <2>2, <3>1 DEF IsMoved
  <2> QED BY <2>1, <2>2, HonestIs, HonestIsPrimed DEF AloneInv
<1>14. (lost \subseteq storedOver)'
  <2> SUFFICES ASSUME NEW k \in lost', k \notin lost PROVE k \in storedOver
    BY <1>6 DEF AloneInv
  <2>1. k = r /\ after[r] # NoScore /\ after[r].by = "judged" /\ score.by # "judged"
    BY <1>2 DEF Writes
  <2>2. after[r] # was
    BY <2>1 DEF RefreshesRow
  <2> QED BY <1>4, <2>1, <2>2
<1> QED
  BY <1>3, <1>8, <1>9, <1>10, <1>11, <1>12, <1>13, <1>14 DEF AloneInv

LEMMA EraseKeepsAlone ==
  ASSUME TablesFit, AloneInv, NEW k \in Analyses, Erases(k), ~overlapped
  PROVE  AloneInv'
<1>1. k \in Scored /\ k \notin Graded
  BY RowsAreNumbers
<1>2. /\ \A j \in DOMAIN runs : /\ j \in DOMAIN runs' /\ (Standing(j)' <=> Standing(j)) /\ (Shuts(j)' <=> Shuts(j))
                                /\ runs'[j].refresh = runs[j].refresh /\ runs'[j].scope = runs[j].scope
                                /\ \A n \in runs'[j].notes : n \in runs[j].notes /\ n.row # k
      /\ DOMAIN runs' = DOMAIN runs /\ Len(runs') = Len(runs)
  BY DEF Erases, SameRuns, SameRun, Standing, Shuts
<1>3. /\ IsErased(k)' /\ before'[k] = FALSE /\ after'[k] = NoScore
      /\ \A x \in Scored : x # k => before'[x] = before[x] /\ after'[x] = after[x]
      /\ \A x : IsErased(x) => IsErased(x)'
      /\ \A x : x # k => (IsErased(x)' <=> IsErased(x))
      /\ UNCHANGED <<migrator, storedOver, lost>>
  BY DEF Erases, IsErased
<1>4. ASSUME NEW x \in Scored, IsMoved(x) PROVE IsMoved(x)'
  <2>1. CASE x = k
    BY <1>1, <1>3, <2>1 DEF IsMoved
  <2>2. CASE x # k
    <3>1. x \in Analyses => author'[x] = author[x]
      BY <2>2 DEF Erases
    <3> QED BY <1>3, <1>4, <2>2, <3>1 DEF IsMoved
  <2> QED BY <2>1, <2>2
<1>5. ASSUME NEW m \in Migrators
      PROVE  /\ (Working(m)' <=> Working(m)) /\ (Writing(m)' <=> Writing(m))
             /\ Writing(m) => Working(m) /\ migrator[m].passed \in Scored
             /\ Working(m) => /\ migrator[m].run \in DOMAIN runs
                              /\ RunOf(m)'.refresh = RunOf(m).refresh /\ RunOf(m)'.scope = RunOf(m).scope
                              /\ \A n \in RunOf(m)'.notes : n \in RunOf(m).notes
  <2>1. (Working(m)' <=> Working(m)) /\ (Writing(m)' <=> Writing(m))
    BY <1>3 DEF Working, Writing
  <2>2. Writing(m) => Working(m) /\ migrator[m].passed \in Scored
    BY ProcessesAre DEF TablesFit
  <2>3. Working(m) => migrator[m].run \in DOMAIN runs
    BY DEF TablesFit, PagesFit
  <2> QED BY <1>2, <1>3, <2>1, <2>2, <2>3 DEF RunOf
<1>6. OneProcess'
  <2>1. ASSUME NEW m \in Migrators, Working(m) PROVE Standing(Len(runs))'
    BY <1>2, <1>5, <2>1 DEF AloneInv, OneProcess
  <2> QED BY <1>2, <1>3, <1>5, <2>1 DEF AloneInv, OneProcess
<1>7. HeldAsRead'
  <2> SUFFICES ASSUME NEW m \in Migrators, Writing(m), NEW r, r = migrator[m].passed
               PROVE  IF RunOf(m)'.refresh
                      THEN /\ after'[r] = NoScore => IsErased(r)'
                           /\ after'[r] = migrator'[m].was \/ (after'[r] = NoScore /\ r \in inHand') \/ r \in storedOver'
                      ELSE /\ ~ IsErased(r)' => before'[r]
                           /\ r \in Graded => migrator'[m].was = after'[r]
                           /\ IsErased(r)' => after'[r] = NoScore /\ \A i \in DOMAIN runs' : ~ NotedIn(i, r)'
    BY <1>3, <1>5 DEF HeldAsRead
  <2>1. CASE r = k
    <3>1. k \in inHand'
      BY <2>1 DEF Erases
    <3>2. \A i \in DOMAIN runs' : ~ NotedIn(i, k)'
      BY <1>2 DEF NotedIn
    <3> QED BY <1>1, <1>3, <2>1, <3>1, <3>2
  <2>2. CASE r # k
    <3>1. inHand \subseteq inHand'
      BY DEF Erases
    <3>2. \A i \in DOMAIN runs' : NotedIn(i, r)' => i \in DOMAIN runs /\ NotedIn(i, r)
      BY <1>2 DEF NotedIn
    <3>3. after'[r] = after[r] /\ before'[r] = before[r] /\ (IsErased(r)' <=> IsErased(r))
      BY <1>3, <1>5, <2>2
    <3>4. RunOf(m)'.refresh = RunOf(m).refresh /\ migrator' = migrator /\ storedOver' = storedOver
      BY <1>3, <1>5
    <3>5. IF RunOf(m).refresh
          THEN /\ after[r] = NoScore => IsErased(r)
               /\ after[r] = migrator[m].was \/ (after[r] = NoScore /\ r \in inHand) \/ r \in storedOver
          ELSE /\ ~ IsErased(r) => before[r]
               /\ r \in Graded => migrator[m].was = after[r]
               /\ IsErased(r) => after[r] = NoScore /\ \A i \in DOMAIN runs : ~ NotedIn(i, r)
      BY DEF AloneInv, HeldAsRead
    <3> QED BY <3>1, <3>2, <3>3, <3>4, <3>5
  <2> QED BY <2>1, <2>2
<1>8. OneVersion'
  <2>1. \A a \in Graded : a \in Scored /\ a # k
    BY <1>1, RowsAreNumbers
  <2> QED BY <1>3, <2>1 DEF AloneInv, OneVersion
<1>9. WrittenIsThere'
  <2> SUFFICES ASSUME NEW j \in DOMAIN runs', Standing(j)', NEW n \in runs'[j].notes
               PROVE  /\ after'[n.row] = NoScore => IsErased(n.row)'
                      /\ n.row \notin storedOver' /\ after'[n.row] # NoScore =>
                          after'[n.row].by = (IF runs'[j].refresh THEN n.was.by ELSE "moved")
    BY DEF WrittenIsThere
  <2>1. j \in DOMAIN runs /\ Standing(j) /\ n \in runs[j].notes /\ n.row # k /\ runs'[j].refresh = runs[j].refresh
    BY <1>2
  <2>2. n.row \in Scored
    BY <2>1, RunsAreRows DEF TablesFit
  <2>3. after'[n.row] = after[n.row]
    BY <1>3, <2>1, <2>2
  <2>4. /\ after[n.row] = NoScore => IsErased(n.row)
        /\ n.row \notin storedOver /\ after[n.row] # NoScore =>
            after[n.row].by = (IF runs[j].refresh THEN n.was.by ELSE "moved")
    BY <2>1 DEF AloneInv, WrittenIsThere
  <2> QED BY <1>3, <2>1, <2>3, <2>4
<1>10. MovedFirst'
  <2>1. \A j \in DOMAIN runs : \A x : NotedIn(j, x)' => NotedIn(j, x)
    BY <1>2 DEF NotedIn
  <2> QED BY <1>2, <2>1 DEF AloneInv, MovedFirst
<1>11. NothingLeftBehind'
  <2> SUFFICES ASSUME NEW m \in Migrators, Working(m), ~RunOf(m).refresh, RunOf(m).scope = Scored,
                      NEW r \in Movable, r < migrator[m].passed \/ (r = migrator[m].passed /\ ~Writing(m))
               PROVE  IsMoved(r)'
    BY <1>3, <1>5 DEF NothingLeftBehind
  <2>1. IsMoved(r) /\ r \in Scored
    BY RowsAreNumbers DEF AloneInv, NothingLeftBehind
  <2> QED BY <1>4, <2>1
<1>12. ForcedMovesNothing'
  BY <1>2, <1>3 DEF AloneInv, ForcedMovesNothing
<1>13. GateIsHonest'
  <2>1. GateShut' => GateShut
    BY <1>2, GateIs, GateIsPrimed
  <2>2. \A r \in Movable : r \in Scored
    BY RowsAreNumbers
  <2> QED BY <1>4, <2>1, <2>2, HonestIs, HonestIsPrimed DEF AloneInv
<1>14. (lost \subseteq storedOver)'
  BY <1>3 DEF AloneInv
<1> QED
  BY <1>6, <1>7, <1>8, <1>9, <1>10, <1>11, <1>12, <1>13, <1>14 DEF AloneInv

(* The server writes over nothing but what the search has been told of. *)
ServerGoesOn(k) ==
    /\ UNCHANGED <<before, runs, migrator, lost, overlapped, pruned, inHand>>
    /\ \A x : IsErased(x)' <=> IsErased(x)
    /\ \A x \in Analyses : author'[x] = "as analysed" => author[x] = "as analysed"
    /\ \A x \in Scored : x # k => after'[x] = after[x]
    /\ storedOver \subseteq storedOver' /\ storedOver' \subseteq storedOver \union {k}
    /\ after'[k] = after[k]
       \/ /\ ~ IsErased(k) /\ after'[k] = NewScore("judged", dial)
          /\ after'[k] # NoScore /\ Original(after'[k])
          /\ after[k] # NoScore => k \in storedOver'

LEMMA ServerIs ==
  ASSUME TablesFit, NEW k \in Analyses, StoreJudgement(k) \/ EditCandidate(k)
  PROVE  ServerGoesOn(k)
<1>1. /\ after \in [Scored -> ScoreRow \union {NoScore}] /\ dial \in Dials
      /\ author \in [Analyses -> {"as analysed", "edited", "erased"}]
  BY DEF TablesFit, MigrationTables
<1>2. CASE EditCandidate(k)
  <2>1. /\ author[k] = "as analysed" /\ author' = [author EXCEPT ![k] = "edited"]
        /\ UNCHANGED <<before, asked, after, runs, migrator, storedOver, lost, overlapped, pruned, inHand>>
    BY <1>2 DEF EditCandidate, scoreHistory
  <2> QED BY <1>1, <2>1 DEF ServerGoesOn, IsErased
<1>3. CASE StoreJudgement(k)
  <2>1. /\ UNCHANGED <<before, author, runs, migrator, lost, overlapped, pruned, inHand>>
        /\ IF author[k] = "edited" THEN UNCHANGED <<after, storedOver>>
           ELSE /\ after' = [after EXCEPT ![k] = NewScore("judged", dial)]
                /\ storedOver' = IF after[k] = NoScore THEN storedOver ELSE storedOver \union {k}
    BY <1>3 DEF StoreJudgement
  <2>2. ~ IsErased(k) /\ k \in Scored
    BY <1>3, RowsAreNumbers DEF StoreJudgement, TablesFit, RowsFit
  <2>3. \A x : IsErased(x)' <=> IsErased(x)
    BY <2>1 DEF IsErased
  <2>4. CASE author[k] = "edited"
    BY <2>1, <2>3, <2>4 DEF ServerGoesOn
  <2>5. CASE author[k] # "edited"
    <3>1. after'[k] = NewScore("judged", dial) /\ \A x \in Scored : x # k => after'[x] = after[x]
      BY <1>1, <2>1, <2>2, <2>5
    <3>2. NewScore("judged", dial) \in ScoreRow /\ Original(NewScore("judged", dial))
      BY <1>1 DEF NewScore, ScoreRow, Original
    <3>3. NewScore("judged", dial) # NoScore
      BY <3>2, RowsAreNumbers
    <3>4. /\ storedOver \subseteq storedOver' /\ storedOver' \subseteq storedOver \union {k}
          /\ after[k] # NoScore => k \in storedOver'
      BY <2>1, <2>5
    <3> QED BY <2>1, <2>2, <2>3, <3>1, <3>2, <3>3, <3>4 DEF ServerGoesOn
  <2> QED BY <2>4, <2>5
<1> QED
  BY <1>2, <1>3

LEMMA ServerKeepsAlone ==
  ASSUME TablesFit, AloneInv, NEW k \in Analyses, ServerGoesOn(k), ~overlapped
  PROVE  AloneInv'
<1>1. k \in Scored /\ k \notin Graded
  BY RowsAreNumbers
<1>2. /\ UNCHANGED <<before, runs, migrator, lost, inHand>> /\ storedOver \subseteq storedOver'
      /\ \A x : IsErased(x)' <=> IsErased(x)
      /\ \A x \in Scored : x # k => after'[x] = after[x]
  BY DEF ServerGoesOn
<1>3. \A x \in Scored : after'[x] = NoScore => after[x] = NoScore
  BY <1>1, <1>2 DEF ServerGoesOn
<1>4. ASSUME NEW x \in Scored, IsMoved(x) PROVE IsMoved(x)'
  <2>1. x \in Analyses /\ author'[x] = "as analysed" => author[x] = "as analysed"
    BY DEF ServerGoesOn
  <2> QED BY <1>2, <1>3, <1>4, <2>1 DEF IsMoved
<1>5. \A m \in Migrators : /\ (Working(m)' <=> Working(m)) /\ (Writing(m)' <=> Writing(m))
                           /\ RunOf(m)' = RunOf(m)
  BY <1>2 DEF Working, Writing, RunOf
<1>6. \A i : /\ (Standing(i)' <=> Standing(i)) /\ (Shuts(i)' <=> Shuts(i))
             /\ \A x : NotedIn(i, x)' <=> NotedIn(i, x)
  BY <1>2 DEF Standing, Shuts, NotedIn
<1>7. OneProcess'
  BY <1>2, <1>5, <1>6 DEF AloneInv, OneProcess
<1>8. HeldAsRead'
  <2> SUFFICES ASSUME NEW m \in Migrators, Writing(m), NEW r, r = migrator[m].passed
               PROVE  IF RunOf(m).refresh
                      THEN /\ after'[r] = NoScore => IsErased(r)
                           /\ after'[r] = migrator[m].was \/ (after'[r] = NoScore /\ r \in inHand) \/ r \in storedOver'
                      ELSE /\ ~ IsErased(r) => before[r]
                           /\ r \in Graded => migrator[m].was = after'[r]
                           /\ IsErased(r) => after'[r] = NoScore /\ \A i \in DOMAIN runs : ~ NotedIn(i, r)
    <3>1. /\ migrator' = migrator /\ runs' = runs /\ before' = before /\ inHand' = inHand
          /\ \A x : IsErased(x)' <=> IsErased(x)
      BY <1>2
    <3>2. \A m \in Migrators : (Writing(m)' <=> Writing(m)) /\ RunOf(m)' = RunOf(m)
      BY <1>5
    <3>3. \A i \in DOMAIN runs : \A x : NotedIn(i, x)' <=> NotedIn(i, x)
      BY <1>6
    <3> QED BY <3>1, <3>2, <3>3 DEF HeldAsRead
  <2>1. IF RunOf(m).refresh
        THEN /\ after[r] = NoScore => IsErased(r)
             /\ after[r] = migrator[m].was \/ (after[r] = NoScore /\ r \in inHand) \/ r \in storedOver
        ELSE /\ ~ IsErased(r) => before[r]
             /\ r \in Graded => migrator[m].was = after[r]
             /\ IsErased(r) => after[r] = NoScore /\ \A i \in DOMAIN runs : ~ NotedIn(i, r)
    BY DEF AloneInv, HeldAsRead
  <2>2. r \in Scored
    BY ProcessesAre DEF TablesFit
  <2>3. CASE after'[r] = after[r]
    BY <1>2, <2>1, <2>3
  <2>4. CASE after'[r] # after[r]
    <3>1. r = k /\ ~ IsErased(r) /\ after'[r] # NoScore /\ (after[r] # NoScore => r \in storedOver')
      BY <1>2, <2>2, <2>4 DEF ServerGoesOn
    <3> QED BY <1>1, <2>1, <3>1
  <2> QED BY <2>3, <2>4
<1>9. OneVersion'
  <2>1. \A a \in Graded : a \in Scored /\ a # k
    BY <1>1, RowsAreNumbers
  <2> QED BY <1>2, <2>1 DEF AloneInv, OneVersion
<1>10. WrittenIsThere'
  <2> SUFFICES ASSUME NEW j \in DOMAIN runs, Standing(j), NEW n \in runs[j].notes
               PROVE  /\ after'[n.row] = NoScore => IsErased(n.row)
                      /\ n.row \notin storedOver' /\ after'[n.row] # NoScore =>
                          after'[n.row].by = (IF runs[j].refresh THEN n.was.by ELSE "moved")
    BY <1>2, <1>6 DEF WrittenIsThere
  <2>1. n.row \in Scored
    BY RunsAreRows DEF TablesFit
  <2>2. /\ after[n.row] = NoScore => IsErased(n.row)
        /\ n.row \notin storedOver /\ after[n.row] # NoScore =>
            after[n.row].by = (IF runs[j].refresh THEN n.was.by ELSE "moved")
    BY DEF AloneInv, WrittenIsThere
  <2>3. CASE after'[n.row] = after[n.row]
    BY <1>2, <2>2, <2>3
  <2>4. CASE after'[n.row] # after[n.row]
    <3>1. n.row = k /\ ~ IsErased(k) /\ after'[k] # NoScore /\ (after[k] # NoScore => k \in storedOver')
      BY <1>2, <2>1, <2>4 DEF ServerGoesOn
    <3> QED BY <2>2, <3>1
  <2> QED BY <2>3, <2>4
<1>11. MovedFirst' /\ ForcedMovesNothing'
  BY <1>2, <1>6 DEF AloneInv, MovedFirst, ForcedMovesNothing
<1>12. NothingLeftBehind'
  <2> SUFFICES ASSUME NEW m \in Migrators, Working(m), ~RunOf(m).refresh, RunOf(m).scope = Scored,
                      NEW r \in Movable, r < migrator[m].passed \/ (r = migrator[m].passed /\ ~Writing(m))
               PROVE  IsMoved(r)'
    BY <1>2, <1>5 DEF NothingLeftBehind
  <2>1. IsMoved(r) /\ r \in Scored
    BY RowsAreNumbers DEF AloneInv, NothingLeftBehind
  <2> QED BY <1>4, <2>1
<1>13. GateIsHonest'
  <2>1. GateShut' => GateShut
    BY <1>2, <1>6, GateIs, GateIsPrimed
  <2>2. \A r \in Movable : r \in Scored
    BY RowsAreNumbers
  <2> QED BY <1>4, <2>1, <2>2, HonestIs, HonestIsPrimed DEF AloneInv
<1>14. (lost \subseteq storedOver)'
  BY <1>2 DEF AloneInv
<1> QED
  BY <1>7, <1>8, <1>9, <1>10, <1>11, <1>12, <1>13, <1>14 DEF AloneInv

LEMMA UndoKeepsAlone ==
  ASSUME TablesFit, AloneInv, NEW i, NEW was, Undoes(i, was), ~overlapped'
  PROVE  AloneInv'
<1>1. /\ i \in DOMAIN runs /\ Standing(i) /\ i \in Nat /\ ~ overlapped
      /\ \A j \in DOMAIN runs : j \in Nat /\ (Standing(j) => j <= i)
      /\ \A m \in Migrators : ~ Working(m)
      /\ UNCHANGED <<migrator, author, storedOver, inHand>>
  <2>1. \A j \in DOMAIN runs : j \in Nat
    BY RunsAreRows DEF TablesFit
  <2> QED BY <2>1 DEF Undoes
<1>2. \A m \in Migrators : ~ Working(m)' /\ ~ Writing(m)'
  BY <1>1 DEF Working, Writing, Unstarted
<1>3. /\ DOMAIN runs' = DOMAIN runs
      /\ \A j \in DOMAIN runs : /\ (Standing(j)' => Standing(j) /\ j # i /\ j < i)
                                /\ (Shuts(j)' => Shuts(j) /\ j # i)
                                /\ runs'[j].refresh = runs[j].refresh /\ runs'[j].notes = runs[j].notes
                                /\ \A x : NotedIn(j, x)' <=> NotedIn(j, x)
  <2>1. \A j \in DOMAIN runs : Standing(j)' => Standing(j) /\ j # i
    BY DEF Undoes, SameRuns, Standing
  <2>2. \A j \in DOMAIN runs : Shuts(j)' => Shuts(j) /\ j # i
    BY DEF Undoes, SameRuns, Standing, Shuts
  <2>3. \A j \in DOMAIN runs : Standing(j) /\ j # i => j < i
    BY <1>1
  <2> QED BY <2>1, <2>2, <2>3 DEF Undoes, SameRuns, NotedIn
<1>4. \A x : IsErased(x)' <=> IsErased(x)
  BY <1>1 DEF IsErased
(* What is put back, of a run that moved and of one that refreshed. *)
<1>5. ASSUME NEW r \in Scored, NotedIn(i, r)
      PROVE  /\ after[r] = NoScore => IsErased(r)
             /\ ~runs[i].refresh => was[r] = NoScore /\ after'[r] = NoScore
             /\ runs[i].refresh => was[r] # NoScore
             /\ r \notin storedOver /\ after[r] # NoScore =>
                  after[r].by = (IF runs[i].refresh THEN was[r].by ELSE "moved")
  <2>1. PICK n \in runs[i].notes : n.row = r /\ n.was = was[r]
    BY <1>5 DEF Undoes
  <2>2. ~runs[i].refresh => n.was = NoScore
    BY <1>1 DEF AloneInv, MovedFirst
  <2>3. runs[i].refresh => n.was # NoScore
    BY <1>1 DEF TablesFit, NotesFit
  <2>4. /\ after[n.row] = NoScore => IsErased(n.row)
        /\ n.row \notin storedOver /\ after[n.row] # NoScore =>
            after[n.row].by = (IF runs[i].refresh THEN n.was.by ELSE "moved")
    BY <1>1 DEF AloneInv, WrittenIsThere
  <2>5. ~runs[i].refresh => after'[r] = was[r]
    BY <1>5 DEF Undoes
  <2> QED BY <2>1, <2>2, <2>3, <2>4, <2>5
<1>6. ASSUME NEW r \in Scored, runs[i].refresh \/ ~ NotedIn(i, r)
      PROVE  /\ after'[r] = NoScore <=> after[r] = NoScore
             /\ before'[r] <=> before[r]
  <2>1. before'[r] <=> before[r]
    BY <1>6 DEF Undoes
  <2>2. CASE ~ NotedIn(i, r)
    BY <2>1, <2>2 DEF Undoes
  <2>3. CASE NotedIn(i, r) /\ runs[i].refresh
    <3>1. was[r] # NoScore
      BY <1>5, <2>3
    <3>2. r \in Graded => after[r] # NoScore
      <4>1. ASSUME r \in Graded, after[r] = NoScore PROVE FALSE
        <5>1. IsErased(r)
          BY <1>5, <2>3, <4>1
        <5> QED BY <4>1, <5>1, RowsAreNumbers DEF IsErased
      <4> QED BY <4>1
    <3> QED BY <2>1, <2>3, <3>1, <3>2 DEF Undoes
  <2> QED BY <1>6, <2>2, <2>3
<1>7. OneVersion'
  <2> SUFFICES ASSUME NEW a \in Graded PROVE before'[a] <=> after'[a] = NoScore
    BY DEF OneVersion
  <2>1. a \in Scored /\ (before[a] <=> after[a] = NoScore)
    BY RowsAreNumbers DEF AloneInv, OneVersion
  <2>2. CASE runs[i].refresh \/ ~ NotedIn(i, a)
    BY <1>6, <2>1, <2>2
  <2>3. CASE ~runs[i].refresh /\ NotedIn(i, a)
    <3>1. after'[a] = NoScore
      BY <1>5, <2>1, <2>3
    <3>2. before'[a]
      BY <2>1, <2>3 DEF Undoes
    <3> QED BY <3>1, <3>2
  <2> QED BY <2>2, <2>3
<1>8. WrittenIsThere'
  <2> SUFFICES ASSUME NEW j \in DOMAIN runs, Standing(j)', NEW n \in runs[j].notes
               PROVE  /\ after'[n.row] = NoScore => IsErased(n.row)
                      /\ n.row \notin storedOver /\ after'[n.row] # NoScore =>
                          after'[n.row].by = (IF runs[j].refresh THEN n.was.by ELSE "moved")
    BY <1>1, <1>3, <1>4 DEF WrittenIsThere
  <2>1. Standing(j) /\ j < i /\ n.row \in Scored /\ NotedIn(j, n.row)
    BY <1>3, RunsAreRows DEF TablesFit, NotedIn
  <2>2. /\ after[n.row] = NoScore => IsErased(n.row)
        /\ n.row \notin storedOver /\ after[n.row] # NoScore =>
            after[n.row].by = (IF runs[j].refresh THEN n.was.by ELSE "moved")
    BY <2>1 DEF AloneInv, WrittenIsThere
  <2>3. CASE after'[n.row] = after[n.row]
    BY <2>2, <2>3
  <2>4. CASE after'[n.row] # after[n.row]
    <3>1. NotedIn(i, n.row) /\ after'[n.row] = was[n.row]
      BY <2>1, <2>4 DEF Undoes
    <3>2. runs[i].refresh
      <4>1. ASSUME ~runs[i].refresh PROVE FALSE
        <5>1. PICK o \in runs[i].notes : o.row = n.row
          BY <3>1 DEF NotedIn
        <5>2. ~ NotedIn(j, o.row)
          BY <1>1, <2>1, <4>1 DEF AloneInv, MovedFirst
        <5> QED BY <2>1, <5>1, <5>2
      <4> QED BY <4>1
    <3>3. /\ after'[n.row] # NoScore
          /\ after[n.row] # NoScore
          /\ n.row \notin storedOver => after[n.row].by = was[n.row].by
      <4>1. after'[n.row] # NoScore
        BY <1>5, <2>1, <3>1, <3>2
      <4>2. after[n.row] # NoScore
        BY <1>6, <2>1, <3>2, <4>1
      <4> QED BY <1>5, <2>1, <3>1, <3>2, <4>1, <4>2
    <3> QED BY <2>2, <3>1, <3>3
  <2> QED BY <2>3, <2>4
<1>9. MovedFirst'
  BY <1>3 DEF AloneInv, MovedFirst
<1>10. ForcedMovesNothing'
  BY <1>3, <1>4 DEF AloneInv, ForcedMovesNothing
<1>11. GateIsHonest'
  <2> SUFFICES ASSUME GateShut', NEW r \in Movable PROVE IsMoved(r)'
    BY HonestIsPrimed
  <2>1. PICK j \in DOMAIN runs : Shuts(j)'
    BY <1>3, GateIsPrimed
  <2>2. Shuts(j) /\ j # i /\ Standing(j) /\ j < i
    BY <1>1, <1>3, <2>1 DEF Shuts
  <2>3. IsMoved(r) /\ r \in Scored
    BY <1>1, <2>2, GateIs, HonestIs, RowsAreNumbers DEF AloneInv
  <2>4. CASE runs[i].refresh \/ ~ NotedIn(i, r)
    BY <1>1, <1>6, <2>3, <2>4 DEF IsMoved
  <2>5. CASE ~runs[i].refresh /\ NotedIn(i, r)
    <3>1. PICK n \in runs[i].notes : n.row = r
      BY <2>5 DEF NotedIn
    <3>2. IsErased(n.row)
      BY <1>1, <2>2, <2>5 DEF AloneInv, ForcedMovesNothing
    <3>3. IsErased(r) /\ r \notin Graded
      BY <3>1, <3>2, RowsAreNumbers DEF IsErased
    <3>4. author'[r] # "as analysed"
      BY <1>1, <3>3 DEF IsErased
    <3> QED BY <3>3, <3>4 DEF IsMoved
  <2> QED BY <2>4, <2>5
<1>12. (lost \subseteq storedOver)'
  <2> SUFFICES ASSUME NEW k \in lost', k \notin lost, k \notin storedOver PROVE FALSE
    BY <1>1 DEF AloneInv
  <2>1. /\ k \in Analyses /\ k \in Scored /\ after[k] # NoScore /\ after[k].by = "judged"
        /\ after'[k] = NoScore \/ after'[k].by = "moved"
    BY RowsAreNumbers DEF Undoes
  <2>2. after'[k] # after[k]
    BY <2>1
  <2>3. NotedIn(i, k) /\ after'[k] = was[k]
    BY <2>1, <2>2 DEF Undoes
  <2>4. after[k].by = (IF runs[i].refresh THEN was[k].by ELSE "moved")
    BY <1>5, <2>1, <2>3
  <2>5. runs[i].refresh /\ was[k].by = "judged" /\ was[k] # NoScore
    BY <1>5, <2>1, <2>3, <2>4
  <2> QED BY <2>1, <2>3, <2>5
<1>13. OneProcess' /\ HeldAsRead' /\ NothingLeftBehind'
  BY <1>2 DEF OneProcess, HeldAsRead, NothingLeftBehind
<1> QED
  BY <1>7, <1>8, <1>9, <1>10, <1>11, <1>12, <1>13 DEF AloneInv

-----------------------------------------------------------------------------
(* Where a value comes from. *)
Traced(r, v, i) == Original(v) \/ \E j \in DOMAIN runs : j < i /\ Standing(j) /\ NotedIn(j, r)

TracedRow(r) ==
    /\ Original(after[r]) \/ \E i \in DOMAIN runs : Standing(i) /\ NotedIn(i, r)
    /\ \A i \in DOMAIN runs : Standing(i) => \A n \in runs[i].notes : n.row = r => Traced(r, n.was, i)

LEMMA TracedIs == ValuesAreTraced <=> \A r \in Scored \ (inHand \union storedOver) : TracedRow(r)
BY DEF ValuesAreTraced, TracedRow, Traced

LEMMA TracedIsPrimed ==
  ValuesAreTraced' <=> \A r \in Scored \ (inHand' \union storedOver') : TracedRow(r)'
BY DEF ValuesAreTraced, TracedRow, Traced

(* Values are traced still where notes are as they were and no value but an original comes. *)
LEMMA SameNotesKeepTrace ==
  ASSUME TablesFit, NEW r \in Scored, TracedRow(r),
         \A i \in DOMAIN runs : i \in DOMAIN runs' /\ (Standing(i)' <=> Standing(i)),
         \A i \in DOMAIN runs' : \A n \in runs'[i].notes :
            n.row = r => i \in DOMAIN runs /\ n \in runs[i].notes,
         \A i \in DOMAIN runs : \A n \in runs[i].notes : n.row = r => n \in runs'[i].notes,
         Original(after[r]) => Original(after'[r]),
         after'[r] = after[r] \/ Original(after'[r])
  PROVE  TracedRow(r)'
<1>1. \A i \in DOMAIN runs : NotedIn(i, r) => NotedIn(i, r)'
  BY DEF NotedIn
<1>2. Original(after'[r]) \/ \E i \in DOMAIN runs' : Standing(i)' /\ NotedIn(i, r)'
  BY <1>1 DEF TracedRow
<1>3. ASSUME NEW i \in DOMAIN runs', Standing(i)', NEW n \in runs'[i].notes, n.row = r
      PROVE  Traced(r, n.was, i)'
  <2>1. i \in DOMAIN runs /\ Standing(i) /\ n \in runs[i].notes
    BY <1>3
  <2>2. Traced(r, n.was, i)
    BY <1>3, <2>1 DEF TracedRow
  <2> QED BY <1>1, <2>2 DEF Traced
<1> QED
  BY <1>2, <1>3 DEF TracedRow, Original

LEMMA QuietKeepsTrace ==
  ASSUME TablesFit, ValuesAreTraced, AsItWas, ~pruned'
  PROVE  ValuesAreTraced'
<1>1. \A i \in DOMAIN runs : /\ i \in DOMAIN runs' /\ (Standing(i)' <=> Standing(i))
                             /\ runs'[i].notes = runs[i].notes
  BY DEF AsItWas, SameRuns, SameRun, Standing
<1>2. DOMAIN runs' = DOMAIN runs /\ UNCHANGED <<after, storedOver, inHand>>
  BY DEF AsItWas, SameRuns
<1>3. ASSUME NEW r \in Scored, TracedRow(r) PROVE TracedRow(r)'
  BY <1>1, <1>2, <1>3, SameNotesKeepTrace
<1> QED
  BY <1>2, <1>3, TracedIs, TracedIsPrimed

LEMMA StartKeepsTrace ==
  ASSUME TablesFit, ValuesAreTraced, NEW m \in Migrators, NEW i, Starts(m, i)
  PROVE  ValuesAreTraced'
<1>1. /\ \A j \in DOMAIN runs : j \in DOMAIN runs' /\ (Standing(j)' <=> Standing(j)) /\ runs'[j].notes = runs[j].notes
      /\ \A j \in DOMAIN runs' : j \in DOMAIN runs \/ runs'[j].notes = {}
      /\ UNCHANGED <<after, storedOver, inHand>>
  BY DEF Starts, Standing
<1>2. ASSUME NEW r \in Scored, TracedRow(r) PROVE TracedRow(r)'
  BY <1>1, <1>2, SameNotesKeepTrace
<1> QED
  BY <1>1, <1>2, TracedIs, TracedIsPrimed

LEMMA ReadKeepsTrace ==
  ASSUME ValuesAreTraced, NEW m \in Migrators, NEW r, Reads(m, r)
  PROVE  ValuesAreTraced'
BY DEF Reads, ValuesAreTraced, Standing, NotedIn

LEMMA EraseKeepsTrace ==
  ASSUME TablesFit, ValuesAreTraced, NEW k \in Analyses, Erases(k)
  PROVE  ValuesAreTraced'
<1>1. /\ \A j \in DOMAIN runs : /\ j \in DOMAIN runs' /\ (Standing(j)' <=> Standing(j))
                                /\ runs'[j].notes = {n \in runs[j].notes : n.row # k}
      /\ DOMAIN runs' = DOMAIN runs
  BY DEF Erases, SameRuns, SameRun, Standing
<1>2. /\ after'[k] = NoScore /\ inHand \subseteq inHand' /\ storedOver' = storedOver
      /\ \A x \in Scored : x # k => after'[x] = after[x]
  BY DEF Erases
<1>3. ASSUME NEW r \in Scored, TracedRow(r) PROVE TracedRow(r)'
  <2>1. CASE r = k
    <3>1. \A j \in DOMAIN runs' : \A n \in runs'[j].notes : n.row # k
      BY <1>1
    <3> QED BY <1>2, <2>1, <3>1 DEF TracedRow, Original
  <2>2. CASE r # k
    BY <1>1, <1>2, <1>3, <2>2, SameNotesKeepTrace
  <2> QED BY <2>1, <2>2
<1> QED
  BY <1>2, <1>3, TracedIs, TracedIsPrimed

LEMMA ServerKeepsTrace ==
  ASSUME TablesFit, ValuesAreTraced, NEW k \in Analyses, ServerGoesOn(k)
  PROVE  ValuesAreTraced'
<1>1. /\ UNCHANGED <<runs, inHand>> /\ storedOver \subseteq storedOver'
      /\ \A x \in Scored : after'[x] = after[x] \/ Original(after'[x])
  BY DEF ServerGoesOn
<1>2. \A j \in DOMAIN runs : Standing(j)' <=> Standing(j)
  BY <1>1 DEF Standing
<1>3. ASSUME NEW r \in Scored, TracedRow(r) PROVE TracedRow(r)'
  BY <1>1, <1>2, <1>3, SameNotesKeepTrace
<1> QED
  BY <1>1, <1>3, TracedIs, TracedIsPrimed

(* A row that is written is noted by the run that writes it. *)
LEMMA WriteKeepsTrace ==
  ASSUME TablesFit, AloneInv, ValuesAreTraced, NEW m \in Migrators, NEW i, NEW r, NEW writes \in BOOLEAN,
         NEW was, NEW score, Writes(m, i, r, writes, was, score),
         writes => Original(was) \/ was = after[r] \/ r \in inHand \union storedOver
  PROVE  ValuesAreTraced'
<1>1. /\ i = Len(runs) /\ Standing(i) /\ i \in Nat
      /\ \A j \in DOMAIN runs : /\ j \in DOMAIN runs' /\ j \in Nat /\ j <= i
                                /\ (Standing(j)' <=> Standing(j))
                                /\ \A n \in runs'[j].notes :
                                     n \in runs[j].notes
                                     \/ (j = i /\ writes /\ n.row = r /\ n.was = was)
      /\ DOMAIN runs' = DOMAIN runs
      /\ \A n \in runs[i].notes : n.row # r
  BY WriteLeaves
<1>2. /\ \A j \in DOMAIN runs : \A n \in runs[j].notes : n \in runs'[j].notes
      /\ \A x \in Scored : x # r \/ ~writes => after'[x] = after[x]
      /\ UNCHANGED <<inHand, storedOver>> /\ i \in DOMAIN runs
  BY DEF Writes
<1>3. ASSUME NEW x \in Scored, TracedRow(x), x # r \/ ~writes PROVE TracedRow(x)'
  BY <1>1, <1>2, <1>3, SameNotesKeepTrace
<1>4. ASSUME r \in Scored \ (inHand \union storedOver), TracedRow(r), writes PROVE TracedRow(r)'
  <2>1. NotedIn(i, r)'
    <3>1. [row |-> r, was |-> was] \in runs'[i].notes
      BY <1>4 DEF Writes
    <3> QED BY <3>1 DEF NotedIn
  <2>2. \A j \in DOMAIN runs : NotedIn(j, r) => NotedIn(j, r)'
    BY <1>2 DEF NotedIn
  <2>3. ASSUME NEW a \in DOMAIN runs', Standing(a)', NEW n \in runs'[a].notes, n.row = r
        PROVE  Traced(r, n.was, a)'
    <3>1. CASE n \in runs[a].notes
      <4>1. Traced(r, n.was, a)
        BY <1>1, <1>4, <2>3, <3>1 DEF TracedRow
      <4> QED BY <1>1, <2>2, <4>1 DEF Traced
    <3>2. CASE n \notin runs[a].notes
      <4>1. a = i /\ n.was = was
        BY <1>1, <2>3, <3>2
      <4>2. CASE Original(was)
        BY <4>1, <4>2 DEF Traced
      <4>3. CASE ~ Original(was)
        <5>1. was = after[r]
          BY <1>4, <4>3
        <5>2. PICK j \in DOMAIN runs : Standing(j) /\ NotedIn(j, r)
          BY <1>4, <4>3, <5>1 DEF TracedRow
        <5>3. j # i
          BY <1>1, <5>2 DEF NotedIn
        <5>4. j < i
          BY <1>1, <5>3
        <5> QED BY <1>1, <2>2, <4>1, <5>2, <5>4 DEF Traced
      <4> QED BY <4>2, <4>3
    <3> QED BY <3>1, <3>2
  <2> QED BY <1>1, <1>2, <2>1, <2>3 DEF TracedRow
<1> QED
  BY <1>2, <1>3, <1>4, TracedIs, TracedIsPrimed

LEMMA UndoKeepsTrace ==
  ASSUME TablesFit, ValuesAreTraced, NEW i, NEW was, Undoes(i, was)
  PROVE  ValuesAreTraced'
<1>1. /\ i \in DOMAIN runs /\ Standing(i) /\ i \in Nat
      /\ \A j \in DOMAIN runs : j \in Nat /\ (Standing(j) => j <= i)
      /\ UNCHANGED <<storedOver, inHand>>
  <2>1. \A j \in DOMAIN runs : j \in Nat
    BY RunsAreRows DEF TablesFit
  <2> QED BY <2>1 DEF Undoes
<1>2. /\ DOMAIN runs' = DOMAIN runs
      /\ \A j \in DOMAIN runs : /\ (Standing(j)' <=> Standing(j) /\ j # i)
                                /\ runs'[j].notes = runs[j].notes
                                /\ \A x : NotedIn(j, x)' <=> NotedIn(j, x)
  BY DEF Undoes, SameRuns, Standing, NotedIn
<1>3. ASSUME NEW r \in Scored, TracedRow(r) PROVE TracedRow(r)'
  <2>1. ASSUME NEW v, NEW a \in DOMAIN runs, a <= i, Traced(r, v, a) PROVE Traced(r, v, a)'
    <3>1. CASE Original(v)
      BY <3>1 DEF Traced
    <3>2. CASE ~ Original(v)
      <4>1. PICK j \in DOMAIN runs : j < a /\ Standing(j) /\ NotedIn(j, r)
        BY <2>1, <3>2 DEF Traced
      <4>2. j # i
        BY <1>1, <2>1, <4>1
      <4> QED BY <1>2, <4>1, <4>2 DEF Traced
    <3> QED BY <3>1, <3>2
  <2>2. Original(after'[r]) \/ \E j \in DOMAIN runs' : Standing(j)' /\ NotedIn(j, r)'
    <3>1. CASE NotedIn(i, r) /\ after'[r] = was[r]
      <4>1. PICK n \in runs[i].notes : n.row = r /\ n.was = was[r]
        BY <3>1 DEF Undoes
      <4>2. Traced(r, was[r], i)'
        <5>1. Traced(r, was[r], i)
          BY <1>1, <1>3, <4>1 DEF TracedRow
        <5> QED BY <1>1, <2>1, <5>1
      <4> QED BY <3>1, <4>2 DEF Traced
    <3>2. CASE ~ (NotedIn(i, r) /\ after'[r] = was[r])
      <4>1. after'[r] = after[r]
        BY <3>2 DEF Undoes
      <4>2. CASE Original(after[r])
        BY <4>1, <4>2
      <4>3. CASE ~ Original(after[r])
        <5>1. PICK j \in DOMAIN runs : Standing(j) /\ NotedIn(j, r)
          BY <1>3, <4>3 DEF TracedRow
        <5>2. j # i
          <6>1. CASE NotedIn(i, r)
            <7>1. after[r] = NoScore
              BY <3>2, <6>1 DEF Undoes
            <7> QED BY <4>3, <7>1 DEF Original
          <6>2. CASE ~ NotedIn(i, r)
            BY <5>1, <6>2
          <6> QED BY <6>1, <6>2
        <5> QED BY <1>2, <5>1, <5>2
      <4> QED BY <4>2, <4>3
    <3> QED BY <3>1, <3>2
  <2>3. ASSUME NEW a \in DOMAIN runs', Standing(a)', NEW n \in runs'[a].notes, n.row = r
        PROVE  Traced(r, n.was, a)'
    <3>1. a \in DOMAIN runs /\ Standing(a) /\ n \in runs[a].notes /\ a <= i
      BY <1>1, <1>2, <2>3
    <3>2. Traced(r, n.was, a)
      BY <1>3, <2>3, <3>1 DEF TracedRow
    <3> QED BY <2>1, <3>1, <3>2
  <2> QED BY <2>2, <2>3 DEF TracedRow, Original
<1> QED
  BY <1>1, <1>3, TracedIs, TracedIsPrimed

(* What a page may write, and what it writes while no two processes overlap. *)
FitsTheTable(i, r, writes, was, score) ==
    /\ \A x \in Scored : before'[x] => before[x]
    /\ writes => /\ runs[i].refresh => was # NoScore
                 /\ ~runs[i].refresh /\ r \in Analyses => was = NoScore
                 /\ r \in Graded => ByMove(was) /\ ByMove(score)

LEMMA OnlyJudgementsAreLost ==
  ASSUME TablesFit, NEW m, NEW i, NEW r, NEW writes, NEW was, NEW score,
         Writes(m, i, r, writes, was, score)
  PROVE  lost' \subseteq Analyses
<1>1. lost \subseteq Analyses
  BY DEF TablesFit, MigrationTables
<1> SUFFICES ASSUME NEW k \in lost', k \notin lost PROVE k \in Analyses
  BY <1>1
<1>2. k = r /\ r \in Scored /\ after[r] # NoScore /\ after[r].by = "judged"
  BY DEF Writes
<1>3. r \notin Graded
  BY <1>2 DEF TablesFit, RowsFit, ByMove
<1> QED
  BY <1>2, <1>3 DEF Scored

LEMMA NewScoresAre ==
  ASSUME NEW d \in Dials
  PROVE  /\ NewScore("moved", d) \in ScoreRow /\ NewScore("moved", d) # NoScore
         /\ NewScore("moved", d).by = "moved" /\ ByMove(NewScore("moved", d))
<1>1. NewScore("moved", d) \in ScoreRow /\ NewScore("moved", d).by = "moved"
  BY DEF NewScore, ScoreRow
<1> QED
  BY <1>1, RowsAreNumbers DEF ByMove

LEMMA MoveAnalysisIs ==
  ASSUME TablesFit, NEW m \in Migrators, MoveAnalysis(m)
  PROVE  /\ MigrationTables'
         /\ \E i, r, was, score : \E writes \in BOOLEAN :
                /\ Writes(m, i, r, writes, was, score) /\ FitsTheTable(i, r, writes, was, score)
                /\ MovesRow(m, i, r, writes, was, score)
<1> PICK i, r, d, score : i = migrator[m].run /\ r = migrator[m].passed /\ d = migrator[m].dial
                          /\ score = NewScore("moved", migrator[m].dial)
  OBVIOUS
<1>1. (r \in Movable /\ author[r] # "edited" /\ after[r] = NoScore) \in BOOLEAN
  OBVIOUS
<1> PICK writes \in BOOLEAN : writes <=> (r \in Movable /\ author[r] # "edited" /\ after[r] = NoScore)
  BY <1>1
<1>2. /\ migrator[m].at = "write" /\ ~runs[i].refresh /\ r \in Analyses /\ UNCHANGED before
      /\ WriteScore(m, r \in Movable /\ author[r] # "edited" /\ after[r] = NoScore, NoScore, score)
  BY DEF MoveAnalysis
<1>3. Writing(m) /\ d \in Dials
  <2>1. Writing(m)
    BY <1>2 DEF Writing
  <2> QED BY <2>1, ProcessesAre DEF TablesFit
<1>4. score \in ScoreRow /\ score # NoScore /\ score.by = "moved" /\ ByMove(score)
  BY <1>3, NewScoresAre
<1>5. WriteScore(m, writes, NoScore, score)
  BY <1>2 DEF WriteScore
<1>6. /\ Writes(m, i, r, writes, NoScore, score)
      /\ before' \in [Scored -> BOOLEAN] /\ lost' \subseteq Analyses => MigrationTables'
  BY <1>3, <1>4, <1>5, WriteIs DEF TablesFit
<1>7. MigrationTables'
  <2>1. before' \in [Scored -> BOOLEAN]
    BY <1>2 DEF TablesFit, MigrationTables
  <2> QED BY <1>6, <2>1, OnlyJudgementsAreLost
<1>8. r \notin Graded
  BY <1>2, RowsAreNumbers
<1>9. FitsTheTable(i, r, writes, NoScore, score)
  BY <1>2, <1>8 DEF FitsTheTable
<1>10. MovesRow(m, i, r, writes, NoScore, score)
  BY <1>2, <1>4, <1>6, <1>8 DEF MovesRow
<1> QED
  BY <1>6, <1>7, <1>9, <1>10

LEMMA MoveApplicantIs ==
  ASSUME TablesFit, NEW m \in Migrators, MoveApplicant(m)
  PROVE  /\ MigrationTables'
         /\ \E i, r, was, score : \E writes \in BOOLEAN :
                /\ Writes(m, i, r, writes, was, score) /\ FitsTheTable(i, r, writes, was, score)
                /\ AloneInv => MovesRow(m, i, r, writes, was, score)
<1> PICK i, r, d, score, was : i = migrator[m].run /\ r = migrator[m].passed /\ d = migrator[m].dial
                          /\ score = NewScore("moved", migrator[m].dial) /\ was = migrator[m].was
  OBVIOUS
<1>1. (r \in Movable) \in BOOLEAN
  OBVIOUS
<1> PICK writes \in BOOLEAN : writes <=> (r \in Movable)
  BY <1>1
<1>2. /\ migrator[m].at = "write" /\ ~runs[i].refresh /\ r \in Graded
      /\ WriteScore(m, r \in Movable, was, score)
      /\ before' = [before EXCEPT ![r] = before[r] /\ r \notin Movable]
  BY DEF MoveApplicant
<1>3. Writing(m) /\ d \in Dials /\ was \in ScoreRow \union {NoScore} /\ Working(m)
  <2>1. Writing(m)
    BY <1>2 DEF Writing
  <2> QED BY <2>1, ProcessesAre DEF TablesFit
<1>4. score \in ScoreRow /\ score # NoScore /\ score.by = "moved" /\ ByMove(score)
  BY <1>3, NewScoresAre
<1>5. WriteScore(m, writes, was, score)
  BY <1>2 DEF WriteScore
<1>6. /\ Writes(m, i, r, writes, was, score)
      /\ before' \in [Scored -> BOOLEAN] /\ lost' \subseteq Analyses => MigrationTables'
  BY <1>3, <1>4, <1>5, WriteIs DEF TablesFit
<1>7. r \in Scored /\ r \notin Analyses
  BY <1>2, RowsAreNumbers
<1>8. /\ before' \in [Scored -> BOOLEAN]
      /\ \A x \in Scored : before'[x] <=> before[x] /\ ~(x = r /\ x \in Graded /\ writes)
  <2>1. before \in [Scored -> BOOLEAN]
    BY DEF TablesFit, MigrationTables
  <2>2. (before[r] /\ r \notin Movable) \in BOOLEAN
    OBVIOUS
  <2>3. before' \in [Scored -> BOOLEAN]
    BY <1>2, <2>1, <2>2
  <2>4. before'[r] <=> before[r] /\ ~ writes
    BY <1>2, <1>7, <2>1
  <2>5. \A x \in Scored : x # r => before'[x] = before[x]
    BY <1>2, <2>1
  <2> QED BY <1>2, <2>3, <2>4, <2>5
<1>9. MigrationTables'
  BY <1>6, <1>8, OnlyJudgementsAreLost
<1>10. ByMove(was)
  BY <1>2, <1>3 DEF TablesFit, PagesFit
<1>11. FitsTheTable(i, r, writes, was, score)
  BY <1>2, <1>4, <1>7, <1>8, <1>10 DEF FitsTheTable
<1>12. ASSUME AloneInv PROVE MovesRow(m, i, r, writes, was, score)
  <2>1. before[r] /\ was = after[r]
    <3>1. ~ IsErased(r)
      BY <1>7 DEF IsErased
    <3> QED BY <1>2, <1>3, <1>12, <3>1 DEF AloneInv, HeldAsRead, RunOf
  <2>2. after[r] = NoScore /\ was = NoScore
    BY <1>2, <1>12, <2>1 DEF AloneInv, OneVersion
  <2> QED BY <1>2, <1>4, <1>6, <1>7, <1>8, <2>2 DEF MovesRow
<1> QED
  BY <1>6, <1>9, <1>11, <1>12

LEMMA RefreshIs ==
  ASSUME TablesFit, NEW m \in Migrators, RefreshScore(m)
  PROVE  /\ MigrationTables'
         /\ \E i, r, was, score : \E writes \in BOOLEAN :
                /\ Writes(m, i, r, writes, was, score) /\ FitsTheTable(i, r, writes, was, score)
                /\ RefreshesRow(m, i, r, writes, was, score)
                /\ AloneInv => was = after[r] \/ r \in inHand \union storedOver
<1> PICK i, r, d, was : i = migrator[m].run /\ r = migrator[m].passed /\ d = migrator[m].dial
                        /\ was = migrator[m].was
  OBVIOUS
<1> PICK score : score = IF after[r] = NoScore THEN NoScore ELSE [was EXCEPT !.dial = d]
  OBVIOUS
<1> PICK writes \in BOOLEAN : writes = TRUE
  OBVIOUS
<1>1. /\ migrator[m].at = "write" /\ runs[i].refresh /\ UNCHANGED before
      /\ WriteScore(m, writes, was, score)
  BY DEF RefreshScore
<1>2. Writing(m) /\ d \in Dials /\ was \in ScoreRow \union {NoScore} /\ Working(m) /\ r \in Scored
  <2>1. Writing(m)
    BY <1>1 DEF Writing
  <2> QED BY <2>1, ProcessesAre DEF TablesFit
<1>3. was # NoScore /\ was \in ScoreRow /\ (r \in Graded => ByMove(was))
  BY <1>1, <1>2 DEF TablesFit, PagesFit, RunOf
<1>4. [was EXCEPT !.dial = d] \in ScoreRow /\ [was EXCEPT !.dial = d].by = was.by
  BY <1>2, <1>3 DEF ScoreRow
<1>5. /\ score \in ScoreRow \union {NoScore} /\ (score = NoScore <=> after[r] = NoScore)
      /\ score # NoScore => score.by = was.by
  BY <1>4, RowsAreNumbers
<1>6. /\ Writes(m, i, r, writes, was, score)
      /\ before' \in [Scored -> BOOLEAN] /\ lost' \subseteq Analyses => MigrationTables'
  BY <1>1, <1>2, <1>5, WriteIs DEF TablesFit
<1>7. MigrationTables'
  <2>1. before' \in [Scored -> BOOLEAN]
    BY <1>1 DEF TablesFit, MigrationTables
  <2> QED BY <1>6, <2>1, OnlyJudgementsAreLost
<1>8. FitsTheTable(i, r, writes, was, score)
  BY <1>1, <1>3, <1>5 DEF FitsTheTable, ByMove
<1>9. RefreshesRow(m, i, r, writes, was, score)
  BY <1>1, <1>3, <1>5, <1>6 DEF RefreshesRow
<1>10. AloneInv => was = after[r] \/ r \in inHand \union storedOver
  BY <1>1, <1>2 DEF AloneInv, HeldAsRead, RunOf
<1> QED
  BY <1>6, <1>7, <1>8, <1>9, <1>10

LEMMA MigrationQuietStep ==
  ASSUME MigrationInv, AsItWas, MigrationTables', AloneInv => ShutsHonestly
  PROVE  MigrationInv'
<1>1. TablesFit /\ overlapped' = overlapped /\ (pruned => pruned')
  BY DEF MigrationInv, AsItWas
<1>2. TablesFit'
  BY <1>1, QuietKeepsTables DEF TablesFit
<1>3. ~overlapped' => AloneInv'
  BY <1>1, QuietKeepsAlone DEF MigrationInv
<1>4. ~overlapped' /\ ~pruned' => ValuesAreTraced'
  BY <1>1, QuietKeepsTrace DEF MigrationInv
<1> QED
  BY <1>2, <1>3, <1>4 DEF MigrationInv

LEMMA MigrationStep ==
  ASSUME MigrationInv, [MigrationNext]_migrationVars
  PROVE  MigrationInv'
<1>1. /\ TablesFit /\ MigrationTables /\ PagesFit
      /\ ~overlapped => AloneInv
      /\ ~overlapped /\ ~pruned => ValuesAreTraced
  BY DEF MigrationInv, TablesFit
<1>2. CASE Revert
  <2>1. MigrationTables'
    BY <1>1, <1>2, RevertIs
  <2>2. PICK i, was : Undoes(i, was)
    BY <1>1, <1>2, RevertIs
  <2>3. (~overlapped' => ~overlapped) /\ pruned' = pruned
    BY <2>2 DEF Undoes
  <2>4. TablesFit'
    BY <1>1, <2>1, <2>2, UndoKeepsTables DEF TablesFit
  <2>5. ~overlapped' => AloneInv'
    BY <1>1, <2>2, <2>3, UndoKeepsAlone
  <2>6. ~overlapped' /\ ~pruned' => ValuesAreTraced'
    BY <1>1, <2>2, <2>3, UndoKeepsTrace
  <2> QED BY <2>4, <2>5, <2>6 DEF MigrationInv
<1>3. CASE TurnDial \/ MonthPasses \/ (\E m \in Migrators : KillMigrator(m)) \/ (\E k \in Analyses : AskModel(k))
  BY <1>1, <1>3, QuietIs, MigrationQuietStep
<1>4. ASSUME NEW m \in Migrators, NEW scope \in {Scored, Analyses},
             NEW refresh \in BOOLEAN, NEW force \in BOOLEAN, StartRun(m, scope, refresh, force)
      PROVE  MigrationInv'
  <2> PICK i : i = Len(runs) + 1
    OBVIOUS
  <2>1. Starts(m, i) /\ MigrationTables'
    BY <1>1, <1>4, StartIs
  <2>2. (~overlapped' => ~overlapped) /\ pruned' = pruned
    BY <2>1 DEF Starts
  <2>3. TablesFit'
    BY <1>1, <2>1, StartKeepsTables DEF TablesFit
  <2>4. ~overlapped' => AloneInv'
    BY <1>1, <2>1, <2>2, StartKeepsAlone
  <2>5. ~overlapped' /\ ~pruned' => ValuesAreTraced'
    BY <1>1, <2>1, <2>2, StartKeepsTrace
  <2> QED BY <2>3, <2>4, <2>5 DEF MigrationInv
<1>5. ASSUME NEW m \in Migrators, ReadPage(m) PROVE MigrationInv'
  <2>1. MigrationTables'
    BY <1>1, <1>5, ReadIs
  <2>2. PICK r : Reads(m, r)
    BY <1>1, <1>5, ReadIs
  <2>3. overlapped' = overlapped /\ pruned' = pruned
    BY <2>2 DEF Reads
  <2>4. TablesFit'
    BY <1>1, <2>1, <2>2, ReadKeepsTables DEF TablesFit
  <2>5. ~overlapped' => AloneInv'
    BY <1>1, <2>2, <2>3, ReadKeepsAlone
  <2>6. ~overlapped' /\ ~pruned' => ValuesAreTraced'
    BY <1>1, <2>2, <2>3, ReadKeepsTrace
  <2> QED BY <2>4, <2>5, <2>6 DEF MigrationInv
<1>6. ASSUME NEW m \in Migrators, MoveAnalysis(m) \/ MoveApplicant(m) PROVE MigrationInv'
  <2>1. MigrationTables'
    BY <1>1, <1>6, MoveAnalysisIs, MoveApplicantIs
  <2>2. \E i, r, was, score : \E writes \in BOOLEAN :
            /\ Writes(m, i, r, writes, was, score) /\ FitsTheTable(i, r, writes, was, score)
            /\ AloneInv => MovesRow(m, i, r, writes, was, score)
    BY <1>1, <1>6, MoveAnalysisIs, MoveApplicantIs
  <2>3. PICK i, r, was, score : \E writes \in BOOLEAN :
            /\ Writes(m, i, r, writes, was, score) /\ FitsTheTable(i, r, writes, was, score)
            /\ AloneInv => MovesRow(m, i, r, writes, was, score)
    BY <2>2
  <2>4. PICK writes \in BOOLEAN :
            /\ Writes(m, i, r, writes, was, score) /\ FitsTheTable(i, r, writes, was, score)
            /\ AloneInv => MovesRow(m, i, r, writes, was, score)
    BY <2>3
  <2>5. overlapped' = overlapped /\ pruned' = pruned
    BY <2>4 DEF Writes
  <2>6. TablesFit'
    BY <1>1, <2>1, <2>4, WriteKeepsTables DEF TablesFit, FitsTheTable
  <2>7. ~overlapped' => AloneInv'
    BY <1>1, <2>4, <2>5, MoveKeepsAlone
  <2>8. ~overlapped' /\ ~pruned' => ValuesAreTraced'
    <3>1. AloneInv => (writes => Original(was))
      BY <2>4 DEF MovesRow, Original
    <3> QED BY <1>1, <2>4, <2>5, <3>1, WriteKeepsTrace
  <2> QED BY <2>6, <2>7, <2>8 DEF MigrationInv
<1>7. ASSUME NEW m \in Migrators, RefreshScore(m) PROVE MigrationInv'
  <2>1. MigrationTables'
    BY <1>1, <1>7, RefreshIs
  <2> PICK i, r, was, score : \E writes \in BOOLEAN :
                /\ Writes(m, i, r, writes, was, score) /\ FitsTheTable(i, r, writes, was, score)
                /\ RefreshesRow(m, i, r, writes, was, score)
                /\ AloneInv => was = after[r] \/ r \in inHand \union storedOver
    BY <1>1, <1>7, RefreshIs
  <2>2. PICK writes \in BOOLEAN :
                /\ Writes(m, i, r, writes, was, score) /\ FitsTheTable(i, r, writes, was, score)
                /\ RefreshesRow(m, i, r, writes, was, score)
                /\ AloneInv => was = after[r] \/ r \in inHand \union storedOver
    OBVIOUS
  <2>3. overlapped' = overlapped /\ pruned' = pruned
    BY <2>2 DEF Writes
  <2>4. TablesFit'
    BY <1>1, <2>1, <2>2, WriteKeepsTables DEF TablesFit, FitsTheTable
  <2>5. ~overlapped' => AloneInv'
    BY <1>1, <2>2, <2>3, RefreshKeepsAlone
  <2>6. ~overlapped' /\ ~pruned' => ValuesAreTraced'
    BY <1>1, <2>2, <2>3, WriteKeepsTrace
  <2> QED BY <2>4, <2>5, <2>6 DEF MigrationInv
<1>8. ASSUME NEW m \in Migrators, CompleteRun(m) PROVE MigrationInv'
  BY <1>1, <1>8, CompleteIs, MigrationQuietStep
<1>9. ASSUME NEW k \in Analyses, StoreJudgement(k) \/ EditCandidate(k) PROVE MigrationInv'
  <2>1. ServerGoesOn(k)
    BY <1>1, <1>9, ServerIs
  <2>2. overlapped' = overlapped /\ pruned' = pruned
    BY <2>1 DEF ServerGoesOn
  <2>3. TablesFit'
    BY <1>1, <1>9, ServerKeepsTables DEF TablesFit
  <2>4. ~overlapped' => AloneInv'
    BY <1>1, <2>1, <2>2, ServerKeepsAlone
  <2>5. ~overlapped' /\ ~pruned' => ValuesAreTraced'
    BY <1>1, <2>1, <2>2, ServerKeepsTrace
  <2> QED BY <2>3, <2>4, <2>5 DEF MigrationInv
<1>10. ASSUME NEW k \in Analyses, EraseCandidate(k) PROVE MigrationInv'
  <2>1. Erases(k) /\ MigrationTables'
    BY <1>1, <1>10, EraseIs
  <2>2. overlapped' = overlapped /\ pruned' = pruned
    BY <2>1 DEF Erases
  <2>3. TablesFit'
    BY <1>1, <2>1, EraseKeepsTables DEF TablesFit
  <2>4. ~overlapped' => AloneInv'
    BY <1>1, <2>1, <2>2, EraseKeepsAlone
  <2>5. ~overlapped' /\ ~pruned' => ValuesAreTraced'
    BY <1>1, <2>1, <2>2, EraseKeepsTrace
  <2> QED BY <2>3, <2>4, <2>5 DEF MigrationInv
<1>11. CASE UNCHANGED migrationVars
  <2>1. UNCHANGED <<before, after, runs, migrator, dial, author, asked, storedOver, lost, overlapped, pruned, inHand>>
    BY <1>11 DEF migrationVars
  <2>2. AsItWas /\ ShutsHonestly
    BY <2>1 DEF AsItWas, ShutsHonestly, SameRuns, SameRun, Shuts, Standing
  <2>3. MigrationTables'
    BY <1>1, <2>1 DEF MigrationTables
  <2> QED BY <2>2, <2>3, MigrationQuietStep
<1> QED
  BY <1>2, <1>3, <1>4, <1>5, <1>6, <1>7, <1>8, <1>9, <1>10, <1>11 DEF MigrationNext

LEMMA MigrationMeans == MigrationInv => MigrationIsSound
<1> SUFFICES ASSUME MigrationInv PROVE MigrationIsSound
  OBVIOUS
<1>1. /\ TablesFit /\ MigrationTables /\ PagesFit /\ RowsFit
      /\ ~overlapped => AloneInv
      /\ ~overlapped /\ ~pruned => ValuesAreTraced
  BY DEF MigrationInv, TablesFit
<1>2. MigrationTypeOK
  <2>1. \A m \in Migrators : migrator[m] # Unstarted => migrator[m].run \in DOMAIN runs
    BY <1>1 DEF PagesFit, Working
  <2> QED BY <1>1, <2>1, RunsAreRows DEF MigrationTypeOK, MigrationTables
<1>3. JudgementsStand
  BY <1>1 DEF JudgementsStand, AloneInv
<1>4. GateIsHonest
  BY <1>1 DEF AloneInv, GateIsHonest
<1>5. RevertRestores
  <2> SUFFICES ASSUME ~overlapped, ~pruned, \A i \in DOMAIN runs : runs[i].reverted
               PROVE  /\ \A k \in Analyses \ (inHand \union storedOver) : after[k] # NoScore =>
                              after[k].by = "judged" /\ after[k].dial = after[k].first
                      /\ \A a \in Graded : before[a] /\ after[a] = NoScore
    BY DEF RevertRestores
  <2>1. \A r \in Scored \ (inHand \union storedOver) : Original(after[r])
    BY <1>1 DEF ValuesAreTraced, Standing
  <2>2. inHand \subseteq Analyses /\ storedOver \subseteq Analyses
    BY <1>1 DEF MigrationTables
  <2>3. ASSUME NEW a \in Graded PROVE before[a] /\ after[a] = NoScore
    <3>1. a \in Scored /\ a \notin Analyses
      BY RowsAreNumbers
    <3>2. Original(after[a]) /\ ByMove(after[a])
      BY <1>1, <2>1, <2>2, <3>1 DEF RowsFit
    <3>3. after[a] = NoScore
      BY <3>2 DEF Original, ByMove
    <3> QED BY <1>1, <3>3 DEF AloneInv, OneVersion
  <2> QED BY <2>1, <2>3, RowsAreNumbers DEF Original
<1>6. ErasedLeavesNoScore
  <2> SUFFICES ASSUME NEW k \in Analyses \ inHand, author[k] = "erased"
               PROVE  /\ ~before[k] /\ after[k] = NoScore
                      /\ \A i \in DOMAIN runs : \A n \in Note : n.row = k => n \notin runs[i].notes
    BY DEF ErasedLeavesNoScore
  <2>1. IsErased(k)
    BY DEF IsErased
  <2> QED BY <1>1, <2>1 DEF RowsFit, NotedIn
<1> QED
  BY <1>2, <1>3, <1>4, <1>5, <1>6 DEF MigrationIsSound

(* Scores moved, refreshed and undone, with the server at work meanwhile, any number
   of runs killed or forced: no judgement is taken away but one stored over a moved
   row, a shut gate leaves nothing to move, undoing everything restores what was, and
   an erased candidate leaves no score behind.                                       *)
THEOREM MigrationStaysSound == MigrationSpec => []MigrationIsSound
<1>1. MigrationInit => MigrationInv
  BY MigrationStarts
<1>2. MigrationInv /\ [MigrationNext]_migrationVars => MigrationInv'
  BY MigrationStep
<1>3. MigrationInv => MigrationIsSound
  BY MigrationMeans
<1> QED
  BY <1>1, <1>2, <1>3, PTL DEF MigrationSpec

-----------------------------------------------------------------------------
(* The page of a launched Triage.                                            *)

States3 == Nat \X Nat \X Nat

Wire ==
    {Quiet} \union [at : {"asked"}, kind : {"poll", "more", "add"}, offset : Nat]
    \union [at : {"answered"}, kind : {"poll", "more"}, offset : Nat, late : BOOLEAN,
            page : Seq(Everybody), says : [working : BOOLEAN, hasMore : BOOLEAN],
            states : States3]
    \union [at : {"added"}, kind : {"add"}]

Batch ==
    [does : {"parse"}, cvs : SUBSET Everybody] \union [does : {"preliminary"}]
    \union [does : {"initial", "rolling"}, from : Nat, to : Nat]
Deepens(b) == b.does \in {"initial", "rolling"}

(* What is queued fits the ladder; the frontier has only scored CVs below it; whoever has
   no rank will get one; and the ladder ends at the frontier, or an opening range of it
   is scored, or will be. *)
ServerInv ==
    /\ queue \in Seq(Batch) /\ ladder \in Seq(Everybody) /\ frontier \in 0..Len(ladder)
    /\ parsed \subseteq Everybody /\ listed \subseteq Everybody
    /\ \A r, s \in 1..Len(ladder) : ladder[r] = ladder[s] => r = s
    /\ \A b \in Range(queue) : Deepens(b) => b.from \in 1..(frontier + 1) /\ b.to \in 1..Len(ladder)
    /\ \A r \in 1..frontier : ladder[r] \in listed
    /\ Unranked # {} => \E b \in Range(queue) : b.does = "preliminary"
    /\ frontier < Len(ladder) =>
        \/ Opening <= frontier
        \/ \E b \in Range(queue) : Deepens(b) /\ (Len(ladder) <= b.to \/ Opening <= b.to)

ScreenTables ==
    /\ listed \subseteq Everybody
    /\ rows \in Seq(Everybody) /\ Len(rows) <= Cardinality(listed)
    /\ screen \in [working : BOOLEAN, hasMore : BOOLEAN]
    /\ shaken \in BOOLEAN /\ misled \in BOOLEAN
    /\ wires \in [Wires -> Wire]
    /\ \A w \in Wires : wires[w].at = "asked" /\ wires[w].kind # "more" => wires[w].offset = 0
    /\ \A w \in Wires : wires[w].at = "answered" /\ wires[w].kind = "poll" => wires[w].offset = 0

IsMore(w) == wires[w] # Quiet /\ wires[w].kind = "more"
Heard(w) == wires[w].at = "answered"
HeardPoll(w) == Heard(w) /\ wires[w].kind = "poll"

MoreJoins ==
    /\ \A v, w \in Wires : IsMore(v) /\ IsMore(w) => v = w
    /\ \A w \in Wires : IsMore(w) => wires[w].offset = Len(rows) /\ RowsAPage <= Len(rows)
    /\ screen.hasMore => RowsAPage <= Len(rows)

PageIsOf(page, offset, n) ==
    /\ offset <= n
    /\ Len(page) = IF offset + RowsAPage < n THEN RowsAPage ELSE n - offset
    /\ n <= Cardinality(listed)
    /\ n = Cardinality(listed) => page = PageAt(offset)

AnswersAreOfTheList ==
    /\ \A w \in Wires : Heard(w) =>
        /\ PageIsOf(wires[w].page, wires[w].offset, wires[w].states[3])
        /\ wires[w].says.hasMore = (wires[w].offset + RowsAPage < wires[w].states[3])
    /\ \A v, w \in Wires : HeardPoll(v) /\ HeardPoll(w) /\ wires[v].states[3] = wires[w].states[3] =>
            wires[v].page = wires[w].page

Shows(page) == rows = page \/ Len(page) < Len(rows)
SignatureIsShown ==
    signature # <<>> =>
        /\ signature \in States3 \X Nat
        /\ signature[1][3] <= Cardinality(listed)
        /\ signature[2] <= Len(rows)
        /\ signature[1][3] = Cardinality(listed) => Shows(PageAt(0))
        /\ \A w \in Wires : HeardPoll(w) /\ wires[w].states[3] = signature[1][3] =>
                Shows(wires[w].page)

(* What the page was told last, or will be, is so: that there is work, or more to see. *)
Tells(says) ==
    /\ queue # <<>> => says.working
    /\ Opening > RowsAPage /\ Waiting # {} => says.working \/ says.hasMore

WatchedInv ==
    /\ AllQuiet /\ ~misled => Tells(screen)
    /\ \A w \in Wires : Heard(w) /\ ~wires[w].late => Tells(wires[w].says)

Unshaken ==
    ~shaken /\ (LoadingMore \/ Len(rows) > RowsAPage \/ (~misled /\ ~screen.working)) =>
        rows = InPlace(rows, listed)

ScreenInv == ServerInv /\ ScreenTables /\ MoreJoins /\ AnswersAreOfTheList /\ SignatureIsShown /\ WatchedInv /\ Unshaken

LEMMA BatchTypes ==
  ASSUME NEW b \in Batch
  PROVE  /\ b.does \in {"parse", "preliminary", "initial", "rolling"}
         /\ b.does = "parse" => b.cvs \subseteq Everybody
         /\ Deepens(b) => b.from \in Nat /\ b.to \in Nat
BY DEF Batch, Deepens

LEMMA NoBatches ==
  ASSUME NEW q \in Seq(Batch)
  PROVE  q = <<>> <=> Range(q) = {}
<1>1. Range(q) = {q[i] : i \in 1..Len(q)}
  BY RangeEquality
<1>2. Len(q) \in Nat /\ (Len(q) = 0 <=> q = <<>>)
  BY EmptySeq
<1>3. CASE Len(q) = 0
  <2>1. \A i : i \notin 1..Len(q)
    BY <1>3
  <2> QED
    BY <2>1, <1>1, <1>2, <1>3
<1>4. CASE Len(q) # 0
  <2>1. 1 \in 1..Len(q)
    BY <1>2, <1>4
  <2> QED
    BY <2>1, <1>1, <1>2, <1>4
<1> QED
  BY <1>3, <1>4

LEMMA AppendedBatch ==
  ASSUME NEW q \in Seq(Batch), NEW b \in Batch
  PROVE  /\ Append(q, b) \in Seq(Batch) /\ Append(q, b) # <<>>
         /\ Range(Append(q, b)) = Range(q) \union {b}
<1> DEFINE p == Append(q, b)
<1>1. /\ p \in Seq(Batch) /\ p # <<>> /\ Len(p) = Len(q) + 1 /\ Len(q) \in Nat
      /\ \A i \in 1..Len(q) : p[i] = q[i]
      /\ p[Len(q) + 1] = b
  BY AppendProperties
<1> HIDE DEF p
<1>2. Range(p) = {p[i] : i \in 1..Len(p)} /\ Range(q) = {q[i] : i \in 1..Len(q)}
  BY <1>1, RangeEquality
<1>3. \A i \in 1..Len(p) : i \in 1..Len(q) \/ i = Len(q) + 1
  BY <1>1
<1>4. \A i \in 1..Len(q) : i \in 1..Len(p)
  BY <1>1
<1>5. Len(q) + 1 \in 1..Len(p)
  BY <1>1
<1>6. Range(p) = Range(q) \union {b}
  BY <1>1, <1>2, <1>3, <1>4, <1>5
<1> QED
  BY <1>1, <1>6 DEF p

LEMMA FirstBatch ==
  ASSUME NEW q \in Seq(Batch), q # <<>>
  PROVE  /\ Head(q) \in Batch /\ Tail(q) \in Seq(Batch)
         /\ Range(q) = Range(Tail(q)) \union {Head(q)}
<1>1. /\ Head(q) \in Batch /\ Tail(q) \in Seq(Batch) /\ Len(Tail(q)) = Len(q) - 1
      /\ \A i \in 1..Len(Tail(q)) : Tail(q)[i] = q[i + 1]
  BY HeadTailProperties
<1>2. Range(Tail(q)) = {Tail(q)[i] : i \in 1..Len(Tail(q))} /\ Range(q) = {q[i] : i \in 1..Len(q)}
  BY <1>1, RangeEquality
<1>3. Len(q) \in Nat /\ Len(q) # 0 /\ Head(q) = q[1]
  BY EmptySeq
<1>4. \A i \in 1..Len(q) : i = 1 \/ (i - 1 \in 1..Len(Tail(q)) /\ (i - 1) + 1 = i)
  BY <1>1, <1>3
<1>5. 1 \in 1..Len(q) /\ \A i \in 1..Len(Tail(q)) : i + 1 \in 1..Len(q)
  BY <1>1, <1>3
<1>6. \A b \in Range(q) : b \in Range(Tail(q)) \union {Head(q)}
  <2> TAKE b \in Range(q)
  <2>1. PICK i \in 1..Len(q) : b = q[i]
    BY <1>2
  <2>2. CASE i = 1
    BY <2>1, <2>2, <1>3
  <2>3. CASE i - 1 \in 1..Len(Tail(q)) /\ (i - 1) + 1 = i
    <3>1. Tail(q)[i - 1] = b
      BY <2>1, <2>3, <1>1
    <3> QED
      BY <3>1, <2>3, <1>2
  <2> QED
    BY <2>2, <2>3, <1>4
<1>7. \A b \in Range(Tail(q)) \union {Head(q)} : b \in Range(q)
  BY <1>1, <1>2, <1>3, <1>5
<1> QED
  BY <1>1, <1>6, <1>7

LEMMA EnqueuedBatch ==
  ASSUME NEW q \in Seq(Batch), NEW b \in Batch
  PROVE  /\ Enqueued(q, b) \in Seq(Batch) /\ Enqueued(q, b) # <<>>
         /\ Range(Enqueued(q, b)) = Range(q) \union {b}
<1>1. CASE b \in Range(q)
  <2>1. Range(q) = {q[i] : i \in 1..Len(q)}
    BY RangeEquality
  <2>2. q # <<>>
    BY <1>1, <2>1, EmptySeq
  <2> QED
    BY <1>1, <2>2 DEF Enqueued
<1>2. CASE b \notin Range(q)
  BY <1>2, AppendedBatch DEF Enqueued
<1> QED
  BY <1>1, <1>2

LEMMA LadderFacts ==
  ASSUME ServerInv
  PROVE  /\ Len(ladder) \in Nat /\ frontier \in Nat /\ frontier <= Len(ladder)
         /\ Range(ladder) = {ladder[r] : r \in 1..Len(ladder)}
         /\ Opening \in Nat /\ 0 < Opening /\ Rung \in Nat /\ 0 < Rung
<1>1. Range(ladder) = {ladder[r] : r \in 1..Len(ladder)}
  BY RangeEquality DEF ServerInv
<1>2. Len(ladder) \in Nat /\ frontier \in 0..Len(ladder)
  BY DEF ServerInv
<1> QED
  BY <1>1, <1>2, ScreenAssumption

(* Once nothing is queued, whoever waits has a rank above the frontier, and more than a
   page was scored if the opening range is. *)
LEMMA AtRest ==
  ASSUME ServerInv, queue = <<>>, Waiting # {}
  PROVE  frontier < Len(ladder) /\ Opening <= Cardinality(listed)
<1>0. Range(queue) = {}
  <2>1. queue \in Seq(Batch)
    BY DEF ServerInv
  <2> QED
    BY <2>1, NoBatches
<1>1. PICK a \in Waiting : TRUE
  OBVIOUS
<1>2. Unread = {} /\ Unranked = {}
  BY <1>0 DEF Unread, ServerInv
<1>3. a \in Range(ladder) /\ a \notin listed
  BY <1>1, <1>2 DEF Waiting, Unranked
<1>4. PICK r \in 1..Len(ladder) : a = ladder[r]
  BY <1>3, LadderFacts
<1>5. ~ (r \in 1..frontier)
  BY <1>3, <1>4 DEF ServerInv
<1>6. frontier < Len(ladder)
  BY <1>4, <1>5, LadderFacts
<1>7. Opening <= frontier
  BY <1>0, <1>6 DEF ServerInv
<1> DEFINE f == [i \in 1..frontier |-> ladder[i]]
<1>8. frontier <= Cardinality(listed)
  <2>1. f \in Injection(1..frontier, listed)
    <3>1. \A i \in 1..frontier : i \in 1..Len(ladder) /\ ladder[i] \in listed
      BY LadderFacts DEF ServerInv
    <3>2. \A i, j \in 1..frontier : f[i] = f[j] => i = j
      BY <3>1 DEF ServerInv
    <3> QED
      BY <3>1, <3>2 DEF Injection, IsInjective
  <2>2. IsFiniteSet(listed) /\ IsFiniteSet(1..frontier) /\ Cardinality(1..frontier) = frontier
    <3>1. IsFiniteSet(Everybody)
      BY ScreenAssumption DEF Everybody
    <3>2. IsFiniteSet(listed)
      BY <3>1, FS_Subset DEF ServerInv
    <3>3. IsFiniteSet(1..frontier) /\ Cardinality(1..frontier) = frontier
      <4>1. 1 \in Int /\ frontier \in Int /\ 0 <= frontier
        BY LadderFacts
      <4>2. IsFiniteSet(1..frontier) /\ Cardinality(1..frontier) = IF 1 > frontier THEN 0 ELSE frontier - 1 + 1
        BY <4>1, FS_Interval
      <4> QED
        BY <4>1, <4>2
    <3> QED
      BY <3>2, <3>3
  <2> QED
    <3> HIDE DEF f
    <3>1. Cardinality(1..frontier) <= Cardinality(listed)
      BY <2>1, <2>2, FS_Injection
    <3> QED
      BY <3>1, <2>2
<1>9. Cardinality(listed) \in Nat
  <2>1. IsFiniteSet(Everybody) /\ listed \subseteq Everybody
    BY ScreenAssumption DEF Everybody, ServerInv
  <2> QED
    BY <2>1, FS_Subset, FS_CardinalityType
<1> QED
  BY <1>6, <1>7, <1>8, <1>9, LadderFacts

LEMMA QueueGrows ==
  ASSUME ServerInv, NEW b \in Batch,
         Deepens(b) => b.from \in 1..(frontier + 1) /\ b.to \in 1..Len(ladder),
         queue' \in Seq(Batch), Range(queue') = Range(queue) \union {b},
         UNCHANGED <<parsed, ladder, frontier, listed>>
  PROVE  ServerInv'
<1>1. Unranked' = Unranked
  BY DEF Unranked
<1>2. \A c \in Range(queue') : Deepens(c) => c.from \in 1..(frontier + 1) /\ c.to \in 1..Len(ladder)
  BY DEF ServerInv
<1>3. \A c \in Range(queue) : c \in Range(queue')
  OBVIOUS
<1> QED
  BY <1>1, <1>2, <1>3 DEF ServerInv

LEMMA DeliveredServer ==
  ASSUME ServerInv, NEW added \in SUBSET Arrivals, Deliver(added)
  PROVE  ServerInv' /\ listed' = listed
<1>1. queue' = Append(queue, Parse(added)) /\ UNCHANGED <<parsed, ladder, frontier, listed>>
  BY DEF Deliver
<1>2. Parse(added) \in Batch /\ Parse(added).does = "parse"
  BY DEF Parse, Batch, Everybody
<1>3. queue \in Seq(Batch)
  BY DEF ServerInv
<1>4. queue' \in Seq(Batch) /\ Range(queue') = Range(queue) \union {Parse(added)}
  BY <1>1, <1>2, <1>3, AppendedBatch
<1>5. ~ Deepens(Parse(added))
  BY <1>2 DEF Deepens
<1> HIDE DEF Parse
<1> QED
  BY <1>1, <1>2, <1>4, <1>5, QueueGrows

(* A range that begins above the frontier and ends where the ladder does or before. *)
LEMMA NextRange ==
  ASSUME ServerInv, NEW kind \in {"initial", "rolling"}, NEW n \in Nat, 0 < n,
         NEW total \in Nat, frontier < total
  PROVE  LET b == Deep(kind, Min({total, frontier + n})) IN
         /\ b \in Batch /\ Deepens(b) /\ b.from = frontier + 1
         /\ b.to = (IF total < frontier + n THEN total ELSE frontier + n)
         /\ b.from \in 1..(frontier + 1) /\ b.to \in 1..total
<1>1. frontier \in Nat /\ frontier + n \in Nat
  BY LadderFacts
<1>2. Min({total, frontier + n}) = (IF total < frontier + n THEN total ELSE frontier + n)
  BY <1>1, LesserOfTwo
<1> DEFINE to == Min({total, frontier + n})
<1> HIDE DEF to
<1>3. to \in 1..total /\ to \in Nat
  BY <1>1, <1>2 DEF to
<1>4. /\ Deep(kind, to).does = kind /\ Deep(kind, to).from = frontier + 1 /\ Deep(kind, to).to = to
      /\ Deep(kind, to) \in Batch
  BY <1>1, <1>3 DEF Deep, Batch
<1> QED
  BY <1>1, <1>2, <1>3, <1>4 DEF Deepens, to

LEMMA RungServer ==
  ASSUME ServerInv
  PROVE  /\ queue # <<>> => WithNextRung # <<>>
         /\ frontier < Len(ladder) => WithNextRung # <<>>
         /\ queue' = WithNextRung /\ UNCHANGED <<parsed, ladder, frontier, listed>> => ServerInv'
<1>0. Len(ladder) \in Nat /\ frontier \in Nat /\ frontier <= Len(ladder) /\ Rung \in Nat /\ 0 < Rung
  BY LadderFacts
<1>1. CASE frontier >= Len(ladder)
  <2>1. WithNextRung = queue /\ ~ (frontier < Len(ladder))
    BY <1>0, <1>1 DEF WithNextRung
  <2>2. ASSUME queue' = queue, UNCHANGED <<parsed, ladder, frontier, listed>>
        PROVE  ServerInv'
    BY <2>2 DEF ServerInv, Unranked
  <2> QED
    BY <2>1, <2>2
<1>2. CASE ~(frontier >= Len(ladder))
  <2> DEFINE b == Deep("rolling", Min({Len(ladder), frontier + Rung}))
  <2>1. WithNextRung = Enqueued(queue, b) /\ frontier < Len(ladder)
    BY <1>0, <1>2 DEF WithNextRung
  <2>2. b \in Batch /\ b.from \in 1..(frontier + 1) /\ b.to \in 1..Len(ladder)
    BY <1>0, <2>1, NextRange
  <2>3. queue \in Seq(Batch)
    BY DEF ServerInv
  <2> HIDE DEF b
  <2>4. /\ Enqueued(queue, b) \in Seq(Batch) /\ Enqueued(queue, b) # <<>>
        /\ Range(Enqueued(queue, b)) = Range(queue) \union {b}
    BY <2>2, <2>3, EnqueuedBatch
  <2>5. ASSUME queue' = WithNextRung, UNCHANGED <<parsed, ladder, frontier, listed>>
        PROVE  ServerInv'
    BY <2>1, <2>2, <2>4, <2>5, QueueGrows
  <2> QED
    BY <2>1, <2>4, <2>5
<1> QED
  BY <1>1, <1>2

LEMMA RungBatches ==
  ASSUME ServerInv, NEW b \in Range(WithNextRung), b.does = "parse"
  PROVE  b \in Range(queue)
<1>0. Len(ladder) \in Nat /\ frontier \in Nat /\ Rung \in Nat /\ 0 < Rung
  BY LadderFacts
<1>1. CASE frontier >= Len(ladder)
  BY <1>1 DEF WithNextRung
<1>2. CASE ~(frontier >= Len(ladder))
  <2> DEFINE r == Deep("rolling", Min({Len(ladder), frontier + Rung}))
  <2>1. WithNextRung = Enqueued(queue, r)
    BY <1>2 DEF WithNextRung
  <2>2. r \in Batch /\ r.does = "rolling"
    <3>1. frontier < Len(ladder)
      BY <1>0, <1>2
    <3>2. r \in Batch
      BY <1>0, <3>1, NextRange
    <3> QED
      BY <3>2 DEF Deep
  <2>3. queue \in Seq(Batch)
    BY DEF ServerInv
  <2> HIDE DEF r
  <2>4. Range(Enqueued(queue, r)) = Range(queue) \union {r}
    BY <2>2, <2>3, EnqueuedBatch
  <2> QED
    BY <2>1, <2>2, <2>4
<1> QED
  BY <1>1, <1>2

LEMMA UnreadIsOfEverybody ==
  ASSUME ServerInv
  PROVE  Unread \subseteq Everybody
<1> SUFFICES ASSUME NEW b \in Range(queue), b.does = "parse" PROVE b.cvs \subseteq Everybody
  BY DEF Unread
<1>1. queue \in Seq(Batch)
  BY DEF ServerInv
<1>2. PICK i \in 1..Len(queue) : b = queue[i]
  BY <1>1, RangeEquality
<1>3. b \in Batch
  BY <1>1, <1>2, ElementOfSeq
<1> QED
  BY <1>3, BatchTypes

LEMMA ReadServer ==
  ASSUME ServerInv, ReadDelivery
  PROVE  ServerInv' /\ queue # <<>> /\ Waiting' \subseteq Waiting
<1> DEFINE b == Head(queue)
           rest == Tail(queue)
<1>1. /\ queue # <<>> /\ b.does = "parse" /\ parsed' = parsed \union b.cvs
      /\ queue' = Append(rest, Preliminary) /\ UNCHANGED <<ladder, frontier, listed>>
  BY DEF ReadDelivery, Running
<1>2. queue \in Seq(Batch)
  BY DEF ServerInv
<1>3. b \in Batch /\ rest \in Seq(Batch) /\ Range(queue) = Range(rest) \union {b}
  BY <1>1, <1>2, FirstBatch
<1>4. Preliminary \in Batch /\ Preliminary.does = "preliminary"
  BY DEF Preliminary, Batch
<1>5. queue' \in Seq(Batch) /\ Range(queue') = Range(rest) \union {Preliminary}
  BY <1>1, <1>3, <1>4, AppendedBatch
<1>6. b.cvs \subseteq Everybody /\ b.cvs \subseteq Unread /\ ~ Deepens(b)
  <2>1. b.cvs \subseteq Everybody
    BY <1>1, <1>3, BatchTypes
  <2>2. b.cvs \subseteq Unread
    BY <1>1, <1>3 DEF Unread
  <2> QED
    BY <1>1, <2>1, <2>2 DEF Deepens
<1> HIDE DEF b, rest
<1>7. Unread' \subseteq Unread
  <2>1. Unread' = UNION {c.cvs : c \in {d \in Range(queue') : d.does = "parse"}}
    BY DEF Unread
  <2>2. \A d \in Range(queue') : d.does = "parse" => d \in Range(queue)
    BY <1>3, <1>4, <1>5
  <2> QED
    BY <2>1, <2>2 DEF Unread
<1>8. Waiting' \subseteq Waiting
  BY <1>1, <1>6, <1>7 DEF Waiting
<1>9. \A c \in Range(queue') : Deepens(c) => c \in Range(queue)
  BY <1>3, <1>4, <1>5 DEF Deepens
<1>10. \A c \in Range(queue) : Deepens(c) => c \in Range(queue')
  BY <1>3, <1>5, <1>6
<1>11. \E c \in Range(queue') : c.does = "preliminary"
  BY <1>4, <1>5
<1>12. parsed' \subseteq Everybody
  BY <1>1, <1>6 DEF ServerInv
<1>13. ServerInv'
  BY <1>1, <1>5, <1>9, <1>10, <1>11, <1>12 DEF ServerInv
<1> QED
  BY <1>1, <1>8, <1>13

LEMMA RankServer ==
  ASSUME ServerInv, RankDelivery
  PROVE  ServerInv' /\ queue # <<>> /\ Waiting' \subseteq Waiting
<1> DEFINE h == Head(queue)
           rest == Tail(queue)
           n == Cardinality(Unranked)
           kind == IF ladder = <<>> THEN "initial" ELSE "rolling"
           total == Len(ladder')
           b == Deep(kind, Min({total, frontier + Opening}))
<1>1. /\ queue # <<>> /\ h.does = "preliminary"
      /\ queue' = IF frontier >= total THEN rest ELSE Enqueued(rest, b)
      /\ UNCHANGED <<parsed, frontier, listed>>
  BY DEF RankDelivery, Running
<1>2. PICK order \in Orders(Unranked) : ladder' = ladder \o order
  BY DEF RankDelivery
<1>3. /\ queue \in Seq(Batch) /\ ladder \in Seq(Everybody) /\ Len(ladder) \in Nat
      /\ frontier \in Nat /\ frontier <= Len(ladder) /\ Opening \in Nat /\ 0 < Opening
  BY LadderFacts DEF ServerInv
<1>4. h \in Batch /\ rest \in Seq(Batch) /\ Range(queue) = Range(rest) \union {h}
  BY <1>1, <1>3, FirstBatch
<1>5. Unranked \subseteq Everybody /\ n \in Nat
  <2>1. Unranked \subseteq Everybody
    BY DEF Unranked, ServerInv
  <2>2. IsFiniteSet(Everybody)
    BY ScreenAssumption DEF Everybody
  <2> QED
    BY <2>1, <2>2, FS_Subset, FS_CardinalityType
<1>6. /\ order \in [1..n -> Unranked]
      /\ \A i, j \in 1..n : order[i] = order[j] => i = j
      /\ \A a \in Unranked : \E i \in 1..n : order[i] = a
  BY DEF Orders, Bijection, Injection, Surjection, IsInjective
<1> HIDE DEF n
<1>7. order \in Seq(Unranked) /\ Len(order) = n
  BY <1>5, <1>6, FunctionIsSeq
<1>8. order \in Seq(Everybody)
  BY <1>5, <1>7, SeqMonotonic
<1>9. /\ ladder' \in Seq(Everybody) /\ total = Len(ladder) + n
      /\ \A i \in 1..(Len(ladder) + n) :
            ladder'[i] = IF i <= Len(ladder) THEN ladder[i] ELSE order[i - Len(ladder)]
  BY <1>2, <1>3, <1>7, <1>8, ConcatProperties
<1>10. \A i \in 1..Len(ladder) : i \in 1..total /\ ladder'[i] = ladder[i]
  BY <1>3, <1>5, <1>9
<1>11. \A i \in 1..total :
          \/ i \in 1..Len(ladder) /\ ladder'[i] = ladder[i]
          \/ i - Len(ladder) \in 1..n /\ ladder'[i] = order[i - Len(ladder)]
  <2> TAKE i \in 1..total
  <2>0. i \in 1..(Len(ladder) + n) /\ i \in Nat /\ 1 <= i
    BY <1>9
  <2>1. CASE i <= Len(ladder)
    <3>1. i \in 1..Len(ladder)
      BY <2>0, <2>1, <1>3
    <3> QED
      BY <3>1, <1>10
  <2>2. CASE ~(i <= Len(ladder))
    <3>1. i - Len(ladder) \in 1..n /\ i \in 1..(Len(ladder) + n)
      BY <2>0, <2>2, <1>3, <1>5
    <3> QED
      BY <3>1, <2>2, <1>9
  <2> QED
    BY <2>1, <2>2
<1>12. \A i \in 1..Len(ladder) : ladder[i] \notin Unranked
  BY LadderFacts DEF Unranked
<1>13. \A i, j \in 1..total : ladder'[i] = ladder'[j] => i = j
  <2> TAKE i, j \in 1..total
  <2> HAVE ladder'[i] = ladder'[j]
  <2>1. CASE i \in 1..Len(ladder) /\ j \in 1..Len(ladder)
    BY <2>1, <1>10 DEF ServerInv
  <2>2. CASE i \in 1..Len(ladder) /\ ~(j \in 1..Len(ladder))
    BY <2>2, <1>6, <1>10, <1>11, <1>12
  <2>3. CASE ~(i \in 1..Len(ladder)) /\ j \in 1..Len(ladder)
    BY <2>3, <1>6, <1>10, <1>11, <1>12
  <2>4. CASE ~(i \in 1..Len(ladder)) /\ ~(j \in 1..Len(ladder))
    <3>1. i - Len(ladder) = j - Len(ladder)
      BY <2>4, <1>6, <1>11
    <3> QED
      BY <3>1, <1>3, <1>9
  <2> QED
    BY <2>1, <2>2, <2>3, <2>4
<1>14. Range(ladder') = {ladder'[r] : r \in 1..total}
  BY <1>9, RangeEquality
<1>15. Unranked' = {}
  <2> SUFFICES ASSUME NEW a \in parsed PROVE a \in Range(ladder')
    BY <1>1 DEF Unranked
  <2>1. CASE a \in Unranked
    <3>1. PICK i \in 1..n : order[i] = a
      BY <2>1, <1>6
    <3>2. i + Len(ladder) \in 1..(Len(ladder) + n) /\ ~(i + Len(ladder) <= Len(ladder))
          /\ (i + Len(ladder)) - Len(ladder) = i
      BY <1>3, <1>5
    <3>3. ladder'[i + Len(ladder)] = a
      BY <3>1, <3>2, <1>9
    <3> QED
      BY <3>2, <3>3, <1>9, <1>14
  <2>2. CASE a \notin Unranked
    <3>1. PICK r \in 1..Len(ladder) : a = ladder[r]
      BY <2>2, LadderFacts DEF Unranked
    <3> QED
      BY <3>1, <1>10, <1>14
  <2> QED
    BY <2>1, <2>2
<1>16. total \in Nat /\ Len(ladder) <= total
  BY <1>3, <1>5, <1>9
<1> HIDE DEF total
<1>17. ~(frontier >= total) => /\ b \in Batch /\ Deepens(b) /\ b.from \in 1..(frontier + 1) /\ b.to \in 1..total
                              /\ b.to = (IF total < frontier + Opening THEN total ELSE frontier + Opening)
  <2>1. kind \in {"initial", "rolling"}
    OBVIOUS
  <2> HIDE DEF kind
  <2> SUFFICES ASSUME ~(frontier >= total)
               PROVE  /\ b \in Batch /\ Deepens(b) /\ b.from \in 1..(frontier + 1) /\ b.to \in 1..total
                      /\ b.to = (IF total < frontier + Opening THEN total ELSE frontier + Opening)
    OBVIOUS
  <2>2. frontier < total
    BY <1>3, <1>16
  <2> QED
    BY <2>1, <2>2, <1>3, <1>16, NextRange
<1> HIDE DEF b, h, rest
<1>18. /\ queue' \in Seq(Batch)
       /\ Range(queue') = IF frontier >= total THEN Range(rest) ELSE Range(rest) \union {b}
  BY <1>1, <1>4, <1>17, EnqueuedBatch
<1>19. \A c \in Range(queue') : Deepens(c) => c.from \in 1..(frontier + 1) /\ c.to \in 1..total
  <2> TAKE c \in Range(queue')
  <2>1. CASE c \in Range(queue)
    BY <2>1, <1>3, <1>16 DEF ServerInv
  <2>2. CASE ~(frontier >= total) /\ c = b
    BY <2>2, <1>17
  <2> QED
    BY <2>1, <2>2, <1>4, <1>18
<1>20. \A r \in 1..frontier : ladder'[r] \in listed
  BY <1>3, <1>10 DEF ServerInv
<1>21. frontier < total => \E c \in Range(queue') : Deepens(c) /\ (total <= c.to \/ Opening <= c.to)
  BY <1>3, <1>16, <1>17, <1>18
<1>22. ServerInv'
  BY <1>1, <1>3, <1>9, <1>13, <1>15, <1>16, <1>18, <1>19, <1>20, <1>21 DEF ServerInv, total
<1>23. Waiting' \subseteq Waiting
  <2>1. Unread' = UNION {c.cvs : c \in {d \in Range(queue') : d.does = "parse"}}
    BY DEF Unread
  <2>2. \A d \in Range(queue') : d.does = "parse" => d \in Range(queue)
    BY <1>4, <1>17, <1>18 DEF Deepens
  <2>3. Unread' \subseteq Unread
    BY <2>1, <2>2 DEF Unread
  <2> QED
    BY <2>3, <1>1 DEF Waiting
<1> QED
  BY <1>1, <1>22, <1>23

(* Scoring a CV, the last of its batch or not, and passing over a batch that is done. *)
LEMMA BatchServer ==
  ASSUME ServerInv, Running({"initial", "rolling"}), listed \subseteq listed', listed' \subseteq Everybody,
         (Covered(listed') /\ BatchEnds) \/ UNCHANGED <<queue, frontier>>, UNCHANGED <<parsed, ladder>>
  PROVE  ServerInv' /\ queue # <<>> /\ Waiting' \subseteq Waiting
<1> DEFINE h == Head(queue)
           rest == Tail(queue)
<1>1. queue # <<>> /\ Deepens(h) /\ queue \in Seq(Batch)
  BY DEF Running, Deepens, ServerInv
<1>2. h \in Batch /\ rest \in Seq(Batch) /\ Range(queue) = Range(rest) \union {h}
  BY <1>1, FirstBatch
<1>3. /\ frontier \in Nat /\ Len(ladder) \in Nat /\ frontier <= Len(ladder)
      /\ Opening \in Nat
  BY LadderFacts
<1>4. Unranked' = Unranked
  BY DEF Unranked
<1>5. \A r \in 1..frontier : ladder[r] \in listed'
  BY DEF ServerInv
<1>6. CASE Covered(listed') /\ BatchEnds
  <2>1. h.from \in 1..(frontier + 1) /\ h.to \in 1..Len(ladder)
    BY <1>1, <1>2 DEF ServerInv
  <2>2. frontier' = (IF frontier < h.to THEN h.to ELSE frontier) /\ queue' = rest
    BY <1>6, <1>3, <2>1, GreaterOfTwo DEF BatchEnds
  <2>3. \A r \in h.from..h.to : ladder[r] \in listed'
    BY <1>6 DEF Covered
  <2> HIDE DEF h, rest
  <2>4. frontier' \in 0..Len(ladder) /\ frontier <= frontier' /\ h.to <= frontier'
    BY <1>3, <2>1, <2>2
  <2>5. \A r \in 1..frontier' : ladder[r] \in listed'
    <3> TAKE r \in 1..frontier'
    <3>1. r \in 1..frontier \/ r \in h.from..h.to
      BY <1>3, <2>1, <2>2
    <3> QED
      BY <3>1, <2>3, <1>5
  <2>6. \A b \in Range(queue') : Deepens(b) => b.from \in 1..(frontier' + 1) /\ b.to \in 1..Len(ladder)
    <3> TAKE b \in Range(queue')
    <3> HAVE Deepens(b)
    <3>1. b.from \in 1..(frontier + 1) /\ b.to \in 1..Len(ladder)
      BY <1>2, <2>2 DEF ServerInv
    <3> QED
      BY <3>1, <1>3, <2>4
  <2>7. Unranked' # {} => \E b \in Range(queue') : b.does = "preliminary"
    <3> HAVE Unranked' # {}
    <3>1. PICK b \in Range(queue) : b.does = "preliminary"
      BY <1>4 DEF ServerInv
    <3>2. b # h
      BY <3>1, <1>1 DEF Deepens, h
    <3> QED
      BY <3>1, <3>2, <1>2, <2>2
  <2>8. frontier' < Len(ladder) =>
          \/ Opening <= frontier'
          \/ \E b \in Range(queue') : Deepens(b) /\ (Len(ladder) <= b.to \/ Opening <= b.to)
    <3> HAVE frontier' < Len(ladder)
    <3>1. frontier < Len(ladder)
      BY <1>3, <2>4
    <3>2. CASE Opening <= frontier
      BY <3>2, <1>3, <2>4
    <3>3. CASE \E b \in Range(queue) : Deepens(b) /\ (Len(ladder) <= b.to \/ Opening <= b.to)
      <4>1. PICK b \in Range(queue) : Deepens(b) /\ (Len(ladder) <= b.to \/ Opening <= b.to)
        BY <3>3
      <4>2. CASE b = h
        BY <4>1, <4>2, <1>3, <2>1, <2>4
      <4>3. CASE b # h
        BY <4>1, <4>3, <1>2, <2>2
      <4> QED
        BY <4>2, <4>3
    <3> QED
      BY <3>1, <3>2, <3>3 DEF ServerInv
  <2>9. ServerInv'
    BY <1>2, <2>2, <2>4, <2>5, <2>6, <2>7, <2>8 DEF ServerInv
  <2>10. Waiting' \subseteq Waiting
    <3>1. Unread' = UNION {c.cvs : c \in {d \in Range(queue') : d.does = "parse"}}
      BY DEF Unread
    <3>2. Unread' \subseteq Unread
      BY <3>1, <1>2, <2>2 DEF Unread
    <3> QED
      BY <3>2 DEF Waiting
  <2> QED
    BY <1>1, <2>9, <2>10
<1>7. CASE UNCHANGED <<queue, frontier>>
  <2>1. ServerInv'
    BY <1>4, <1>5, <1>7 DEF ServerInv
  <2>2. Waiting' \subseteq Waiting
    BY <1>7 DEF Waiting, Unread
  <2> QED
    BY <1>1, <2>1, <2>2
<1> QED
  BY <1>6, <1>7

LEMMA ServerRests ==
  ASSUME ServerInv, UNCHANGED screenServer
  PROVE  ServerInv' /\ listed' = listed /\ queue' = queue /\ Waiting' = Waiting
<1>1. /\ queue' = queue /\ parsed' = parsed /\ ladder' = ladder /\ frontier' = frontier
      /\ listed' = listed
  BY DEF screenServer
<1>2. Unranked' = Unranked /\ Waiting' = Waiting
  BY <1>1 DEF Unranked, Waiting, Unread
<1> QED
  BY <1>1, <1>2 DEF ServerInv

(* Everybody on a list has a place of their own: one has nobody above, one has one ... *)
LEMMA EveryPlaceIsTaken ==
  ASSUME NEW S \in SUBSET Nat, IsFiniteSet(S), NEW i \in 1..Cardinality(S)
  PROVE  \E a \in S : Cardinality({b \in S : b < a}) = i - 1
<1> DEFINE Good == {s \in SUBSET S :
                      \A k \in 1..Cardinality(s) : \E a \in s : Cardinality({b \in s : b < a}) = k - 1}
<1>1. {} \in Good
  BY FS_EmptySet
<1>2. ASSUME NEW s \in SUBSET S, s # {}, \A x \in s : s \ {x} \in Good PROVE s \in Good
  <2>a. IsFiniteSet(s)
    BY FS_Subset
  <2>b. s \subseteq Int
    OBVIOUS
  <2>1. IsFiniteSet(s) /\ s \subseteq Int
    BY <2>a, <2>b
  <2> DEFINE m == Max(s)
  <2>2. m \in s /\ \A b \in s : b <= m
    BY <2>1, <1>2, MaxIsGreatest
  <2> DEFINE t == s \ {m}
  <2> HIDE DEF m
  <2>3. t \in Good /\ IsFiniteSet(t) /\ Cardinality(t) = Cardinality(s) - 1 /\ Cardinality(s) \in Nat
    BY <1>2, <2>1, <2>2, FS_RemoveElement, FS_CardinalityType
  <2>4. ASSUME NEW k \in 1..Cardinality(s)
        PROVE  \E a \in s : Cardinality({b \in s : b < a}) = k - 1
    <3>1. CASE k <= Cardinality(t)
      <4>1. k \in 1..Cardinality(t)
        BY <3>1, <2>3
      <4>2. PICK a \in t : Cardinality({b \in t : b < a}) = k - 1
        BY <4>1, <2>3
      <4>3. {b \in s : b < a} = {b \in t : b < a}
        BY <2>1, <2>2
      <4> QED
        BY <4>2, <4>3
    <3>2. CASE k = Cardinality(s)
      <4>0. m \in Int /\ \A b \in s : b \in Int
        BY <2>1, <2>2
      <4>1. {b \in s : b < m} = t
        <5>1. \A b \in s : b < m <=> b # m
          BY <4>0, <2>2
        <5> QED
          BY <5>1
      <4> QED
        BY <4>1, <3>2, <2>2, <2>3
    <3> QED
      BY <3>1, <3>2, <2>3
  <2> QED
    BY <2>4
<1> HIDE DEF Good
<1>3. S \in Good
  BY <1>1, <1>2, SubsetsAreGood
<1> QED
  BY <1>3 DEF Good

LEMMA RankingIsSeq ==
  ASSUME NEW S \in SUBSET Nat, IsFiniteSet(S)
  PROVE  /\ Cardinality(S) \in Nat
         /\ Ranking(S) \in Seq(S) /\ Len(Ranking(S)) = Cardinality(S)
<1>1. Cardinality(S) \in Nat
  BY FS_CardinalityType
<1>2. Ranking(S) \in [1..Cardinality(S) -> S]
  BY EveryPlaceIsTaken DEF Ranking
<1> QED
  BY <1>1, <1>2, FunctionIsSeq

(* A page is the rows of the ranking from its offset, as many as there are. *)
LEMMA SliceIs ==
  ASSUME NEW S \in SUBSET Nat, IsFiniteSet(S), NEW k \in 0..Cardinality(S), NEW n \in Nat
  PROVE  /\ Slice(S, k, n) \in Seq(S)
         /\ Len(Slice(S, k, n)) = IF k + n < Cardinality(S) THEN n ELSE Cardinality(S) - k
         /\ \A i \in 1..Len(Slice(S, k, n)) : Slice(S, k, n)[i] = Ranking(S)[k + i]
<1> DEFINE c == Cardinality(S)
           d == Min({k + n, c})
<1>1. c \in Nat /\ Ranking(S) \in Seq(S) /\ Len(Ranking(S)) = c
  BY RankingIsSeq
<1>2. d = (IF k + n < c THEN k + n ELSE c)
  BY <1>1, LesserOfTwo
<1> HIDE DEF c, d
<1>3. k \in Nat /\ k <= c /\ d \in Nat /\ d <= c /\ k <= d
  BY <1>1, <1>2 DEF c
<1>4. \A i \in (k + 1)..d : Ranking(S)[i] \in S
  BY <1>1, <1>3, ElementOfSeq
<1>5. /\ SubSeq(Ranking(S), k + 1, d) \in Seq(S)
      /\ Len(SubSeq(Ranking(S), k + 1, d)) = IF k + 1 <= d THEN d - (k + 1) + 1 ELSE 0
      /\ \A i \in 1..(d - (k + 1) + 1) : SubSeq(Ranking(S), k + 1, d)[i] = Ranking(S)[(k + 1) + i - 1]
  BY <1>3, <1>4, SubSeqProperties
<1>6. Slice(S, k, n) = SubSeq(Ranking(S), k + 1, d)
  BY DEF Slice, c, d
<1>7. Len(Slice(S, k, n)) = d - k
  BY <1>3, <1>5, <1>6
<1>8. \A i \in 1..(d - k) : Slice(S, k, n)[i] = Ranking(S)[k + i]
  <2> TAKE i \in 1..(d - k)
  <2>1. i \in 1..(d - (k + 1) + 1) /\ (k + 1) + i - 1 = k + i
    BY <1>3
  <2> QED
    BY <2>1, <1>5, <1>6
<1> QED
  BY <1>1, <1>2, <1>3, <1>5, <1>6, <1>7, <1>8 DEF c

(* The next page goes on where the rows end. *)
LEMMA PagesJoin ==
  ASSUME NEW S \in SUBSET Nat, IsFiniteSet(S), NEW k \in 0..Cardinality(S), NEW n \in Nat
  PROVE  LET joined == Slice(S, 0, k) \o Slice(S, k, n) IN
         joined = Slice(S, 0, Len(joined))
<1> DEFINE a == Slice(S, 0, k)
           b == Slice(S, k, n)
           c == Cardinality(S)
           joined == a \o b
           l == Len(joined)
           whole == Slice(S, 0, l)
<1>1. c \in Nat /\ k \in Nat /\ k <= c
  BY FS_CardinalityType
<1>2. a \in Seq(S) /\ Len(a) = k /\ \A i \in 1..k : a[i] = Ranking(S)[i]
  <2>1. 0 \in 0..c /\ 0 + k = k /\ k <= c
    BY <1>1
  <2>2. /\ a \in Seq(S) /\ Len(a) = (IF 0 + k < c THEN k ELSE c - 0)
        /\ \A i \in 1..Len(a) : a[i] = Ranking(S)[0 + i]
    BY <2>1, <1>1, SliceIs
  <2> HIDE DEF a, c
  <2>3. Len(a) = k
    BY <2>1, <2>2, <1>1
  <2>4. \A i \in 1..k : 0 + i = i
    BY <1>1
  <2> QED
    BY <2>2, <2>3, <2>4
<1>3. /\ b \in Seq(S) /\ Len(b) = (IF k + n < c THEN n ELSE c - k)
      /\ \A i \in 1..Len(b) : b[i] = Ranking(S)[k + i]
  BY <1>1, SliceIs
<1> HIDE DEF a, b, c
<1>4. /\ joined \in Seq(S) /\ l = k + Len(b)
      /\ \A i \in 1..(k + Len(b)) : joined[i] = IF i <= k THEN a[i] ELSE b[i - k]
  BY <1>2, <1>3, ConcatProperties, ZenonT(60)
<1>5. Len(b) \in Nat /\ k + Len(b) <= c
  BY <1>1, <1>3
<1> HIDE DEF joined, l
<1>6. l \in Nat /\ l <= c
  BY <1>1, <1>4, <1>5
<1>7. whole \in Seq(S) /\ Len(whole) = l /\ \A i \in 1..l : whole[i] = Ranking(S)[i]
  <2>1. 0 \in 0..Cardinality(S)
    BY <1>1 DEF c
  <2>2. /\ whole \in Seq(S) /\ Len(whole) = (IF 0 + l < Cardinality(S) THEN l ELSE Cardinality(S) - 0)
        /\ \A i \in 1..Len(whole) : whole[i] = Ranking(S)[0 + i]
    BY <2>1, <1>6, SliceIs
  <2> HIDE DEF whole
  <2>3. Len(whole) = l
    BY <2>2, <1>1, <1>6 DEF c
  <2>4. \A i \in 1..l : 0 + i = i
    BY <1>6
  <2> QED
    BY <2>2, <2>3, <2>4
<1> HIDE DEF whole
<1>8. \A i \in 1..l : joined[i] = whole[i]
  <2> TAKE i \in 1..l
  <2>1. CASE i <= k
    <3>1. i \in 1..k /\ i \in 1..(k + Len(b))
      BY <2>1, <1>1, <1>4, <1>5
    <3> QED
      BY <3>1, <2>1, <1>2, <1>4, <1>7
  <2>2. CASE ~(i <= k)
    <3>1. i - k \in 1..Len(b) /\ k + (i - k) = i
      BY <2>2, <1>1, <1>4, <1>5
    <3> QED
      BY <3>1, <2>2, <1>3, <1>4, <1>7
  <2> QED
    BY <2>1, <2>2
<1>9. joined = whole
  BY <1>4, <1>7, <1>8, SeqEqual DEF l
<1> QED
  BY <1>9 DEF whole, joined, l, a, b

LEMMA WireTypes ==
  ASSUME NEW x \in Wire
  PROVE  /\ x.at \in {"quiet", "asked", "answered", "added"}
         /\ x.at = "quiet" <=> x = Quiet
         /\ x.at = "asked" => /\ x.kind \in {"poll", "more", "add"} /\ x.offset \in Nat
         /\ x.at = "answered" =>
              /\ x.kind \in {"poll", "more"} /\ x.offset \in Nat /\ x.late \in BOOLEAN
              /\ x.page \in Seq(Everybody) /\ x.says \in [working : BOOLEAN, hasMore : BOOLEAN]
              /\ x.states \in States3
         /\ x.at = "added" => x.kind = "add"
BY DEF Wire, Quiet

(* A call is the same call though it may have been overtaken. *)
SameCall(x, y) ==
    /\ x.at = y.at
    /\ x.at # "quiet" => x.kind = y.kind
    /\ x.at \in {"asked", "answered"} => x.offset = y.offset
    /\ x.at = "answered" => x.page = y.page /\ x.says = y.says /\ x.states = y.states

LEMMA OvertakenWires ==
  ASSUME wires \in [Wires -> Wire]
  PROVE  /\ Overtaken \in [Wires -> Wire]
         /\ \A v \in Wires : SameCall(Overtaken[v], wires[v])
         /\ \A v \in Wires : Overtaken[v].at = "answered" => Overtaken[v].late = TRUE
<1>1. ASSUME NEW x \in Wire, x.at = "answered"
      PROVE  LET y == [x EXCEPT !.late = TRUE] IN
             y \in Wire /\ SameCall(y, x) /\ y.at = "answered" /\ y.late = TRUE
  <2>1. x \in [at : {"answered"}, kind : {"poll", "more"}, offset : Nat, late : BOOLEAN,
            page : Seq(Everybody), says : [working : BOOLEAN, hasMore : BOOLEAN],
            states : States3]
    BY <1>1 DEF Wire, Quiet
  <2> QED
    BY <2>1 DEF Wire, SameCall
<1>2. \A v \in Wires : wires[v] \in Wire
  OBVIOUS
<1>3. \A v \in Wires : Overtaken[v] = IF wires[v].at = "answered" THEN [wires[v] EXCEPT !.late = TRUE]
                                       ELSE wires[v]
  BY DEF Overtaken
<1>4. ASSUME NEW v \in Wires
      PROVE  /\ Overtaken[v] \in Wire /\ SameCall(Overtaken[v], wires[v])
             /\ Overtaken[v].at = "answered" => Overtaken[v].late = TRUE
  <2>1. CASE wires[v].at = "answered"
    BY <2>1, <1>1, <1>2, <1>3
  <2>2. CASE wires[v].at # "answered"
    BY <2>2, <1>2, <1>3 DEF SameCall
  <2> QED
    BY <2>1, <2>2
<1>5. Overtaken = [v \in Wires |-> Overtaken[v]]
  BY DEF Overtaken
<1> QED
  BY <1>4, <1>5

LEMMA ListIsFinite ==
  ASSUME ScreenTables
  PROVE  /\ listed \in SUBSET Nat /\ IsFiniteSet(listed) /\ Cardinality(listed) \in Nat
         /\ RowsAPage \in Nat /\ 0 < RowsAPage
         /\ listed \subseteq Everybody /\ Everybody \subseteq Nat /\ IsFiniteSet(Everybody)
<1>1. Everybody \subseteq Nat /\ IsFiniteSet(Everybody) /\ RowsAPage \in Nat /\ 0 < RowsAPage
  BY ScreenAssumption DEF Everybody
<1>2. listed \subseteq Everybody
  BY DEF ScreenTables
<1> QED
  BY <1>1, <1>2, FS_Subset, FS_CardinalityType

LEMMA PageFacts ==
  ASSUME ScreenTables, NEW k \in Nat, k <= Cardinality(listed)
  PROVE  /\ PageAt(k) \in Seq(Everybody)
         /\ Len(PageAt(k)) = IF k + RowsAPage < Cardinality(listed) THEN RowsAPage
                             ELSE Cardinality(listed) - k
<1>1. k \in 0..Cardinality(listed)
  BY ListIsFinite
<1>2. /\ PageAt(k) \in Seq(listed)
      /\ Len(PageAt(k)) = IF k + RowsAPage < Cardinality(listed) THEN RowsAPage
                             ELSE Cardinality(listed) - k
  BY <1>1, ListIsFinite, SliceIs DEF PageAt
<1> QED
  BY <1>2, ListIsFinite, SeqMonotonic

LEMMA FirstPageInPlace ==
  ASSUME ScreenTables, NEW loaded, Len(loaded) \in Nat, Len(loaded) <= RowsAPage
  PROVE  InPlace(loaded, listed) = PageAt(0)
<1>1. Max({Len(loaded), RowsAPage}) = RowsAPage
  BY ListIsFinite, GreaterOfTwo
<1> QED
  BY <1>1 DEF InPlace, PageAt

LEMMA NextPageInPlace ==
  ASSUME ScreenTables, RowsAPage <= Len(rows), rows = InPlace(rows, listed)
  PROVE  LET more == rows \o PageAt(Len(rows)) IN more = InPlace(more, listed)
<1> DEFINE k == Len(rows)
           c == Cardinality(listed)
           more == rows \o PageAt(k)
<1>1. k \in Nat /\ k <= c /\ c \in Nat /\ rows \in Seq(Everybody) /\ RowsAPage \in Nat
  BY ListIsFinite DEF ScreenTables
<1>2. Max({k, RowsAPage}) = k
  BY <1>1, GreaterOfTwo
<1>3. rows = Slice(listed, 0, k)
  BY <1>2 DEF InPlace
<1>4. more = Slice(listed, 0, Len(more))
  <2>1. k \in 0..Cardinality(listed)
    BY <1>1
  <2> HIDE DEF k
  <2>2. LET joined == Slice(listed, 0, k) \o Slice(listed, k, RowsAPage) IN
        joined = Slice(listed, 0, Len(joined))
    BY <2>1, ListIsFinite, PagesJoin
  <2> QED
    BY <2>2, <1>3 DEF PageAt
<1>5. PageAt(k) \in Seq(Everybody) /\ Len(PageAt(k)) \in Nat
  BY <1>1, PageFacts
<1>6. Len(more) \in Nat /\ k <= Len(more)
  BY <1>1, <1>5, ConcatProperties
<1> HIDE DEF more
<1>7. Max({Len(more), RowsAPage}) = Len(more)
  BY <1>1, <1>6, GreaterOfTwo
<1> QED
  BY <1>4, <1>7 DEF InPlace, more

(* What answers and the signature tell of the list survives whatever touches neither the
   list nor the rows, if the calls it changes fit. *)
LEMMA CallsChange ==
  ASSUME ScreenTables, MoreJoins, AnswersAreOfTheList, SignatureIsShown,
         listed' = listed, rows' = rows, signature' = signature, screen' = screen,
         wires' \in [Wires -> Wire],
         NEW changed \in SUBSET Wires, \A v, w \in changed : v = w,
         \A v \in Wires \ changed : SameCall(wires'[v], wires[v]),
         \A w \in changed : IsMore(w)' =>
            /\ wires'[w].offset = Len(rows) /\ RowsAPage <= Len(rows)
            /\ \A v \in Wires : IsMore(v) => v = w,
         \A w \in changed : Heard(w)' =>
            /\ wires'[w].offset <= Cardinality(listed)
            /\ wires'[w].kind = "poll" => wires'[w].offset = 0
            /\ wires'[w].page = PageAt(wires'[w].offset)
            /\ wires'[w].states[3] = Cardinality(listed)
            /\ wires'[w].says.hasMore = (wires'[w].offset + RowsAPage < Cardinality(listed))
  PROVE  MoreJoins' /\ AnswersAreOfTheList' /\ SignatureIsShown'
<1> DEFINE same == Wires \ changed
<1>1. \A v \in Wires : wires[v] \in Wire /\ wires'[v] \in Wire
  BY DEF ScreenTables
<1>2. \A v \in Wires : /\ wires[v].at = "quiet" <=> wires[v] = Quiet
                       /\ wires'[v].at = "quiet" <=> wires'[v] = Quiet
  BY <1>1, WireTypes
<1>3. \A v \in same : /\ IsMore(v)' <=> IsMore(v)
                      /\ Heard(v)' <=> Heard(v)
                      /\ HeardPoll(v)' <=> HeardPoll(v)
                      /\ IsMore(v) /\ wires[v].at \in {"asked", "answered"} => wires'[v].offset = wires[v].offset
                      /\ Heard(v) => /\ wires'[v].page = wires[v].page /\ wires'[v].says = wires[v].says
                                     /\ wires'[v].states = wires[v].states
                                     /\ wires'[v].offset = wires[v].offset
  BY <1>2 DEF IsMore, Heard, HeardPoll, SameCall
<1>4. \A v \in Wires : IsMore(v) => wires[v].at \in {"asked", "answered"}
  BY <1>1, WireTypes DEF IsMore
<1>5. MoreJoins'
  <2>1. \A v, w \in Wires : IsMore(v)' /\ IsMore(w)' => v = w
    BY <1>3 DEF MoreJoins
  <2>2. \A w \in Wires : IsMore(w)' => wires'[w].offset = Len(rows) /\ RowsAPage <= Len(rows)
    BY <1>3, <1>4 DEF MoreJoins
  <2> QED
    BY <2>1, <2>2 DEF MoreJoins
<1>6. \A k : PageAt(k)' = PageAt(k)
  BY DEF PageAt
<1>7. \A w \in changed : Heard(w)' => wires'[w].offset \in Nat
  BY <1>1, WireTypes DEF Heard
<1>8. \A p, k, n : PageIsOf(p, k, n)' <=> PageIsOf(p, k, n)
  BY <1>6 DEF PageIsOf
<1>9. ASSUME NEW w \in Wires, Heard(w)'
      PROVE  /\ PageIsOf(wires'[w].page, wires'[w].offset, wires'[w].states[3])
             /\ wires'[w].says.hasMore = (wires'[w].offset + RowsAPage < wires'[w].states[3])
  <2>1. CASE w \in same
    BY <2>1, <1>9, <1>3 DEF AnswersAreOfTheList
  <2>2. CASE w \in changed
    <3>1. /\ wires'[w].offset \in Nat /\ wires'[w].offset <= Cardinality(listed)
          /\ wires'[w].page = PageAt(wires'[w].offset) /\ wires'[w].states[3] = Cardinality(listed)
          /\ wires'[w].says.hasMore = (wires'[w].offset + RowsAPage < Cardinality(listed))
      BY <2>2, <1>9, <1>7
    <3>2. Cardinality(listed) \in Nat
      BY ListIsFinite
    <3>3. ASSUME NEW k \in Nat, k <= Cardinality(listed)
          PROVE  PageIsOf(PageAt(k), k, Cardinality(listed))
      BY <3>2, <3>3, PageFacts DEF PageIsOf
    <3> QED
      BY <3>1, <3>3
  <2> QED
    BY <2>1, <2>2
<1>10. \A w \in Wires : HeardPoll(w) /\ wires[w].states[3] = Cardinality(listed) => wires[w].page = PageAt(0)
  BY DEF AnswersAreOfTheList, PageIsOf, HeardPoll, ScreenTables, Heard
<1>11. \A w \in changed : HeardPoll(w)' => wires'[w].states[3] = Cardinality(listed) /\ wires'[w].page = PageAt(0)
  BY DEF HeardPoll, Heard
<1>12. ASSUME NEW v \in Wires, NEW w \in Wires, HeardPoll(v)', HeardPoll(w)',
              wires'[v].states[3] = wires'[w].states[3]
       PROVE  wires'[v].page = wires'[w].page
  <2>1. CASE v \in same /\ w \in same
    BY <2>1, <1>12, <1>3 DEF AnswersAreOfTheList, HeardPoll
  <2>2. CASE v \in same /\ w \in changed
    BY <2>2, <1>12, <1>3, <1>10, <1>11 DEF HeardPoll
  <2>3. CASE v \in changed /\ w \in same
    BY <2>3, <1>12, <1>3, <1>10, <1>11 DEF HeardPoll
  <2>4. CASE v \in changed /\ w \in changed
    BY <2>4
  <2> QED
    BY <2>1, <2>2, <2>3, <2>4
<1>13. AnswersAreOfTheList'
  BY <1>8, <1>9, <1>12 DEF AnswersAreOfTheList
<1>14. SignatureIsShown'
  <2> SUFFICES ASSUME signature # <<>> PROVE SignatureIsShown'
    BY DEF SignatureIsShown
  <2>1. \A p : Shows(p)' <=> Shows(p)
    BY DEF Shows
  <2>2. ASSUME NEW w \in Wires, HeardPoll(w)', wires'[w].states[3] = signature[1][3]
        PROVE  Shows(wires'[w].page)
    <3>1. CASE w \in same
      BY <3>1, <2>2, <1>3 DEF SignatureIsShown, HeardPoll
    <3>2. CASE w \in changed
      BY <3>2, <2>2, <1>11 DEF SignatureIsShown
    <3> QED
      BY <3>1, <3>2
  <2> QED
    BY <2>1, <2>2, <1>6 DEF SignatureIsShown
<1> QED
  BY <1>5, <1>13, <1>14

LEMMA ScreenInitHolds ==
  ASSUME ScreenInit
  PROVE  ScreenInv
<1>1. RowsAPage \in Nat /\ 0 < RowsAPage
  BY ScreenAssumption
<1>2. /\ queue = <<Parse(Pile)>> /\ parsed = {} /\ ladder = <<>> /\ frontier = 0 /\ listed = {}
  BY DEF ScreenInit
<1>3. queue # <<>>
  BY <1>2
<1>4. Cardinality(listed) = 0
  BY <1>2, FS_EmptySet
<1>0. ServerInv
  <2>1. Parse(Pile) \in Batch /\ Parse(Pile).does = "parse"
    BY DEF Parse, Batch, Everybody
  <2>2. <<>> \in Seq(Batch) /\ <<Parse(Pile)>> = Append(<<>>, Parse(Pile))
    OBVIOUS
  <2>3. queue \in Seq(Batch) /\ Range(queue) = Range(<<>>) \union {Parse(Pile)}
    BY <1>2, <2>1, <2>2, AppendedBatch
  <2>4. Range(<<>>) = {}
    BY <2>2, NoBatches
  <2>5. ladder \in Seq(Everybody) /\ Len(ladder) = 0
    BY <1>2
  <2>6. Unranked = {}
    BY <1>2 DEF Unranked
  <2> HIDE DEF Parse
  <2>7. \A b \in Range(queue) : ~ Deepens(b)
    BY <2>1, <2>3, <2>4 DEF Deepens
  <2> QED
    BY <1>2, <2>3, <2>5, <2>6, <2>7 DEF ServerInv
<1>5. rows = <<>> /\ signature = <<>> /\ shaken = FALSE /\ misled = FALSE
  BY DEF ScreenInit
<1>6. screen = [working |-> TRUE, hasMore |-> FALSE]
  <2>1. screen = [working |-> queue # <<>>, hasMore |-> 0 + RowsAPage < Cardinality(listed)]
    BY DEF ScreenInit, Told
  <2>2. (0 + RowsAPage < Cardinality(listed)) = FALSE
    BY <1>1, <1>4
  <2>3. (queue # <<>>) = TRUE
    BY <1>3
  <2> QED
    BY <2>1, <2>2, <2>3
<1>7. \A w \in Wires : wires[w] \in {Quiet, [at |-> "asked", kind |-> "poll", offset |-> 0]}
  BY DEF ScreenInit
<1>8. wires \in [Wires -> Wire]
  <2>1. {Quiet, [at |-> "asked", kind |-> "poll", offset |-> 0]} \subseteq Wire
    BY DEF Wire
  <2>2. wires = [w \in Wires |-> wires[w]]
    BY DEF ScreenInit
  <2> QED
    BY <1>7, <2>1, <2>2
<1>9. \A w \in Wires : ~ Heard(w) /\ ~ HeardPoll(w) /\ ~ IsMore(w)
  BY <1>7 DEF Heard, HeardPoll, IsMore, Quiet
<1>10. ScreenTables
  <2>1. rows \in Seq(Everybody) /\ Len(rows) = 0
    BY <1>5
  <2>2. \A w \in Wires : wires[w].at = "asked" => wires[w].offset = 0
    BY <1>7 DEF Quiet
  <2>3. \A w \in Wires : wires[w].at # "answered"
    BY <1>9 DEF Heard
  <2>4. screen \in [working : BOOLEAN, hasMore : BOOLEAN] /\ shaken \in BOOLEAN /\ misled \in BOOLEAN
    BY <1>5, <1>6
  <2>5. Len(rows) <= Cardinality(listed) /\ listed \subseteq Everybody
    BY <1>2, <1>4, <2>1
  <2> QED
    BY <1>8, <2>1, <2>2, <2>3, <2>4, <2>5 DEF ScreenTables
<1>11. MoreJoins
  BY <1>6, <1>9 DEF MoreJoins
<1>12. AnswersAreOfTheList
  BY <1>9 DEF AnswersAreOfTheList
<1>13. SignatureIsShown
  BY <1>5 DEF SignatureIsShown
<1>14. WatchedInv
  BY <1>6, <1>9 DEF WatchedInv, Tells
<1>15. Unshaken
  <2>1. ~ LoadingMore
    BY <1>9 DEF LoadingMore, IsMore
  <2>2. ~ (Len(rows) > RowsAPage)
    BY <1>1, <1>5
  <2> QED
    BY <2>1, <2>2, <1>6 DEF Unshaken
<1> QED
  BY <1>0, <1>10, <1>11, <1>12, <1>13, <1>14, <1>15 DEF ScreenInv

(* Polling, adding, and refreshing after an addition ask for the first page. *)
LEMMA AskingKeeps ==
  ASSUME ScreenInv, NEW w \in Wires, wires[w].at \in {"quiet", "added"},
         NEW kind \in {"poll", "add"}, Ask(w, kind, 0),
         UNCHANGED <<screenServer, rows, screen, signature, shaken, misled>>
  PROVE  ScreenInv'
<1> DEFINE call == [at |-> "asked", kind |-> kind, offset |-> 0]
<1>1. /\ listed' = listed /\ rows' = rows /\ screen' = screen /\ signature' = signature /\ shaken' = shaken
      /\ misled' = misled
  BY DEF screenServer
<1>0. ServerInv' /\ queue' = queue /\ Waiting' = Waiting
  BY ServerRests DEF ScreenInv
<1>2. wires \in [Wires -> Wire]
  BY DEF ScreenInv, ScreenTables
<1>3. /\ call \in Wire /\ call # Quiet /\ call.at = "asked" /\ call.kind = kind /\ call.offset = 0
  BY DEF Wire, Quiet
<1> HIDE DEF call
<1>4. wires' = [wires EXCEPT ![w] = call]
  BY DEF Ask, call
<1>5. wires' \in [Wires -> Wire] /\ wires'[w] = call /\ \A v \in Wires \ {w} : wires'[v] = wires[v]
  BY <1>2, <1>3, <1>4
<1>6. ~ Heard(w)' /\ ~ IsMore(w)'
  BY <1>3, <1>5 DEF Heard, IsMore
<1>7. MoreJoins' /\ AnswersAreOfTheList' /\ SignatureIsShown'
  <2>1. \A v \in Wires \ {w} : SameCall(wires'[v], wires[v])
    BY <1>5 DEF SameCall
  <2>2. \A u, v \in {w} : u = v
    OBVIOUS
  <2>3. \A v \in {w} : ~ Heard(v)' /\ ~ IsMore(v)'
    BY <1>6
  <2>4. {w} \in SUBSET Wires
    OBVIOUS
  <2> QED
    BY <1>1, <1>5, <2>1, <2>2, <2>3, <2>4, CallsChange DEF ScreenInv
<1>8. ScreenTables'
  <2>1. \A v \in Wires : wires'[v].at = "asked" /\ wires'[v].kind # "more" => wires'[v].offset = 0
    BY <1>3, <1>5 DEF ScreenInv, ScreenTables
  <2>2. \A v \in Wires : wires'[v].at = "answered" /\ wires'[v].kind = "poll" => wires'[v].offset = 0
    BY <1>3, <1>5 DEF ScreenInv, ScreenTables
  <2> QED
    BY <1>1, <1>5, <2>1, <2>2 DEF ScreenInv, ScreenTables
<1>9. WatchedInv'
  <2>1. ~ AllQuiet'
    BY <1>3, <1>5 DEF AllQuiet
  <2>2. \A v \in Wires : Heard(v)' => Heard(v) /\ wires'[v] = wires[v]
    BY <1>5, <1>6 DEF Heard
  <2> QED
    BY <1>0, <1>1, <2>1, <2>2 DEF ScreenInv, WatchedInv, Tells
<1>10. Unshaken'
  <2>1. LoadingMore' => LoadingMore
    BY <1>5, <1>6 DEF LoadingMore, IsMore
  <2>2. InPlace(rows, listed)' = InPlace(rows, listed)
    BY <1>1
  <2> QED
    BY <1>1, <2>1, <2>2 DEF ScreenInv, Unshaken
<1> QED
  BY <1>0, <1>7, <1>8, <1>9, <1>10 DEF ScreenInv

LEMMA FreeIsQuiet ==
  ASSUME NEW w \in Wires, FreeWire(w)
  PROVE  wires[w].at = "quiet"
BY DEF FreeWire, Quiet

LEMMA PressMoreKeeps ==
  ASSUME ScreenInv, NEW w \in Wires, PressMore(w)
  PROVE  ScreenInv'
<1> DEFINE call == [at |-> "asked", kind |-> "more", offset |-> Len(rows)]
<1>1. /\ listed' = listed /\ rows' = rows /\ screen' = screen /\ signature' = signature /\ misled' = misled
      /\ screen.hasMore /\ ~ LoadingMore /\ shaken' = (shaken \/ InPlace(rows, listed) # rows)
  BY DEF PressMore, screenServer
<1>0. ServerInv' /\ queue' = queue /\ Waiting' = Waiting
  BY ServerRests DEF ScreenInv, PressMore
<1>2. wires \in [Wires -> Wire] /\ Len(rows) \in Nat
  BY DEF ScreenInv, ScreenTables
<1>3. /\ call \in Wire /\ call # Quiet /\ call.at = "asked" /\ call.kind = "more"
      /\ call.offset = Len(rows)
  BY <1>2 DEF Wire, Quiet
<1> HIDE DEF call
<1>4. wires' = [wires EXCEPT ![w] = call]
  BY DEF PressMore, Ask, call
<1>5. wires' \in [Wires -> Wire] /\ wires'[w] = call /\ \A v \in Wires \ {w} : wires'[v] = wires[v]
  BY <1>2, <1>3, <1>4
<1>6. ~ Heard(w)'
  BY <1>3, <1>5 DEF Heard
<1>7. MoreJoins' /\ AnswersAreOfTheList' /\ SignatureIsShown'
  <2>1. \A v \in Wires \ {w} : SameCall(wires'[v], wires[v])
    BY <1>5 DEF SameCall
  <2>2. \A u, v \in {w} : u = v
    OBVIOUS
  <2>3. \A v \in {w} : ~ Heard(v)' /\ wires'[v].offset = Len(rows)
    BY <1>3, <1>5, <1>6
  <2>4. {w} \in SUBSET Wires
    OBVIOUS
  <2>5. RowsAPage <= Len(rows) /\ \A v \in Wires : ~ IsMore(v)
    BY <1>1 DEF ScreenInv, MoreJoins, LoadingMore, IsMore
  <2> QED
    BY <1>1, <1>5, <2>1, <2>2, <2>3, <2>4, <2>5, CallsChange DEF ScreenInv
<1>8. ScreenTables'
  <2>1. \A v \in Wires : wires'[v].at = "asked" /\ wires'[v].kind # "more" => wires'[v].offset = 0
    BY <1>3, <1>5 DEF ScreenInv, ScreenTables
  <2>2. \A v \in Wires : wires'[v].at = "answered" /\ wires'[v].kind = "poll" => wires'[v].offset = 0
    BY <1>3, <1>5 DEF ScreenInv, ScreenTables
  <2>3. shaken' \in BOOLEAN
    BY <1>1
  <2> QED
    BY <1>1, <1>5, <2>1, <2>2, <2>3 DEF ScreenInv, ScreenTables
<1>9. WatchedInv'
  <2>1. ~ AllQuiet'
    BY <1>3, <1>5 DEF AllQuiet
  <2>2. \A v \in Wires : Heard(v)' => Heard(v) /\ wires'[v] = wires[v]
    BY <1>5, <1>6 DEF Heard
  <2> QED
    BY <1>0, <1>1, <2>1, <2>2 DEF ScreenInv, WatchedInv, Tells
<1>10. Unshaken'
  <2>1. InPlace(rows, listed)' = InPlace(rows, listed)
    BY <1>1
  <2> QED
    BY <1>1, <2>1 DEF Unshaken
<1> QED
  BY <1>0, <1>7, <1>8, <1>9, <1>10 DEF ScreenInv

LEMMA LoseKeeps ==
  ASSUME ScreenInv, NEW w \in Wires, Lose(w)
  PROVE  ScreenInv'
<1>1. /\ listed' = listed /\ rows' = rows /\ screen' = screen /\ signature' = signature /\ misled' = TRUE
      /\ shaken' = shaken /\ wires' = [Overtaken EXCEPT ![w] = Quiet]
  BY DEF Lose, screenServer
<1>0. ServerInv' /\ queue' = queue /\ Waiting' = Waiting
  BY ServerRests DEF ScreenInv, Lose
<1>2. /\ Overtaken \in [Wires -> Wire]
      /\ \A v \in Wires : SameCall(Overtaken[v], wires[v])
      /\ \A v \in Wires : Overtaken[v].at = "answered" => Overtaken[v].late = TRUE
  BY OvertakenWires DEF ScreenInv, ScreenTables
<1>3. Quiet \in Wire /\ Quiet.at = "quiet"
  BY DEF Wire, Quiet
<1>4. wires' \in [Wires -> Wire] /\ wires'[w] = Quiet /\ \A v \in Wires \ {w} : wires'[v] = Overtaken[v]
  BY <1>1, <1>2, <1>3
<1>5. ~ Heard(w)' /\ ~ IsMore(w)'
  BY <1>3, <1>4 DEF Heard, IsMore
<1>6. MoreJoins' /\ AnswersAreOfTheList' /\ SignatureIsShown'
  <2>1. \A v \in Wires \ {w} : SameCall(wires'[v], wires[v])
    BY <1>2, <1>4
  <2>2. \A u, v \in {w} : u = v
    OBVIOUS
  <2>3. \A v \in {w} : ~ Heard(v)' /\ ~ IsMore(v)'
    BY <1>5
  <2>4. {w} \in SUBSET Wires
    OBVIOUS
  <2> QED
    BY <1>1, <1>4, <2>1, <2>2, <2>3, <2>4, CallsChange DEF ScreenInv
<1>7. \A v \in Wires \ {w} : SameCall(wires'[v], wires[v])
  BY <1>2, <1>4
<1>8. ScreenTables'
  <2>1. \A v \in Wires : wires'[v].at = "asked" /\ wires'[v].kind # "more" => wires'[v].offset = 0
    BY <1>3, <1>4, <1>7 DEF ScreenInv, ScreenTables, SameCall
  <2>2. \A v \in Wires : wires'[v].at = "answered" /\ wires'[v].kind = "poll" => wires'[v].offset = 0
    BY <1>3, <1>4, <1>7 DEF ScreenInv, ScreenTables, SameCall
  <2> QED
    BY <1>1, <1>4, <2>1, <2>2 DEF ScreenInv, ScreenTables
<1>9. WatchedInv'
  <2>1. \A v \in Wires : Heard(v)' => Heard(v) /\ wires'[v].says = wires[v].says /\ wires'[v].late = TRUE
    BY <1>2, <1>4, <1>5, <1>7 DEF Heard, SameCall
  <2> QED
    BY <1>0, <1>1, <2>1 DEF ScreenInv, WatchedInv, Tells
<1>10. Unshaken'
  <2>1. \A v \in Wires : wires'[v] # Quiet => v # w /\ wires'[v].at # "quiet"
    <3> TAKE v \in Wires
    <3>1. wires'[v] \in Wire
      BY <1>4
    <3> QED
      BY <1>4, <3>1, WireTypes
  <2>2. LoadingMore' => LoadingMore
    BY <2>1, <1>7, <1>3 DEF LoadingMore, SameCall
  <2>3. InPlace(rows, listed)' = InPlace(rows, listed)
    BY <1>1
  <2> QED
    BY <1>1, <2>2, <2>3 DEF ScreenInv, Unshaken
<1> QED
  BY <1>0, <1>6, <1>8, <1>9, <1>10 DEF ScreenInv

LEMMA ColleagueAddsKeeps ==
  ASSUME ScreenInv, NEW added \in SUBSET Arrivals, ColleagueAdds(added)
  PROVE  ScreenInv'
<1>0. ServerInv' /\ listed' = listed
  BY DeliveredServer DEF ColleagueAdds, ScreenInv
<1>1. /\ listed' = listed /\ rows' = rows /\ screen' = screen /\ signature' = signature /\ misled' = TRUE
      /\ shaken' = shaken /\ wires' = Overtaken
  BY <1>0 DEF ColleagueAdds
<1>2. /\ wires' \in [Wires -> Wire]
      /\ \A v \in Wires : SameCall(wires'[v], wires[v])
      /\ \A v \in Wires : wires'[v].at = "answered" => wires'[v].late = TRUE
  BY <1>1, OvertakenWires DEF ScreenInv, ScreenTables
<1>3. MoreJoins' /\ AnswersAreOfTheList' /\ SignatureIsShown'
  <2>1. {} \in SUBSET Wires /\ \A v \in Wires \ {} : SameCall(wires'[v], wires[v])
    BY <1>2
  <2>2. \A u, v \in {} : u = v
    OBVIOUS
  <2> QED
    BY <1>1, <1>2, <2>1, <2>2, CallsChange DEF ScreenInv
<1>4. ScreenTables'
  <2>1. \A v \in Wires : wires'[v].at = "asked" /\ wires'[v].kind # "more" => wires'[v].offset = 0
    BY <1>2 DEF ScreenInv, ScreenTables, SameCall
  <2>2. \A v \in Wires : wires'[v].at = "answered" /\ wires'[v].kind = "poll" => wires'[v].offset = 0
    BY <1>2 DEF ScreenInv, ScreenTables, SameCall
  <2> QED
    BY <1>1, <1>2, <2>1, <2>2 DEF ScreenInv, ScreenTables
<1>5. WatchedInv'
  <2>1. \A v \in Wires : Heard(v)' => Heard(v) /\ wires'[v].says = wires[v].says /\ wires'[v].late = TRUE
    BY <1>2 DEF Heard, SameCall
  <2> QED
    BY <1>1, <2>1 DEF WatchedInv
<1>6. Unshaken'
  <2>1. \A v \in Wires : wires'[v] # Quiet => wires'[v].at # "quiet"
    BY <1>2, WireTypes
  <2>2. LoadingMore' => LoadingMore
    BY <2>1, <1>2 DEF LoadingMore, SameCall, Quiet
  <2>3. InPlace(rows, listed)' = InPlace(rows, listed)
    BY <1>1
  <2> QED
    BY <1>1, <2>2, <2>3 DEF ScreenInv, Unshaken
<1> QED
  BY <1>0, <1>3, <1>4, <1>5, <1>6 DEF ScreenInv

LEMMA AnswerAddKeeps ==
  ASSUME ScreenInv, NEW w \in Wires, NEW added \in SUBSET Arrivals, AnswerAdd(w, added)
  PROVE  ScreenInv'
<1> DEFINE call == [at |-> "added", kind |-> "add"]
<1>0. ServerInv' /\ listed' = listed
  BY DeliveredServer DEF AnswerAdd, ScreenInv
<1>1. /\ listed' = listed /\ rows' = rows /\ screen' = screen /\ signature' = signature /\ misled' = misled
      /\ shaken' = shaken /\ wires' = [Overtaken EXCEPT ![w] = call]
  BY <1>0 DEF AnswerAdd
<1>2. /\ Overtaken \in [Wires -> Wire]
      /\ \A v \in Wires : SameCall(Overtaken[v], wires[v])
      /\ \A v \in Wires : Overtaken[v].at = "answered" => Overtaken[v].late = TRUE
  BY OvertakenWires DEF ScreenInv, ScreenTables
<1>3. call \in Wire /\ call.at = "added" /\ call # Quiet /\ call.kind = "add"
  BY DEF Wire, Quiet
<1> HIDE DEF call
<1>4. wires' \in [Wires -> Wire] /\ wires'[w] = call /\ \A v \in Wires \ {w} : wires'[v] = Overtaken[v]
  BY <1>1, <1>2, <1>3
<1>5. ~ Heard(w)' /\ ~ IsMore(w)'
  BY <1>3, <1>4 DEF Heard, IsMore
<1>7. \A v \in Wires \ {w} : SameCall(wires'[v], wires[v])
  BY <1>2, <1>4
<1>6. MoreJoins' /\ AnswersAreOfTheList' /\ SignatureIsShown'
  <2>2. \A u, v \in {w} : u = v
    OBVIOUS
  <2>3. \A v \in {w} : ~ Heard(v)' /\ ~ IsMore(v)'
    BY <1>5
  <2>4. {w} \in SUBSET Wires
    OBVIOUS
  <2> QED
    BY <1>1, <1>4, <1>7, <2>2, <2>3, <2>4, CallsChange DEF ScreenInv
<1>8. ScreenTables'
  <2>1. \A v \in Wires : wires'[v].at = "asked" /\ wires'[v].kind # "more" => wires'[v].offset = 0
    BY <1>3, <1>4, <1>7 DEF ScreenInv, ScreenTables, SameCall
  <2>2. \A v \in Wires : wires'[v].at = "answered" /\ wires'[v].kind = "poll" => wires'[v].offset = 0
    BY <1>3, <1>4, <1>7 DEF ScreenInv, ScreenTables, SameCall
  <2> QED
    BY <1>1, <1>4, <2>1, <2>2 DEF ScreenInv, ScreenTables
<1>9. WatchedInv'
  <2>1. \A v \in Wires : Heard(v)' => Heard(v) /\ wires'[v].says = wires[v].says /\ wires'[v].late = TRUE
    BY <1>2, <1>4, <1>5, <1>7 DEF Heard, SameCall
  <2>2. ~ AllQuiet'
    BY <1>3, <1>4 DEF AllQuiet
  <2> QED
    BY <1>1, <2>1, <2>2 DEF WatchedInv
<1>10. Unshaken'
  <2>1. \A v \in Wires : wires'[v] # Quiet => wires'[v].at # "quiet"
    BY <1>4, WireTypes
  <2>2. LoadingMore' => LoadingMore
    <3> SUFFICES ASSUME NEW v \in Wires, wires'[v] # Quiet, wires'[v].kind = "more"
                 PROVE  LoadingMore
      BY DEF LoadingMore
    <3>1. v # w
      BY <1>3, <1>4
    <3> QED
      BY <2>1, <3>1, <1>7 DEF LoadingMore, SameCall, Quiet
  <2>3. InPlace(rows, listed)' = InPlace(rows, listed)
    BY <1>1
  <2> QED
    BY <1>1, <2>2, <2>3 DEF ScreenInv, Unshaken
<1> QED
  BY <1>0, <1>6, <1>8, <1>9, <1>10 DEF ScreenInv

LEMMA AnswerPageKeeps ==
  ASSUME ScreenInv, NEW w \in Wires, AnswerPage(w)
  PROVE  ScreenInv'
<1> DEFINE kind == wires[w].kind
           offset == wires[w].offset
           says == Told(offset, queue')
           states == States
           call == [at |-> "answered", kind |-> kind, offset |-> offset, late |-> FALSE,
                    page |-> PageAt(offset), says |-> says, states |-> states]
           c == Cardinality(listed)
<1>0. /\ queue' = IF kind = "more" THEN WithNextRung ELSE queue
      /\ UNCHANGED <<parsed, ladder, frontier, listed>>
      /\ wires' = [Overtaken EXCEPT ![w] = call]
  BY DEF AnswerPage
<1>1. /\ listed' = listed /\ wires[w].at = "asked" /\ wires[w].kind # "add"
      /\ rows' = rows /\ screen' = screen /\ signature' = signature /\ misled' = misled
      /\ shaken' = shaken
  BY DEF AnswerPage
<1>2. /\ Overtaken \in [Wires -> Wire]
      /\ \A v \in Wires : SameCall(Overtaken[v], wires[v])
      /\ \A v \in Wires : Overtaken[v].at = "answered" => Overtaken[v].late = TRUE
  BY OvertakenWires DEF ScreenInv, ScreenTables
<1>3. wires[w] \in Wire /\ kind \in {"poll", "more"} /\ offset \in Nat
  <2>1. wires[w] \in Wire
    BY DEF ScreenInv, ScreenTables
  <2> QED
    BY <2>1, <1>1, WireTypes
<1>4. IsMore(w) <=> kind = "more"
  BY <1>1 DEF IsMore, Quiet
<1>5. /\ kind = "poll" => offset = 0
      /\ kind = "more" => offset = Len(rows) /\ RowsAPage <= Len(rows)
  BY <1>1, <1>3, <1>4 DEF ScreenInv, ScreenTables, MoreJoins
<1>6. offset <= c /\ c \in Nat
  BY <1>3, <1>5, ListIsFinite DEF ScreenInv, ScreenTables
<1>7. ServerInv' /\ Waiting' \subseteq Waiting
  <2>1. CASE kind = "more"
    <3>1. ServerInv'
      BY <2>1, <1>0, RungServer DEF ScreenInv
    <3>2. \A b \in Range(queue') : b.does = "parse" => b \in Range(queue)
      BY <2>1, <1>0, RungBatches DEF ScreenInv
    <3>3. Unread' \subseteq Unread
      BY <3>2 DEF Unread
    <3> QED
      BY <3>1, <3>3, <1>0 DEF Waiting
  <2>2. CASE kind # "more"
    <3>1. UNCHANGED screenServer
      BY <2>2, <1>0 DEF screenServer
    <3> QED
      BY <3>1, ServerRests DEF ScreenInv
  <2> QED
    BY <2>1, <2>2
<1>8. PageAt(offset) \in Seq(Everybody)
  BY <1>3, <1>6, PageFacts DEF ScreenInv
<1>9. /\ says \in [working : BOOLEAN, hasMore : BOOLEAN]
      /\ says.working = (queue' # <<>>)
      /\ says.hasMore = (offset + RowsAPage < c)
  BY DEF Told
<1>10. states \in States3 /\ states[3] = c
  <2>1. parsed \ listed \subseteq Everybody /\ Unread \subseteq Everybody
    BY UnreadIsOfEverybody DEF ScreenInv, ServerInv
  <2>2. Cardinality(Unread) \in Nat /\ Cardinality(parsed \ listed) \in Nat
    BY <2>1, ListIsFinite, FS_Subset, FS_CardinalityType DEF ScreenInv
  <2> QED
    BY <2>2, <1>6 DEF States, States3
<1>11. Opening > RowsAPage /\ Waiting # {} => says.working \/ says.hasMore
  <2> SUFFICES ASSUME Opening > RowsAPage, Waiting # {}, queue' = <<>> PROVE says.hasMore
    BY <1>9
  <2>1. queue = <<>> /\ ~(kind = "more" /\ frontier < Len(ladder))
    BY <1>0, RungServer DEF ScreenInv
  <2>2. frontier < Len(ladder) /\ Opening <= c
    BY <2>1, AtRest DEF ScreenInv
  <2>3. offset = 0
    BY <2>1, <2>2, <1>3, <1>5
  <2>4. 0 + RowsAPage < c
    BY <2>2, <1>6, ScreenAssumption
  <2> QED
    BY <2>3, <2>4, <1>9
<1> HIDE DEF says, states, offset, kind
<1>12. /\ call.at = "answered" /\ call.kind = kind /\ call.offset = offset /\ call.late = FALSE
       /\ call.page = PageAt(offset) /\ call.says = says /\ call.states = states
       /\ call # Quiet
  BY DEF Quiet
<1>13. call \in Wire
  <2>1. call \in [at : {"answered"}, kind : {"poll", "more"}, offset : Nat, late : BOOLEAN,
            page : Seq(Everybody), says : [working : BOOLEAN, hasMore : BOOLEAN],
            states : States3]
    BY <1>3, <1>8, <1>9, <1>10
  <2> QED
    BY <2>1 DEF Wire
<1>14. wires' = [Overtaken EXCEPT ![w] = call]
  BY <1>0
<1> HIDE DEF call, c
<1>15. wires' \in [Wires -> Wire] /\ wires'[w] = call /\ \A v \in Wires \ {w} : wires'[v] = Overtaken[v]
  BY <1>2, <1>13, <1>14
<1>16. \A v \in Wires \ {w} : SameCall(wires'[v], wires[v])
  BY <1>2, <1>15
<1>17. MoreJoins' /\ AnswersAreOfTheList' /\ SignatureIsShown'
  <2>2. \A u, v \in {w} : u = v
    OBVIOUS
  <2>3. {w} \in SUBSET Wires
    OBVIOUS
  <2>4. \A v \in {w} : IsMore(v)' =>
            /\ wires'[v].offset = Len(rows) /\ RowsAPage <= Len(rows)
            /\ \A u \in Wires : IsMore(u) => u = v
    <3>1. IsMore(w)' => kind = "more"
      BY <1>12, <1>15 DEF IsMore
    <3> QED
      BY <3>1, <1>4, <1>5, <1>12, <1>15 DEF ScreenInv, MoreJoins
  <2>5. \A v \in {w} : Heard(v)' =>
            /\ wires'[v].offset <= Cardinality(listed)
            /\ wires'[v].kind = "poll" => wires'[v].offset = 0
            /\ wires'[v].page = PageAt(wires'[v].offset)
            /\ wires'[v].states[3] = Cardinality(listed)
            /\ wires'[v].says.hasMore = (wires'[v].offset + RowsAPage < Cardinality(listed))
    BY <1>5, <1>6, <1>9, <1>10, <1>12, <1>15 DEF c
  <2> QED
    BY <1>1, <1>15, <1>16, <2>2, <2>3, <2>4, <2>5, CallsChange DEF ScreenInv
<1>18. ScreenTables'
  <2>1. \A v \in Wires : wires'[v].at = "asked" /\ wires'[v].kind # "more" => wires'[v].offset = 0
    BY <1>12, <1>15, <1>16 DEF ScreenInv, ScreenTables, SameCall
  <2>2. \A v \in Wires : wires'[v].at = "answered" /\ wires'[v].kind = "poll" => wires'[v].offset = 0
    BY <1>5, <1>12, <1>15, <1>16 DEF ScreenInv, ScreenTables, SameCall
  <2> QED
    BY <1>1, <1>15, <2>1, <2>2 DEF ScreenInv, ScreenTables
<1>19. WatchedInv'
  <2>1. \A v \in Wires : v # w /\ Heard(v)' => Heard(v) /\ wires'[v].says = wires[v].says /\ wires'[v].late = TRUE
    BY <1>2, <1>15, <1>16 DEF Heard, SameCall
  <2>2. ~ AllQuiet'
    BY <1>12, <1>15 DEF AllQuiet
  <2>3. /\ queue' # <<>> => wires'[w].says.working
        /\ Opening > RowsAPage /\ Waiting' # {} => wires'[w].says.working \/ wires'[w].says.hasMore
    BY <1>7, <1>9, <1>11, <1>12, <1>15
  <2>4. \A v \in Wires : Heard(v)' /\ ~wires'[v].late => v = w
    BY <2>1
  <2> QED
    BY <2>2, <2>3, <2>4 DEF WatchedInv, Tells
<1>20. Unshaken'
  <2>1. \A v \in Wires : wires'[v] # Quiet => wires'[v].at # "quiet"
    BY <1>15, WireTypes
  <2>2. LoadingMore' => LoadingMore
    <3> SUFFICES ASSUME NEW v \in Wires, wires'[v] # Quiet, wires'[v].kind = "more"
                 PROVE  LoadingMore
      BY DEF LoadingMore
    <3>1. CASE v = w
      BY <3>1, <1>4, <1>12, <1>15 DEF LoadingMore, IsMore
    <3>2. CASE v # w
      BY <2>1, <3>2, <1>16 DEF LoadingMore, SameCall, Quiet
    <3> QED
      BY <3>1, <3>2
  <2>3. InPlace(rows, listed)' = InPlace(rows, listed)
    BY <1>1
  <2> QED
    BY <1>1, <2>2, <2>3 DEF ScreenInv, Unshaken
<1> QED
  BY <1>7, <1>17, <1>18, <1>19, <1>20 DEF ScreenInv

LEMMA FinishAnalysisKeeps ==
  ASSUME ScreenInv, NEW a \in Everybody, FinishAnalysis(a)
  PROVE  ScreenInv'
<1> DEFINE list == listed \union {a}
<1>1. /\ a \notin listed /\ listed' = list
      /\ shaken' = (shaken \/ /\ InPlace(rows, list) # rows
                              /\ Len(rows) > RowsAPage \/ LoadingMore \/ ~screen.working)
      /\ wires' = wires /\ rows' = rows /\ screen' = screen
      /\ signature' = signature /\ misled' = misled
  BY DEF FinishAnalysis, ListBecomes
<1>0. ServerInv' /\ queue # <<>> /\ Waiting' \subseteq Waiting
  <2>1. list \subseteq Everybody
    BY DEF ScreenInv, ScreenTables
  <2>2. /\ Running({"initial", "rolling"}) /\ UNCHANGED <<parsed, ladder>>
        /\ (Covered(list) /\ BatchEnds) \/ UNCHANGED <<queue, frontier>>
    BY DEF FinishAnalysis
  <2> HIDE DEF list
  <2>3. listed \subseteq listed' /\ listed' \subseteq Everybody /\ (Covered(listed') <=> Covered(list))
    BY <1>1, <2>1 DEF list, Covered
  <2> QED
    BY <2>2, <2>3, BatchServer DEF ScreenInv
<1>2. a \notin listed
  BY <1>1
<1>3. Cardinality(list) = Cardinality(listed) + 1 /\ Cardinality(listed) \in Nat
  BY <1>2, ListIsFinite, FS_AddElement DEF ScreenInv
<1> HIDE DEF list
<1>4. ScreenTables'
  <2>1. listed' \subseteq Everybody
    BY <1>0 DEF ServerInv
  <2>4. Len(rows') <= Cardinality(listed') /\ rows' \in Seq(Everybody)
    BY <1>1, <1>3 DEF ScreenInv, ScreenTables
  <2>5. shaken' \in BOOLEAN
    BY <1>1
  <2> QED
    BY <1>1, <2>1, <2>4, <2>5 DEF ScreenInv, ScreenTables
<1>5. MoreJoins'
  BY <1>1 DEF ScreenInv, MoreJoins, IsMore
<1>6. \A w \in Wires : Heard(w) => wires[w].states \in States3 /\ wires[w].states[3] \in Nat
  <2> TAKE w \in Wires
  <2>1. wires[w] \in Wire
    BY DEF ScreenInv, ScreenTables
  <2> QED
    BY <2>1, WireTypes DEF Heard, States3
<1>7. AnswersAreOfTheList'
  <2>1. ASSUME NEW p, NEW k, NEW n \in Nat, PageIsOf(p, k, n)
        PROVE  PageIsOf(p, k, n)'
    BY <1>1, <1>3, <2>1 DEF PageIsOf
  <2> QED
    BY <1>1, <1>6, <2>1 DEF ScreenInv, AnswersAreOfTheList, Heard, HeardPoll
<1>8. SignatureIsShown'
  <2> SUFFICES ASSUME signature # <<>> PROVE SignatureIsShown'
    BY <1>1 DEF SignatureIsShown
  <2>1. /\ signature \in States3 \X Nat /\ signature[1][3] <= Cardinality(listed)
        /\ signature[2] <= Len(rows)
    BY DEF ScreenInv, SignatureIsShown
  <2>2. signature[1][3] \in Nat
    BY <2>1 DEF States3
  <2>3. signature[1][3] < Cardinality(list)
    BY <2>1, <2>2, <1>3
  <2>4. \A w \in Wires : HeardPoll(w) /\ wires[w].states[3] = signature[1][3] => Shows(wires[w].page)
    BY DEF ScreenInv, SignatureIsShown
  <2> QED
    BY <1>1, <1>3, <2>1, <2>2, <2>3, <2>4 DEF SignatureIsShown, Shows, HeardPoll, Heard
<1>9. WatchedInv'
  BY <1>0, <1>1 DEF ScreenInv, WatchedInv, Tells, AllQuiet, Heard
<1>10. Unshaken'
  <2>1. LoadingMore' <=> LoadingMore
    BY <1>1 DEF LoadingMore
  <2>2. InPlace(rows, listed)' = InPlace(rows, list)
    BY <1>1 DEF InPlace, Slice, Ranking
  <2> QED
    BY <1>1, <2>1, <2>2 DEF Unshaken
<1> QED
  BY <1>0, <1>4, <1>5, <1>7, <1>8, <1>9, <1>10 DEF ScreenInv

(* What the page makes of an answer fits, if its rows are right and as many as promised. *)
LEMMA HearingKeeps ==
  ASSUME ScreenInv, NEW w \in Wires, Hear(w),
         rows' \in Seq(Everybody), Len(rows) <= Len(rows'), Len(rows') <= Cardinality(listed),
         \A v \in Wires : v # w /\ IsMore(v) => Len(rows') = Len(rows),
         wires[w].says.hasMore => RowsAPage <= Len(rows'),
         SignatureIsShown', Unshaken'
  PROVE  ScreenInv'
<1> DEFINE it == wires[w]
<1>1. /\ it.at = "answered" /\ screen' = it.says /\ misled' = it.late
      /\ wires' = [wires EXCEPT ![w] = Quiet]
      /\ listed' = listed
      /\ shaken' = /\ rows' # InPlace(rows', listed)
                   /\ (shaken \/ wires[w].page # PageAt(wires[w].offset))
  BY DEF Hear, screenServer
<1>0. ServerInv' /\ queue' = queue /\ Waiting' = Waiting
  BY ServerRests DEF ScreenInv, Hear
<1>2. wires \in [Wires -> Wire] /\ it \in Wire
  BY DEF ScreenInv, ScreenTables
<1>3. it.late \in BOOLEAN /\ it.says \in [working : BOOLEAN, hasMore : BOOLEAN]
  BY <1>1, <1>2, WireTypes
<1>4. Quiet \in Wire /\ Quiet.at = "quiet"
  BY DEF Wire, Quiet
<1>5. wires' \in [Wires -> Wire] /\ wires'[w] = Quiet /\ \A v \in Wires \ {w} : wires'[v] = wires[v]
  BY <1>1, <1>2, <1>4
<1>6. ~ Heard(w)' /\ ~ IsMore(w)' /\ ~ HeardPoll(w)'
  BY <1>4, <1>5 DEF Heard, IsMore, HeardPoll
<1>7. \A v \in Wires : /\ IsMore(v)' => v # w /\ IsMore(v) /\ wires'[v] = wires[v]
                       /\ Heard(v)' => v # w /\ Heard(v) /\ wires'[v] = wires[v]
                       /\ HeardPoll(v)' => v # w /\ HeardPoll(v) /\ wires'[v] = wires[v]
  BY <1>5, <1>6 DEF Heard, IsMore, HeardPoll
<1>8. ScreenTables'
  <2>1. \A v \in Wires : wires'[v].at = "asked" /\ wires'[v].kind # "more" => wires'[v].offset = 0
    BY <1>4, <1>5 DEF ScreenInv, ScreenTables
  <2>2. \A v \in Wires : wires'[v].at = "answered" /\ wires'[v].kind = "poll" => wires'[v].offset = 0
    BY <1>4, <1>5 DEF ScreenInv, ScreenTables
  <2>3. shaken' \in BOOLEAN
    BY <1>1
  <2> QED
    BY <1>1, <1>3, <1>5, <2>1, <2>2, <2>3 DEF ScreenInv, ScreenTables
<1>9. MoreJoins'
  <2>1. \A v \in Wires : IsMore(v)' => wires'[v].offset = Len(rows)' /\ RowsAPage <= Len(rows)'
    BY <1>7 DEF ScreenInv, MoreJoins
  <2>2. \A u, v \in Wires : IsMore(u)' /\ IsMore(v)' => u = v
    BY <1>7 DEF ScreenInv, MoreJoins
  <2>3. screen'.hasMore => RowsAPage <= Len(rows)'
    BY <1>1
  <2> QED
    BY <2>1, <2>2, <2>3 DEF MoreJoins
<1>10. AnswersAreOfTheList'
  <2>1. \A p, k, n : PageIsOf(p, k, n)' <=> PageIsOf(p, k, n)
    BY <1>1 DEF PageIsOf, PageAt
  <2> QED
    BY <1>7, <2>1 DEF ScreenInv, AnswersAreOfTheList
<1>11. WatchedInv'
  <2>1. ~ it.late => Tells(it.says)
    BY <1>1 DEF ScreenInv, WatchedInv, Heard
  <2>2. \A v \in Wires : Heard(v)' /\ ~wires'[v].late => Tells(wires[v].says) /\ wires'[v] = wires[v]
    BY <1>7 DEF ScreenInv, WatchedInv
  <2> QED
    BY <1>0, <1>1, <2>1, <2>2 DEF WatchedInv, Tells
<1> QED
  BY <1>0, <1>8, <1>9, <1>10, <1>11 DEF ScreenInv

LEMMA HearPollKeeps ==
  ASSUME ScreenInv, NEW w \in Wires, Hear(w), wires[w].kind = "poll"
  PROVE  ScreenInv'
<1> DEFINE it == wires[w]
           page == it.page
           states == it.states
           n == states[3]
           c == Cardinality(listed)
<1>1. /\ it.at = "answered" /\ listed' = listed
      /\ wires' = [wires EXCEPT ![w] = Quiet]
      /\ rows' = Refreshed(page, states) /\ signature' = <<states, Len(page)>>
      /\ shaken' = /\ rows' # InPlace(rows', listed)
                   /\ (shaken \/ page # PageAt(it.offset))
  BY DEF Hear, screenServer
<1>2. wires \in [Wires -> Wire] /\ it \in Wire
  BY DEF ScreenInv, ScreenTables
<1>3. page \in Seq(Everybody) /\ states \in States3 /\ n \in Nat /\ Len(page) \in Nat
  BY <1>1, <1>2, WireTypes DEF States3
<1>4. HeardPoll(w) /\ Heard(w) /\ it.offset = 0
  BY <1>1 DEF HeardPoll, Heard, ScreenInv, ScreenTables
<1>5. /\ rows \in Seq(Everybody) /\ Len(rows) \in Nat /\ Len(rows) <= c /\ c \in Nat
      /\ RowsAPage \in Nat /\ 0 < RowsAPage
  BY ListIsFinite DEF ScreenInv, ScreenTables
<1>6. /\ Len(page) = IF RowsAPage < n THEN RowsAPage ELSE n
      /\ n <= c /\ (n = c => page = PageAt(0))
      /\ it.says.hasMore = (RowsAPage < n)
  <2>1. /\ Len(page) = (IF 0 + RowsAPage < n THEN RowsAPage ELSE n - 0)
        /\ n <= c /\ (n = c => page = PageAt(0))
        /\ it.says.hasMore = (0 + RowsAPage < n)
    BY <1>4 DEF ScreenInv, AnswersAreOfTheList, PageIsOf
  <2> QED
    BY <2>1, <1>3, <1>5
<1>7. /\ PageAt(0) \in Seq(Everybody)
      /\ Len(PageAt(0)) = IF RowsAPage < c THEN RowsAPage ELSE c
  <2>1. /\ PageAt(0) \in Seq(Everybody)
        /\ Len(PageAt(0)) = IF 0 + RowsAPage < c THEN RowsAPage ELSE c - 0
    BY <1>5, PageFacts DEF ScreenInv
  <2> QED
    BY <2>1, <1>5
<1>8. \/ rows' = page /\ Len(rows) <= Len(page)
      \/ rows' = rows /\ (Len(page) < Len(rows) \/ signature = <<states, Len(page)>>)
  BY <1>1, <1>3, <1>5 DEF Refreshed
<1>9. \/ rows' = page /\ Len(rows) <= Len(page)
      \/ rows' = rows /\ Len(page) < Len(rows)
  <2>1. CASE rows' = rows /\ signature = <<states, Len(page)>>
    <3>1. signature # <<>> /\ signature[1] = states /\ signature[2] = Len(page)
      BY <2>1
    <3>2. Shows(page) /\ Len(page) <= Len(rows)
      BY <3>1, <1>4 DEF ScreenInv, SignatureIsShown
    <3> QED
      BY <2>1, <3>2, <1>3, <1>5 DEF Shows
  <2> QED
    BY <2>1, <1>8
<1>10. /\ rows' \in Seq(Everybody) /\ Len(rows) <= Len(rows') /\ Len(rows') <= c
       /\ Len(page) <= Len(rows') /\ Len(rows') \in Nat
  BY <1>3, <1>5, <1>6, <1>9
<1>11. ASSUME NEW v \in Wires, IsMore(v) PROVE Len(rows') = Len(rows)
  <2>1. RowsAPage <= Len(rows)
    BY <1>11 DEF ScreenInv, MoreJoins
  <2> QED
    BY <2>1, <1>3, <1>5, <1>6, <1>9
<1>12. it.says.hasMore => RowsAPage <= Len(rows')
  BY <1>6, <1>10
<1>13. SignatureIsShown'
  <2>1. /\ signature' \in States3 \X Nat /\ signature'[1] = states /\ signature'[2] = Len(page)
    BY <1>1, <1>3
  <2>2. \A p : Shows(p)' <=> (rows' = p \/ Len(p) < Len(rows'))
    BY DEF Shows
  <2>3. \A v \in Wires : HeardPoll(v)' => HeardPoll(v) /\ wires'[v] = wires[v]
    BY <1>1, <1>2 DEF HeardPoll, Heard, Quiet
  <2>4. \A v \in Wires : HeardPoll(v) /\ wires[v].states[3] = n => wires[v].page = page
    BY <1>4 DEF ScreenInv, AnswersAreOfTheList
  <2>5. PageAt(0)' = PageAt(0)
    BY <1>1 DEF PageAt
  <2> QED
    BY <1>1, <1>6, <1>9, <1>10, <2>1, <2>2, <2>3, <2>4, <2>5 DEF SignatureIsShown
<1>14. Unshaken'
  <2> SUFFICES ASSUME ~ shaken', rows' # InPlace(rows', listed) PROVE FALSE
    BY <1>1 DEF Unshaken
  <2>1. ~ shaken /\ page = PageAt(0)
    BY <1>1, <1>4
  <2>2. CASE rows' = page
    <3>1. Len(rows') \in Nat /\ Len(rows') <= RowsAPage
      BY <2>2, <1>3, <1>5, <1>6
    <3>2. InPlace(rows', listed) = PageAt(0)
      BY <3>1, FirstPageInPlace DEF ScreenInv
    <3> QED
      BY <3>2, <2>1, <2>2
  <2>3. CASE rows' = rows /\ Len(page) < Len(rows)
    <3>1. Len(rows) > RowsAPage
      BY <2>1, <2>3, <1>3, <1>5, <1>7
    <3>2. rows = InPlace(rows, listed)
      BY <3>1, <2>1 DEF ScreenInv, Unshaken
    <3>3. InPlace(rows', listed) = InPlace(rows, listed)
      BY <2>3 DEF InPlace
    <3> QED
      BY <2>3, <3>2, <3>3
  <2> QED
    BY <2>2, <2>3, <1>9
<1> QED
  BY <1>10, <1>11, <1>12, <1>13, <1>14, HearingKeeps

LEMMA HearMoreKeeps ==
  ASSUME ScreenInv, NEW w \in Wires, Hear(w), wires[w].kind = "more"
  PROVE  ScreenInv'
<1> DEFINE it == wires[w]
           page == it.page
           n == it.states[3]
           c == Cardinality(listed)
           l == Len(rows)
<1>1. /\ it.at = "answered" /\ listed' = listed
      /\ wires' = [wires EXCEPT ![w] = Quiet]
      /\ rows' = rows \o page /\ signature' = signature
      /\ shaken' = /\ rows' # InPlace(rows', listed)
                   /\ (shaken \/ page # PageAt(it.offset))
  BY DEF Hear, screenServer
<1>2. wires \in [Wires -> Wire] /\ it \in Wire
  BY DEF ScreenInv, ScreenTables
<1>3. page \in Seq(Everybody) /\ n \in Nat /\ Len(page) \in Nat
  BY <1>1, <1>2, WireTypes DEF States3
<1>4. Heard(w) /\ IsMore(w) /\ it.offset = l /\ RowsAPage <= l /\ \A v \in Wires : IsMore(v) => v = w
  BY <1>1 DEF IsMore, Heard, Quiet, ScreenInv, MoreJoins
<1>5. /\ rows \in Seq(Everybody) /\ l \in Nat /\ l <= c /\ c \in Nat
      /\ RowsAPage \in Nat /\ 0 < RowsAPage
  BY ListIsFinite DEF ScreenInv, ScreenTables
<1>6. Len(page) = (IF l + RowsAPage < n THEN RowsAPage ELSE n - l) /\ l <= n /\ n <= c
  BY <1>4 DEF ScreenInv, AnswersAreOfTheList, PageIsOf
<1>7. rows' \in Seq(Everybody) /\ Len(rows') = l + Len(page)
  BY <1>1, <1>3, <1>5, ConcatProperties
<1>8. l + Len(page) <= c
  BY <1>3, <1>5, <1>6
<1>9. SignatureIsShown'
  <2> SUFFICES ASSUME signature # <<>> PROVE SignatureIsShown'
    BY <1>1 DEF SignatureIsShown
  <2>1. ASSUME NEW p, Len(p) \in Nat, Len(p) <= RowsAPage, Shows(p)
        PROVE  rows' = p \/ Len(p) < Len(rows')
    <3>1. CASE Len(page) = 0
      <4>1. page = <<>>
        BY <3>1, <1>3, EmptySeq
      <4>2. rows' = rows
        BY <4>1, <1>1, <1>5, ConcatEmptySeq
      <4> QED
        BY <4>2, <2>1 DEF Shows
    <3>2. CASE Len(page) # 0
      <4>1. Len(p) < Len(rows')
        BY <3>2, <2>1, <1>3, <1>4, <1>5, <1>7
      <4> QED
        BY <4>1 DEF Shows
    <3> QED
      BY <3>1, <3>2
  <2>2. Len(PageAt(0)) \in Nat /\ Len(PageAt(0)) <= RowsAPage
    <3>1. Len(PageAt(0)) = IF 0 + RowsAPage < c THEN RowsAPage ELSE c - 0
      BY <1>5, PageFacts DEF ScreenInv
    <3> QED
      BY <3>1, <1>5
  <2>3. ASSUME NEW v \in Wires, HeardPoll(v)
        PROVE  Len(wires[v].page) \in Nat /\ Len(wires[v].page) <= RowsAPage
    <3>1. wires[v] \in Wire /\ Heard(v) /\ wires[v].offset = 0
      BY <2>3, <1>2 DEF HeardPoll, Heard, ScreenInv, ScreenTables
    <3>2. wires[v].page \in Seq(Everybody) /\ wires[v].states[3] \in Nat
      BY <3>1, WireTypes DEF Heard, States3
    <3>3. Len(wires[v].page) = IF 0 + RowsAPage < wires[v].states[3] THEN RowsAPage ELSE wires[v].states[3] - 0
      BY <3>1 DEF ScreenInv, AnswersAreOfTheList, PageIsOf
    <3> QED
      BY <3>2, <3>3, <1>5
  <2>4. \A v \in Wires : HeardPoll(v)' => HeardPoll(v) /\ wires'[v] = wires[v]
    BY <1>1, <1>2 DEF HeardPoll, Heard, Quiet
  <2>5. PageAt(0)' = PageAt(0)
    BY <1>1 DEF PageAt
  <2>6. /\ signature \in States3 \X Nat
        /\ signature[1][3] <= Cardinality(listed)
        /\ signature[2] <= Len(rows)
        /\ signature[1][3] = Cardinality(listed) => Shows(PageAt(0))
        /\ \A v \in Wires : HeardPoll(v) /\ wires[v].states[3] = signature[1][3] => Shows(wires[v].page)
    BY DEF ScreenInv, SignatureIsShown
  <2>7. signature[2] <= Len(rows')
    <3>1. signature[2] \in Nat
      BY <2>6
    <3> QED
      BY <3>1, <2>6, <1>3, <1>5, <1>7
  <2>8. signature[1][3] = Cardinality(listed) => 
             rows' = PageAt(0) \/ Len(PageAt(0)) < Len(rows')
    BY <2>1, <2>2, <2>6
  <2>9. \A v \in Wires : HeardPoll(v)' /\ wires'[v].states[3] = signature[1][3] =>
             rows' = wires'[v].page \/ Len(wires'[v].page) < Len(rows')
    BY <2>1, <2>3, <2>4, <2>6
  <2> QED
    BY <1>1, <2>5, <2>6, <2>7, <2>8, <2>9 DEF SignatureIsShown, Shows
<1>10. Unshaken'
  <2> SUFFICES ASSUME ~ shaken', rows' # InPlace(rows', listed) PROVE FALSE
    BY <1>1 DEF Unshaken
  <2>1. ~ shaken /\ page = PageAt(l)
    BY <1>1, <1>4
  <2>2. LoadingMore
    BY <1>4 DEF LoadingMore, IsMore
  <2>3. rows = InPlace(rows, listed)
    BY <2>1, <2>2 DEF ScreenInv, Unshaken
  <2>4. rows \o PageAt(l) = InPlace(rows \o PageAt(l), listed)
    BY <2>3, <1>4, NextPageInPlace DEF ScreenInv
  <2> QED
    BY <2>1, <2>4, <1>1
<1>11. Len(rows) <= Len(rows') /\ Len(rows') <= Cardinality(listed) /\ RowsAPage <= Len(rows')
  BY <1>3, <1>4, <1>5, <1>7, <1>8
<1>12. \A v \in Wires : v # w /\ IsMore(v) => Len(rows') = Len(rows)
  BY <1>4
<1> QED
  BY <1>7, <1>9, <1>10, <1>11, <1>12, HearingKeeps

LEMMA ScreenStutters ==
  ASSUME ScreenInv, UNCHANGED screenVars
  PROVE  ScreenInv'
<1>1. /\ listed' = listed
      /\ wires' = wires /\ rows' = rows /\ screen' = screen /\ signature' = signature
      /\ shaken' = shaken /\ misled' = misled
  BY DEF screenVars, screenServer
<1>0. ServerInv' /\ queue' = queue /\ Waiting' = Waiting
  BY ServerRests DEF ScreenInv, screenVars
<1>2. ScreenTables' /\ MoreJoins' /\ WatchedInv'
  BY <1>0, <1>1 DEF ScreenInv, ScreenTables, MoreJoins, IsMore, WatchedInv, Tells, AllQuiet, Heard
<1>3. \A k : PageAt(k)' = PageAt(k)
  BY <1>1 DEF PageAt
<1>4. \A p, k, n : PageIsOf(p, k, n)' <=> PageIsOf(p, k, n)
  BY <1>1, <1>3 DEF PageIsOf
<1>5. AnswersAreOfTheList'
  BY <1>1, <1>4 DEF ScreenInv, AnswersAreOfTheList, Heard, HeardPoll
<1>6. SignatureIsShown'
  BY <1>1, <1>3 DEF ScreenInv, SignatureIsShown, Shows, Heard, HeardPoll
<1>7. Unshaken'
  BY <1>1 DEF ScreenInv, Unshaken, LoadingMore, InPlace
<1> QED
  BY <1>0, <1>2, <1>5, <1>6, <1>7 DEF ScreenInv

(* What moves on the server without a CV being scored. *)
LEMMA ServerMovesKeeps ==
  ASSUME ScreenInv, ReadDelivery \/ RankDelivery \/ SkipBatch
  PROVE  ScreenInv'
<1>0. ServerInv' /\ queue # <<>> /\ Waiting' \subseteq Waiting /\ listed' = listed
  <2>1. CASE ReadDelivery
    BY <2>1, ReadServer DEF ScreenInv, ReadDelivery
  <2>2. CASE RankDelivery
    BY <2>2, RankServer DEF ScreenInv, RankDelivery
  <2>3. CASE SkipBatch
    <3>1. /\ listed' = listed /\ UNCHANGED <<parsed, ladder>>
          /\ Running({"initial", "rolling"}) /\ Covered(listed) /\ BatchEnds
      BY <2>3 DEF SkipBatch
    <3>2. listed \subseteq listed' /\ listed' \subseteq Everybody /\ Covered(listed')
      BY <3>1 DEF ScreenInv, ScreenTables, Covered
    <3> QED
      BY <3>1, <3>2, BatchServer DEF ScreenInv
  <2> QED
    BY <2>1, <2>2, <2>3
<1>1. /\ wires' = wires /\ rows' = rows /\ screen' = screen /\ signature' = signature
      /\ shaken' = shaken /\ misled' = misled
  BY DEF ReadDelivery, RankDelivery, SkipBatch
<1>2. ScreenTables' /\ MoreJoins' /\ WatchedInv'
  BY <1>0, <1>1 DEF ScreenInv, ScreenTables, MoreJoins, IsMore, WatchedInv, Tells, AllQuiet, Heard
<1>3. \A k : PageAt(k)' = PageAt(k)
  BY <1>0 DEF PageAt
<1>4. \A p, k, n : PageIsOf(p, k, n)' <=> PageIsOf(p, k, n)
  BY <1>0, <1>3 DEF PageIsOf
<1>5. AnswersAreOfTheList'
  BY <1>1, <1>4 DEF ScreenInv, AnswersAreOfTheList, Heard, HeardPoll
<1>6. SignatureIsShown'
  BY <1>0, <1>1, <1>3 DEF ScreenInv, SignatureIsShown, Shows, Heard, HeardPoll
<1>7. Unshaken'
  BY <1>0, <1>1 DEF ScreenInv, Unshaken, LoadingMore, InPlace
<1> QED
  BY <1>0, <1>2, <1>5, <1>6, <1>7 DEF ScreenInv

LEMMA ScreenStep ==
  ASSUME ScreenInv, [ScreenNext]_screenVars
  PROVE  ScreenInv'
<1>1. ASSUME NEW w \in Wires,
             AnswerPage(w) \/ Poll(w) \/ PressMore(w) \/ SubmitStaged(w) \/ AddDone(w) \/ Hear(w) \/ Lose(w)
      PROVE  ScreenInv'
  <2>1. CASE AnswerPage(w)
    BY <2>1, AnswerPageKeeps
  <2>2. CASE Poll(w)
    <3>1. wires[w].at = "quiet"
      BY <2>2, FreeIsQuiet DEF Poll
    <3> QED
      BY <2>2, <3>1, AskingKeeps DEF Poll
  <2>3. CASE PressMore(w)
    BY <2>3, PressMoreKeeps
  <2>4. CASE SubmitStaged(w)
    <3>1. wires[w].at = "quiet"
      BY <2>4, FreeIsQuiet DEF SubmitStaged
    <3> QED
      BY <2>4, <3>1, AskingKeeps DEF SubmitStaged
  <2>5. CASE AddDone(w)
    BY <2>5, AskingKeeps DEF AddDone
  <2>6. CASE Hear(w)
    <3>1. wires[w].kind \in {"poll", "more"}
      <4>1. wires[w] \in Wire /\ wires[w].at = "answered"
        BY <2>6 DEF Hear, ScreenInv, ScreenTables
      <4> QED
        BY <4>1, WireTypes
    <3> QED
      BY <2>6, <3>1, HearPollKeeps, HearMoreKeeps
  <2>7. CASE Lose(w)
    BY <2>7, LoseKeeps
  <2> QED
    BY <1>1, <2>1, <2>2, <2>3, <2>4, <2>5, <2>6, <2>7
<1>2. ASSUME NEW w \in Wires, NEW added \in SUBSET Arrivals, AnswerAdd(w, added) PROVE ScreenInv'
  BY <1>2, AnswerAddKeeps
<1>3. ASSUME NEW a \in Everybody, FinishAnalysis(a) PROVE ScreenInv'
  BY <1>3, FinishAnalysisKeeps
<1>4. ASSUME NEW added \in SUBSET Arrivals, ColleagueAdds(added) PROVE ScreenInv'
  BY <1>4, ColleagueAddsKeeps
<1>5. CASE UNCHANGED screenVars
  BY <1>5, ScreenStutters
<1>6. ASSUME ReadDelivery \/ RankDelivery \/ SkipBatch PROVE ScreenInv'
  BY <1>6, ServerMovesKeeps
<1> QED
  BY <1>1, <1>2, <1>3, <1>4, <1>5, <1>6 DEF ScreenNext

LEMMA ScreenInvGives ==
  ASSUME ScreenInv
  PROVE  ScreenIsSound
<1>1. ScreenTypeOK
  <2>1. /\ parsed \union listed \subseteq Everybody /\ ladder \in Seq(Everybody)
        /\ frontier \in 0..Len(ladder)
    BY DEF ScreenInv, ServerInv
  <2>2. \A w \in Wires : wires[w].at \in {"quiet", "asked", "answered", "added"}
    BY WireTypes DEF ScreenInv, ScreenTables
  <2>3. \A b \in Range(queue) :
          b.does \in {"initial", "rolling"} => b.from <= frontier + 1 /\ b.to \in 1..Len(ladder)
    BY DEF ScreenInv, ServerInv, Deepens
  <2> QED
    BY <2>1, <2>2, <2>3 DEF ScreenInv, ScreenTables, ScreenTypeOK
<1>2. WorkIsWatched /\ WaitingIsOffered
  BY DEF ScreenInv, WatchedInv, Tells, WorkIsWatched, WaitingIsOffered
<1>3. RowsAreTheRanking
  BY DEF ScreenInv, Unshaken, RowsAreTheRanking
<1> QED
  BY <1>1, <1>2, <1>3 DEF ScreenIsSound

(* However the answers of polls, of Show More and of additions overtake one another or
   are lost, and however deliveries, batches and the ladder follow one another behind it:
   work that the page set going is watched, the rows are the ranking as far as it is
   loaded unless somebody came in above, and CVs that wait are offered, provided an
   opening range is more than a page.                                                *)
THEOREM ScreenStaysSound == ScreenSpec => []ScreenIsSound
<1>1. ScreenInit => ScreenInv
  BY ScreenInitHolds
<1>2. ScreenInv /\ [ScreenNext]_screenVars => ScreenInv'
  BY ScreenStep
<1>3. ScreenInv => ScreenIsSound
  BY ScreenInvGives
<1> QED
  BY <1>1, <1>2, <1>3, PTL DEF ScreenSpec

-----------------------------------------------------------------------------
(* The search page.                                                          *)

Movers == Moving \union {"more"}

Errand ==
    {None}
    \union [kind : {"search"}, at : {"asked", "begun", "answered"}, of : Texts, chat : Nat,
            out : SUBSET Found]
    \union [kind : {"save"}, at : {"asked", "answered"}, of : Texts, chat : Nat]
    \union [kind : {"open"}, at : {"asked"}, chat : Nat]
    \union [kind : {"open"}, at : {"answered"}, chat : Nat, of : Texts]
    \union [kind : {"delete"}, at : {"asked", "answered"}, chat : Nat, sits : BOOLEAN]
    \union [kind : {"more"}, at : {"asked", "answered"}, of : Texts, chat : Nat,
            out : SUBSET Found]
    \union [kind : {"dismiss"}, at : {"asked", "answered"}, chat : Nat, who : Found,
            role : Texts \union {Empty}, out : SUBSET Found]

ErrandFits(x) ==
    /\ x \in Errand
    /\ x.kind # "none" => x.chat <= lastId
    /\ x.kind \in {"open", "delete", "dismiss"} => x.chat # 0

SavedSearches ==
    /\ lastId \in Nat /\ DOMAIN searches \subseteq 1..lastId
    /\ \A c \in DOMAIN searches : searches[c] \in [of : Texts, out : SUBSET Found]

PageStates ==
    /\ box \in Texts \union {Empty} /\ shown \in Texts \union {Empty}
    /\ chatId \in 0..lastId /\ dismissed \subseteq Found
    /\ editing \in BOOLEAN /\ busy \in BOOLEAN /\ loading \in BOOLEAN
    /\ mixed \in BOOLEAN /\ behind \in BOOLEAN

(* Whoever will still save a search. *)
Saving(x) == (x.kind = "save" /\ x.at = "asked") \/ (x.kind = "search" /\ x.chat = 0)
RoomToSave == lastId + Cardinality({e \in Errands : Saving(errands[e])}) <= MaxSaved

SearchPageTables ==
    /\ SavedSearches /\ PageStates /\ RoomToSave
    /\ errands \in [Errands -> Errand] /\ \A e \in Errands : ErrandFits(errands[e])

Kind(e) == errands[e].kind
FewAtATime ==
    /\ mixed => behind
    /\ \A e \in Errands : Kind(e) = "more" => loading
    /\ \A e, f \in Errands : Kind(e) = "more" /\ Kind(f) = "more" => e = f
    /\ ~mixed => \A e, f \in Errands : Kind(e) \in Movers /\ Kind(f) \in Movers => e = f
    /\ ~behind => \A e, f \in Errands : Kind(e) # "none" /\ Kind(f) # "none" /\ e # f =>
                    {Kind(e), Kind(f)} = {"dismiss", "delete"}

IsBriefOf(text, c) == c \in DOMAIN searches /\ searches[c].of = text

(* Between these and their end the page is about two searches. *)
Interim(x) == x.kind \in {"search", "save"} \/ (x.kind = "delete" /\ x.at = "answered" /\ x.sits)
Settled == \A e \in Errands : ~ Interim(errands[e])

(* A file that was read late may have left its text in the box. *)
Holds(text) == box = text \/ replaced
PageIsOfOne == (editing \/ Holds(shown)) /\ IsBriefOf(shown, chatId)

ErrandIsOfThePage(x) ==
    /\ x.kind = "search" => busy /\ Holds(x.of) /\ (x.chat # 0 => IsBriefOf(x.of, x.chat))
    /\ x.kind = "save" => /\ busy /\ Holds(x.of) /\ shown = x.of
                          /\ x.at = "answered" => IsBriefOf(x.of, x.chat)
    /\ x.kind = "more" => x.of = shown /\ x.chat = chatId
    /\ x.kind = "open" /\ x.at = "answered" => IsBriefOf(x.of, x.chat)
    /\ x.kind = "delete" => /\ x.sits = (x.chat = chatId)
                            /\ x.at = "answered" => x.chat \notin DOMAIN searches

UnmixedInv ==
    ~mixed => /\ shown # Empty /\ Settled => PageIsOfOne
              /\ \A e \in Errands : ErrandIsOfThePage(errands[e])

AnswerIsCurrent(x) ==
    /\ x.kind \in {"search", "more"} /\ x.at = "answered" => x.out = OutOf(x.chat)
    /\ x.kind = "save" => dismissed = {} /\ OutOf(x.chat) = {}
    /\ x.kind = "dismiss" /\ shown # Empty =>
        /\ x.chat = chatId
        /\ x.at = "answered" /\ Settled => x.out = OutOf(x.chat)

NoVerdict == \A e \in Errands : ~ (errands[e].kind = "dismiss" /\ errands[e].at = "answered")
AbreastInv ==
    ~behind => /\ shown # Empty /\ Settled /\ NoVerdict => dismissed = OutOf(chatId)
               /\ \A e \in Errands : AnswerIsCurrent(errands[e])

SearchPageInv ==
    SearchPageTables /\ FewAtATime /\ UnmixedInv /\ RulingsAreOfTheirRole /\ AbreastInv

LEMMA ErrandTypes ==
  ASSUME NEW x \in Errand
  PROVE  /\ x.kind \in {"none", "search", "save", "open", "delete", "more", "dismiss"}
         /\ x.kind = "none" <=> x = None
         /\ x.kind = "search" => /\ x.at \in {"asked", "begun", "answered"} /\ x.of \in Texts
                                 /\ x.chat \in Nat /\ x.out \in SUBSET Found
         /\ x.kind = "save" => x.at \in {"asked", "answered"} /\ x.of \in Texts /\ x.chat \in Nat
         /\ x.kind = "open" => /\ x.at \in {"asked", "answered"} /\ x.chat \in Nat
                               /\ x.at = "answered" => x.of \in Texts
         /\ x.kind = "delete" => /\ x.at \in {"asked", "answered"} /\ x.chat \in Nat
                                 /\ x.sits \in BOOLEAN
         /\ x.kind = "more" => /\ x.at \in {"asked", "answered"} /\ x.of \in Texts
                               /\ x.chat \in Nat /\ x.out \in SUBSET Found
         /\ x.kind = "dismiss" => /\ x.at \in {"asked", "answered"} /\ x.chat \in Nat
                                  /\ x.who \in Found /\ x.role \in Texts \union {Empty}
                                  /\ x.out \in SUBSET Found
BY DEF Errand, None

LEMMA KindsOfErrands ==
  ASSUME SearchPageTables
  PROVE  \A e \in Errands : /\ Kind(e) \in {"none"} \union Movers \union {"dismiss"}
                            /\ Kind(e) = "none" <=> errands[e] = None
  BY ErrandTypes DEF SearchPageTables, Kind, Movers, Moving

(* One call becomes another, and the others stay. *)
Becomes(e, y) ==
    /\ errands' \in [Errands -> Errand] /\ errands'[e] = y
    /\ \A f \in Errands \ {e} : errands'[f] = errands[f]

LEMMA ErrandChanges ==
  ASSUME SearchPageTables, NEW e \in Errands, NEW y \in Errand,
         errands' = [errands EXCEPT ![e] = y]
  PROVE  Becomes(e, y)
BY DEF SearchPageTables, Becomes

LEMMA NoneIsErrand ==
  None \in Errand /\ None.kind = "none" /\ ~ Interim(None) /\ ~ Saving(None)
BY DEF None, Errand, Interim, Saving

LEMMA DoneBecomes ==
  ASSUME SearchPageTables, NEW e \in Errands, Done(e)
  PROVE  Becomes(e, None)
BY ErrandChanges, NoneIsErrand DEF Done

LEMMA AnsweredBecomes ==
  ASSUME SearchPageTables, NEW e \in Errands, Kind(e) \in {"search", "more", "dismiss"},
         NEW out \in SUBSET Found, Answered(e, out)
  PROVE  /\ Becomes(e, errands'[e])
         /\ errands'[e].kind = errands[e].kind /\ errands'[e].at = "answered"
         /\ errands'[e].chat = errands[e].chat /\ errands'[e].out = out
         /\ Kind(e) # "dismiss" => errands'[e].of = errands[e].of
         /\ Kind(e) = "dismiss" => errands'[e].who = errands[e].who /\ errands'[e].role = errands[e].role
<1> DEFINE x == errands[e]
           y == [x EXCEPT !.at = "answered", !.out = out]
<1>1. errands \in [Errands -> Errand] /\ x \in Errand
  BY DEF SearchPageTables
<1>2. errands' = [errands EXCEPT ![e] = y]
  BY <1>1 DEF Answered
<1>3. /\ y \in Errand /\ y.kind = x.kind /\ y.at = "answered" /\ y.chat = x.chat /\ y.out = out
      /\ Kind(e) # "dismiss" => y.of = x.of
      /\ Kind(e) = "dismiss" => y.who = x.who /\ y.role = x.role
  <2>1. CASE x.kind = "search"
    <3>1. x \in [kind : {"search"}, at : {"asked", "begun", "answered"}, of : Texts, chat : Nat,
                 out : SUBSET Found]
      BY <2>1, <1>1 DEF Errand, None
    <3> HIDE DEF x
    <3>2. /\ y \in [kind : {"search"}, at : {"asked", "begun", "answered"}, of : Texts, chat : Nat,
                 out : SUBSET Found]
          /\ y.kind = x.kind /\ y.at = "answered" /\ y.chat = x.chat /\ y.out = out /\ y.of = x.of
      BY <3>1
    <3> QED
      BY <3>2, <2>1 DEF Errand, Kind, x
  <2>2. CASE x.kind = "more"
    <3>1. x \in [kind : {"more"}, at : {"asked", "answered"}, of : Texts, chat : Nat,
                 out : SUBSET Found]
      BY <2>2, <1>1 DEF Errand, None
    <3> HIDE DEF x
    <3>2. /\ y \in [kind : {"more"}, at : {"asked", "answered"}, of : Texts, chat : Nat,
                 out : SUBSET Found]
          /\ y.kind = x.kind /\ y.at = "answered" /\ y.chat = x.chat /\ y.out = out /\ y.of = x.of
      BY <3>1
    <3> QED
      BY <3>2, <2>2 DEF Errand, Kind, x
  <2>3. CASE x.kind = "dismiss"
    <3>1. x \in [kind : {"dismiss"}, at : {"asked", "answered"}, chat : Nat, who : Found,
                 role : Texts \union {Empty}, out : SUBSET Found]
      BY <2>3, <1>1 DEF Errand, None
    <3> HIDE DEF x
    <3>2. /\ y \in [kind : {"dismiss"}, at : {"asked", "answered"}, chat : Nat, who : Found,
                 role : Texts \union {Empty}, out : SUBSET Found]
          /\ y.kind = x.kind /\ y.at = "answered" /\ y.chat = x.chat /\ y.out = out
          /\ y.who = x.who /\ y.role = x.role
      BY <3>1
    <3> QED
      BY <3>2, <2>3 DEF Errand, Kind, x
  <2> QED
    BY <2>1, <2>2, <2>3 DEF Kind
<1> HIDE DEF x, y
<1>4. Becomes(e, y) /\ errands'[e] = y
  BY <1>2, <1>3, ErrandChanges DEF Becomes
<1> QED
  BY <1>3, <1>4 DEF x

-----------------------------------------------------------------------------
(* Part by part, for the actions that leave much as it was. *)

LEMMA PendingIsFinite ==
  /\ IsFiniteSet({e \in Errands : Saving(errands[e])})
  /\ Cardinality({e \in Errands : Saving(errands[e])}) \in Nat
<1>1. {e \in Errands : Saving(errands[e])} \subseteq Errands
  OBVIOUS
<1> QED
  BY <1>1, SearchScreenAssumption, FS_Subset, FS_CardinalityType

LEMMA RoomStays ==
  ASSUME SearchPageTables, lastId' = lastId,
         \A f \in Errands : Saving(errands'[f]) => Saving(errands[f])
  PROVE  RoomToSave'
<1> DEFINE old == {f \in Errands : Saving(errands[f])}
           new == {f \in Errands : Saving(errands'[f])}
<1>1. new \subseteq old
  OBVIOUS
<1>2. IsFiniteSet(old) /\ Cardinality(old) \in Nat
  BY PendingIsFinite
<1>3. Cardinality(new) <= Cardinality(old) /\ Cardinality(new) \in Nat
  BY <1>1, <1>2, FS_Subset, FS_CardinalityType
<1>4. RoomToSave' <=> lastId' + Cardinality(new) <= MaxSaved
  BY DEF RoomToSave, Saving
<1>5. lastId + Cardinality(old) <= MaxSaved /\ lastId \in Nat /\ MaxSaved \in Nat
  BY SearchScreenAssumption DEF SearchPageTables, RoomToSave, SavedSearches
<1> HIDE DEF old, new
<1> QED
  BY <1>2, <1>3, <1>4, <1>5

(* One more search may be saved, if there was room for one more. *)
LEMMA RoomForOne ==
  ASSUME SearchPageTables, lastId' = lastId, lastId + Unsaved < MaxSaved,
         NEW e \in Errands, \A f \in Errands \ {e} : errands'[f] = errands[f]
  PROVE  RoomToSave'
<1> DEFINE wide == {f \in Errands : errands[f].kind = "save"
                                    \/ (errands[f].kind = "search" /\ errands[f].chat = 0)}
           new == {f \in Errands : Saving(errands'[f])}
<1>1. new \subseteq wide \union {e}
  BY DEF Saving
<1>2. wide \subseteq Errands
  OBVIOUS
<1>3. IsFiniteSet(wide) /\ Cardinality(wide) \in Nat
  BY <1>2, SearchScreenAssumption, FS_Subset, FS_CardinalityType
<1>4. IsFiniteSet(wide \union {e}) /\ Cardinality(wide \union {e}) <= Cardinality(wide) + 1
  <2> HIDE DEF wide
  <2> QED
    BY <1>3, FS_AddElement, FS_CardinalityType
<1>5. Cardinality(wide \union {e}) \in Nat
  BY <1>4, FS_CardinalityType
<1>6. Cardinality(new) <= Cardinality(wide \union {e}) /\ Cardinality(new) \in Nat
  BY <1>1, <1>4, FS_Subset, FS_CardinalityType
<1>7. lastId + Cardinality(wide) < MaxSaved
  BY DEF Unsaved
<1>8. RoomToSave' <=> lastId' + Cardinality(new) <= MaxSaved
  BY DEF RoomToSave, Saving
<1>9. lastId \in Nat /\ MaxSaved \in Nat
  BY SearchScreenAssumption DEF SearchPageTables, SavedSearches
<1> HIDE DEF wide, new
<1> QED
  BY <1>3, <1>4, <1>5, <1>6, <1>7, <1>8, <1>9

(* The tables, when the saved searches stay. *)
LEMMA TablesStay ==
  ASSUME SearchPageTables, UNCHANGED searchServer, PageStates',
         NEW e \in Errands, NEW y, Becomes(e, y), ErrandFits(y),
         RoomToSave' \/ (Saving(y) => Saving(errands[e]))
  PROVE  SearchPageTables'
<1>1. searches' = searches /\ lastId' = lastId
  BY DEF searchServer
<1>2. SavedSearches'
  BY <1>1 DEF SearchPageTables, SavedSearches
<1>4. RoomToSave'
  <2> SUFFICES ASSUME Saving(y) => Saving(errands[e]) PROVE RoomToSave'
    OBVIOUS
  <2>1. \A f \in Errands : Saving(errands'[f]) => Saving(errands[f])
    BY DEF Becomes
  <2> QED
    BY <1>1, <2>1, RoomStays
<1>5. \A x : ErrandFits(x)' <=> ErrandFits(x)
  BY <1>1 DEF ErrandFits
<1>6. \A f \in Errands : ErrandFits(errands'[f])
  BY DEF Becomes, SearchPageTables
<1>7. \A f \in Errands : ErrandFits(errands[f])'
  BY <1>1, <1>6 DEF ErrandFits
<1> QED
  BY <1>2, <1>4, <1>7 DEF SearchPageTables, Becomes

(* A call goes on, as it was or from one search to the next step of it, or ends. *)
LEMMA FewGoOn ==
  ASSUME SearchPageTables, FewAtATime, NEW e \in Errands, NEW y, Becomes(e, y),
         \/ y.kind \in {"none", Kind(e)}
         \/ Kind(e) \in {"open", "search"} /\ y.kind \in {"search", "save"},
         mixed => mixed', behind => behind', mixed' => behind',
         loading' = loading \/ (Kind(e) = "more" /\ y.kind = "none")
  PROVE  FewAtATime'
<1>1. \A f \in Errands \ {e} : Kind(f)' = Kind(f)
  BY DEF Kind, Becomes
<1>2. Kind(e)' = y.kind
  BY DEF Kind, Becomes
<1>3. \A f \in Errands : Kind(f)' = "more" => Kind(f) = "more"
  BY <1>1, <1>2
<1>4. \A f \in Errands : Kind(f)' \in Movers => Kind(f) \in Movers
  BY <1>1, <1>2 DEF Movers, Moving
<1>5. \A f \in Errands : Kind(f)' = "more" => loading'
  BY <1>1, <1>2, <1>3 DEF FewAtATime
<1>6. ASSUME ~ behind', NEW f \in Errands, NEW g \in Errands, Kind(f)' # "none", Kind(g)' # "none", f # g
      PROVE  {Kind(f)', Kind(g)'} = {"dismiss", "delete"}
  <2>1. Kind(f) # "none" /\ Kind(g) # "none"
    BY <1>1, <1>2, <1>6
  <2>2. {Kind(f), Kind(g)} = {"dismiss", "delete"}
    BY <1>6, <2>1 DEF FewAtATime
  <2>3. Kind(f)' = Kind(f) /\ Kind(g)' = Kind(g)
    BY <1>1, <1>2, <1>6, <2>2
  <2> QED
    BY <2>2, <2>3
<1>7. ~ mixed' => \A f, g \in Errands : Kind(f)' \in Movers /\ Kind(g)' \in Movers => f = g
  BY <1>4 DEF FewAtATime
<1>8. \A f, g \in Errands : Kind(f)' = "more" /\ Kind(g)' = "more" => f = g
  BY <1>3 DEF FewAtATime
<1>9. Movers' = Movers
  BY DEF Movers, Moving
<1> QED
  BY <1>5, <1>6, <1>7, <1>8, <1>9 DEF FewAtATime

(* A call of the page begins. *)
LEMMA OneMoreBegins ==
  ASSUME SearchPageTables, FewAtATime, NEW e \in Errands, NEW y, Becomes(e, y),
         Kind(e) = "none", y.kind # "none",
         mixed' => behind', loading => loading', ~mixed,
         ~ mixed' /\ y.kind \in Movers => \A f \in Errands : Kind(f) \notin Movers,
         ~ behind' => /\ ~ behind
                      /\ \A f \in Errands : Kind(f) = "none" \/ {y.kind, Kind(f)} = {"dismiss", "delete"},
         y.kind = "more" => loading' /\ \A f \in Errands : Kind(f) # "more"
  PROVE  FewAtATime'
<1>1. \A f \in Errands \ {e} : Kind(f)' = Kind(f)
  BY DEF Kind, Becomes
<1>2. Kind(e)' = y.kind
  BY DEF Kind, Becomes
<1>5. \A f \in Errands : Kind(f)' = "more" => loading'
  BY <1>1, <1>2 DEF FewAtATime
<1>6. ASSUME ~ behind', NEW f \in Errands, NEW g \in Errands, Kind(f)' # "none", Kind(g)' # "none", f # g
      PROVE  {Kind(f)', Kind(g)'} = {"dismiss", "delete"}
  <2>1. CASE f # e /\ g # e
    BY <1>1, <1>6, <2>1 DEF FewAtATime
  <2>2. CASE f = e
    <3>1. Kind(g)' = Kind(g) /\ Kind(g) # "none"
      BY <1>1, <1>6, <2>2
    <3> QED
      BY <1>2, <1>6, <2>2, <3>1
  <2>3. CASE g = e
    <3>1. Kind(f)' = Kind(f) /\ Kind(f) # "none"
      BY <1>1, <1>6, <2>3
    <3> QED
      BY <1>2, <1>6, <2>3, <3>1
  <2> QED
    BY <2>1, <2>2, <2>3
<1>7. ~ mixed' => \A f, g \in Errands : Kind(f)' \in Movers /\ Kind(g)' \in Movers => f = g
  BY <1>1, <1>2 DEF FewAtATime
<1>8. \A f, g \in Errands : Kind(f)' = "more" /\ Kind(g)' = "more" => f = g
  BY <1>1, <1>2 DEF FewAtATime
<1>9. Movers' = Movers
  BY DEF Movers, Moving
<1> QED
  BY <1>5, <1>6, <1>7, <1>8, <1>9 DEF FewAtATime

(* While one call moves the page, it alone decides what the page is about. *)
LEMMA OneMoves ==
  ASSUME SearchPageTables, NEW e \in Errands, NEW y, Becomes(e, y),
         ~ mixed' => \A f \in Errands \ {e} : Kind(f) \notin Movers,
         ~ mixed' => ErrandIsOfThePage(errands[e])',
         ~ mixed' /\ shown' # Empty /\ ~ Interim(y) => PageIsOfOne'
  PROVE  UnmixedInv'
<1> SUFFICES ASSUME ~ mixed' PROVE UnmixedInv'
  BY DEF UnmixedInv
<1>1. \A f \in Errands \ {e} : ErrandIsOfThePage(errands[f])'
  <2> TAKE f \in Errands \ {e}
  <2>1. errands'[f] = errands[f] /\ errands[f].kind \notin Movers
    BY DEF Becomes, Kind
  <2> QED
    BY <2>1 DEF ErrandIsOfThePage, Holds, Movers, Moving
<1>2. Settled' => ~ Interim(y)
  BY DEF Settled, Becomes, Interim
<1> QED
  BY <1>1, <1>2 DEF UnmixedInv

(* And while no other call is under way, it alone decides who is ruled out. *)
LEMMA OneTells ==
  ASSUME SearchPageTables, NEW e \in Errands, NEW y, Becomes(e, y),
         ~ behind' => \A f \in Errands \ {e} : Kind(f) = "none",
         ~ behind' => AnswerIsCurrent(errands[e])',
         ~ behind' /\ shown' # Empty /\ ~ Interim(y) /\ ~ (y.kind = "dismiss" /\ y.at = "answered")
            => dismissed' = OutOf(chatId)'
  PROVE  AbreastInv'
<1> SUFFICES ASSUME ~ behind' PROVE AbreastInv'
  BY DEF AbreastInv
<1>1. \A f \in Errands \ {e} : AnswerIsCurrent(errands[f])'
  <2> TAKE f \in Errands \ {e}
  <2>1. errands'[f] = errands[f] /\ errands[f].kind = "none"
    BY DEF Becomes, Kind
  <2> QED
    BY <2>1 DEF AnswerIsCurrent
<1>2. Settled' => ~ Interim(y)
  BY DEF Settled, Becomes, Interim
<1>3. NoVerdict' => ~ (y.kind = "dismiss" /\ y.at = "answered")
  BY DEF NoVerdict, Becomes
<1> QED
  BY <1>1, <1>2, <1>3 DEF AbreastInv

(* Rulings under way stay rulings of their role. *)
LEMMA RulingsStay ==
  ASSUME SearchPageTables, RulingsAreOfTheirRole,
         \A c \in DOMAIN searches' : lastId < c \/ (c \in DOMAIN searches /\ searches'[c].of = searches[c].of),
         \A f \in Errands : errands'[f].kind = "dismiss" =>
            /\ errands[f].kind = "dismiss" /\ errands'[f].role = errands[f].role
            /\ errands'[f].chat = errands[f].chat
  PROVE  RulingsAreOfTheirRole'
<1> SUFFICES ASSUME NEW f \in Errands, errands'[f].kind = "dismiss", errands'[f].role # Empty,
                    errands'[f].chat \in DOMAIN searches'
             PROVE  searches'[errands'[f].chat].of = errands'[f].role
  BY DEF RulingsAreOfTheirRole
<1>1. errands[f].chat \in Nat /\ errands[f].chat <= lastId /\ lastId \in Nat
  BY ErrandTypes DEF SearchPageTables, ErrandFits, SavedSearches
<1>2. errands[f].chat \in DOMAIN searches /\ searches'[errands[f].chat].of = searches[errands[f].chat].of
  BY <1>1
<1> QED
  BY <1>2 DEF RulingsAreOfTheirRole

LEMMA NobodyMoves ==
  ASSUME SearchPageTables
  PROVE  /\ ~ UnderWay(Movers) => \A f \in Errands : Kind(f) \notin Movers
         /\ ~ UnderWay(Moving) => \A f \in Errands : Kind(f) \notin Moving
         /\ ~ UnderWay(Telling) => \A f \in Errands : Kind(f) \notin Telling
         /\ ~ UnderWay(Moving \union Telling) => \A f \in Errands : Kind(f) = "none"
         /\ ~ UnderWay(Movers) /\ ~ UnderWay(Telling) =>
              \A f \in Errands : Kind(f) = "none"
<1>1. \A kinds : ~ UnderWay(kinds) => \A f \in Errands : Kind(f) \notin kinds
  BY DEF UnderWay, Kind
<1>2. \A f \in Errands : Kind(f) \in {"none"} \union Movers \union {"dismiss"}
  BY KindsOfErrands
<1>3. {"dismiss"} \subseteq Telling /\ "more" \in Telling
  BY DEF Telling
<1> QED
  BY <1>1, <1>2, <1>3 DEF Movers

LEMMA FreeIsNone ==
  ASSUME NEW e \in Errands, FreeErrand(e)
  PROVE  errands[e] = None /\ Kind(e) = "none" /\ ~ Saving(errands[e])
BY NoneIsErrand DEF FreeErrand, Kind

LEMMA NothingInterim ==
  ASSUME SearchPageTables, \A f \in Errands : Kind(f) \notin Moving
  PROVE  Settled
BY DEF Settled, Interim, Kind, Moving

LEMMA SearchBegins ==
  ASSUME SearchPageInv, NEW e \in Errands, NEW chat \in 0..lastId, box \in Texts,
         Followed, FreeErrand(e), Searching(e, box, chat),
         mixed' \in BOOLEAN, UnderWay(Movers) => mixed',
         behind' = (behind \/ mixed' \/ UnderWay(Telling)),
         UNCHANGED <<searchServer, box, loading, shown, chatId, dismissed>>,
         chat = 0 => lastId + Unsaved < MaxSaved,
         chat # 0 /\ ~ mixed' => IsBriefOf(box, chat)
  PROVE  SearchPageInv'
<1> DEFINE y == [kind |-> "search", at |-> "asked", of |-> box, chat |-> chat, out |-> {}]
<1>1. /\ SearchPageTables /\ FewAtATime /\ UnmixedInv /\ RulingsAreOfTheirRole /\ AbreastInv
      /\ ~ mixed /\ lastId \in Nat
  BY DEF SearchPageInv, Followed, SearchPageTables, SavedSearches
<1>2. /\ searches' = searches /\ lastId' = lastId /\ box' = box /\ loading' = loading
      /\ shown' = shown /\ chatId' = chatId /\ dismissed' = dismissed
      /\ busy' = TRUE /\ editing' = FALSE
      /\ (~ mixed' => ~ UnderWay(Movers)) /\ behind' = (behind \/ mixed' \/ UnderWay(Telling))
  BY DEF searchServer, Searching
<1>3. /\ y \in Errand /\ y.kind = "search" /\ y.at = "asked" /\ y.of = box /\ y.chat = chat
      /\ y.chat <= lastId /\ chat \in Nat
  <2>1. chat \in Nat /\ chat <= lastId
    BY <1>1
  <2> QED
    BY <2>1 DEF Errand
<1> HIDE DEF y
<1>4. errands' = [errands EXCEPT ![e] = y]
  BY DEF Searching, y
<1>5. Becomes(e, y)
  BY <1>1, <1>3, <1>4, ErrandChanges
<1>6. errands[e] = None /\ Kind(e) = "none" /\ ~ Saving(errands[e])
  BY FreeIsNone
<1>7. mixed' \in BOOLEAN /\ behind' \in BOOLEAN
  BY <1>2, <1>1 DEF UnderWay, SearchPageTables, PageStates
<1>8. SearchPageTables'
  <2>1. PageStates'
    BY <1>1, <1>2, <1>7 DEF SearchPageTables, PageStates
  <2>2. ErrandFits(y)
    BY <1>3 DEF ErrandFits
  <2>3. RoomToSave' \/ ~ Saving(y)
    <3>1. CASE chat = 0
      BY <3>1, <1>1, <1>2, <1>5, RoomForOne DEF Becomes
    <3>2. CASE chat # 0
      BY <3>2, <1>3 DEF Saving
    <3> QED
      BY <3>1, <3>2
  <2> QED
    BY <1>1, <1>5, <2>1, <2>2, <2>3, TablesStay
<1>9. FewAtATime'
  <2>1. ~ mixed' => \A f \in Errands : Kind(f) \notin Movers
    BY <1>1, <1>2, NobodyMoves
  <2>2. ~ behind' => ~ behind /\ \A f \in Errands : Kind(f) = "none"
    BY <1>1, <1>2, <1>7, NobodyMoves DEF UnderWay
  <2>3. /\ y.kind # "none" /\ y.kind # "more" /\ (mixed' => behind') /\ (loading => loading')
    BY <1>2, <1>3, <1>7
  <2> QED
    BY <1>1, <1>2, <1>5, <1>6, <2>1, <2>2, <2>3, OneMoreBegins
<1>10. UnmixedInv'
  <2>1. ~ mixed' => \A f \in Errands \ {e} : Kind(f) \notin Movers
    BY <1>1, <1>2, NobodyMoves
  <2>2. ~ mixed' => ErrandIsOfThePage(errands[e])'
    BY <1>2, <1>3, <1>5 DEF ErrandIsOfThePage, Holds, Becomes, IsBriefOf
  <2>3. Interim(y)
    BY <1>3 DEF Interim
  <2> QED
    BY <1>1, <1>5, <2>1, <2>2, <2>3, OneMoves
<1>11. AbreastInv'
  <2>1. ~ behind' => \A f \in Errands \ {e} : Kind(f) = "none"
    BY <1>1, <1>2, <1>7, NobodyMoves DEF UnderWay
  <2>2. AnswerIsCurrent(errands[e])'
    BY <1>3, <1>5 DEF AnswerIsCurrent, Becomes
  <2>3. Interim(y)
    BY <1>3 DEF Interim
  <2> QED
    BY <1>1, <1>5, <2>1, <2>2, <2>3, OneTells
<1>12. RulingsAreOfTheirRole'
  BY <1>1, <1>2, <1>3, <1>5, RulingsStay DEF Becomes
<1> QED
  BY <1>8, <1>9, <1>10, <1>11, <1>12 DEF SearchPageInv

LEMMA SubmitSearchKeeps ==
  ASSUME SearchPageInv, NEW e \in Errands, SubmitSearch(e)
  PROVE  SearchPageInv'
<1>1. box \in Texts
  BY DEF SubmitSearch, SearchPageInv, SearchPageTables, PageStates
<1>2. 0 \in 0..lastId
  BY DEF SearchPageInv, SearchPageTables, SavedSearches
<1>3. /\ mixed' \in BOOLEAN /\ (UnderWay(Movers) => mixed')
      /\ behind' = (behind \/ mixed' \/ UnderWay(Telling))
  BY DEF SubmitSearch, Crosses, Movers, UnderWay
<1> QED
  BY <1>1, <1>2, <1>3, SearchBegins DEF SubmitSearch

LEMMA RefreshSearchKeeps ==
  ASSUME SearchPageInv, NEW e \in Errands, RefreshSearch(e)
  PROVE  SearchPageInv'
<1>1. box \in Texts /\ chatId \in 0..lastId
  BY DEF RefreshSearch, SearchPageInv, SearchPageTables, PageStates
<1>2. ~ mixed' => IsBriefOf(box, chatId)
  <2> SUFFICES ASSUME ~ mixed' PROVE IsBriefOf(box, chatId)
    OBVIOUS
  <2>1. ~ UnderWay(Movers) /\ ~ replaced
    BY DEF RefreshSearch, Movers, UnderWay
  <2>2. \A f \in Errands : Kind(f) \notin Moving
    BY <2>1, NobodyMoves DEF SearchPageInv, Movers
  <2>3. Settled
    BY <2>2, NothingInterim DEF SearchPageInv
  <2>4. PageIsOfOne
    BY <2>3 DEF RefreshSearch, Followed, SearchPageInv, UnmixedInv
  <2> QED
    BY <2>1, <2>4 DEF PageIsOfOne, Holds, RefreshSearch
<1>3. /\ mixed' \in BOOLEAN /\ (UnderWay(Movers) => mixed')
      /\ behind' = (behind \/ mixed' \/ UnderWay(Telling))
  BY DEF RefreshSearch, Movers, UnderWay
<1> QED
  BY <1>1, <1>2, <1>3, SearchBegins DEF RefreshSearch

(* What the invariant speaks of stays. *)
LEMMA PageRests ==
  ASSUME SearchPageInv, searches' = searches, lastId' = lastId, box' = box, loading' = loading,
         shown' = shown, chatId' = chatId, dismissed' = dismissed, busy' = busy,
         editing' = editing, errands' = errands, mixed' = mixed, behind' = behind,
         replaced' = replaced
  PROVE  SearchPageInv'
<1>2. SearchPageTables'
  BY DEF SearchPageInv, SearchPageTables, PageStates, SavedSearches, RoomToSave, Saving, ErrandFits
<1>3. FewAtATime'
  BY DEF SearchPageInv, FewAtATime, Kind, Movers, Moving
<1>4. UnmixedInv'
  BY DEF SearchPageInv, UnmixedInv, ErrandIsOfThePage, Settled, Interim, PageIsOfOne, Holds, IsBriefOf
<1>5. RulingsAreOfTheirRole'
  BY DEF SearchPageInv, RulingsAreOfTheirRole
<1>6. AbreastInv'
  BY DEF SearchPageInv, AbreastInv, Settled, Interim, NoVerdict, AnswerIsCurrent, OutOf
<1> QED
  BY <1>2, <1>3, <1>4, <1>5, <1>6 DEF SearchPageInv

LEMMA TypeKeeps ==
  ASSUME SearchPageInv, NEW text \in Texts \union {Empty}, Type(text)
  PROVE  SearchPageInv'
<1>1. /\ SearchPageTables /\ FewAtATime /\ UnmixedInv /\ RulingsAreOfTheirRole /\ AbreastInv
      /\ ~ mixed /\ ~ busy /\ (shown = Empty \/ editing)
      /\ searches' = searches /\ lastId' = lastId /\ box' = text /\ loading' = loading
      /\ shown' = shown /\ chatId' = chatId /\ dismissed' = dismissed /\ busy' = busy
      /\ editing' = editing /\ errands' = errands /\ mixed' = mixed /\ behind' = behind
      /\ replaced' = replaced
  BY DEF SearchPageInv, Type, Unlocked, Followed, searchServer, attachments
<1>2. SearchPageTables'
  BY <1>1 DEF SearchPageTables, PageStates, SavedSearches, RoomToSave, Saving, ErrandFits
<1>3. FewAtATime'
  BY <1>1 DEF FewAtATime, Kind, Movers, Moving
<1>4. UnmixedInv'
  <2>1. \A f \in Errands : ErrandIsOfThePage(errands[f])'
    <3> TAKE f \in Errands
    <3>1. ErrandIsOfThePage(errands[f])
      BY <1>1 DEF UnmixedInv
    <3> QED
      BY <1>1, <3>1 DEF ErrandIsOfThePage, Holds, IsBriefOf
  <2>2. shown # Empty /\ Settled => PageIsOfOne
    BY <1>1 DEF UnmixedInv
  <2>3. Settled' <=> Settled
    BY <1>1 DEF Settled, Interim
  <2> QED
    BY <1>1, <2>1, <2>2, <2>3 DEF UnmixedInv, PageIsOfOne, Holds, IsBriefOf
<1>5. RulingsAreOfTheirRole'
  BY <1>1 DEF RulingsAreOfTheirRole
<1>6. AbreastInv'
  BY <1>1 DEF AbreastInv, Settled, Interim, NoVerdict, AnswerIsCurrent, OutOf
<1> QED
  BY <1>2, <1>3, <1>4, <1>5, <1>6 DEF SearchPageInv

(* A file is read for the box, or cannot be. *)
LEMMA AttachKeeps ==
  ASSUME SearchPageInv, Attach \/ AttachFails
  PROVE  SearchPageInv'
<1>1. /\ searches' = searches /\ lastId' = lastId /\ box' = box /\ loading' = loading
      /\ shown' = shown /\ chatId' = chatId /\ dismissed' = dismissed /\ busy' = busy
      /\ editing' = editing /\ errands' = errands /\ mixed' = mixed /\ behind' = behind
      /\ replaced' = replaced
  BY DEF Attach, AttachFails, searchServer, searchPage
<1> QED
  BY <1>1, PageRests

(* What it says fills the box, and is taken down where the box was closed. *)
LEMMA HearAttachKeeps ==
  ASSUME SearchPageInv, NEW text \in Texts, HearAttach(text)
  PROVE  SearchPageInv'
<1>1. /\ SearchPageTables /\ FewAtATime /\ UnmixedInv /\ RulingsAreOfTheirRole /\ AbreastInv
      /\ searches' = searches /\ lastId' = lastId /\ box' = text /\ loading' = loading
      /\ shown' = shown /\ chatId' = chatId /\ dismissed' = dismissed /\ busy' = busy
      /\ editing' = editing /\ errands' = errands /\ mixed' = mixed /\ behind' = behind
      /\ ~ Unlocked => replaced'
  BY DEF SearchPageInv, HearAttach, searchServer
<1>2. SearchPageTables'
  BY <1>1 DEF SearchPageTables, PageStates, SavedSearches, RoomToSave, Saving, ErrandFits
<1>3. FewAtATime'
  BY <1>1 DEF FewAtATime, Kind, Movers, Moving
<1>4. UnmixedInv'
  <2> SUFFICES ASSUME ~ mixed' PROVE UnmixedInv'
    BY DEF UnmixedInv
  <2>1. ASSUME NEW f \in Errands PROVE ErrandIsOfThePage(errands[f])'
    <3>1. ErrandIsOfThePage(errands[f])
      BY <1>1 DEF UnmixedInv
    <3>2. errands[f].kind \in {"search", "save"} => busy
      BY <3>1 DEF ErrandIsOfThePage
    <3>3. errands[f].kind \in {"search", "save"} => replaced'
      BY <3>2, <1>1 DEF Unlocked
    <3>4. errands[f].kind \in {"search", "save"} => Holds(errands[f].of)'
      BY <3>3 DEF Holds
    <3> QED
      BY <1>1, <3>1, <3>4 DEF ErrandIsOfThePage, IsBriefOf
  <2>2. ASSUME shown' # Empty, Settled' PROVE PageIsOfOne'
    <3>1. PageIsOfOne
      BY <1>1, <2>2 DEF UnmixedInv, Settled, Interim
    <3>2. editing \/ replaced'
      BY <1>1, <2>2 DEF Unlocked
    <3> QED
      BY <1>1, <3>1, <3>2 DEF PageIsOfOne, Holds, IsBriefOf
  <2> QED
    BY <2>1, <2>2 DEF UnmixedInv
<1>5. RulingsAreOfTheirRole'
  BY <1>1 DEF RulingsAreOfTheirRole
<1>6. AbreastInv'
  BY <1>1 DEF AbreastInv, Settled, Interim, NoVerdict, AnswerIsCurrent, OutOf
<1> QED
  BY <1>2, <1>3, <1>4, <1>5, <1>6 DEF SearchPageInv

LEMMA ModifySearchKeeps ==
  ASSUME SearchPageInv, ModifySearch
  PROVE  SearchPageInv'
<1>1. /\ SearchPageTables /\ FewAtATime /\ UnmixedInv /\ RulingsAreOfTheirRole /\ AbreastInv
      /\ searches' = searches /\ lastId' = lastId /\ box' = box /\ loading' = loading
      /\ shown' = shown /\ chatId' = chatId /\ dismissed' = dismissed /\ busy' = busy
      /\ editing' = TRUE /\ errands' = errands /\ mixed' = mixed /\ behind' = behind
      /\ replaced' = replaced
  BY DEF SearchPageInv, ModifySearch, searchServer, attachments
<1>2. SearchPageTables'
  BY <1>1 DEF SearchPageTables, PageStates, SavedSearches, RoomToSave, Saving, ErrandFits
<1>3. FewAtATime'
  BY <1>1 DEF FewAtATime, Kind, Movers, Moving
<1>4. UnmixedInv'
  <2>1. \A f \in Errands : ErrandIsOfThePage(errands[f])' <=> ErrandIsOfThePage(errands[f])
    BY <1>1 DEF ErrandIsOfThePage, Holds, IsBriefOf
  <2>3. Settled' <=> Settled
    BY <1>1 DEF Settled, Interim
  <2> QED
    BY <1>1, <2>1, <2>3 DEF UnmixedInv, PageIsOfOne, Holds, IsBriefOf
<1>5. RulingsAreOfTheirRole'
  BY <1>1 DEF RulingsAreOfTheirRole
<1>6. AbreastInv'
  BY <1>1 DEF AbreastInv, Settled, Interim, NoVerdict, AnswerIsCurrent, OutOf
<1> QED
  BY <1>2, <1>3, <1>4, <1>5, <1>6 DEF SearchPageInv

LEMMA NewSearchKeeps ==
  ASSUME SearchPageInv, NewSearch
  PROVE  SearchPageInv'
<1>1. /\ SearchPageTables /\ FewAtATime /\ UnmixedInv /\ RulingsAreOfTheirRole /\ AbreastInv
      /\ searches' = searches /\ lastId' = lastId /\ box' = Empty /\ loading' = loading
      /\ shown' = Empty /\ chatId' = 0 /\ dismissed' = {} /\ busy' = busy
      /\ editing' = editing /\ errands' = errands
      /\ mixed' = UnderWay(Movers) /\ behind' = (mixed' \/ UnderWay(Telling))
  BY DEF SearchPageInv, NewSearch, Cleared, searchServer, Movers
<1>2. SearchPageTables'
  <2>1. mixed' \in BOOLEAN /\ behind' \in BOOLEAN
    BY <1>1 DEF UnderWay
  <2>2. PageStates'
    BY <1>1, <2>1 DEF SearchPageTables, PageStates, SavedSearches
  <2> QED
    BY <1>1, <2>2 DEF SearchPageTables, SavedSearches, RoomToSave, Saving, ErrandFits
<1>3. ~ mixed' => \A f \in Errands : Kind(f) \notin Movers
  BY <1>1, NobodyMoves
<1>4. ~ behind' => \A f \in Errands : Kind(f) = "none"
  BY <1>1, NobodyMoves DEF UnderWay
<1>5. \A f \in Errands : Kind(f)' = Kind(f)
  BY <1>1 DEF Kind
<1>6. FewAtATime'
  <2>1. Movers' = Movers
    BY DEF Movers, Moving
  <2> QED
    BY <1>1, <1>3, <1>4, <1>5, <2>1 DEF FewAtATime
<1>7. UnmixedInv'
  BY <1>1, <1>3 DEF UnmixedInv, ErrandIsOfThePage, Holds, Kind, Movers, Moving
<1>8. RulingsAreOfTheirRole'
  BY <1>1 DEF RulingsAreOfTheirRole
<1>9. AbreastInv'
  BY <1>1, <1>4 DEF AbreastInv, AnswerIsCurrent, Kind
<1> QED
  BY <1>2, <1>6, <1>7, <1>8, <1>9 DEF SearchPageInv

(* What the page is about, when neither the page nor the briefs change. *)
LEMMA UnmixedCarries ==
  ASSUME SearchPageTables, UnmixedInv, NEW e \in Errands, NEW y, Becomes(e, y),
         mixed => mixed', box' = box, editing' = editing, busy' = busy, shown' = shown,
         chatId' = chatId, replaced' = replaced, DOMAIN searches' = DOMAIN searches,
         \A c \in DOMAIN searches : searches'[c].of = searches[c].of,
         Interim(errands[e]) => Interim(y),
         ~ mixed' => ErrandIsOfThePage(errands[e])'
  PROVE  UnmixedInv'
<1> SUFFICES ASSUME ~ mixed' PROVE UnmixedInv'
  BY DEF UnmixedInv
<1>1. \A t, c : IsBriefOf(t, c)' <=> IsBriefOf(t, c)
  BY DEF IsBriefOf
<1>2. \A f \in Errands \ {e} : ErrandIsOfThePage(errands[f])'
  <2> TAKE f \in Errands \ {e}
  <2>1. errands'[f] = errands[f] /\ ErrandIsOfThePage(errands[f])
    BY DEF Becomes, UnmixedInv
  <2> QED
    BY <1>1, <2>1 DEF ErrandIsOfThePage, Holds
<1>3. Settled' => Settled
  BY DEF Settled, Becomes, Interim
<1>4. shown' # Empty /\ Settled' => PageIsOfOne'
  BY <1>1, <1>3 DEF UnmixedInv, PageIsOfOne, Holds
<1> QED
  BY <1>2, <1>4 DEF UnmixedInv

(* Who is ruled out, when neither the page nor the server's searches change. *)
LEMMA AbreastCarries ==
  ASSUME SearchPageTables, AbreastInv, NEW e \in Errands, NEW y, Becomes(e, y),
         behind => behind', shown' = shown, chatId' = chatId, dismissed' = dismissed,
         searches' = searches,
         Interim(errands[e]) => Interim(y),
         errands[e].kind = "dismiss" /\ errands[e].at = "answered" =>
            y.kind = "dismiss" /\ y.at = "answered",
         ~ behind' => AnswerIsCurrent(errands[e])'
  PROVE  AbreastInv'
<1> SUFFICES ASSUME ~ behind' PROVE AbreastInv'
  BY DEF AbreastInv
<1>1. \A c : OutOf(c)' = OutOf(c)
  BY DEF OutOf
<1>2. Settled' => Settled
  BY DEF Settled, Becomes, Interim
<1>3. NoVerdict' => NoVerdict
  BY DEF NoVerdict, Becomes
<1>4. \A f \in Errands \ {e} : AnswerIsCurrent(errands[f])'
  <2> TAKE f \in Errands \ {e}
  <2>1. errands'[f] = errands[f] /\ AnswerIsCurrent(errands[f])
    BY DEF Becomes, AbreastInv
  <2> QED
    BY <1>1, <1>2, <2>1 DEF AnswerIsCurrent
<1>5. shown' # Empty /\ Settled' /\ NoVerdict' => dismissed' = OutOf(chatId)'
  BY <1>1, <1>2, <1>3 DEF AbreastInv
<1> QED
  BY <1>4, <1>5 DEF AbreastInv

(* The presses that leave the page as it is. *)
LEMMA PressKeeps ==
  ASSUME SearchPageInv, NEW e \in Errands, NEW y, Becomes(e, y), errands[e] = None,
         UNCHANGED <<searchServer, box, editing, busy, shown, chatId, dismissed, attachments>>,
         ~ mixed, mixed' \in BOOLEAN, behind' \in BOOLEAN, loading' \in BOOLEAN,
         behind => behind', mixed' => behind', loading => loading',
         ErrandFits(y), y.kind \in {"open", "delete", "more", "dismiss"}, y.at = "asked",
         ~ mixed' /\ y.kind \in Movers => \A f \in Errands : Kind(f) \notin Movers,
         ~ behind' => \A f \in Errands : Kind(f) = "none" \/ {y.kind, Kind(f)} = {"dismiss", "delete"},
         y.kind = "more" => loading' /\ y.of = shown /\ y.chat = chatId
                            /\ \A f \in Errands : Kind(f) # "more",
         y.kind = "delete" => y.sits = (y.chat = chatId),
         y.kind = "dismiss" => y.chat = chatId /\ shown # Empty
                               /\ (y.role # Empty => y.role = shown /\ ~ UnderWay(Moving))
  PROVE  SearchPageInv'
<1>1. /\ SearchPageTables /\ FewAtATime /\ UnmixedInv /\ RulingsAreOfTheirRole /\ AbreastInv
      /\ searches' = searches /\ lastId' = lastId /\ box' = box /\ editing' = editing
      /\ busy' = busy /\ shown' = shown /\ chatId' = chatId /\ dismissed' = dismissed
      /\ replaced' = replaced
  BY DEF SearchPageInv, searchServer, attachments
<1>2. /\ Kind(e) = "none" /\ ~ Interim(errands[e]) /\ errands'[e] = y
      /\ ~ Saving(y) /\ ~ Interim(y) /\ y.kind # "none"
  BY NoneIsErrand DEF Kind, Becomes, Saving, Interim
<1>3. SearchPageTables'
  <2>1. PageStates'
    BY <1>1 DEF SearchPageTables, PageStates
  <2>2. UNCHANGED searchServer
    OBVIOUS
  <2> QED
    BY <1>1, <1>2, <2>1, <2>2, TablesStay
<1>4. FewAtATime'
  <2>1. y.kind = "more" => loading' /\ \A f \in Errands : Kind(f) # "more"
    OBVIOUS
  <2> QED
    BY <1>1, <1>2, <2>1, OneMoreBegins
<1>5. UnmixedInv'
  <2>1. ErrandIsOfThePage(errands[e])'
    BY <1>1, <1>2 DEF ErrandIsOfThePage, Holds
  <2> QED
    BY <1>1, <1>2, <2>1, UnmixedCarries
<1>6. AbreastInv'
  <2>1. AnswerIsCurrent(errands[e])'
    BY <1>1, <1>2 DEF AnswerIsCurrent
  <2>2. errands[e].kind # "dismiss"
    BY <1>2 DEF Kind
  <2> QED
    BY <1>1, <1>2, <2>1, <2>2, AbreastCarries
<1>7. RulingsAreOfTheirRole'
  <2> SUFFICES ASSUME NEW f \in Errands, errands'[f].kind = "dismiss", errands'[f].role # Empty,
                      errands'[f].chat \in DOMAIN searches
               PROVE  searches[errands'[f].chat].of = errands'[f].role
    BY <1>1 DEF RulingsAreOfTheirRole
  <2>1. CASE f # e
    BY <2>1, <1>1 DEF RulingsAreOfTheirRole, Becomes
  <2>2. CASE f = e
    <3>1. y.kind = "dismiss" /\ y.role = shown /\ ~ UnderWay(Moving) /\ y.chat = chatId /\ shown # Empty
      BY <2>2, <1>2
    <3>2. \A g \in Errands : Kind(g) \notin Moving
      BY <1>1, <3>1, NobodyMoves
    <3>3. Settled
      BY <1>1, <3>2, NothingInterim
    <3>4. PageIsOfOne
      BY <1>1, <3>1, <3>3 DEF UnmixedInv
    <3> QED
      BY <2>2, <1>2, <3>1, <3>4 DEF PageIsOfOne, Holds, IsBriefOf
  <2> QED
    BY <2>1, <2>2
<1> QED
  BY <1>3, <1>4, <1>5, <1>6, <1>7 DEF SearchPageInv

LEMMA SavedIdsAreBelow ==
  ASSUME SearchPageTables, NEW c \in DOMAIN searches
  PROVE  c \in Nat /\ c # 0 /\ c <= lastId
BY DEF SearchPageTables, SavedSearches

LEMMA OpenChatKeeps ==
  ASSUME SearchPageInv, NEW e \in Errands, NEW c \in DOMAIN searches, OpenChat(e, c)
  PROVE  SearchPageInv'
<1> DEFINE y == [kind |-> "open", at |-> "asked", chat |-> c]
<1>1. SearchPageTables /\ c \in Nat /\ c # 0 /\ c <= lastId
  BY SavedIdsAreBelow DEF SearchPageInv
<1>2. y \in Errand /\ y.kind = "open" /\ y.at = "asked" /\ y.chat = c
  BY <1>1 DEF Errand
<1> HIDE DEF y
<1>3. errands' = [errands EXCEPT ![e] = y]
  BY DEF OpenChat, y
<1>4. Becomes(e, y) /\ errands[e] = None
  BY <1>1, <1>2, <1>3, ErrandChanges, FreeIsNone DEF OpenChat
<1>5. /\ ~ mixed /\ mixed' = UnderWay(Movers) /\ behind' = (behind \/ mixed' \/ UnderWay(Telling))
      /\ loading' = loading
      /\ UNCHANGED <<searchServer, box, editing, busy, shown, chatId, dismissed, attachments>>
  BY DEF OpenChat, Followed, Crosses, Movers, searchPage
<1>6. loading \in BOOLEAN /\ behind \in BOOLEAN
  BY <1>1 DEF SearchPageTables, PageStates
<1>7. mixed' \in BOOLEAN
  BY <1>5 DEF UnderWay
<1>8. ErrandFits(y)
  BY <1>1, <1>2 DEF ErrandFits
<1>9. ~ mixed' => \A f \in Errands : Kind(f) \notin Movers
  BY <1>1, <1>5, NobodyMoves
<1>10. ~ behind' => \A f \in Errands : Kind(f) = "none"
  BY <1>1, <1>5, <1>6, <1>7, NobodyMoves DEF UnderWay
<1>11. behind' \in BOOLEAN /\ (behind => behind') /\ (mixed' => behind') /\ (loading => loading') /\ loading' \in BOOLEAN
  BY <1>5, <1>6, <1>7 DEF UnderWay
<1> QED
  BY <1>2, <1>4, <1>5, <1>7, <1>8, <1>9, <1>10, <1>11, PressKeeps

LEMMA DeleteChatKeeps ==
  ASSUME SearchPageInv, NEW e \in Errands, NEW c \in DOMAIN searches, DeleteChat(e, c)
  PROVE  SearchPageInv'
<1> DEFINE y == [kind |-> "delete", at |-> "asked", chat |-> c, sits |-> c = chatId]
<1>1. SearchPageTables /\ c \in Nat /\ c # 0 /\ c <= lastId
  BY SavedIdsAreBelow DEF SearchPageInv
<1>2. y \in Errand /\ y.kind = "delete" /\ y.at = "asked" /\ y.chat = c /\ y.sits = (c = chatId)
  BY <1>1 DEF Errand
<1> HIDE DEF y
<1>3. errands' = [errands EXCEPT ![e] = y]
  BY DEF DeleteChat, y
<1>4. Becomes(e, y) /\ errands[e] = None
  BY <1>1, <1>2, <1>3, ErrandChanges, FreeIsNone DEF DeleteChat
<1>5. /\ ~ mixed /\ mixed' = UnderWay(Movers) /\ behind' = (behind \/ mixed' \/ UnderWay({}))
      /\ loading' = loading
      /\ UNCHANGED <<searchServer, box, editing, busy, shown, chatId, dismissed, attachments>>
  BY DEF DeleteChat, Followed, Crosses, Movers, searchPage
<1>6. loading \in BOOLEAN /\ behind \in BOOLEAN
  BY <1>1 DEF SearchPageTables, PageStates
<1>7. mixed' \in BOOLEAN
  BY <1>5 DEF UnderWay
<1>8. ErrandFits(y)
  BY <1>1, <1>2 DEF ErrandFits
<1>9. ~ mixed' => \A f \in Errands : Kind(f) \notin Movers
  BY <1>1, <1>5, NobodyMoves
<1>11. behind' \in BOOLEAN /\ (behind => behind') /\ (mixed' => behind') /\ (loading => loading') /\ loading' \in BOOLEAN
  BY <1>5, <1>6, <1>7 DEF UnderWay
<1>10. ~ behind' => \A f \in Errands : Kind(f) = "none" \/ {y.kind, Kind(f)} = {"dismiss", "delete"}
  <2> SUFFICES ASSUME ~ behind', NEW f \in Errands
               PROVE  Kind(f) \in {"none", "dismiss"}
    BY <1>2
  <2> QED
    BY <1>1, <1>9, <1>11, KindsOfErrands
<1> QED
  BY <1>2, <1>4, <1>5, <1>7, <1>8, <1>9, <1>10, <1>11, PressKeeps

LEMMA ShowMoreKeeps ==
  ASSUME SearchPageInv, NEW e \in Errands, ShowMore(e)
  PROVE  SearchPageInv'
<1> DEFINE y == [kind |-> "more", at |-> "asked", of |-> shown, chat |-> chatId, out |-> {}]
<1>1. /\ SearchPageTables /\ shown \in Texts /\ chatId \in Nat /\ chatId <= lastId
      /\ FewAtATime
  BY DEF SearchPageInv, ShowMore, SearchPageTables, PageStates, SavedSearches
<1>2. y \in Errand /\ y.kind = "more" /\ y.at = "asked" /\ y.chat = chatId /\ y.of = shown
  BY <1>1 DEF Errand
<1> HIDE DEF y
<1>3. errands' = [errands EXCEPT ![e] = y]
  BY DEF ShowMore, y
<1>4. Becomes(e, y) /\ errands[e] = None
  BY <1>1, <1>2, <1>3, ErrandChanges, FreeIsNone DEF ShowMore
<1>5. /\ ~ mixed /\ mixed' = UnderWay(Moving) /\ behind' = (behind \/ mixed' \/ UnderWay(Telling))
      /\ loading' = TRUE /\ ~ loading
      /\ UNCHANGED <<searchServer, box, editing, busy, shown, chatId, dismissed, attachments>>
  BY DEF ShowMore, Followed, Crosses, Movers, searchPage
<1>6. behind \in BOOLEAN
  BY <1>1 DEF SearchPageTables, PageStates
<1>7. mixed' \in BOOLEAN
  BY <1>5 DEF UnderWay
<1>8. ErrandFits(y)
  BY <1>1, <1>2 DEF ErrandFits
<1>9. \A f \in Errands : Kind(f) # "more"
  BY <1>1, <1>5 DEF FewAtATime
<1>12. ~ mixed' => \A f \in Errands : Kind(f) \notin Movers
  BY <1>1, <1>5, <1>9, NobodyMoves DEF Movers
<1>10. ~ behind' => \A f \in Errands : Kind(f) = "none"
  <2> SUFFICES ASSUME ~ behind' PROVE \A f \in Errands : Kind(f) = "none"
    OBVIOUS
  <2>1. ~ mixed' /\ ~ UnderWay(Telling)
    BY <1>5, <1>6, <1>7
  <2>2. \A f \in Errands : Kind(f) \notin Movers /\ Kind(f) \notin Telling
    BY <2>1, <1>1, <1>12, NobodyMoves
  <2> QED
    BY <2>2, <1>1, KindsOfErrands DEF Telling
<1>11. behind' \in BOOLEAN /\ (behind => behind') /\ (mixed' => behind') /\ (loading => loading') /\ loading' \in BOOLEAN
  BY <1>5, <1>6, <1>7 DEF UnderWay
<1> QED
  BY <1>2, <1>4, <1>5, <1>7, <1>8, <1>9, <1>10, <1>11, <1>12, PressKeeps

LEMMA DismissFromListKeeps ==
  ASSUME SearchPageInv, NEW e \in Errands, NEW p \in Found, DismissFromList(e, p)
  PROVE  SearchPageInv'
<1> DEFINE r == IF UnderWay(Moving) THEN Empty ELSE shown
           y == [kind |-> "dismiss", at |-> "asked", chat |-> chatId, who |-> p, role |-> r, out |-> {}]
<1>1. /\ SearchPageTables /\ shown \in Texts /\ chatId \in Nat /\ chatId <= lastId /\ chatId # 0
  BY DEF SearchPageInv, DismissFromList, SearchPageTables, PageStates, SavedSearches
<1>2. /\ y \in Errand /\ y.kind = "dismiss" /\ y.at = "asked" /\ y.chat = chatId
      /\ y.role = r
  BY <1>1 DEF Errand
<1>13. r # Empty => r = shown /\ ~ UnderWay(Moving)
  OBVIOUS
<1> HIDE DEF y, r
<1>3. errands' = [errands EXCEPT ![e] = y]
  BY DEF DismissFromList, y, r
<1>4. Becomes(e, y) /\ errands[e] = None
  BY <1>1, <1>2, <1>3, ErrandChanges, FreeIsNone DEF DismissFromList
<1>5. /\ ~ mixed /\ mixed' = UnderWay({}) /\ behind' = (behind \/ mixed' \/ UnderWay(Moving \union Telling))
      /\ loading' = loading /\ shown # Empty
      /\ UNCHANGED <<searchServer, box, editing, busy, shown, chatId, dismissed, attachments>>
  BY DEF DismissFromList, Followed, Crosses, searchPage
<1>6. behind \in BOOLEAN /\ loading \in BOOLEAN
  BY <1>1 DEF SearchPageTables, PageStates
<1>7. mixed' \in BOOLEAN
  BY <1>5 DEF UnderWay
<1>8. ErrandFits(y)
  BY <1>1, <1>2 DEF ErrandFits
<1>9. y.kind \notin Movers
  BY <1>2 DEF Movers, Moving
<1>10. ~ behind' => \A f \in Errands : Kind(f) = "none"
  BY <1>1, <1>5, <1>6, <1>7, NobodyMoves DEF UnderWay
<1>11. behind' \in BOOLEAN /\ (behind => behind') /\ (mixed' => behind') /\ (loading => loading') /\ loading' \in BOOLEAN
  BY <1>5, <1>6, <1>7 DEF UnderWay
<1> QED
  BY <1>2, <1>4, <1>5, <1>7, <1>8, <1>9, <1>10, <1>11, <1>13, PressKeeps

-----------------------------------------------------------------------------
(* The server's answers. *)

(* A call that only moves on: the page, the searches and the other calls stay. *)
LEMMA MovesOn ==
  ASSUME SearchPageInv, NEW e \in Errands, NEW y, Becomes(e, y),
         UNCHANGED <<searchServer, searchPage, attachments, mixed, behind>>,
         ErrandFits(y), y.kind = errands[e].kind, y.kind # "dismiss",
         Saving(y) => Saving(errands[e]), Interim(errands[e]) => Interim(y),
         ~ mixed => ErrandIsOfThePage(y), ~ behind => AnswerIsCurrent(y)
  PROVE  SearchPageInv'
<1>1. /\ SearchPageTables /\ FewAtATime /\ UnmixedInv /\ RulingsAreOfTheirRole /\ AbreastInv
      /\ searches' = searches /\ lastId' = lastId /\ box' = box /\ editing' = editing
      /\ busy' = busy /\ shown' = shown /\ chatId' = chatId /\ dismissed' = dismissed
      /\ loading' = loading /\ mixed' = mixed /\ behind' = behind /\ errands'[e] = y
      /\ replaced' = replaced
  BY DEF SearchPageInv, searchServer, searchPage, Becomes, attachments
<1>2. SearchPageTables'
  <2>1. PageStates' /\ UNCHANGED searchServer
    BY <1>1 DEF SearchPageTables, PageStates
  <2> QED
    BY <1>1, <2>1, TablesStay
<1>3. FewAtATime'
  <2>1. mixed => behind
    BY <1>1 DEF FewAtATime
  <2>2. y.kind = Kind(e)
    BY DEF Kind
  <2> QED
    BY <1>1, <2>1, <2>2, FewGoOn
<1>4. UnmixedInv'
  <2>1. ~ mixed' => ErrandIsOfThePage(errands[e])'
    BY <1>1 DEF ErrandIsOfThePage, Holds, IsBriefOf
  <2> QED
    BY <1>1, <2>1, UnmixedCarries
<1>5. AbreastInv'
  <2>1. ~ behind' => AnswerIsCurrent(errands[e])'
    BY <1>1 DEF AnswerIsCurrent, OutOf
  <2> QED
    BY <1>1, <2>1, AbreastCarries
<1>6. RulingsAreOfTheirRole'
  <2>1. \A f \in Errands : errands'[f].kind = "dismiss" => errands'[f] = errands[f]
    BY <1>1 DEF Becomes
  <2> QED
    BY <1>1, <2>1, RulingsStay
<1> QED
  BY <1>2, <1>3, <1>4, <1>5, <1>6 DEF SearchPageInv

LEMMA BeginSearchKeeps ==
  ASSUME SearchPageInv, NEW e \in Errands, BeginSearch(e)
  PROVE  SearchPageInv'
<1> DEFINE x == errands[e]
           y == [x EXCEPT !.at = "begun"]
<1>1. /\ SearchPageTables /\ x \in Errand /\ x.kind = "search" /\ x.at = "asked" /\ ErrandFits(x)
      /\ UNCHANGED <<searchServer, searchPage, attachments, mixed, behind>>
  BY DEF SearchPageInv, SearchPageTables, BeginSearch
<1>2. errands' = [errands EXCEPT ![e] = y]
  BY <1>1 DEF BeginSearch, SearchPageTables
<1>3. x \in [kind : {"search"}, at : {"asked", "begun", "answered"}, of : Texts, chat : Nat,
             out : SUBSET Found]
  BY <1>1 DEF Errand, None
<1>5. ~ mixed => ErrandIsOfThePage(x)
  BY DEF SearchPageInv, UnmixedInv
<1> HIDE DEF x
<1>4. y \in Errand /\ y.kind = "search" /\ y.at = "begun" /\ y.of = x.of /\ y.chat = x.chat
  BY <1>3 DEF Errand
<1> HIDE DEF y
<1>6. Becomes(e, y)
  BY <1>1, <1>2, <1>4, ErrandChanges
<1>7. ErrandFits(y) /\ Interim(y) /\ (Saving(y) => Saving(x)) /\ AnswerIsCurrent(y)
  BY <1>1, <1>4 DEF ErrandFits, Interim, Saving, AnswerIsCurrent
<1>8. ~ mixed => ErrandIsOfThePage(y)
  BY <1>1, <1>4, <1>5 DEF ErrandIsOfThePage, Holds
<1> QED
  BY <1>1, <1>4, <1>6, <1>7, <1>8, MovesOn DEF x

LEMMA OutIsFound ==
  ASSUME SearchPageTables, NEW c
  PROVE  OutOf(c) \in SUBSET Found
BY DEF SearchPageTables, SavedSearches, OutOf

LEMMA AnswerKeeps ==
  ASSUME SearchPageInv, NEW e \in Errands, Kind(e) \in {"search", "more"},
         Answered(e, OutOf(errands[e].chat)), UNCHANGED <<searchServer, searchPage, attachments, mixed, behind>>
  PROVE  SearchPageInv'
<1> DEFINE x == errands[e]
           y == errands'[e]
<1>1. SearchPageTables /\ x \in Errand /\ ErrandFits(x) /\ x.kind \in {"search", "more"}
  BY DEF SearchPageInv, SearchPageTables, Kind
<1>2. OutOf(x.chat) \in SUBSET Found
  BY <1>1, OutIsFound
<1>3. /\ Becomes(e, y) /\ y.kind = x.kind /\ y.at = "answered" /\ y.chat = x.chat
      /\ y.out = OutOf(x.chat) /\ y.of = x.of
  BY <1>1, <1>2, AnsweredBecomes DEF Kind
<1>4. y \in Errand
  BY <1>3 DEF Becomes
<1>5. ~ mixed => ErrandIsOfThePage(x)
  BY DEF SearchPageInv, UnmixedInv
<1> HIDE DEF x, y
<1>7. ErrandFits(y) /\ (Interim(x) => Interim(y)) /\ (Saving(y) => Saving(x)) /\ AnswerIsCurrent(y)
  BY <1>1, <1>3, <1>4 DEF ErrandFits, Interim, Saving, AnswerIsCurrent
<1>8. ~ mixed => ErrandIsOfThePage(y)
  BY <1>1, <1>3, <1>5 DEF ErrandIsOfThePage, Holds
<1> QED
  BY <1>1, <1>3, <1>7, <1>8, MovesOn DEF x

LEMMA AnswerOpenKeeps ==
  ASSUME SearchPageInv, NEW e \in Errands, AnswerOpen(e)
  PROVE  SearchPageInv'
<1> DEFINE x == errands[e]
           c == x.chat
           t == searches[c].of
           y == [kind |-> "open", at |-> "answered", chat |-> c, of |-> t]
<1>1. /\ SearchPageTables /\ x \in Errand /\ x.kind = "open" /\ ErrandFits(x)
      /\ UNCHANGED <<searchServer, searchPage, attachments, mixed, behind>> /\ c \in DOMAIN searches
  BY DEF SearchPageInv, SearchPageTables, AnswerOpen
<1>2. c \in Nat /\ c # 0 /\ c <= lastId /\ t \in Texts
  BY <1>1, SavedIdsAreBelow DEF SearchPageTables, SavedSearches
<1>3. errands' = [errands EXCEPT ![e] = y]
  BY DEF AnswerOpen
<1>4. IsBriefOf(t, c)
  BY <1>1 DEF IsBriefOf
<1> HIDE DEF t, c
<1>5. y \in Errand /\ y.kind = "open" /\ y.at = "answered" /\ y.of = t /\ y.chat = c
  BY <1>2 DEF Errand
<1> HIDE DEF y, x
<1>6. Becomes(e, y)
  BY <1>1, <1>3, <1>5, ErrandChanges
<1>7. /\ ErrandFits(y) /\ ~ Interim(x) /\ ~ Saving(y) /\ AnswerIsCurrent(y) /\ ErrandIsOfThePage(y)
  BY <1>1, <1>2, <1>4, <1>5 DEF ErrandFits, Interim, Saving, AnswerIsCurrent, ErrandIsOfThePage, Holds
<1> QED
  BY <1>1, <1>5, <1>6, <1>7, MovesOn DEF x

(* Of calls that move the page there is one, unless the page is mixed; with a call that is
   neither a ruling nor a deletion there is no other, unless the page is behind. *)
LEMMA OthersRest ==
  ASSUME SearchPageInv, NEW e \in Errands, Kind(e) \in Movers
  PROVE  /\ ~ mixed => \A f \in Errands \ {e} : Kind(f) \notin Movers
         /\ ~ behind /\ Kind(e) # "delete" => \A f \in Errands \ {e} : Kind(f) = "none"
         /\ ~ behind => ~ mixed
<1>1. SearchPageTables /\ FewAtATime /\ mixed \in BOOLEAN
  BY DEF SearchPageInv, SearchPageTables, PageStates
<1>2. Kind(e) # "none" /\ Kind(e) # "dismiss"
  BY DEF Movers, Moving
<1>3. ASSUME ~ behind, Kind(e) # "delete", NEW f \in Errands \ {e}, Kind(f) # "none"
      PROVE  FALSE
  <2>1. {Kind(e), Kind(f)} = {"dismiss", "delete"}
    BY <1>1, <1>2, <1>3 DEF FewAtATime
  <2> QED
    BY <2>1, <1>2, <1>3
<1> QED
  BY <1>1, <1>3 DEF FewAtATime

LEMMA AnswerSaveKeeps ==
  ASSUME SearchPageInv, NEW e \in Errands, AnswerSave(e)
  PROVE  SearchPageInv'
<1> DEFINE x == errands[e]
           id == lastId + 1
           z == [x EXCEPT !.at = "answered"]
           y == [z EXCEPT !.chat = id]
<1>1. /\ SearchPageTables /\ FewAtATime /\ UnmixedInv /\ RulingsAreOfTheirRole /\ AbreastInv
      /\ x \in Errand /\ x.kind = "save" /\ x.at = "asked" /\ lastId \in Nat
      /\ lastId' = id /\ box' = box /\ editing' = editing
      /\ busy' = busy /\ shown' = shown /\ chatId' = chatId /\ dismissed' = dismissed
      /\ loading' = loading /\ mixed' = mixed /\ behind' = behind
      /\ replaced' = replaced
      /\ searches' = [c \in DOMAIN searches \union {id} |->
                        IF c = id THEN [of |-> x.of, out |-> {}] ELSE searches[c]]
  BY DEF SearchPageInv, SearchPageTables, SavedSearches, AnswerSave, searchPage, attachments
<1>2. errands' = [errands EXCEPT ![e] = y]
  BY <1>1 DEF AnswerSave, SearchPageTables
<1>3. x \in [kind : {"save"}, at : {"asked", "answered"}, of : Texts, chat : Nat] /\ id \in Nat
  BY <1>1 DEF Errand, None
<1> HIDE DEF x
<1>4. /\ y \in Errand /\ y.kind = "save" /\ y.at = "answered" /\ y.of = x.of /\ y.chat = id
      /\ x.of \in Texts
  BY <1>3 DEF Errand
<1> HIDE DEF y, id
<1>5. Becomes(e, y) /\ errands'[e] = y
  BY <1>1, <1>2, <1>4, ErrandChanges DEF Becomes
<1>6. Kind(e) = "save" /\ Kind(e) \in Movers /\ Kind(e) # "delete"
  BY <1>1 DEF Kind, x, Movers, Moving
<1>7. id \notin DOMAIN searches /\ lastId < id /\ id # 0
  BY <1>1 DEF SearchPageTables, SavedSearches, id
<1>8. SearchPageTables'
  <2>1. SavedSearches'
    <3>1. DOMAIN searches' \subseteq 1..id
      BY <1>1 DEF SearchPageTables, SavedSearches, id
    <3>2. \A c \in DOMAIN searches' : searches'[c] \in [of : Texts, out : SUBSET Found]
      BY <1>1, <1>4 DEF SearchPageTables, SavedSearches
    <3> QED
      BY <1>1, <1>3, <3>1, <3>2 DEF SavedSearches
  <2>2. PageStates'
    BY <1>1, <1>3, <1>7 DEF SearchPageTables, PageStates
  <2>3. RoomToSave'
    <3> DEFINE old == {f \in Errands : Saving(errands[f])}
               new == {f \in Errands : Saving(errands'[f])}
    <3>1. e \in old
      BY <1>1 DEF Saving, x
    <3>2. new = old \ {e}
      BY <1>4, <1>5 DEF Saving, Becomes
    <3>3. IsFiniteSet(old) /\ Cardinality(old) \in Nat
      BY PendingIsFinite
    <3>4. lastId + Cardinality(old) <= MaxSaved
      BY <1>1 DEF SearchPageTables, RoomToSave
    <3>5. RoomToSave' <=> lastId' + Cardinality(new) <= MaxSaved
      BY DEF RoomToSave, Saving
    <3> HIDE DEF old, new
    <3>6. Cardinality(new) = Cardinality(old) - 1
      BY <3>1, <3>2, <3>3, FS_RemoveElement
    <3> QED
      BY <1>1, <3>3, <3>4, <3>5, <3>6, SearchScreenAssumption DEF id
  <2>4. \A f \in Errands : ErrandFits(errands[f])'
    <3> TAKE f \in Errands
    <3>1. CASE f = e
      BY <3>1, <1>1, <1>3, <1>4, <1>5 DEF ErrandFits
    <3>2. CASE f # e
      <4>1. errands'[f] = errands[f] /\ ErrandFits(errands[f])
        BY <3>2, <1>1, <1>5 DEF Becomes, SearchPageTables
      <4>2. errands[f].kind # "none" => errands[f].chat \in Nat
        BY <4>1, ErrandTypes DEF ErrandFits
      <4> QED
        BY <4>1, <4>2, <1>1, <1>3, <1>7 DEF ErrandFits
    <3> QED
      BY <3>1, <3>2
  <2> QED
    BY <1>5, <2>1, <2>2, <2>3, <2>4 DEF SearchPageTables, Becomes
<1>9. FewAtATime'
  <2>1. mixed => behind
    BY <1>1 DEF FewAtATime
  <2> QED
    BY <1>1, <1>4, <1>5, <1>6, <2>1, FewGoOn
<1>10. UnmixedInv'
  <2>1. ~ mixed => ErrandIsOfThePage(x)
    BY <1>1 DEF UnmixedInv, x
  <2>2. ~ mixed' => ErrandIsOfThePage(errands[e])'
    BY <1>1, <1>4, <1>5, <2>1 DEF ErrandIsOfThePage, Holds, IsBriefOf
  <2>3. Interim(y)
    BY <1>4 DEF Interim
  <2> QED
    BY <1>1, <1>5, <1>6, <2>2, <2>3, OthersRest, OneMoves
<1>11. AbreastInv'
  <2>1. ~ behind => AnswerIsCurrent(x)
    BY <1>1 DEF AbreastInv, x
  <2>2. ~ behind' => AnswerIsCurrent(errands[e])'
    BY <1>1, <1>4, <1>5, <2>1 DEF AnswerIsCurrent, OutOf
  <2>3. Interim(y)
    BY <1>4 DEF Interim
  <2> QED
    BY <1>1, <1>5, <1>6, <2>2, <2>3, OthersRest, OneTells
<1>12. RulingsAreOfTheirRole'
  <2>1. \A c \in DOMAIN searches' : lastId < c \/ (c \in DOMAIN searches /\ searches'[c].of = searches[c].of)
    BY <1>1, <1>7
  <2>2. \A f \in Errands : errands'[f].kind = "dismiss" => errands'[f] = errands[f]
    BY <1>4, <1>5 DEF Becomes
  <2> QED
    BY <1>1, <2>1, <2>2, RulingsStay
<1> QED
  BY <1>8, <1>9, <1>10, <1>11, <1>12 DEF SearchPageInv

LEMMA AnswerDeleteKeeps ==
  ASSUME SearchPageInv, NEW e \in Errands, AnswerDelete(e)
  PROVE  SearchPageInv'
<1> DEFINE x == errands[e]
           gone == x.chat
           y == [x EXCEPT !.at = "answered"]
<1>1. /\ SearchPageTables /\ FewAtATime /\ UnmixedInv /\ RulingsAreOfTheirRole /\ AbreastInv
      /\ x \in Errand /\ x.kind = "delete" /\ x.at = "asked" /\ ErrandFits(x)
      /\ lastId' = lastId /\ box' = box /\ editing' = editing
      /\ busy' = busy /\ shown' = shown /\ chatId' = chatId /\ dismissed' = dismissed
      /\ loading' = loading /\ mixed' = mixed /\ behind' = behind
      /\ replaced' = replaced
      /\ searches' = [c \in DOMAIN searches \ {gone} |-> searches[c]]
  BY DEF SearchPageInv, SearchPageTables, AnswerDelete, searchPage, attachments
<1>2. errands' = [errands EXCEPT ![e] = y]
  BY <1>1 DEF AnswerDelete, SearchPageTables
<1>3. x \in [kind : {"delete"}, at : {"asked", "answered"}, chat : Nat, sits : BOOLEAN]
  BY <1>1 DEF Errand, None
<1> HIDE DEF x
<1>4. /\ y \in Errand /\ y.kind = "delete" /\ y.at = "answered" /\ y.sits = x.sits /\ y.chat = gone
  BY <1>3 DEF Errand
<1> HIDE DEF y, gone
<1>5. Becomes(e, y) /\ errands'[e] = y
  BY <1>1, <1>2, <1>4, ErrandChanges DEF Becomes
<1>6. Kind(e) = "delete" /\ Kind(e) \in Movers
  BY <1>1 DEF Kind, x, Movers, Moving
<1>7. gone \notin DOMAIN searches' /\ ErrandFits(y)
  BY <1>1, <1>4 DEF ErrandFits, gone
<1>8. SearchPageTables'
  <2>1. SavedSearches'
    BY <1>1 DEF SearchPageTables, SavedSearches
  <2>2. PageStates'
    BY <1>1 DEF SearchPageTables, PageStates
  <2>3. RoomToSave'
    <3>1. \A f \in Errands : Saving(errands'[f]) => Saving(errands[f])
      BY <1>4, <1>5 DEF Becomes, Saving
    <3> QED
      BY <1>1, <3>1, RoomStays
  <2>4. \A f \in Errands : ErrandFits(errands'[f])
    BY <1>1, <1>5, <1>7 DEF Becomes, SearchPageTables
  <2>5. \A f \in Errands : ErrandFits(errands[f])'
    BY <1>1, <2>4 DEF ErrandFits
  <2> QED
    BY <1>5, <2>1, <2>2, <2>3, <2>5 DEF SearchPageTables, Becomes
<1>9. FewAtATime'
  <2>1. mixed => behind
    BY <1>1 DEF FewAtATime
  <2> QED
    BY <1>1, <1>4, <1>5, <1>6, <2>1, FewGoOn
<1>13. ~ mixed => ErrandIsOfThePage(x) /\ x.sits = (gone = chatId)
  BY <1>1 DEF UnmixedInv, x, ErrandIsOfThePage, Holds, gone
<1>14. ~ mixed => \A f \in Errands \ {e} : Kind(f) \notin Movers
  BY <1>6, OthersRest
<1>15. ~ Interim(x)
  BY <1>1 DEF Interim
<1>16. ASSUME ~ mixed PROVE Settled
  <2>1. \A f \in Errands \ {e} : ~ Interim(errands[f])
    BY <1>14, <1>16 DEF Interim, Kind, Movers, Moving
  <2> QED
    BY <2>1, <1>15 DEF Settled, x
<1>17. y.sits => Interim(y)
  BY <1>4 DEF Interim
<1>10. UnmixedInv'
  <2>2. ~ mixed' => ErrandIsOfThePage(errands[e])'
    BY <1>1, <1>4, <1>5, <1>7, <1>13 DEF ErrandIsOfThePage, Holds
  <2>3. ASSUME ~ mixed', shown' # Empty, ~ Interim(y) PROVE PageIsOfOne'
    <3>1. PageIsOfOne
      BY <1>1, <1>16, <2>3 DEF UnmixedInv
    <3>2. gone # chatId
      BY <1>1, <1>4, <1>13, <1>17, <2>3
    <3> QED
      BY <1>1, <3>1, <3>2 DEF PageIsOfOne, Holds, IsBriefOf
  <2> QED
    BY <1>1, <1>5, <1>14, <2>2, <2>3, OneMoves
<1>11. AbreastInv'
  <2> SUFFICES ASSUME ~ behind' PROVE AbreastInv'
    BY DEF AbreastInv
  <2>1. ~ behind /\ ~ mixed
    BY <1>1 DEF FewAtATime
  <2>2. Settled
    BY <2>1, <1>16
  <2>3. \A f \in Errands \ {e} : Kind(f) \in {"none", "dismiss"}
    BY <1>1, <1>14, <2>1, KindsOfErrands
  <2>4. \A c : c # gone => OutOf(c)' = OutOf(c)
    BY <1>1 DEF OutOf
  <2>5. ASSUME Settled' PROVE gone # chatId
    <3>1. ~ Interim(y)
      BY <2>5, <1>5 DEF Settled, Interim
    <3> QED
      BY <3>1, <1>4, <1>13, <1>17, <2>1
  <2>6. ASSUME NEW f \in Errands \ {e} PROVE AnswerIsCurrent(errands[f])'
    <3>1. errands'[f] = errands[f] /\ errands[f].kind \in {"none", "dismiss"}
      BY <1>5, <2>3 DEF Becomes, Kind
    <3>2. AnswerIsCurrent(errands[f])
      BY <1>1, <2>1 DEF AbreastInv
    <3> QED
      BY <1>1, <2>2, <2>4, <2>5, <3>1, <3>2 DEF AnswerIsCurrent
  <2>7. AnswerIsCurrent(errands[e])'
    BY <1>4, <1>5 DEF AnswerIsCurrent
  <2>8. NoVerdict' => NoVerdict
    BY <1>1, <1>5 DEF NoVerdict, Becomes, x
  <2>9. shown' # Empty /\ Settled' /\ NoVerdict' => dismissed' = OutOf(chatId)'
    BY <1>1, <2>1, <2>2, <2>4, <2>5, <2>8 DEF AbreastInv
  <2> QED
    BY <2>6, <2>7, <2>9 DEF AbreastInv
<1>12. RulingsAreOfTheirRole'
  <2>1. \A c \in DOMAIN searches' : lastId < c \/ (c \in DOMAIN searches /\ searches'[c].of = searches[c].of)
    BY <1>1
  <2>2. \A f \in Errands : errands'[f].kind = "dismiss" => errands'[f] = errands[f]
    BY <1>4, <1>5 DEF Becomes
  <2> QED
    BY <1>1, <2>1, <2>2, RulingsStay
<1> QED
  BY <1>8, <1>9, <1>10, <1>11, <1>12 DEF SearchPageInv

LEMMA AnswerDismissKeeps ==
  ASSUME SearchPageInv, NEW e \in Errands, AnswerDismiss(e)
  PROVE  SearchPageInv'
<1> DEFINE x == errands[e]
           c == x.chat
           now == [searches[c] EXCEPT !.out = @ \union {x.who}]
           y == errands'[e]
<1>1. /\ SearchPageTables /\ FewAtATime /\ UnmixedInv /\ RulingsAreOfTheirRole /\ AbreastInv
      /\ x \in Errand /\ x.kind = "dismiss" /\ x.at = "asked" /\ ErrandFits(x)
      /\ lastId' = lastId /\ box' = box /\ editing' = editing
      /\ busy' = busy /\ shown' = shown /\ chatId' = chatId /\ dismissed' = dismissed
      /\ loading' = loading /\ mixed' = mixed /\ behind' = behind
      /\ replaced' = replaced /\ c \in DOMAIN searches
      /\ Answered(e, searches'[c].out)
  BY DEF SearchPageInv, SearchPageTables, AnswerDismiss, searchPage, attachments
<1>2. searches' = [searches EXCEPT ![c] = now]
  BY DEF AnswerDismiss
<1>3. searches[c] \in [of : Texts, out : SUBSET Found] /\ x.who \in Found
  BY <1>1, ErrandTypes DEF SearchPageTables, SavedSearches
<1>4. now \in [of : Texts, out : SUBSET Found] /\ now.of = searches[c].of
  BY <1>3
<1> HIDE DEF now
<1>5. /\ DOMAIN searches' = DOMAIN searches /\ searches'[c] = now
      /\ \A d \in DOMAIN searches : d # c => searches'[d] = searches[d]
  BY <1>1, <1>2
<1>6. searches'[c].out \in SUBSET Found
  BY <1>4, <1>5
<1>7. Kind(e) = "dismiss"
  BY <1>1 DEF Kind
<1>8. /\ Becomes(e, y) /\ y.kind = "dismiss" /\ y.at = "answered" /\ y.chat = c
      /\ y.out = searches'[c].out /\ y.role = x.role
  BY <1>1, <1>6, <1>7, AnsweredBecomes
<1>9. y \in Errand
  BY <1>8 DEF Becomes
<1> HIDE DEF x, y, c
<1>10. ErrandFits(y)
  BY <1>1, <1>8, <1>9 DEF ErrandFits, c
<1>11. SearchPageTables'
  <2>1. SavedSearches'
    BY <1>1, <1>4, <1>5 DEF SearchPageTables, SavedSearches
  <2>2. PageStates'
    BY <1>1 DEF SearchPageTables, PageStates
  <2>3. RoomToSave'
    <3>1. \A f \in Errands : Saving(errands'[f]) => Saving(errands[f])
      BY <1>8 DEF Becomes, Saving, y
    <3> QED
      BY <1>1, <3>1, RoomStays
  <2>4. \A f \in Errands : ErrandFits(errands'[f])
    BY <1>1, <1>8, <1>10 DEF Becomes, SearchPageTables
  <2>5. \A f \in Errands : ErrandFits(errands[f])'
    BY <1>1, <2>4 DEF ErrandFits
  <2> QED
    BY <1>8, <2>1, <2>2, <2>3, <2>5 DEF SearchPageTables, Becomes
<1>12. FewAtATime'
  <2>1. mixed => behind
    BY <1>1 DEF FewAtATime
  <2> QED
    BY <1>1, <1>7, <1>8, <2>1, FewGoOn
<1>13. UnmixedInv'
  <2>1. ErrandIsOfThePage(errands[e])'
    BY <1>8 DEF ErrandIsOfThePage, Holds, y
  <2>2. \A d \in DOMAIN searches : searches'[d].of = searches[d].of
    BY <1>4, <1>5
  <2>3. ~ Interim(errands[e])
    BY <1>1 DEF Interim, x
  <2> QED
    BY <1>1, <1>5, <1>8, <2>1, <2>2, <2>3, UnmixedCarries
<1>14. AbreastInv'
  <2> SUFFICES ASSUME ~ behind' PROVE AbreastInv'
    BY DEF AbreastInv
  <2>1. ~ behind
    BY <1>1
  <2>2. \A f \in Errands \ {e} : Kind(f) \in {"none", "delete"}
    <3> TAKE f \in Errands \ {e}
    <3>1. Kind(f) # "none" => {Kind(e), Kind(f)} = {"dismiss", "delete"}
      BY <1>1, <1>7, <2>1 DEF FewAtATime
    <3> QED
      BY <3>1, <1>7
  <2>3. \A f \in Errands \ {e} : AnswerIsCurrent(errands[f])'
    <3> TAKE f \in Errands \ {e}
    <3>1. errands'[f] = errands[f] /\ errands[f].kind \in {"none", "delete"}
      BY <1>8, <2>2 DEF Becomes, Kind
    <3> QED
      BY <3>1 DEF AnswerIsCurrent
  <2>4. \A d : d = c => OutOf(d)' = searches'[c].out
    BY <1>1, <1>5 DEF OutOf
  <2>5. AnswerIsCurrent(x)
    BY <1>1, <2>1 DEF AbreastInv, x
  <2>6. AnswerIsCurrent(errands[e])'
    BY <1>1, <1>8, <2>4, <2>5 DEF AnswerIsCurrent, y, c
  <2>7. ~ NoVerdict'
    BY <1>8 DEF NoVerdict, y
  <2> QED
    BY <2>3, <2>6, <2>7 DEF AbreastInv
<1>15. RulingsAreOfTheirRole'
  <2>1. \A d \in DOMAIN searches' : lastId < d \/ (d \in DOMAIN searches /\ searches'[d].of = searches[d].of)
    BY <1>4, <1>5
  <2>2. \A f \in Errands : errands'[f].kind = "dismiss" =>
            /\ errands[f].kind = "dismiss" /\ errands'[f].role = errands[f].role
            /\ errands'[f].chat = errands[f].chat
    BY <1>1, <1>8 DEF Becomes, x, y, c
  <2> QED
    BY <1>1, <2>1, <2>2, RulingsStay
<1> QED
  BY <1>11, <1>12, <1>13, <1>14, <1>15 DEF SearchPageInv

-----------------------------------------------------------------------------
(* What the page does with them. *)

LEMMA PageStatesMove ==
  ASSUME SavedSearches, PageStates, lastId' = lastId, box' \in Texts \union {Empty},
         shown' \in Texts \union {Empty}, dismissed' \subseteq Found,
         chatId' \in Nat, chatId' <= lastId, editing' \in BOOLEAN, busy' \in BOOLEAN,
         loading' \in BOOLEAN, mixed' \in BOOLEAN, behind' \in BOOLEAN
  PROVE  PageStates'
<1>1. lastId' \in Nat
  BY DEF SavedSearches
<1>2. chatId' \in 0..lastId'
  BY <1>1
<1> QED
  BY <1>2 DEF PageStates

LEMMA PageStatesAre ==
  ASSUME SearchPageTables
  PROVE  /\ SavedSearches /\ PageStates /\ chatId \in Nat /\ chatId <= lastId /\ box \in Texts \union {Empty}
         /\ shown \in Texts \union {Empty} /\ dismissed \subseteq Found /\ editing \in BOOLEAN
         /\ busy \in BOOLEAN /\ loading \in BOOLEAN /\ mixed \in BOOLEAN /\ behind \in BOOLEAN
<1>1. lastId \in Nat
  BY DEF SearchPageTables, SavedSearches
<1> QED
  BY <1>1 DEF SearchPageTables, PageStates

LEMMA HearSearchKeeps ==
  ASSUME SearchPageInv, NEW e \in Errands, HearSearch(e)
  PROVE  SearchPageInv'
<1> DEFINE x == errands[e]
           t == x.of
           c == x.chat
           y == IF c # 0 THEN None ELSE [kind |-> "save", at |-> "asked", of |-> t, chat |-> 0]
<1>1. /\ SearchPageTables /\ FewAtATime /\ UnmixedInv /\ RulingsAreOfTheirRole /\ AbreastInv
      /\ x \in Errand /\ x.kind = "search" /\ x.at = "answered" /\ ErrandFits(x)
      /\ searches' = searches /\ lastId' = lastId /\ box' = box /\ editing' = editing
      /\ loading' = loading /\ mixed' = mixed /\ behind' = behind
      /\ replaced' = replaced
      /\ shown' = t /\ dismissed' = x.out
      /\ chatId' = (IF c # 0 THEN c ELSE chatId) /\ busy' = (IF c # 0 THEN FALSE ELSE busy)
  BY DEF SearchPageInv, SearchPageTables, HearSearch, searchServer, attachments
<1>2. errands' = [errands EXCEPT ![e] = y]
  BY DEF HearSearch, Done
<1>3. t \in Texts /\ c \in Nat /\ x.out \in SUBSET Found /\ c <= lastId
  BY <1>1, ErrandTypes DEF ErrandFits
<1>4. /\ y \in Errand /\ (c # 0 => y = None)
      /\ c = 0 => y.kind = "save" /\ y.at = "asked" /\ y.of = t /\ y.chat = 0
  BY <1>3, NoneIsErrand DEF Errand
<1>5. Kind(e) = "search" /\ Kind(e) \in Movers /\ Kind(e) # "delete"
  BY <1>1 DEF Kind, Movers, Moving
<1>13. ~ mixed => ErrandIsOfThePage(x)
  BY <1>1 DEF UnmixedInv
<1>14. ~ behind => AnswerIsCurrent(x)
  BY <1>1 DEF AbreastInv
<1> HIDE DEF x, y, t, c
<1>6. Becomes(e, y) /\ errands'[e] = y
  BY <1>1, <1>2, <1>4, ErrandChanges DEF Becomes
<1>7. ErrandFits(y)
  BY <1>3, <1>4 DEF ErrandFits, None, SearchPageTables, SavedSearches
<1>8. SearchPageTables'
  <2>3. PageStates'
    BY <1>1, <1>3, PageStatesAre, PageStatesMove
  <2>1. PageStates' /\ UNCHANGED searchServer
    BY <1>1, <2>3 DEF searchServer
  <2>2. Saving(y) => Saving(errands[e])
    BY <1>1, <1>4, NoneIsErrand DEF Saving, x, c
  <2> QED
    BY <1>1, <1>6, <1>7, <2>1, <2>2, TablesStay
<1>9. FewAtATime'
  <2>1. mixed => behind
    BY <1>1 DEF FewAtATime
  <2>2. y.kind \in {"none", "save"}
    BY <1>4, NoneIsErrand
  <2> QED
    BY <1>1, <1>5, <1>6, <2>1, <2>2, FewGoOn
<1>10. UnmixedInv'
  <2>1. CASE c # 0
    <3>1. errands'[e].kind = "none"
      BY <2>1, <1>4, <1>6, NoneIsErrand
    <3>2. ErrandIsOfThePage(errands[e])'
      BY <3>1 DEF ErrandIsOfThePage, Holds
    <3>3. ~ mixed' => PageIsOfOne'
      BY <2>1, <1>1, <1>13 DEF ErrandIsOfThePage, PageIsOfOne, Holds, IsBriefOf, t, c
    <3> QED
      BY <1>1, <1>5, <1>6, <3>2, <3>3, OthersRest, OneMoves
  <2>2. CASE c = 0
    <3>1. Interim(y)
      BY <2>2, <1>4 DEF Interim
    <3>2. ~ mixed' => ErrandIsOfThePage(errands[e])'
      BY <2>2, <1>1, <1>4, <1>6, <1>13 DEF ErrandIsOfThePage, Holds, t, c
    <3> QED
      BY <1>1, <1>5, <1>6, <3>1, <3>2, OthersRest, OneMoves
  <2> QED
    BY <2>1, <2>2
<1>11. AbreastInv'
  <2>0. ~ behind => x.out = OutOf(c)
    BY <1>1, <1>14 DEF AnswerIsCurrent, c
  <2>1. CASE c # 0
    <3>1. errands'[e].kind = "none"
      BY <2>1, <1>4, <1>6, NoneIsErrand
    <3>2. AnswerIsCurrent(errands[e])'
      BY <3>1 DEF AnswerIsCurrent
    <3>3. ~ behind' => dismissed' = OutOf(chatId)'
      BY <2>0, <2>1, <1>1 DEF OutOf
    <3> QED
      BY <1>1, <1>5, <1>6, <3>2, <3>3, OthersRest, OneTells
  <2>2. CASE c = 0
    <3>1. Interim(y)
      BY <2>2, <1>4 DEF Interim
    <3>2. OutOf(0) = {}
      BY <1>1 DEF OutOf, SearchPageTables, SavedSearches
    <3>3. ~ behind' => AnswerIsCurrent(errands[e])'
      BY <2>0, <2>2, <3>2, <1>1, <1>4, <1>6 DEF AnswerIsCurrent, OutOf
    <3> QED
      BY <1>1, <1>5, <1>6, <3>1, <3>3, OthersRest, OneTells
  <2> QED
    BY <2>1, <2>2
<1>12. RulingsAreOfTheirRole'
  <2>1. y.kind # "dismiss"
    BY <1>4, NoneIsErrand
  <2>2. \A f \in Errands : errands'[f].kind = "dismiss" => errands'[f] = errands[f]
    BY <2>1, <1>6 DEF Becomes
  <2> QED
    BY <1>1, <2>2, RulingsStay
<1> QED
  BY <1>8, <1>9, <1>10, <1>11, <1>12 DEF SearchPageInv

(* A call that ends. *)
LEMMA EndsKeeps ==
  ASSUME SearchPageInv, NEW e \in Errands, Done(e), UNCHANGED searchServer, PageStates',
         mixed => mixed', behind => behind', mixed' => behind',
         loading' = loading \/ Kind(e) = "more",
         UnmixedInv', AbreastInv'
  PROVE  SearchPageInv'
<1>1. SearchPageTables /\ FewAtATime /\ RulingsAreOfTheirRole
  BY DEF SearchPageInv
<1>2. Becomes(e, None) /\ errands'[e] = None /\ None.kind = "none"
  BY <1>1, DoneBecomes, NoneIsErrand DEF Becomes
<1>3. SearchPageTables'
  <2>1. ErrandFits(None)
    BY <1>2, NoneIsErrand DEF ErrandFits
  <2> QED
    BY <1>1, <1>2, <2>1, NoneIsErrand, TablesStay
<1>4. FewAtATime'
  BY <1>1, <1>2, FewGoOn
<1>5. RulingsAreOfTheirRole'
  <2>1. \A f \in Errands : errands'[f].kind = "dismiss" => errands'[f] = errands[f]
    BY <1>2 DEF Becomes
  <2>2. searches' = searches
    BY DEF searchServer
  <2> QED
    BY <1>1, <2>1, <2>2, RulingsStay
<1> QED
  BY <1>3, <1>4, <1>5 DEF SearchPageInv

LEMMA NoneIsOfAnyPage ==
  ASSUME NEW e \in Errands, Becomes(e, None)
  PROVE  ErrandIsOfThePage(errands[e])' /\ AnswerIsCurrent(errands[e])'
<1>1. errands'[e].kind = "none"
  BY NoneIsErrand DEF Becomes
<1> QED
  BY <1>1 DEF ErrandIsOfThePage, Holds, AnswerIsCurrent

LEMMA HearSaveKeeps ==
  ASSUME SearchPageInv, NEW e \in Errands, HearSave(e)
  PROVE  SearchPageInv'
<1> DEFINE x == errands[e]
           c == x.chat
<1>1. /\ SearchPageTables /\ FewAtATime /\ UnmixedInv /\ AbreastInv
      /\ x \in Errand /\ x.kind = "save" /\ x.at = "answered" /\ ErrandFits(x)
      /\ searches' = searches /\ lastId' = lastId /\ box' = box /\ editing' = editing
      /\ loading' = loading /\ mixed' = mixed /\ behind' = behind
      /\ replaced' = replaced
      /\ shown' = shown /\ dismissed' = dismissed /\ chatId' = c /\ busy' = FALSE
      /\ Done(e) /\ UNCHANGED searchServer
  BY DEF SearchPageInv, SearchPageTables, HearSave, searchServer, attachments
<1>2. c \in Nat /\ c <= lastId
  BY <1>1, ErrandTypes DEF ErrandFits
<1>3. Kind(e) = "save" /\ Kind(e) \in Movers /\ Kind(e) # "delete"
  BY <1>1 DEF Kind, Movers, Moving
<1>4. Becomes(e, None)
  BY <1>1, DoneBecomes
<1>5. ~ mixed => ErrandIsOfThePage(x)
  BY <1>1 DEF UnmixedInv
<1>6. ~ behind => AnswerIsCurrent(x)
  BY <1>1 DEF AbreastInv
<1> HIDE DEF x, c
<1>7. UnmixedInv'
  <2>1. ~ mixed' => PageIsOfOne'
    BY <1>1, <1>5 DEF ErrandIsOfThePage, PageIsOfOne, Holds, IsBriefOf, c
  <2> QED
    BY <1>1, <1>3, <1>4, <2>1, NoneIsOfAnyPage, OthersRest, OneMoves
<1>8. AbreastInv'
  <2>1. ~ behind' => dismissed' = OutOf(chatId)'
    BY <1>1, <1>6 DEF AnswerIsCurrent, OutOf, c
  <2> QED
    BY <1>1, <1>3, <1>4, <2>1, NoneIsOfAnyPage, OthersRest, OneTells
<1>9. PageStates'
  BY <1>1, <1>2, PageStatesAre, PageStatesMove
<1>10. mixed => behind
  BY <1>1 DEF FewAtATime
<1> QED
  BY <1>1, <1>7, <1>8, <1>9, <1>10, EndsKeeps

LEMMA HearMoreErrandKeeps ==
  ASSUME SearchPageInv, NEW e \in Errands, HearMore(e)
  PROVE  SearchPageInv'
<1> DEFINE x == errands[e]
           c == x.chat
           t == x.of
<1>1. /\ SearchPageTables /\ FewAtATime /\ UnmixedInv /\ AbreastInv
      /\ x \in Errand /\ x.kind = "more" /\ x.at = "answered" /\ ErrandFits(x)
      /\ searches' = searches /\ lastId' = lastId /\ box' = box /\ editing' = editing
      /\ loading' = FALSE /\ mixed' = mixed /\ behind' = behind
      /\ replaced' = replaced
      /\ shown' = t /\ dismissed' = x.out /\ chatId' = chatId /\ busy' = busy
      /\ Done(e) /\ UNCHANGED searchServer
  BY DEF SearchPageInv, SearchPageTables, HearMore, searchServer, attachments
<1>2. t \in Texts /\ x.out \in SUBSET Found
  BY <1>1, ErrandTypes
<1>3. Kind(e) = "more" /\ Kind(e) \in Movers /\ Kind(e) # "delete"
  BY <1>1 DEF Kind, Movers
<1>4. Becomes(e, None)
  BY <1>1, DoneBecomes
<1>5. ~ mixed => t = shown /\ c = chatId
  BY <1>1 DEF UnmixedInv, ErrandIsOfThePage, Holds
<1>6. ~ behind => x.out = OutOf(c)
  BY <1>1 DEF AbreastInv, AnswerIsCurrent
<1>11. ~ mixed => \A f \in Errands \ {e} : Kind(f) \notin Movers
  BY <1>3, OthersRest
<1>12. ~ Interim(x)
  BY <1>1 DEF Interim
<1>13. ASSUME ~ mixed PROVE Settled
  <2>1. \A f \in Errands \ {e} : ~ Interim(errands[f])
    BY <1>11, <1>13 DEF Interim, Kind, Movers, Moving
  <2> QED
    BY <2>1, <1>12 DEF Settled
<1> HIDE DEF x, c, t
<1>7. UnmixedInv'
  <2>1. ASSUME ~ mixed' PROVE PageIsOfOne'
    <3>1. PageIsOfOne
      <4>1. shown # Empty
        BY <1>1, <1>2, <1>5, <2>1, SearchScreenAssumption
      <4> QED
        BY <4>1, <2>1, <1>1, <1>13 DEF UnmixedInv
    <3> QED
      BY <3>1, <2>1, <1>1, <1>5 DEF PageIsOfOne, Holds, IsBriefOf
  <2> QED
    BY <1>1, <1>4, <1>11, <2>1, NoneIsOfAnyPage, OneMoves
<1>8. AbreastInv'
  <2>1. ~ behind' => dismissed' = OutOf(chatId)'
    BY <1>1, <1>3, <1>5, <1>6, OthersRest DEF OutOf
  <2> QED
    BY <1>1, <1>3, <1>4, <2>1, NoneIsOfAnyPage, OthersRest, OneTells
<1>9. PageStates'
  BY <1>1, <1>2, PageStatesAre, PageStatesMove
<1>10. mixed => behind
  BY <1>1 DEF FewAtATime
<1> QED
  BY <1>1, <1>3, <1>7, <1>8, <1>9, <1>10, EndsKeeps

LEMMA HearOpenKeeps ==
  ASSUME SearchPageInv, NEW e \in Errands, HearOpen(e)
  PROVE  SearchPageInv'
<1> DEFINE x == errands[e]
           t == x.of
           c == x.chat
           y == [kind |-> "search", at |-> "asked", of |-> t, chat |-> c, out |-> {}]
<1>1. /\ SearchPageTables /\ FewAtATime /\ UnmixedInv /\ RulingsAreOfTheirRole /\ AbreastInv
      /\ x \in Errand /\ x.kind = "open" /\ x.at = "answered" /\ ErrandFits(x)
      /\ searches' = searches /\ lastId' = lastId /\ box' = t /\ editing' = FALSE
      /\ loading' = loading /\ mixed' = mixed /\ behind' = behind
      /\ shown' = shown /\ dismissed' = dismissed /\ chatId' = c /\ busy' = TRUE
  BY DEF SearchPageInv, SearchPageTables, HearOpen, searchServer, Searching
<1>2. errands' = [errands EXCEPT ![e] = y]
  BY DEF HearOpen, Searching
<1>3. t \in Texts /\ c \in Nat /\ c <= lastId /\ c # 0
  BY <1>1, ErrandTypes DEF ErrandFits
<1>4. y \in Errand /\ y.kind = "search" /\ y.at = "asked" /\ y.of = t /\ y.chat = c
  BY <1>3 DEF Errand
<1>5. Kind(e) = "open" /\ Kind(e) \in Movers /\ Kind(e) # "delete"
  BY <1>1 DEF Kind, Movers, Moving
<1>13. ~ mixed => IsBriefOf(t, c)
  BY <1>1 DEF UnmixedInv, ErrandIsOfThePage, Holds
<1> HIDE DEF x, y, t, c
<1>6. Becomes(e, y) /\ errands'[e] = y
  BY <1>1, <1>2, <1>4, ErrandChanges DEF Becomes
<1>7. ErrandFits(y) /\ ~ Saving(y) /\ Interim(y)
  BY <1>3, <1>4 DEF ErrandFits, Saving, Interim
<1>8. SearchPageTables'
  <2>3. PageStates'
    BY <1>1, <1>3, PageStatesAre, PageStatesMove
  <2>1. PageStates' /\ UNCHANGED searchServer
    BY <1>1, <2>3 DEF searchServer
  <2> QED
    BY <1>1, <1>6, <1>7, <2>1, TablesStay
<1>9. FewAtATime'
  <2>1. mixed => behind
    BY <1>1 DEF FewAtATime
  <2> QED
    BY <1>1, <1>4, <1>5, <1>6, <2>1, FewGoOn
<1>10. UnmixedInv'
  <2>1. ~ mixed' => ErrandIsOfThePage(errands[e])'
    BY <1>1, <1>4, <1>6, <1>13 DEF ErrandIsOfThePage, Holds, IsBriefOf
  <2> QED
    BY <1>1, <1>5, <1>6, <1>7, <2>1, OthersRest, OneMoves
<1>11. AbreastInv'
  <2>1. AnswerIsCurrent(errands[e])'
    BY <1>4, <1>6 DEF AnswerIsCurrent
  <2> QED
    BY <1>1, <1>5, <1>6, <1>7, <2>1, OthersRest, OneTells
<1>12. RulingsAreOfTheirRole'
  <2>2. \A f \in Errands : errands'[f].kind = "dismiss" => errands'[f] = errands[f]
    BY <1>4, <1>6 DEF Becomes
  <2> QED
    BY <1>1, <2>2, RulingsStay
<1> QED
  BY <1>8, <1>9, <1>10, <1>11, <1>12 DEF SearchPageInv

LEMMA HearDismissKeeps ==
  ASSUME SearchPageInv, NEW e \in Errands, HearDismiss(e)
  PROVE  SearchPageInv'
<1> DEFINE x == errands[e]
<1>1. /\ SearchPageTables /\ FewAtATime /\ UnmixedInv /\ AbreastInv
      /\ x \in Errand /\ x.kind = "dismiss" /\ x.at = "answered"
      /\ searches' = searches /\ lastId' = lastId /\ box' = box /\ editing' = editing
      /\ loading' = loading /\ mixed' = mixed /\ behind' = behind
      /\ replaced' = replaced
      /\ shown' = shown /\ dismissed' = x.out /\ chatId' = chatId /\ busy' = busy
      /\ Done(e) /\ UNCHANGED searchServer
  BY DEF SearchPageInv, SearchPageTables, HearDismiss, searchServer, attachments
<1>2. x.out \in SUBSET Found
  BY <1>1, ErrandTypes
<1>4. Becomes(e, None)
  BY <1>1, DoneBecomes
<1>5. Kind(e) = "dismiss" /\ ~ Interim(x)
  BY <1>1 DEF Kind, Interim
<1>7. UnmixedInv'
  BY <1>1, <1>4, <1>5, NoneIsOfAnyPage, UnmixedCarries
<1>8. AbreastInv'
  <2> SUFFICES ASSUME ~ behind' PROVE AbreastInv'
    BY DEF AbreastInv
  <2>1. ~ behind
    BY <1>1
  <2>2. \A f \in Errands \ {e} : Kind(f) \in {"none", "delete"}
    <3> TAKE f \in Errands \ {e}
    <3>1. Kind(f) # "none" => {Kind(e), Kind(f)} = {"dismiss", "delete"}
      BY <1>1, <1>5, <2>1 DEF FewAtATime
    <3> QED
      BY <3>1, <1>5
  <2>3. \A f \in Errands \ {e} : AnswerIsCurrent(errands[f])'
    <3> TAKE f \in Errands \ {e}
    <3>1. errands'[f] = errands[f] /\ errands[f].kind \in {"none", "delete"}
      BY <1>4, <2>2 DEF Becomes, Kind
    <3> QED
      BY <3>1 DEF AnswerIsCurrent
  <2>4. Settled' => Settled
    BY <1>4, <1>5 DEF Settled, Becomes, Interim
  <2>5. AnswerIsCurrent(x)
    BY <1>1, <2>1 DEF AbreastInv
  <2>6. shown' # Empty /\ Settled' => dismissed' = OutOf(chatId)'
    BY <1>1, <2>4, <2>5 DEF AnswerIsCurrent, OutOf
  <2> QED
    BY <1>4, <2>3, <2>6, NoneIsOfAnyPage DEF AbreastInv
<1>9. PageStates'
  BY <1>1, <1>2, PageStatesAre, PageStatesMove
<1>10. mixed => behind
  BY <1>1 DEF FewAtATime
<1> QED
  BY <1>1, <1>7, <1>8, <1>9, <1>10, EndsKeeps

LEMMA HearDeleteKeeps ==
  ASSUME SearchPageInv, NEW e \in Errands, HearDelete(e)
  PROVE  SearchPageInv'
<1> DEFINE x == errands[e]
<1>1. /\ SearchPageTables /\ FewAtATime /\ UnmixedInv /\ AbreastInv
      /\ x \in Errand /\ x.kind = "delete" /\ x.at = "answered"
      /\ searches' = searches /\ lastId' = lastId /\ editing' = editing
      /\ loading' = loading /\ mixed' = mixed /\ behind' = behind /\ busy' = busy
      /\ IF x.sits THEN chatId' = 0 /\ dismissed' = {} /\ box' = Empty /\ shown' = Empty
                   ELSE box' = box /\ shown' = shown /\ chatId' = chatId /\ dismissed' = dismissed
      /\ ~ x.sits => replaced' = replaced
      /\ Done(e) /\ UNCHANGED searchServer
  BY DEF SearchPageInv, SearchPageTables, HearDelete, searchServer, Cleared
<1>3. Kind(e) = "delete" /\ Kind(e) \in Movers
  BY <1>1 DEF Kind, Movers, Moving
<1>4. Becomes(e, None)
  BY <1>1, DoneBecomes
<1>9. PageStates'
  BY <1>1 DEF SearchPageTables, PageStates, SavedSearches
<1>10. mixed => behind
  BY <1>1 DEF FewAtATime
<1>11. ~ x.sits => ~ Interim(x)
  BY <1>1 DEF Interim
<1>12. ~ mixed => \A f \in Errands \ {e} : Kind(f) \notin Movers
  BY <1>3, OthersRest
<1>7. UnmixedInv'
  <2>1. CASE x.sits
    BY <2>1, <1>1, <1>4, <1>12, NoneIsOfAnyPage, OneMoves
  <2>2. CASE ~ x.sits
    BY <2>2, <1>1, <1>4, <1>11, NoneIsOfAnyPage, UnmixedCarries
  <2> QED
    BY <2>1, <2>2
<1>8. AbreastInv'
  <2>1. CASE x.sits
    <3> SUFFICES ASSUME ~ behind' PROVE AbreastInv'
      BY DEF AbreastInv
    <3>1. ~ behind /\ ~ mixed
      BY <1>1, <1>10
    <3>2. shown' = Empty
      BY <2>1, <1>1
    <3>3. \A f \in Errands \ {e} : AnswerIsCurrent(errands[f])'
      <4> TAKE f \in Errands \ {e}
      <4>1. errands'[f] = errands[f] /\ errands[f].kind \notin Movers
        BY <3>1, <1>4, <1>12 DEF Becomes, Kind
      <4> QED
        BY <4>1, <3>2 DEF AnswerIsCurrent, Movers, Moving
    <3> QED
      BY <3>2, <3>3, <1>4, NoneIsOfAnyPage DEF AbreastInv
  <2>2. CASE ~ x.sits
    <3>1. errands[e].kind # "dismiss"
      BY <1>1
    <3> QED
      BY <2>2, <3>1, <1>1, <1>4, <1>11, NoneIsOfAnyPage, AbreastCarries
  <2> QED
    BY <2>1, <2>2
<1> QED
  BY <1>1, <1>7, <1>8, <1>9, <1>10, EndsKeeps

LEMMA ErrandFailsKeeps ==
  ASSUME SearchPageInv, NEW e \in Errands, ErrandFails(e)
  PROVE  SearchPageInv'
<1> DEFINE x == errands[e]
           k == x.kind
<1>1. /\ SearchPageTables /\ FewAtATime /\ UnmixedInv /\ AbreastInv
      /\ x \in Errand /\ k # "none"
      /\ searches' = searches /\ lastId' = lastId /\ editing' = editing
      /\ box' = box /\ shown' = shown /\ chatId' = chatId /\ dismissed' = dismissed
      /\ replaced' = replaced
      /\ busy' = (busy /\ k \notin {"search", "save"})
      /\ loading' = (loading /\ k # "more")
      /\ mixed' = (mixed \/ k \in {"save", "delete"} \/ (k = "search" /\ shown # Empty))
      /\ behind' = (behind \/ mixed' \/ k = "dismiss")
      /\ Done(e) /\ UNCHANGED searchServer
  BY DEF SearchPageInv, SearchPageTables, ErrandFails, searchServer, attachments
<1>2. PageStates /\ mixed \in BOOLEAN /\ behind \in BOOLEAN /\ busy \in BOOLEAN /\ loading \in BOOLEAN
  BY <1>1 DEF SearchPageTables, PageStates
<1>3. mixed' \in BOOLEAN
  BY <1>1, <1>2
<1>4. Becomes(e, None)
  BY <1>1, DoneBecomes
<1>5. k \in {"search", "save", "open", "delete", "more", "dismiss"} /\ Kind(e) = k
  BY <1>1, ErrandTypes DEF Kind
<1>6. PageStates'
  BY <1>1, <1>2, <1>3 DEF PageStates
<1>7. (mixed => mixed') /\ (behind => behind') /\ (mixed' => behind')
  BY <1>1, <1>2, <1>3
<1>8. loading' = loading \/ Kind(e) = "more"
  BY <1>1, <1>2, <1>5
<1>11. ~ mixed' => k \notin {"save", "delete"}
  BY <1>1
<1>12. Interim(x) => k \in {"search", "save", "delete"}
  BY DEF Interim
<1> HIDE DEF k, x
<1>9. UnmixedInv'
  <2>1. CASE k = "search"
    <3>1. ~ mixed' => ~ mixed /\ shown' = Empty
      BY <2>1, <1>1, <1>2
    <3>2. Kind(e) \in Movers
      BY <2>1, <1>5 DEF Movers, Moving
    <3> QED
      BY <3>1, <3>2, <1>1, <1>4, NoneIsOfAnyPage, OthersRest, OneMoves
  <2>2. CASE k \in {"save", "delete"}
    BY <2>2, <1>11 DEF UnmixedInv
  <2>3. CASE k \in {"open", "more", "dismiss"}
    <3>1. busy' = busy /\ ~ Interim(x)
      BY <2>3, <1>1, <1>2, <1>12
    <3> QED
      BY <3>1, <1>1, <1>4, <1>7, NoneIsOfAnyPage, UnmixedCarries DEF x
  <2> QED
    BY <2>1, <2>2, <2>3, <1>5
<1>10. AbreastInv'
  <2>1. CASE k = "search"
    <3>1. ~ behind' => ~ behind /\ shown' = Empty
      BY <2>1, <1>1, <1>2, <1>3
    <3>2. Kind(e) \in Movers /\ Kind(e) # "delete"
      BY <2>1, <1>5 DEF Movers, Moving
    <3> QED
      BY <3>1, <3>2, <1>1, <1>4, NoneIsOfAnyPage, OthersRest, OneTells
  <2>2. CASE k \in {"save", "delete", "dismiss"}
    BY <2>2, <1>1, <1>2, <1>3, <1>11 DEF AbreastInv
  <2>3. CASE k \in {"open", "more"}
    <3>1. ~ Interim(x) /\ x.kind # "dismiss"
      BY <2>3, <1>12 DEF k
    <3> QED
      BY <3>1, <1>1, <1>4, <1>7, NoneIsOfAnyPage, AbreastCarries DEF x
  <2> QED
    BY <2>1, <2>2, <2>3, <1>5
<1> QED
  BY <1>1, <1>6, <1>7, <1>8, <1>9, <1>10, EndsKeeps

-----------------------------------------------------------------------------
LEMMA SearchPageBegins ==
  ASSUME SearchScreenInit
  PROVE  SearchPageInv
<1> DEFINE y == [kind |-> "search", at |-> "asked", of |-> box, chat |-> 0, out |-> {}]
           first(e) == \A f \in Errands : e <= f
<1>1. /\ DOMAIN searches = {} /\ lastId = 0 /\ editing = FALSE /\ loading = FALSE /\ shown = Empty
      /\ chatId = 0 /\ dismissed = {} /\ mixed = FALSE /\ behind = FALSE
  BY DEF SearchScreenInit
<1>2. /\ box \in Texts \union {Empty} /\ busy \in BOOLEAN
      /\ \A e \in Errands : errands[e] \in {None, y}
      /\ \A e \in Errands : errands[e] # None => busy = TRUE /\ box \in Texts /\ first(e)
      /\ errands = [e \in Errands |-> errands[e]]
  <2>1. CASE box = Empty /\ busy = FALSE /\ errands = [e \in Errands |-> None]
    BY <2>1
  <2>2. CASE /\ box \in Texts /\ busy = TRUE
             /\ errands = [e \in Errands |-> IF first(e) THEN y ELSE None]
    BY <2>2
  <2> QED
    BY <2>1, <2>2 DEF SearchScreenInit
<1>3. \A e, f \in Errands : first(e) /\ first(f) => e = f
  BY SearchScreenAssumption
<1>4. /\ y.kind = "search" /\ y.at = "asked" /\ y.of = box /\ y.chat = 0
      /\ box \in Texts => y \in Errand
  BY DEF Errand
<1> HIDE DEF y, first
<1>5. None \in Errand /\ None.kind = "none" /\ ~ Saving(None)
  BY NoneIsErrand
<1>6. \A e \in Errands : ErrandFits(errands[e])
  <2> TAKE e \in Errands
  <2>1. CASE errands[e] = None
    BY <2>1, <1>5 DEF ErrandFits
  <2>2. CASE errands[e] # None
    BY <2>2, <1>1, <1>2, <1>4 DEF ErrandFits
  <2> QED
    BY <2>1, <2>2
<1>7. SearchPageTables
  <2>1. errands \in [Errands -> Errand]
    BY <1>2, <1>6 DEF ErrandFits
  <2>2. RoomToSave
    <3> DEFINE P == {e \in Errands : Saving(errands[e])}
    <3>1. \A e, f \in P : e = f
      BY <1>2, <1>3, <1>5
    <3>2. IsFiniteSet(P) /\ Cardinality(P) \in Nat
      BY PendingIsFinite
    <3>3. P = {} \/ \E e \in P : P = {e}
      BY <3>1
    <3> HIDE DEF P
    <3>4. Cardinality(P) <= 1
      BY <3>3, FS_EmptySet, FS_Singleton
    <3> QED
      BY <3>2, <3>4, <1>1, SearchScreenAssumption DEF RoomToSave, P
  <2>4. SavedSearches
    BY <1>1 DEF SavedSearches
  <2>5. chatId \in 0..lastId
    BY <1>1
  <2>3. SavedSearches /\ PageStates
    BY <1>1, <1>2, <2>4, <2>5 DEF PageStates
  <2> QED
    BY <1>6, <2>1, <2>2, <2>3 DEF SearchPageTables
<1>8. \A e \in Errands : Kind(e) \in {"none", "search"} /\ (Kind(e) # "none" => first(e) /\ busy = TRUE /\ errands[e] = y)
  BY <1>2, <1>4, <1>5 DEF Kind
<1>9. FewAtATime
  <2>1. \A e, f \in Errands : Kind(e) # "none" /\ Kind(f) # "none" => e = f
    BY <1>3, <1>8
  <2>2. \A e \in Errands : Kind(e) \in Movers => Kind(e) # "none"
    BY DEF Movers, Moving
  <2> QED
    BY <1>1, <1>8, <2>1, <2>2 DEF FewAtATime
<1>10. UnmixedInv
  <2>1. \A e \in Errands : ErrandIsOfThePage(errands[e])
    BY <1>4, <1>8 DEF ErrandIsOfThePage, Holds, Kind
  <2> QED
    BY <1>1, <2>1 DEF UnmixedInv
<1>11. RulingsAreOfTheirRole
  BY <1>8 DEF RulingsAreOfTheirRole, Kind
<1>12. AbreastInv
  <2>1. \A e \in Errands : AnswerIsCurrent(errands[e])
    BY <1>4, <1>8 DEF AnswerIsCurrent, Kind
  <2> QED
    BY <1>1, <2>1 DEF AbreastInv
<1> QED
  BY <1>7, <1>9, <1>10, <1>11, <1>12 DEF SearchPageInv

LEMMA SearchPageStutters ==
  ASSUME SearchPageInv, UNCHANGED searchScreenVars
  PROVE  SearchPageInv'
<1>1. /\ searches' = searches /\ lastId' = lastId /\ box' = box /\ loading' = loading
      /\ shown' = shown /\ chatId' = chatId /\ dismissed' = dismissed /\ busy' = busy
      /\ editing' = editing /\ errands' = errands /\ mixed' = mixed /\ behind' = behind
      /\ replaced' = replaced
  BY DEF searchScreenVars, searchServer, searchPage, attachments
<1> QED
  BY <1>1, PageRests

LEMMA SearchPageStep ==
  ASSUME SearchPageInv, [SearchScreenNext]_searchScreenVars
  PROVE  SearchPageInv'
<1>1. CASE ModifySearch \/ NewSearch \/ \E t \in Texts \union {Empty} : Type(t)
  BY <1>1, ModifySearchKeeps, NewSearchKeeps, TypeKeeps
<1>8. CASE Attach \/ AttachFails \/ \E t \in Texts : HearAttach(t)
  BY <1>8, AttachKeeps, HearAttachKeeps
<1>2. ASSUME NEW e \in Errands, SubmitSearch(e) \/ RefreshSearch(e) \/ ShowMore(e) PROVE SearchPageInv'
  BY <1>2, SubmitSearchKeeps, RefreshSearchKeeps, ShowMoreKeeps
<1>3. ASSUME NEW e \in Errands,
             BeginSearch(e) \/ AnswerSearch(e) \/ AnswerMore(e) \/ AnswerSave(e)
             \/ AnswerOpen(e) \/ AnswerDelete(e) \/ AnswerDismiss(e)
      PROVE  SearchPageInv'
  <2>1. CASE AnswerSearch(e)
    BY <2>1, AnswerKeeps DEF AnswerSearch, Kind
  <2>2. CASE AnswerMore(e)
    BY <2>2, AnswerKeeps DEF AnswerMore, Kind
  <2> QED
    BY <1>3, <2>1, <2>2, BeginSearchKeeps, AnswerSaveKeeps, AnswerOpenKeeps, AnswerDeleteKeeps,
       AnswerDismissKeeps
<1>4. ASSUME NEW e \in Errands,
             HearSearch(e) \/ HearSave(e) \/ HearOpen(e) \/ HearMore(e) \/ HearDismiss(e)
             \/ HearDelete(e) \/ ErrandFails(e)
      PROVE  SearchPageInv'
  BY <1>4, HearSearchKeeps, HearSaveKeeps, HearOpenKeeps, HearMoreErrandKeeps, HearDismissKeeps,
     HearDeleteKeeps, ErrandFailsKeeps
<1>5. ASSUME NEW e \in Errands, NEW c \in DOMAIN searches, OpenChat(e, c) \/ DeleteChat(e, c)
      PROVE  SearchPageInv'
  BY <1>5, OpenChatKeeps, DeleteChatKeeps
<1>6. ASSUME NEW e \in Errands, NEW p \in Found, DismissFromList(e, p) PROVE SearchPageInv'
  BY <1>6, DismissFromListKeeps
<1>7. CASE UNCHANGED searchScreenVars
  BY <1>7, SearchPageStutters
<1> QED
  BY <1>1, <1>2, <1>3, <1>4, <1>5, <1>6, <1>7, <1>8 DEF SearchScreenNext

(* Files are read one for one. *)
ReadingInv == reading \in 0..MaxReading /\ replaced \in BOOLEAN

LEMMA ReadingStep ==
  ASSUME ReadingInv, [SearchScreenNext]_searchScreenVars
  PROVE  ReadingInv'
<1>1. reading \in Nat /\ MaxReading \in Nat /\ reading <= MaxReading
  BY SearchScreenAssumption DEF ReadingInv
<1>2. CASE Attach
  BY <1>1, <1>2 DEF Attach, ReadingInv
<1>3. CASE AttachFails
  BY <1>1, <1>3 DEF AttachFails, ReadingInv
<1>4. ASSUME NEW t \in Texts, HearAttach(t) PROVE ReadingInv'
  <2>1. replaced' \in BOOLEAN
    BY <1>4 DEF HearAttach
  <2> QED
    BY <1>1, <1>4, <2>1 DEF HearAttach, ReadingInv
<1>5. CASE UNCHANGED attachments
  BY <1>5 DEF attachments, ReadingInv
<1>6. CASE reading' = reading /\ replaced' = FALSE
  BY <1>6 DEF ReadingInv
<1>7. ASSUME NEW e \in Errands,
             HearSearch(e) \/ HearSave(e) \/ HearOpen(e) \/ HearMore(e) \/ HearDismiss(e)
             \/ HearDelete(e) \/ ErrandFails(e)
      PROVE  UNCHANGED attachments \/ (reading' = reading /\ replaced' = FALSE)
  BY <1>7 DEF HearSearch, HearSave, HearOpen, HearMore, HearDismiss, HearDelete, ErrandFails,
     Cleared, attachments
<1>8. ASSUME NEW e \in Errands,
             BeginSearch(e) \/ AnswerSearch(e) \/ AnswerMore(e) \/ AnswerSave(e)
             \/ AnswerOpen(e) \/ AnswerDelete(e) \/ AnswerDismiss(e)
      PROVE  UNCHANGED attachments
  BY <1>8 DEF BeginSearch, AnswerSearch, AnswerMore, AnswerSave, AnswerOpen, AnswerDelete,
     AnswerDismiss
<1>9. ASSUME NEW e \in Errands, SubmitSearch(e) \/ RefreshSearch(e) \/ ShowMore(e)
      PROVE  UNCHANGED attachments \/ (reading' = reading /\ replaced' = FALSE)
  BY <1>9 DEF SubmitSearch, RefreshSearch, ShowMore, attachments
<1>10. ASSUME NEW e \in Errands, \/ \E c \in DOMAIN searches : OpenChat(e, c) \/ DeleteChat(e, c)
                                 \/ \E p \in Found : DismissFromList(e, p)
       PROVE  UNCHANGED attachments
  BY <1>10 DEF OpenChat, DeleteChat, DismissFromList
<1>11. CASE ModifySearch \/ NewSearch \/ \E t \in Texts \union {Empty} : Type(t)
  BY <1>5, <1>6, <1>11 DEF ModifySearch, NewSearch, Cleared, Type
<1>12. CASE UNCHANGED searchScreenVars
  BY <1>5, <1>12 DEF searchScreenVars
<1> QED
  BY <1>2, <1>3, <1>4, <1>5, <1>6, <1>7, <1>8, <1>9, <1>10, <1>11, <1>12 DEF SearchScreenNext

LEMMA SearchPageInvGives ==
  ASSUME SearchPageInv, ReadingInv
  PROVE  SearchScreenIsSound
<1>1. SearchPageTables /\ FewAtATime /\ UnmixedInv /\ AbreastInv
  BY DEF SearchPageInv
<1>2. SearchScreenTypeOK
  <2>1. \A e \in Errands : errands[e].kind \in Moving \union Telling \union {"none"}
    <3>1. \A e \in Errands : Kind(e) \in {"none"} \union Movers \union {"dismiss"}
      BY <1>1, KindsOfErrands
    <3> QED
      BY <3>1 DEF Kind, Movers, Telling
  <2>2. lastId <= MaxSaved
    <3>1. lastId + Cardinality({e \in Errands : Saving(errands[e])}) <= MaxSaved /\ lastId \in Nat
      BY <1>1 DEF SearchPageTables, RoomToSave, SavedSearches
    <3> QED
      BY <3>1, PendingIsFinite, SearchScreenAssumption
  <2> QED
    BY <1>1, <2>1, <2>2 DEF SearchScreenTypeOK, SearchPageTables, SavedSearches, PageStates, ReadingInv
<1>3. ResultsAreOfOneSearch
  <2> SUFFICES ASSUME shown # Empty, ~ mixed, ~ UnderWay(Movers)
               PROVE  PageIsOfOne
    BY DEF ResultsAreOfOneSearch, PageIsOfOne, Holds, IsBriefOf, Movers
  <2>1. \A f \in Errands : Kind(f) \notin Moving
    BY <1>1, NobodyMoves DEF Movers
  <2> QED
    BY <2>1, <1>1, NothingInterim DEF UnmixedInv
<1>4. RuledOutStayOut
  <2> SUFFICES ASSUME shown # Empty, ~ behind, ~ UnderWay(Moving \union Telling)
               PROVE  dismissed = OutOf(chatId)
    BY DEF RuledOutStayOut
  <2>1. \A f \in Errands : Kind(f) = "none"
    BY <1>1, NobodyMoves
  <2>2. Settled /\ NoVerdict
    BY <2>1 DEF Settled, NoVerdict, Interim, Kind
  <2> QED
    BY <2>2, <1>1 DEF AbreastInv
<1> QED
  BY <1>2, <1>3, <1>4 DEF SearchPageInv, SearchScreenIsSound

(* Whatever search, save, batch, ruling or deletion is under way, and whoever fails: at
   rest the results are of one saved search with its brief in the box, unless what a
   file said came into the box after the search began (attach does not ask), a ruling
   reaches the role it was made for, and nobody ruled out of a search comes back to it. *)
THEOREM SearchScreenStaysSound == SearchScreenSpec => []SearchScreenIsSound
<1>1. SearchScreenInit => SearchPageInv /\ ReadingInv
  <2>2. SearchScreenInit => reading = 0 /\ replaced = FALSE
    BY DEF SearchScreenInit
  <2>3. MaxReading \in Nat /\ 0 \in 0..MaxReading
    BY SearchScreenAssumption
  <2>1. SearchScreenInit => ReadingInv
    BY <2>2, <2>3, Zenon DEF ReadingInv
  <2> QED
    BY <2>1, SearchPageBegins
<1>2. SearchPageInv /\ ReadingInv /\ [SearchScreenNext]_searchScreenVars => SearchPageInv' /\ ReadingInv'
  BY SearchPageStep, ReadingStep
<1>3. SearchPageInv /\ ReadingInv => SearchScreenIsSound
  BY SearchPageInvGives
<1> QED
  BY <1>1, <1>2, <1>3, PTL DEF SearchScreenSpec
=============================================================================
