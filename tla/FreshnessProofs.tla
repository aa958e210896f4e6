--------------------------- MODULE FreshnessProofs ---------------------------
(***************************************************************************)
(* The invariants of Freshness hold for any number of recruiters, any      *)
(* schedule of reminders and any lifetimes of links and questions.         *)
(***************************************************************************)
EXTENDS Freshness, FiniteSetTheorems, TLAPS

(* What makes the properties inductive: there are finitely many links, a    *)
(* stage that is about to be sent is above the one on record, and the       *)
(* record is never below what this silence was told.                       *)
SweepAhead ==
    sweep.at \in {"due", "mailing"} => sweep.stage \in Reminders /\ sweep.stage > stageSent

ToldIsRecorded == \A stage \in told : stage <= stageSent

FreshInv ==
    /\ FreshTypeOK /\ IsFiniteSet(links)
    /\ HiddenForAReason
    /\ NobodyWaitsOnANo
    /\ AskedOnce
    /\ SweepAhead
    /\ ToldIsRecorded

-----------------------------------------------------------------------------
(* The stages are days of silence, counted from one. *)
LEMMA StagesAreDays ==
  ASSUME FreshAssumption
  PROVE  /\ \A stage \in Reminders : stage \in Int /\ 0 < stage
         /\ \A stage \in Reminders \cup {0} : stage \in Int /\ 0 <= stage
BY DEF FreshAssumption

(* A new link joins the others: there is a number left for it. *)
LEMMA IssueLink ==
  ASSUME FreshAssumption, links \in SUBSET Links, IsFiniteSet(links),
         NEW kind \in {"sweep", "check"}
  PROVE  \E l \in Links : l.kind = kind /\ Issue(kind) = links \cup {l}
<1> DEFINE link(n) == [kind |-> kind, left |-> TokenDays, no |-> n]
           k == Cardinality(links)
           numbers == 1..k + 1
<1>1. k \in Nat
  BY FS_CardinalityType
<1>2. IsFiniteSet(numbers) /\ Cardinality(numbers) = k + 1
  BY <1>1, FS_Interval
<1>3. \E n \in numbers : link(n) \notin links
  <2> SUFFICES ASSUME \A n \in numbers : link(n) \in links PROVE FALSE
    OBVIOUS
  <2> DEFINE f == [n \in numbers |-> link(n)]
  <2>1. f \in [numbers -> links]
    OBVIOUS
  <2>2. \E x, y \in numbers : x # y /\ f[x] = f[y]
    <3> HIDE DEF f, numbers, link
    <3> QED BY <1>1, <1>2, <2>1, FS_PigeonHole
  <2>3. \A x, y \in numbers : f[x] = f[y] => x = y
    <3> SUFFICES ASSUME NEW x \in numbers, NEW y \in numbers, f[x] = f[y] PROVE x = y
      OBVIOUS
    <3>1. link(x) = link(y)
      OBVIOUS
    <3>2. link(x).no = x /\ link(y).no = y
      OBVIOUS
    <3> QED BY <3>1, <3>2
  <2> QED BY <2>2, <2>3
<1> DEFINE next == CHOOSE n \in 1..Cardinality(links) + 1 : link(n) \notin links
<1>4. next \in numbers
  BY <1>3
<1>5. link(next) \in Links /\ link(next).kind = kind
  <2>1. next \in Nat
    BY <1>1, <1>4
  <2>2. TokenDays \in 1..TokenDays
    BY DEF FreshAssumption
  <2> HIDE DEF next
  <2> QED BY <2>1, <2>2 DEF Links
<1>6. Issue(kind) = links \cup {link(next)}
  BY DEF Issue
<1> QED BY <1>5, <1>6

(* A day takes one off every link and drops those that ran out. *)
LEMMA LinksAge ==
  ASSUME FreshAssumption, links \in SUBSET Links, IsFiniteSet(links), AskedOnce
  PROVE  /\ OlderLinks \in SUBSET Links /\ IsFiniteSet(OlderLinks)
         /\ \A l, m \in OlderLinks : l.kind = "check" /\ m.kind = "check" => l = m
<1> DEFINE living == {m \in links : m.left > 1}
           f == [l \in living |-> [l EXCEPT !.left = @ - 1]]
<1>1. IsFiniteSet(living)
  BY FS_Subset
<1>2. f \in Surjection(living, OlderLinks)
  BY DEF Surjection, OlderLinks
<1>3. IsFiniteSet(OlderLinks)
  <2> HIDE DEF f, living
  <2> QED BY <1>1, <1>2, FS_Surjection
<1>4. \A l \in living : f[l] \in Links /\ f[l].kind = l.kind
  BY DEF Links, FreshAssumption
<1>5. \A o \in OlderLinks : \E l \in living : o = f[l]
  BY DEF OlderLinks
<1>6. OlderLinks \in SUBSET Links
  BY <1>4, <1>5
<1>7. \A l, m \in OlderLinks : l.kind = "check" /\ m.kind = "check" => l = m
  <2> SUFFICES ASSUME NEW l \in OlderLinks, NEW m \in OlderLinks,
                      l.kind = "check", m.kind = "check"
               PROVE  l = m
    OBVIOUS
  <2>1. PICK a \in living : l = f[a]
    BY <1>5
  <2>2. PICK b \in living : m = f[b]
    BY <1>5
  <2>3. a.kind = "check" /\ b.kind = "check"
    BY <1>4, <2>1, <2>2
  <2> QED BY <2>1, <2>2, <2>3 DEF AskedOnce
<1> QED BY <1>3, <1>6, <1>7

(* The sweep issues links of its own kind. *)
LEMMA IssueSweep ==
  ASSUME FreshAssumption, links \in SUBSET Links, IsFiniteSet(links), AskedOnce,
         links' = Issue("sweep")
  PROVE  links' \in SUBSET Links /\ IsFiniteSet(links') /\ AskedOnce'
<1>1. PICK l \in Links : l.kind = "sweep" /\ links' = links \cup {l}
  BY IssueLink
<1>2. IsFiniteSet(links')
  BY <1>1, FS_AddElement
<1> QED BY <1>1, <1>2 DEF AskedOnce

-----------------------------------------------------------------------------
LEMMA FreshInitInv == FreshInit => FreshInv
<1> SUFFICES ASSUME FreshInit PROVE FreshInv
  OBVIOUS
<1>1. FreshTypeOK
  <2>1. 0 \in 0..HideDays /\ 0 \in 0..CheckDays /\ 0 \in 0..MaxRestarts
    BY FreshAssumption DEF FreshAssumption
  <2>2. checks \in [Recruiters -> [state : {"none", "pending", "yes", "no", "expired"},
                                  left : 0..CheckDays]]
    BY <2>1 DEF FreshInit, NoCheck
  <2>3. sweep \in [at : {"idle", "hidden", "waiting", "due", "mailing", "ending"},
                   stage : Reminders \cup {0}]
    BY DEF FreshInit, Idle
  <2> QED BY <2>1, <2>2, <2>3 DEF FreshInit, FreshTypeOK
<1>2. IsFiniteSet(links)
  BY FS_EmptySet DEF FreshInit
<1> QED
  BY <1>1, <1>2
  DEF FreshInv, FreshInit, HiddenForAReason, NobodyWaitsOnANo, AskedOnce, SweepAhead,
      ToldIsRecorded, Idle

(* Activity, by sign-in or by a yes, starts the silence again. *)
LEMMA ActiveKeeps ==
  ASSUME FreshInv, Active, sweep' = sweep
  PROVE  /\ silent' \in 0..HideDays /\ stageSent' \in Reminders \cup {0} /\ told' \subseteq Reminders
         /\ SweepAhead' /\ ToldIsRecorded'
<1>1. 0 \in 0..HideDays
  BY FreshAssumption DEF FreshAssumption
<1>2. SweepAhead'
  BY StagesAreDays, FreshAssumption DEF FreshInv, Active, SweepAhead
<1> QED BY <1>1, <1>2 DEF Active, ToldIsRecorded

LEMMA DayKeeps == ASSUME FreshInv, Day PROVE FreshInv'
<1>1. FreshTypeOK /\ links \in SUBSET Links /\ IsFiniteSet(links) /\ AskedOnce
  BY DEF FreshInv, FreshTypeOK
<1>2. links' \in SUBSET Links /\ IsFiniteSet(links') /\ AskedOnce'
  BY <1>1, LinksAge, FreshAssumption DEF Day, AskedOnce
<1>3. silent' \in 0..HideDays
  BY <1>1, FreshAssumption DEF FreshAssumption, FreshTypeOK, Day
<1>4. \A r \in Recruiters :
        /\ checks[r].left \in 0..CheckDays
        /\ checks'[r].state = checks[r].state
        /\ checks'[r].left = IF checks[r].left > 0 THEN checks[r].left - 1 ELSE 0
  BY <1>1 DEF FreshTypeOK, Day, OlderChecks
<1>5. checks' \in [Recruiters -> [state : {"none", "pending", "yes", "no", "expired"},
                                  left : 0..CheckDays]]
  BY <1>1, FreshAssumption DEF FreshAssumption, FreshTypeOK, Day, OlderChecks
<1>6. FreshTypeOK'
  BY <1>1, <1>2, <1>3, <1>5 DEF FreshTypeOK, Day, profile
<1>7. NobodyWaitsOnANo'
  BY <1>4 DEF FreshInv, NobodyWaitsOnANo, Day, profile
<1> QED
  BY <1>2, <1>6, <1>7
  DEF FreshInv, Day, profile, HiddenForAReason, SweepAhead, ToldIsRecorded

LEMMA SignInKeeps == ASSUME FreshInv, SignIn PROVE FreshInv'
<1>1. Active /\ sweep' = sweep
  BY DEF SignIn
<1> QED
  BY <1>1, ActiveKeeps
  DEF FreshInv, SignIn, FreshTypeOK, HiddenForAReason, NobodyWaitsOnANo, AskedOnce

LEMMA ReactivateKeeps == ASSUME FreshInv, Reactivate PROVE FreshInv'
<1>1. Active /\ Shown /\ sweep' = sweep
  BY DEF Reactivate
<1> QED
  BY <1>1, ActiveKeeps
  DEF FreshInv, Reactivate, Shown, FreshTypeOK, HiddenForAReason, NobodyWaitsOnANo, AskedOnce

(* An answer settles every question that has not lapsed, and leaves no link *)
(* that was not there.                                                     *)
LEMMA AnswerKeeps ==
  ASSUME FreshInv, NEW answer \in {"yes", "no"}, NEW rest \in SUBSET links, Answer(answer, rest)
  PROVE  FreshInv'
<1>1. FreshTypeOK /\ links \in SUBSET Links /\ IsFiniteSet(links) /\ AskedOnce
  BY DEF FreshInv, FreshTypeOK
<1>2. links' \in SUBSET links
  BY DEF Answer
<1>3. links' \in SUBSET Links /\ IsFiniteSet(links') /\ AskedOnce'
  BY <1>1, <1>2, FS_Subset DEF AskedOnce
<1>4. \A r \in Recruiters : ~(checks'[r].state = "pending" /\ checks'[r].left > 0)
  BY <1>1 DEF Answer, Resolved, FreshTypeOK
<1>5. checks' \in [Recruiters -> [state : {"none", "pending", "yes", "no", "expired"},
                                  left : 0..CheckDays]]
  <2>1. 0 \in 0..CheckDays
    BY FreshAssumption DEF FreshAssumption
  <2> QED BY <1>1, <2>1 DEF Answer, Resolved, FreshTypeOK
<1>6. /\ silent' \in 0..HideDays /\ stageSent' \in Reminders \cup {0} /\ told' \subseteq Reminders
      /\ SweepAhead' /\ ToldIsRecorded'
  <2>1. CASE answer = "yes"
    BY <2>1, ActiveKeeps DEF Answer
  <2>2. CASE answer = "no"
    BY <2>2 DEF Answer, FreshInv, FreshTypeOK, SweepAhead, ToldIsRecorded
  <2> QED BY <2>1, <2>2
<1>7. hidden' \in BOOLEAN /\ said' \in BOOLEAN /\ autoHidden' \in BOOLEAN /\ HiddenForAReason'
  BY <1>1 DEF Answer, Shown, HiddenForAReason, FreshTypeOK
<1>8. FreshTypeOK'
  BY <1>1, <1>3, <1>5, <1>6, <1>7 DEF FreshTypeOK, Answer
<1> QED BY <1>3, <1>4, <1>6, <1>7, <1>8 DEF FreshInv, NobodyWaitsOnANo

(* A question is put to the candidate when no link is out, and so it is the *)
(* only one.                                                               *)
LEMMA RequestKeeps ==
  ASSUME FreshInv, NEW r \in Recruiters, RequestCheck(r)
  PROVE  FreshInv'
<1>1. FreshTypeOK /\ links \in SUBSET Links /\ IsFiniteSet(links) /\ AskedOnce
  BY DEF FreshInv, FreshTypeOK
<1>2. links' \in SUBSET Links /\ IsFiniteSet(links') /\ AskedOnce'
  <2>1. CASE links' = links
    BY <1>1, <2>1 DEF AskedOnce
  <2>2. CASE links = {} /\ links' = Issue("check")
    <3>1. PICK l \in Links : Issue("check") = links \cup {l}
      BY <1>1, IssueLink, FreshAssumption
    <3>2. links' = {l}
      BY <2>2, <3>1
    <3> QED BY <3>2, FS_Singleton DEF AskedOnce
  <2> QED BY <2>1, <2>2 DEF RequestCheck, AlreadyAsked
<1>3. FreshTypeOK'
  <2>1. CheckDays \in 0..CheckDays
    BY FreshAssumption DEF FreshAssumption
  <2>2. checks' \in [Recruiters -> [state : {"none", "pending", "yes", "no", "expired"},
                                   left : 0..CheckDays]]
    BY <1>1, <2>1 DEF FreshTypeOK, RequestCheck
  <2> QED BY <1>1, <1>2, <2>2 DEF FreshTypeOK, RequestCheck, profile
<1>4. NobodyWaitsOnANo'
  BY DEF RequestCheck, Orange, profile, NobodyWaitsOnANo
<1> QED
  BY <1>2, <1>3, <1>4
  DEF FreshInv, RequestCheck, profile, HiddenForAReason, SweepAhead, ToldIsRecorded

-----------------------------------------------------------------------------
LEMMA HideStaleKeeps == ASSUME FreshInv, HideStale PROVE FreshInv'
<1>1. FreshTypeOK'
  <2>1. FreshTypeOK
    BY DEF FreshInv
  <2>2. sweep' \in [at : {"idle", "hidden", "waiting", "due", "mailing", "ending"},
                   stage : Reminders \cup {0}]
    BY DEF HideStale, Goes
  <2>3. hidden' \in BOOLEAN /\ autoHidden' \in BOOLEAN
    BY <2>1 DEF HideStale, FreshTypeOK
  <2> QED BY <2>1, <2>2, <2>3 DEF HideStale, FreshTypeOK
<1> QED
  BY <1>1
  DEF FreshInv, HideStale, Goes, HiddenForAReason, NobodyWaitsOnANo, AskedOnce, SweepAhead,
      ToldIsRecorded, FreshTypeOK

(* The two emails of the sweep issue a link each. *)
LEMMA MailKeeps ==
  ASSUME FreshInv, MailHidden \/ MailReminder
  PROVE  FreshInv'
<1>1. FreshTypeOK /\ links \in SUBSET Links /\ IsFiniteSet(links) /\ AskedOnce
  BY DEF FreshInv, FreshTypeOK
<1>2. links' \in SUBSET Links /\ IsFiniteSet(links') /\ AskedOnce'
  <2>1. links' = Issue("sweep")
    BY DEF MailHidden, MailReminder
  <2> QED BY <1>1, <2>1, IssueSweep, FreshAssumption
<1>3. SweepAhead' /\ sweep' \in [at : {"idle", "hidden", "waiting", "due", "mailing", "ending"},
                                 stage : Reminders \cup {0}]
  BY <1>1 DEF FreshInv, FreshTypeOK, SweepAhead, MailHidden, MailReminder, Goes, profile
<1>4. FreshTypeOK'
  BY <1>1, <1>2, <1>3 DEF FreshTypeOK, MailHidden, MailReminder, profile
<1> QED
  BY <1>2, <1>3, <1>4
  DEF FreshInv, MailHidden, MailReminder, profile, HiddenForAReason, NobodyWaitsOnANo,
      ToldIsRecorded

LEMMA CollectKeeps ==
  ASSUME FreshInv, (\E stage \in Reminders : CollectDue(stage)) \/ NobodyDue
  PROVE  FreshInv'
<1>1. FreshTypeOK' /\ SweepAhead'
  BY DEF FreshInv, FreshTypeOK, SweepAhead, CollectDue, NobodyDue, ReminderDue, Goes, profile
<1> QED
  BY <1>1
  DEF FreshInv, CollectDue, NobodyDue, profile, HiddenForAReason, NobodyWaitsOnANo, AskedOnce,
      ToldIsRecorded

(* Whatever the reminder ends in, the record only grows with it. *)
LEMMA ReminderKeeps ==
  ASSUME FreshInv, SkipReminder \/ ReminderSent \/ ReminderFailed
  PROVE  FreshInv'
<1>1. sweep.stage \in Reminders /\ sweep.stage > stageSent
  BY DEF FreshInv, SweepAhead, SkipReminder, ReminderSent, ReminderFailed
<1>2. FreshTypeOK' /\ SweepAhead'
  BY <1>1
  DEF FreshInv, FreshTypeOK, SweepAhead, SkipReminder, ReminderSent, ReminderFailed, Goes, profile
<1>3. ToldIsRecorded'
  <2>1. \A stage \in told : stage <= stageSent /\ stage \in Int
    BY StagesAreDays, FreshAssumption DEF FreshInv, ToldIsRecorded, FreshTypeOK
  <2>2. stageSent \in Int /\ sweep.stage \in Int
    BY <1>1, StagesAreDays, FreshAssumption DEF FreshInv, FreshTypeOK
  <2> QED
    BY <1>1, <2>1, <2>2 DEF ToldIsRecorded, SkipReminder, ReminderSent, ReminderFailed, profile
<1> QED
  BY <1>2, <1>3
  DEF FreshInv, SkipReminder, ReminderSent, ReminderFailed, profile, HiddenForAReason,
      NobodyWaitsOnANo, AskedOnce

LEMMA ExpireKeeps == ASSUME FreshInv, ExpireChecks PROVE FreshInv'
<1>1. FreshTypeOK'
  BY DEF FreshInv, FreshTypeOK, ExpireChecks, Idle, profile
<1>2. NobodyWaitsOnANo'
  BY DEF FreshInv, FreshTypeOK, NobodyWaitsOnANo, ExpireChecks, profile
<1> QED
  BY <1>1, <1>2
  DEF FreshInv, ExpireChecks, Idle, profile, HiddenForAReason, AskedOnce, SweepAhead,
      ToldIsRecorded

LEMMA RestartKeeps == ASSUME FreshInv, Restart PROVE FreshInv'
<1>1. FreshTypeOK'
  <2>1. restarts' \in 0..MaxRestarts
    BY FreshAssumption DEF FreshAssumption, FreshInv, FreshTypeOK, Restart
  <2>2. sweep' \in [at : {"idle", "hidden", "waiting", "due", "mailing", "ending"},
                   stage : Reminders \cup {0}]
    BY DEF Restart, Idle
  <2> QED BY <2>1, <2>2 DEF FreshInv, FreshTypeOK, Restart, profile
<1> QED
  BY <1>1
  DEF FreshInv, Restart, Idle, profile, HiddenForAReason, NobodyWaitsOnANo, AskedOnce,
      SweepAhead, ToldIsRecorded

LEMMA FreshStep == FreshInv /\ [FreshNext]_freshVars => FreshInv'
<1> SUFFICES ASSUME FreshInv, [FreshNext]_freshVars PROVE FreshInv'
  OBVIOUS
<1>1. CASE Day \/ SignIn \/ Reactivate
  BY <1>1, DayKeeps, SignInKeeps, ReactivateKeeps
<1>2. ASSUME NEW l \in links, NEW answer \in {"yes", "no"}, AnswerByLink(l, answer)
      PROVE  FreshInv'
  BY <1>2, AnswerKeeps DEF AnswerByLink
<1>3. ASSUME NEW answer \in {"yes", "no"}, AnswerInAccount(answer)
      PROVE  FreshInv'
  BY <1>3, AnswerKeeps DEF AnswerInAccount
<1>4. CASE \E r \in Recruiters : RequestCheck(r)
  BY <1>4, RequestKeeps
<1>5. CASE Sweeping
  BY <1>5, HideStaleKeeps, MailKeeps, CollectKeeps, ReminderKeeps, ExpireKeeps DEF Sweeping
<1>6. CASE Restart
  BY <1>6, RestartKeeps
<1>7. CASE UNCHANGED freshVars
  BY <1>7
  DEF freshVars, profile, FreshInv, FreshTypeOK, HiddenForAReason, NobodyWaitsOnANo, AskedOnce,
      SweepAhead, ToldIsRecorded
<1> QED BY <1>1, <1>2, <1>3, <1>4, <1>5, <1>6, <1>7 DEF FreshNext

-----------------------------------------------------------------------------
(* FreshInv holds in every reachable state. *)
THEOREM FreshInvariant == FreshSpec => []FreshInv
BY FreshInitInv, FreshStep, PTL DEF FreshSpec

(* The columns of the lifecycle keep their types: markCandidateSeen,        *)
(* recordReminderSent and the rest never leave the schedule.               *)
THEOREM FreshTypeCorrect == FreshSpec => []FreshTypeOK
<1>1. FreshInv => FreshTypeOK
  BY DEF FreshInv
<1> QED BY <1>1, FreshInvariant, PTL

(* A profile is hidden exactly as long as a no or a silence is on record    *)
(* (deactivated_at, auto_hidden_at).                                       *)
THEOREM HiddenHasAReason == FreshSpec => []HiddenForAReason
<1>1. FreshInv => HiddenForAReason
  BY DEF FreshInv
<1> QED BY <1>1, FreshInvariant, PTL

(* Once the candidate has said no, no recruiter's question is open          *)
(* (resolveAvailabilityChecks).                                            *)
THEOREM ANoReachesEverybody == FreshSpec => []NobodyWaitsOnANo
<1>1. FreshInv => NobodyWaitsOnANo
  BY DEF FreshInv
<1> QED BY <1>1, FreshInvariant, PTL

(* A reminder that was recorded is not sent again in the same silence       *)
(* (candidatesDueReminder), through restarts in the middle of a sweep.     *)
THEOREM RemindersAreSentOnce == FreshSpec => []NotRemindedTwice
<1>1. FreshInv => NotRemindedTwice
  <2> SUFFICES ASSUME FreshInv, sweep.at \in {"due", "mailing"}, sweep.stage \in told
               PROVE  FALSE
    BY DEF NotRemindedTwice
  <2>1. sweep.stage > stageSent /\ sweep.stage <= stageSent
    BY DEF FreshInv, SweepAhead, ToldIsRecorded
  <2>2. sweep.stage \in Int /\ stageSent \in Int
    <3>1. sweep.stage \in Reminders
      BY DEF FreshInv, SweepAhead
    <3>2. stageSent \in Reminders \cup {0}
      BY DEF FreshInv, FreshTypeOK
    <3> QED BY <3>1, <3>2, StagesAreDays, FreshAssumption
  <2> QED BY <2>1, <2>2
<1> QED BY <1>1, FreshInvariant, PTL

(* There are never two recruiters' questions in front of the candidate      *)
(* (requestAvailabilityCheck).                                             *)
THEOREM OneQuestionAtATime == FreshSpec => []AskedOnce
<1>1. FreshInv => AskedOnce
  BY DEF FreshInv
<1> QED BY <1>1, FreshInvariant, PTL

(* The columns of a profile, its links and its questions agree for any     *)
(* recruiters and any schedule of reminders: see FreshIsSound.             *)
THEOREM FreshStaysSound == FreshSpec => []FreshIsSound
BY FreshTypeCorrect, HiddenHasAReason, ANoReachesEverybody, OneQuestionAtATime, PTL DEF FreshIsSound
==============================================================================
