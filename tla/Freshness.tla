------------------------------ MODULE Freshness ------------------------------
(***************************************************************************)
(* One candidate's silence: the reminders it earns, the day the profile    *)
(* leaves the search, the yes and no that end it, and the recruiters who   *)
(* ask whether the candidate is still available (checkins.js,              *)
(* availability.js, the freshness part of profiles.js and its routes).     *)
(*                                                                         *)
(* The sweep goes over all candidates and stops at an await for every      *)
(* email, so other candidates' emails may pass between any two of its      *)
(* steps for this one.  A day passes at any point, and so does everything  *)
(* the candidate and the recruiters do.                                    *)
(***************************************************************************)
EXTENDS Integers, FiniteSets, FiniteSetsExt

CONSTANTS
    Recruiters,  \* recruiters who may ask about the candidate
    Reminders,   \* REMINDER_STAGES: the days of silence that earn an email
    FreshDays,   \* FRESH_DAYS
    HideDays,    \* HIDE_DAYS
    TokenDays,   \* CHECKIN_TOKEN_DAYS
    CheckDays,   \* CHECK_LIFETIME_DAYS
    MaxRestarts  \* bound: restarts of the process

ASSUME FreshAssumption ==
    /\ FreshDays \in Nat \ {0} /\ HideDays \in Nat \ {0}
    /\ Reminders \subseteq 1..HideDays
    /\ TokenDays \in Nat \ {0} /\ CheckDays \in Nat \ {0}
    /\ MaxRestarts \in Nat

VARIABLES
    email,      \* candidates.email IS NOT NULL
    silent,     \* daysInactive, counted up to HideDays
    stageSent,  \* candidates.freshness_stage_sent
    hidden,     \* candidates.hidden_from_search
    said,       \* candidates.deactivated_at IS NOT NULL: an explicit no
    autoHidden, \* candidates.auto_hidden_at IS NOT NULL
    links,      \* freshness_checkins that are neither answered nor expired
    checks,     \* the latest availability_checks row of each recruiter
    sweep,      \* where runCheckinSweep is with this candidate
    swept,      \* the sweep has started today; the daily timer
    told,       \* history: reminders sent and recorded in this silence
    restarts    \* how often the process has come back

profile == <<stageSent, hidden, said, autoHidden>>
freshVars == <<email, silent, profile, links, checks, sweep, swept, told, restarts>>

(* A link asks for the sweep or for a recruiter and has so many days left;   *)
(* the number tells links apart that were issued on one day.  A link whose  *)
(* email was lost is one the candidate never uses.                         *)
Links == [kind : {"sweep", "check"}, left : 1..TokenDays, no : Nat]

NoCheck == [state |-> "none", left |-> 0]
Idle == [at |-> "idle", stage |-> 0]

FreshTypeOK ==
    /\ email \in BOOLEAN
    /\ silent \in 0..HideDays
    /\ stageSent \in Reminders \cup {0}
    /\ hidden \in BOOLEAN /\ said \in BOOLEAN /\ autoHidden \in BOOLEAN
    /\ links \in SUBSET Links
    /\ checks \in [Recruiters -> [state : {"none", "pending", "yes", "no", "expired"},
                                  left : 0..CheckDays]]
    /\ sweep \in [at : {"idle", "hidden", "waiting", "due", "mailing", "ending"},
                  stage : Reminders \cup {0}]
    /\ swept \in BOOLEAN
    /\ told \subseteq Reminders
    /\ restarts \in 0..MaxRestarts

FreshInit ==
    /\ email \in BOOLEAN
    /\ silent = 0
    /\ stageSent = 0
    /\ hidden = FALSE /\ said = FALSE /\ autoHidden = FALSE
    /\ links = {}
    /\ checks = [r \in Recruiters |-> NoCheck]
    /\ sweep = Idle
    /\ swept = FALSE
    /\ told = {}
    /\ restarts = 0

-----------------------------------------------------------------------------
(***************************************************************************)
(* Time                                                                    *)
(***************************************************************************)

(* A link that has run out of days is refused, and is no pending check-in.  *)
OlderLinks ==
    {[l EXCEPT !.left = @ - 1] : l \in {m \in links : m.left > 1}}

OlderChecks ==
    [r \in Recruiters |-> [checks[r] EXCEPT !.left = IF @ > 0 THEN @ - 1 ELSE 0]]

Day ==
    /\ silent' = IF silent < HideDays THEN silent + 1 ELSE silent
    /\ links' = OlderLinks
    /\ checks' = OlderChecks
    /\ swept' = FALSE
    /\ UNCHANGED <<email, profile, sweep, told, restarts>>

-----------------------------------------------------------------------------
(***************************************************************************)
(* The candidate                                                           *)
(***************************************************************************)

(* What counts as activity starts the silence, and the reminders, again.   *)
Active ==
    /\ silent' = 0
    /\ stageSent' = 0
    /\ told' = {}

(* confirmActive and reactivate: both undo a no and a silence. *)
Shown ==
    /\ hidden' = FALSE
    /\ said' = FALSE
    /\ autoHidden' = FALSE

(* POST /api/candidate/verify-code: markCandidateSeen; a sign-in does not    *)
(* bring a hidden profile back.                                            *)
SignIn ==
    /\ Active
    /\ UNCHANGED <<email, hidden, said, autoHidden, links, checks, sweep, swept, restarts>>

(* Faulty variant: the answer goes to one recruiter. *)
ResolvedOne(answer) ==
    LET waiting == {r \in Recruiters : checks[r].state = "pending" /\ checks[r].left > 0} IN
    [r \in Recruiters |->
        IF waiting # {} /\ r = CHOOSE s \in waiting : TRUE
        THEN [state |-> answer, left |-> 0] ELSE checks[r]]

(* resolveAvailabilityChecks: one answer settles every question that has    *)
(* not lapsed.                                                             *)
Resolved(answer) ==
    [r \in Recruiters |->
        IF checks[r].state = "pending" /\ checks[r].left > 0
        THEN [state |-> answer, left |-> 0] ELSE checks[r]]

(* confirmActive or deactivate, and notifyAvailabilityWatchers; a no takes  *)
(* back every link there is.                                               *)
Answer(answer, rest) ==
    /\ checks' = Resolved(answer)
    /\ IF answer = "yes"
       THEN Active /\ Shown /\ links' = rest
       ELSE /\ hidden' = TRUE /\ said' = TRUE
            /\ links' = {}
            /\ UNCHANGED <<silent, stageSent, autoHidden, told>>
    /\ UNCHANGED <<email, sweep, swept, restarts>>

(* POST /api/checkin/:token *)
AnswerByLink(l, answer) ==
    /\ l \in links
    /\ Answer(answer, links \ {l})

(* POST /api/candidate/me/checkin *)
AnswerInAccount(answer) == Answer(answer, links)

(* POST /api/candidate/me/reactivate; nobody who asked is told. *)
Reactivate ==
    /\ Active /\ Shown
    /\ UNCHANGED <<email, links, checks, sweep, swept, restarts>>

-----------------------------------------------------------------------------
(***************************************************************************)
(* The recruiters                                                          *)
(***************************************************************************)

(* issueCheckinToken *)
Issue(kind) ==
    LET link(n) == [kind |-> kind, left |-> TokenDays, no |-> n]
        next    == CHOOSE n \in 1..Cardinality(links) + 1 : link(n) \notin links
    IN  links \cup {link(next)}

(* checkableState *)
Orange == ~hidden /\ ~said /\ silent >= FreshDays

(* alreadyAsked *)
AlreadyAsked ==
    \/ \E r \in Recruiters : checks[r].state = "pending" /\ checks[r].left > 0
    \/ links # {}

(* POST /api/hr/candidates/:id/availability-check, for a recruiter without  *)
(* an outstanding row; the link is issued before the email is awaited.     *)
RequestCheck(r) ==
    /\ Orange
    /\ checks[r].state # "pending"
    /\ checks' = [checks EXCEPT ![r] = [state |-> "pending", left |-> CheckDays]]
    /\ links' = IF email /\ ~AlreadyAsked THEN Issue("check") ELSE links
    /\ UNCHANGED <<email, silent, profile, sweep, swept, told, restarts>>

-----------------------------------------------------------------------------
(***************************************************************************)
(* The sweep, on boot and once a day                                       *)
(***************************************************************************)

Goes(at, stage) == sweep' = [at |-> at, stage |-> stage]

(* Faulty variant: nobody is hidden who was not reminded first. *)
HideStaleReminded ==
    /\ sweep = Idle /\ ~swept
    /\ swept' = TRUE
    /\ IF ~hidden /\ ~said /\ silent >= HideDays /\ stageSent > 0
       THEN /\ hidden' = TRUE /\ autoHidden' = TRUE
            /\ Goes(IF email THEN "hidden" ELSE "waiting", 0)
       ELSE Goes("waiting", 0) /\ UNCHANGED <<hidden, autoHidden>>
    /\ UNCHANGED <<email, silent, stageSent, said, links, checks, told, restarts>>

(* hideStaleProfiles *)
HideStale ==
    /\ sweep = Idle /\ ~swept
    /\ swept' = TRUE
    /\ IF ~hidden /\ ~said /\ silent >= HideDays
       THEN /\ hidden' = TRUE /\ autoHidden' = TRUE
            /\ Goes(IF email THEN "hidden" ELSE "waiting", 0)
       ELSE Goes("waiting", 0) /\ UNCHANGED <<hidden, autoHidden>>
    /\ UNCHANGED <<email, silent, stageSent, said, links, checks, told, restarts>>

(* The email about it, whatever has become of the profile since. *)
MailHidden ==
    /\ sweep.at = "hidden"
    /\ links' = Issue("sweep")
    /\ Goes("waiting", 0)
    /\ UNCHANGED <<email, silent, profile, checks, swept, told, restarts>>

(* reminderStageFor: the highest stage the silence has reached. *)
Earned(stage) ==
    /\ stage \in Reminders /\ stage <= silent
    /\ \A other \in Reminders : other <= silent => other <= stage

(* Faulty variant: the stage that was sent is due again. *)
ReminderDueAgain(stage) == ~hidden /\ ~said /\ Earned(stage) /\ stage >= stageSent

(* candidatesDueReminder *)
ReminderDue(stage) == ~hidden /\ ~said /\ Earned(stage) /\ stage > stageSent

CollectDue(stage) ==
    /\ sweep.at = "waiting"
    /\ ReminderDue(stage)
    /\ Goes("due", stage)
    /\ UNCHANGED <<email, silent, profile, links, checks, swept, told, restarts>>

NobodyDue ==
    /\ sweep.at = "waiting"
    /\ \A stage \in Reminders : ~ReminderDue(stage)
    /\ Goes("ending", 0)
    /\ UNCHANGED <<email, silent, profile, links, checks, swept, told, restarts>>

(* The reminder that was due when the candidates were read. *)
MailReminder ==
    /\ sweep.at = "due" /\ email
    /\ links' = Issue("sweep")
    /\ Goes("mailing", sweep.stage)
    /\ UNCHANGED <<email, silent, profile, checks, swept, told, restarts>>

(* Nothing to send to, and the stage is recorded anyway. *)
SkipReminder ==
    /\ sweep.at = "due" /\ ~email
    /\ stageSent' = sweep.stage
    /\ Goes("ending", 0)
    /\ UNCHANGED <<email, silent, hidden, said, autoHidden, links, checks, swept, told, restarts>>

(* The email is out: recordReminderSent. *)
ReminderSent ==
    /\ sweep.at = "mailing"
    /\ stageSent' = sweep.stage
    /\ told' = told \cup {sweep.stage}
    /\ Goes("ending", 0)
    /\ UNCHANGED <<email, silent, hidden, said, autoHidden, links, checks, swept, restarts>>

(* The email threw: the stage stays, the next sweep tries again. *)
ReminderFailed ==
    /\ sweep.at = "mailing"
    /\ Goes("ending", 0)
    /\ UNCHANGED <<email, silent, profile, links, checks, swept, told, restarts>>

(* expireAvailabilityChecks *)
ExpireChecks ==
    /\ sweep.at = "ending"
    /\ checks' = [r \in Recruiters |->
         IF checks[r].state = "pending" /\ checks[r].left = 0
         THEN [checks[r] EXCEPT !.state = "expired"] ELSE checks[r]]
    /\ sweep' = Idle
    /\ UNCHANGED <<email, silent, profile, links, swept, told, restarts>>

(* The process dies and comes back; a sweep that was running is gone. *)
Restart ==
    /\ restarts < MaxRestarts
    /\ restarts' = restarts + 1
    /\ sweep' = Idle
    /\ swept' = FALSE
    /\ UNCHANGED <<email, silent, profile, links, checks, told>>

-----------------------------------------------------------------------------
Sweeping ==
    \/ HideStale
    \/ MailHidden
    \/ \E stage \in Reminders : CollectDue(stage)
    \/ NobodyDue
    \/ MailReminder
    \/ SkipReminder
    \/ ReminderSent
    \/ ReminderFailed
    \/ ExpireChecks

FreshNext ==
    \/ Day
    \/ SignIn
    \/ \E l \in links, answer \in {"yes", "no"} : AnswerByLink(l, answer)
    \/ \E answer \in {"yes", "no"} : AnswerInAccount(answer)
    \/ Reactivate
    \/ \E r \in Recruiters : RequestCheck(r)
    \/ Sweeping
    \/ Restart

FreshSpec == FreshInit /\ [][FreshNext]_freshVars

(* Days pass, and the sweep runs on a daily timer; its emails time out.     *)
FairFreshSpec ==
    /\ FreshSpec
    /\ WF_freshVars(Day)
    /\ WF_freshVars(Sweeping)

-----------------------------------------------------------------------------
(***************************************************************************)
(* Properties                                                              *)
(***************************************************************************)

(* A profile is out of the search for a reason that is on record, and for   *)
(* as long as there is one: a no, or a silence (schema.js: "Both end with   *)
(* hidden_from_search = 1 and they are not the same event").               *)
HiddenForAReason == hidden <=> (said \/ autoHidden)

(* Nobody goes on waiting for a candidate who has said no: whoever asked,   *)
(* and through whichever door the answer came, has been told.              *)
NobodyWaitsOnANo ==
    said => \A r \in Recruiters : ~(checks[r].state = "pending" /\ checks[r].left > 0)

(* However often the sweep runs, a reminder that was sent and recorded is   *)
(* not sent again in the same silence ("three restarts in an afternoon      *)
(* must produce zero extra email").                                        *)
NotRemindedTwice == sweep.at \in {"due", "mailing"} => sweep.stage \notin told

(* Recruiters who ask one after the other produce one email: there are      *)
(* never two questions in front of the candidate.                          *)
AskedOnce ==
    \A l, m \in links : l.kind = "check" /\ m.kind = "check" => l = m

(* Silence takes the profile out of the search, whatever the mail server    *)
(* makes of the reminders.                                                 *)
SilenceHides == silent >= HideDays ~> hidden \/ silent < HideDays

(* A recruiter's question does not stay open for ever.                      *)
ChecksSettle ==
    \A r \in Recruiters : checks[r].state = "pending" ~> checks[r].state # "pending"

(* Hidden for a reason and asked once at a time, and nobody left waiting on a *)
(* no: the columns of a profile, its links and the questions agree, in       *)
(* whatever order answers, lapses and sweeps come.                          *)
FreshIsSound == FreshTypeOK /\ HiddenForAReason /\ NobodyWaitsOnANo /\ AskedOnce

(* Silence ends: the profile leaves the search and the questions settle,    *)
(* although any email may fail and a restart may cut any sweep.             *)
SilenceEnds == SilenceHides /\ ChecksSettle
==============================================================================
