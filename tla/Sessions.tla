------------------------------ MODULE Sessions ------------------------------
(***************************************************************************)
(* Who is signed in where: the one live session of a recruiter account, and *)
(* the cookies of the browsers (accounts.js, auth.js and their routes).  A  *)
(* handler is one step, except that signing in awaits scrypt.               *)
(***************************************************************************)
EXTENDS Naturals, FiniteSets

CONSTANTS
    Recruiters,     \* the accounts
    Devices,        \* browsers
    Shared,         \* those of them a candidate signs in with as well
    Requests,       \* sign-ins that may be in flight at once
    MaxSessions,    \* bound: sign-ins
    None

Roles == {"candidate", "recruiter"}

ASSUME SessionsAssumption ==
    /\ Shared \subseteq Devices
    /\ MaxSessions \in Nat
    /\ None \notin Nat

VARIABLES
    alive,      \* recruiters with a row
    session,    \* recruiters.session_id
    minted,     \* session ids handed out so far
    jar,        \* the session cookies of a browser
    hint,       \* its readable cookie: the roles that are signed in
    torn,       \* history: browsers that signed in over something that happened meanwhile
    request     \* what each sign-in in flight goes on with

sessionVars == <<alive, session, minted, jar, hint, torn, request>>

Token == [rec : Recruiters, sid : Nat]
Idle == [kind |-> "idle"]

Pending == {Idle} \union [kind : {"login"}, dev : Devices, rec : Recruiters, sent : SUBSET Roles]

SessionTypeOK ==
    /\ alive \subseteq Recruiters
    /\ session \in [Recruiters -> Nat \union {None}]
    /\ \A r \in Recruiters \ alive : session[r] = None
    /\ minted \in Nat
    /\ jar \in [Devices -> [candidate : BOOLEAN, recruiter : Token \union {None}]]
    /\ hint \in [Devices -> SUBSET Roles]
    /\ torn \subseteq Devices
    /\ request \in [Requests -> Pending]

SessionInit ==
    /\ alive = Recruiters
    /\ session = [r \in Recruiters |-> None]
    /\ minted = 0
    /\ jar = [d \in Devices |-> [candidate |-> FALSE, recruiter |-> None]]
    /\ hint = [d \in Devices |-> {}]
    /\ torn = {}
    /\ request = [q \in Requests |-> Idle]

-----------------------------------------------------------------------------
(* rolesWithSessions: the roles whose cookies a request carries. *)
RolesOf(cookies) ==
    {r \in Roles : IF r = "candidate" THEN cookies.candidate ELSE cookies.recruiter # None}

(* recruiterSessionIsCurrent, of the token a browser holds. *)
IsCurrent(token) ==
    /\ token # None
    /\ token.rec \in alive
    /\ session[token.rec] = token.sid

(* recruiterOnly: the request of this browser is served as this account's. *)
ServedAs(d, r) == IsCurrent(jar[d].recruiter) /\ jar[d].recruiter.rec = r

(* setSessionCookie: the roles the request came with, and the new one. *)
HintAfter(sent, role) == sent \union {role}

(* POST /api/candidate/verify-code: a token without a session row. *)
SignInCandidate(d) ==
    /\ ~jar[d].candidate
    /\ jar' = [jar EXCEPT ![d].candidate = TRUE]
    /\ hint' = [hint EXCEPT ![d] = HintAfter(RolesOf(jar[d]), "candidate")]
    /\ UNCHANGED <<alive, minted, session, torn, request>>

(* POST /api/recruiter/login: authenticateRecruiter reads the row and awaits
   the comparison; only a right password gets any further. *)
RequestLogin(q, d, r) ==
    /\ request[q] = Idle
    /\ r \in alive
    /\ minted < MaxSessions
    /\ request' = [request EXCEPT ![q] =
           [kind |-> "login", dev |-> d, rec |-> r, sent |-> RolesOf(jar[d])]]
    /\ UNCHANGED <<alive, session, minted, jar, hint, torn>>

(* Faulty variant: the token names the account's first session, not its own. *)
SharedSid(r) == IF r \in alive /\ session[r] # None THEN session[r] ELSE minted + 1

(* newSessionId: every sign-in has its own. *)
NewSid(r) == minted + 1

(* claimRecruiterSession: the newest sign-in takes the account. *)
Claimed(r, sid) == IF r \in alive THEN [session EXCEPT ![r] = sid] ELSE session

(* startSession: the hint is made of the cookies the request came with. *)
FinishLogin(q) ==
    /\ request[q].kind = "login"
    /\ minted < MaxSessions
    /\ LET d == request[q].dev
           r == request[q].rec
           sid == NewSid(r)
       IN  /\ minted' = minted + 1
           /\ session' = Claimed(r, sid)
           /\ jar' = [jar EXCEPT ![d].recruiter = [rec |-> r, sid |-> sid]]
           /\ hint' = [hint EXCEPT ![d] = HintAfter(request[q].sent, "recruiter")]
           /\ torn' = IF RolesOf(jar[d]) \subseteq request[q].sent \union {"recruiter"}
                          THEN torn ELSE torn \union {d}
    /\ request' = [request EXCEPT ![q] = Idle]
    /\ UNCHANGED alive

(* releaseRecruiterSession: only the browser that holds the session ends it. *)
Released(token) == IF IsCurrent(token) THEN [session EXCEPT ![token.rec] = None] ELSE session

(* clearSessionCookies: the named roles end, the hint keeps the others. *)
Cleared(d, roles) ==
    /\ jar' = [jar EXCEPT ![d] =
           [candidate |-> @.candidate /\ "candidate" \notin roles,
            recruiter |-> IF "recruiter" \in roles THEN None ELSE @.recruiter]]
    /\ hint' = [hint EXCEPT ![d] = RolesOf(jar[d]) \ roles]

(* POST /api/auth/sign-out, for one role or for all. *)
SignOut(d, roles) ==
    /\ RolesOf(jar[d]) \intersect roles # {}
    /\ session' = IF "recruiter" \in roles THEN Released(jar[d].recruiter) ELSE session
    /\ Cleared(d, roles)
    /\ torn' = torn \ {d}
    /\ UNCHANGED <<alive, minted, request>>

(* requireRole: a browser whose account was opened elsewhere, or deleted, finds
   out on its next request and is signed out of that role. *)
RefuseSuperseded(d) ==
    /\ jar[d].recruiter # None
    /\ ~IsCurrent(jar[d].recruiter)
    /\ Cleared(d, {"recruiter"})
    /\ torn' = torn \ {d}
    /\ UNCHANGED <<alive, minted, session, request>>

(* The token's hours are over; the row still names its session. *)
TokenExpires(d) ==
    /\ jar[d].recruiter # None
    /\ jar' = [jar EXCEPT ![d].recruiter = None]
    /\ UNCHANGED <<alive, minted, session, hint, torn, request>>

(* deleteRecruiterCompletely, from the team page or with a reduction of the seats:
   the session goes with the row. *)
DeleteRecruiter(r) ==
    /\ r \in alive
    /\ alive' = alive \ {r}
    /\ session' = [session EXCEPT ![r] = None]
    /\ UNCHANGED <<minted, jar, hint, torn, request>>

(* The process dies: sign-ins in flight are lost, the table and the cookies are
   not. *)
SessionsRestart ==
    /\ \E q \in Requests : request[q] # Idle
    /\ request' = [q \in Requests |-> Idle]
    /\ UNCHANGED <<alive, minted, session, jar, hint, torn>>

SessionNext ==
    \/ \E d \in Devices :
        \/ SignInCandidate(d)
        \/ \E roles \in {{"candidate"}, {"recruiter"}, Roles} : SignOut(d, roles)
        \/ RefuseSuperseded(d)
        \/ TokenExpires(d)
    \/ \E q \in Requests :
        \/ \E d \in Devices, r \in Recruiters : RequestLogin(q, d, r)
        \/ FinishLogin(q)
    \/ \E r \in Recruiters : DeleteRecruiter(r)
    \/ SessionsRestart

SessionSpec == SessionInit /\ [][SessionNext]_sessionVars

-----------------------------------------------------------------------------
(* An account is open in one browser at a time, through sign-ins that overlap,
   sign-outs, expired tokens and deletions (claimRecruiterSession). *)
OneBrowserEach ==
    \A r \in Recruiters : \A d, e \in Devices : ServedAs(d, r) /\ ServedAs(e, r) => d = e

(* A browser that is signed in stays so until it signs out or its token ends, the
   account is opened by a later sign-in, or it is deleted: no sign-out of another
   browser reaches it (releaseRecruiterSession). *)
OthersDoNotSignMeOut ==
    [][\A d \in Devices : \A r \in alive :
         ServedAs(d, r) /\ ~ServedAs(d, r)' =>
             \/ jar'[d].recruiter # jar[d].recruiter
             \/ r \notin alive'
             \/ session'[r] = minted' /\ minted' > minted]_sessionVars

(* Every role a browser is signed in to is in the cookie its pages read, so that a
   refresh does not show a sign-in card to somebody who is signed in (writeHint);
   except after a sign-in that something else in the browser overtook. *)
SignedInIsHinted == \A d \in Devices \ torn : RolesOf(jar[d]) \subseteq hint[d]

(* One account, one browser that nobody else signs out, and a hint that is true,
   through overlapping sign-ins, late sign-outs and deletions (setRecruiterSession,
   writeHint). *)
SessionsAreSound ==
    [](SessionTypeOK /\ OneBrowserEach /\ SignedInIsHinted) /\ OthersDoNotSignMeOut
=============================================================================
