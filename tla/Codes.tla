------------------------------- MODULE Codes -------------------------------
(***************************************************************************)
(* The six-digit codes of one candidate: the sign-up code of their address  *)
(* (verification.js), the proof it is exchanged for, the profile that is    *)
(* registered with the proof, and the sign-in code of that profile          *)
(* (accounts.js).  A code is the number of its row.                         *)
(***************************************************************************)
EXTENDS Naturals, FiniteSets, Sequences, FiniteSetsExt

CONSTANTS
    MaxCodes,      \* bound: codes of either kind
    MaxAttempts    \* MAX_CODE_ATTEMPTS

ASSUME CodesAssumption == MaxCodes \in Nat /\ MaxAttempts \in Nat \ {0}

(* Ages of a row or a proof: within its lifetime, past it, past retention. *)
Fresh == 0
Expired == 1
Old == 2

VARIABLES
    login,     \* login_codes of the candidate, in the order they were issued
    signup,    \* signup_codes of the address
    proof,     \* the youngest proof the browser holds: its age
    member,    \* a candidates row with the address exists
    opened,    \* the sign-in codes that started a session
    proved     \* the sign-up codes that were exchanged for a proof

codesVars == <<login, signup, proof, member, opened, proved>>

Row == [consumed : BOOLEAN, attempts : Nat, age : {Fresh, Expired, Old}, swept : BOOLEAN]
NewRow == [consumed |-> FALSE, attempts |-> 0, age |-> Fresh, swept |-> FALSE]

CodesTypeOK ==
    /\ login \in Seq(Row) /\ signup \in Seq(Row)
    /\ proof \in {Fresh, Expired, Old}
    /\ member \in BOOLEAN
    /\ opened \subseteq DOMAIN login
    /\ proved \subseteq DOMAIN signup
    /\ \A i \in opened : login[i].consumed
    /\ \A i \in proved : signup[i].consumed

CodesInit ==
    /\ login = <<>> /\ signup = <<>>
    /\ proof = Expired
    /\ member = FALSE
    /\ opened = {} /\ proved = {}

-----------------------------------------------------------------------------
(* The two tables are kept by the same statements. *)

(* Faulty variant: asking again leaves the earlier code alive. *)
RetiredKeepsEarlier(rows) == rows

(* UPDATE ... SET consumed_at WHERE consumed_at IS NULL. *)
Retired(rows) == [i \in DOMAIN rows |-> [rows[i] EXCEPT !.consumed = TRUE]]

(* The sweep takes rows that are past retention, used or not. *)
Swept(rows) == [i \in DOMAIN rows |-> [rows[i] EXCEPT !.swept = @ \/ rows[i].age = Old]]

Unconsumed(rows) == {i \in DOMAIN rows : ~rows[i].consumed /\ ~rows[i].swept}

(* A code that is worth something. *)
IsLive(rows, i) ==
    /\ i \in Unconsumed(rows)
    /\ rows[i].age = Fresh
    /\ rows[i].attempts < MaxAttempts

(* The row a redemption looks at: the newest that is not consumed. *)
Latest(rows) == Max(Unconsumed(rows))

(* Faulty variant: a code is refused only after one guess too many. *)
CanRedeemOneMore(rows) ==
    /\ Unconsumed(rows) # {}
    /\ rows[Latest(rows)].age = Fresh
    /\ rows[Latest(rows)].attempts <= MaxAttempts

CanRedeem(rows) == Unconsumed(rows) # {} /\ IsLive(rows, Latest(rows))

AfterGuess(rows, guess) ==
    IF guess = Latest(rows)
        THEN [rows EXCEPT ![Latest(rows)].consumed = TRUE]
        ELSE [rows EXCEPT ![Latest(rows)].attempts = @ + 1]

(* What a person can type: a code that was sent to them, or another one. *)
Guesses(rows) == {0} \union DOMAIN rows

-----------------------------------------------------------------------------
(* accounts.js: issueLoginCode, and the sweep of the route that calls it, which
   follows the await of the email and takes only rows nobody can use. *)
IssueLoginCode ==
    /\ member
    /\ Len(login) < MaxCodes
    /\ login' = Swept(Append(Retired(login), NewRow))
    /\ UNCHANGED <<signup, proof, member, opened, proved>>

(* redeemLoginCode; a right guess starts a session in the same handler. *)
RedeemLoginCode(guess) ==
    /\ member
    /\ CanRedeem(login)
    /\ login' = AfterGuess(login, guess)
    /\ opened' = IF guess = Latest(login) THEN opened \union {guess} ELSE opened
    /\ UNCHANGED <<signup, proof, member, proved>>

(* verification.js: issueVerificationCode, and its sweep. *)
IssueVerificationCode ==
    /\ Len(signup) < MaxCodes
    /\ signup' = Swept(Append(Retired(signup), NewRow))
    /\ UNCHANGED <<login, proof, member, opened, proved>>

(* redeemVerificationCode; a right guess is answered with a signed proof. *)
RedeemVerificationCode(guess) ==
    /\ CanRedeem(signup)
    /\ signup' = AfterGuess(signup, guess)
    /\ IF guess = Latest(signup)
           THEN proved' = proved \union {guess} /\ proof' = Fresh
           ELSE UNCHANGED <<proved, proof>>
    /\ UNCHANGED <<login, member, opened>>

(* The process dies between the two statements that issue a code: the earlier
   code is retired and there is no new one. *)
IssueCutOff ==
    /\ \/ member /\ login' = Retired(login) /\ UNCHANGED signup
       \/ signup' = Retired(signup) /\ UNCHANGED login
    /\ UNCHANGED <<proof, member, opened, proved>>

(* POST /api/candidates: the proof is signed and self-contained, so it is good
   for any number of uses; a second profile of one address is refused. *)
Register ==
    /\ proof = Fresh
    /\ ~member
    /\ member' = TRUE
    /\ UNCHANGED <<login, signup, proof, opened, proved>>

(* The account is deleted, and its codes with it. *)
DeleteMember ==
    /\ member
    /\ member' = FALSE
    /\ login' = [i \in DOMAIN login |-> [login[i] EXCEPT !.swept = TRUE]]
    /\ UNCHANGED <<signup, proof, opened, proved>>

Older(age) == IF age = Old THEN Old ELSE age + 1

(* Codes, and the proof, live for minutes; rows are kept for a day. *)
TimePasses ==
    /\ login' = [i \in DOMAIN login |-> [login[i] EXCEPT !.age = Older(@)]]
    /\ signup' = [i \in DOMAIN signup |-> [signup[i] EXCEPT !.age = Older(@)]]
    /\ proof' = Older(proof)
    /\ UNCHANGED <<member, opened, proved>>

CodesNext ==
    \/ IssueLoginCode \/ IssueVerificationCode \/ IssueCutOff
    \/ \E g \in Guesses(login) : RedeemLoginCode(g)
    \/ \E g \in Guesses(signup) : RedeemVerificationCode(g)
    \/ Register \/ DeleteMember \/ TimePasses

CodesSpec == CodesInit /\ [][CodesNext]_codesVars

-----------------------------------------------------------------------------
LiveCodes(rows) == {i \in DOMAIN rows : IsLive(rows, i)}

SignIn == INSTANCE OneTimeCode WITH
    Codes <- 1..MaxCodes, issued <- DOMAIN login, live <- LiveCodes(login), used <- opened

SignUp == INSTANCE OneTimeCode WITH
    Codes <- 1..MaxCodes, issued <- DOMAIN signup, live <- LiveCodes(signup), used <- proved

(* A sign-in code is worth something until the next one is asked for, for its
   lifetime and its guesses, and starts one session: issueLoginCode and
   redeemLoginCode implement a one-time code. *)
SignInIsOneTime == SignIn!CodeSpec

(* The same of the code that proves the address of a new profile. *)
SignUpIsOneTime == SignUp!CodeSpec

(* No code is compared with more than MAX_CODE_ATTEMPTS wrong guesses, however
   the guesses are spread over requests for another code. *)
GuessesAreBounded ==
    \A rows \in {login, signup} : \A i \in DOMAIN rows : rows[i].attempts <= MaxAttempts

(* Guesses stay bounded over every code that is asked for (issueLoginCode,
   redeemLoginCode and the codes of verification.js). *)
CodesAreSound == CodesTypeOK /\ GuessesAreBounded

(* Both kinds of code implement the one-time code. *)
CodesAreOneTime == SignInIsOneTime /\ SignUpIsOneTime
=============================================================================
