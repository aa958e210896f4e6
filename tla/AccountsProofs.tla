--------------------------- MODULE AccountsProofs ---------------------------
(***************************************************************************)
(* Theorems about accounts and what they draw: sessions, codes, passwords,   *)
(* the demo, the prepaid capacity and the contacts under which people are    *)
(* known share no variable; each part has an inductive invariant of its own.  *)
(***************************************************************************)
EXTENDS PublicDemo, Sessions, Codes, Passwords, TriageWallet, Contacts, DataLemmas

-----------------------------------------------------------------------------
(* Sessions.  A session id is handed out once, so that two browsers never    *)
(* hold the same, whatever accounts they hold it for.                       *)

Holds(d) == jar[d].recruiter # None

SidsAreMinted ==
    /\ \A r \in Recruiters : session[r] # None => session[r] <= minted
    /\ \A d \in Devices : Holds(d) => jar[d].recruiter.sid <= minted

OneHolderEach ==
    \A d, e \in Devices :
        Holds(d) /\ Holds(e) /\ jar[d].recruiter.sid = jar[e].recruiter.sid => d = e

SessionInv == SessionTypeOK /\ SidsAreMinted /\ OneHolderEach /\ SignedInIsHinted

(* Sessions start sound: nobody is signed in. *)
LEMMA SessionInvInit == SessionInit => SessionInv
  BY SessionsAssumption
  DEF SessionInit, SessionInv, SessionTypeOK, SidsAreMinted, OneHolderEach, SignedInIsHinted,
      Holds, RolesOf, Pending, Token, Roles

(* What a browser is signed in to is a set of roles. *)
LEMMA RolesOfType == \A cookies : RolesOf(cookies) \subseteq Roles
  BY DEF RolesOf

(* Every request keeps the session ids apart and the hints true. *)
LEMMA SessionInvStep == SessionInv /\ [SessionNext]_sessionVars => SessionInv'
<1> SUFFICES ASSUME SessionInv, [SessionNext]_sessionVars PROVE SessionInv'
  OBVIOUS
<1> USE SessionsAssumption, RolesOfType
<1>1. ASSUME NEW d \in Devices, SignInCandidate(d) PROVE SessionInv'
  <2> USE <1>1 DEF SignInCandidate, SessionInv, Holds
  <2>0. jar'[d] = [jar[d] EXCEPT !.candidate = TRUE] /\ \A e \in Devices \ {d} : jar'[e] = jar[e]
    BY DEF SessionTypeOK
  <2>1. SessionTypeOK'
    BY <2>0, ZenonT(60) DEF SessionTypeOK, HintAfter, Roles
  <2>2. SidsAreMinted'
    BY <2>0 DEF SidsAreMinted, SessionTypeOK
  <2>3. OneHolderEach'
    BY <2>0 DEF OneHolderEach, SessionTypeOK
  <2>4. SignedInIsHinted'
    BY <2>0 DEF SignedInIsHinted, SessionTypeOK, RolesOf, HintAfter
  <2> QED BY <2>1, <2>2, <2>3, <2>4
<1>2. ASSUME NEW d \in Devices, NEW roles \in SUBSET Roles, SignOut(d, roles) PROVE SessionInv'
  <2> USE <1>2 DEF SignOut, Cleared, SessionInv, Holds
  <2>1. /\ session' \in [Recruiters -> Nat \union {None}]
        /\ \A r \in Recruiters : session'[r] \in {session[r], None}
    BY DEF Released, SessionTypeOK
  <2>2. SessionTypeOK'
    BY <2>1 DEF SessionTypeOK, Roles
  <2>3. SidsAreMinted'
    BY <2>1 DEF SidsAreMinted, SessionTypeOK
  <2>4. OneHolderEach'
    BY DEF OneHolderEach, SessionTypeOK
  <2>5. RolesOf(jar'[d]) \subseteq RolesOf(jar[d]) \ roles
    <3>1. /\ jar'[d].candidate = (jar[d].candidate /\ "candidate" \notin roles)
          /\ jar'[d].recruiter = IF "recruiter" \in roles THEN None ELSE jar[d].recruiter
      BY DEF SessionTypeOK
    <3>2. ASSUME NEW r \in RolesOf(jar'[d]) PROVE r \in RolesOf(jar[d]) \ roles
      <4>1. r = "candidate" \/ r = "recruiter"
        BY <3>2 DEF RolesOf, Roles
      <4>2. CASE r = "candidate"
        BY <3>1, <3>2, <4>2 DEF RolesOf
      <4>3. CASE r = "recruiter"
        BY <3>1, <3>2, <4>3 DEF RolesOf
      <4> QED BY <4>1, <4>2, <4>3
    <3> QED BY <3>2
  <2>6. SignedInIsHinted'
    <3> SUFFICES ASSUME NEW e \in Devices \ torn' PROVE RolesOf(jar'[e]) \subseteq hint'[e]
      BY DEF SignedInIsHinted
    <3>1. CASE e = d
      BY <3>1, <2>5 DEF SessionTypeOK
    <3>2. CASE e # d
      BY <3>2 DEF SessionTypeOK, SignedInIsHinted
    <3> QED BY <3>1, <3>2
  <2> QED BY <2>2, <2>3, <2>4, <2>6
<1>3. ASSUME NEW d \in Devices, RefuseSuperseded(d) PROVE SessionInv'
  BY <1>3 DEF RefuseSuperseded, Cleared, SessionInv, SessionTypeOK, SidsAreMinted,
              OneHolderEach, SignedInIsHinted, Holds, RolesOf, Roles
<1>4. ASSUME NEW d \in Devices, TokenExpires(d) PROVE SessionInv'
  BY <1>4 DEF TokenExpires, SessionInv, SessionTypeOK, SidsAreMinted,
              OneHolderEach, SignedInIsHinted, Holds, RolesOf, Roles
<1>5. ASSUME NEW q \in Requests, NEW d \in Devices, NEW r \in Recruiters, RequestLogin(q, d, r)
      PROVE SessionInv'
  BY <1>5 DEF RequestLogin, SessionInv, SessionTypeOK, SidsAreMinted,
              OneHolderEach, SignedInIsHinted, Holds, RolesOf, Roles, Pending
<1>6. ASSUME NEW q \in Requests, FinishLogin(q) PROVE SessionInv'
  BY <1>6 DEF FinishLogin, NewSid, Claimed, HintAfter, SessionInv, SessionTypeOK, SidsAreMinted,
              OneHolderEach, SignedInIsHinted, Holds, RolesOf, Roles, Pending, Idle, Token
<1>7. ASSUME NEW r \in Recruiters, DeleteRecruiter(r) PROVE SessionInv'
  BY <1>7 DEF DeleteRecruiter, SessionInv, SessionTypeOK, SidsAreMinted,
              OneHolderEach, SignedInIsHinted, Holds, RolesOf
<1>8. CASE SessionsRestart
  BY <1>8 DEF SessionsRestart, SessionInv, SessionTypeOK, SidsAreMinted,
              OneHolderEach, SignedInIsHinted, Holds, RolesOf, Pending
<1>9. CASE UNCHANGED sessionVars
  BY <1>9 DEF sessionVars, SessionInv, SessionTypeOK, SidsAreMinted,
              OneHolderEach, SignedInIsHinted, Holds, RolesOf
<1> QED
  BY <1>1, <1>2, <1>3, <1>4, <1>5, <1>6, <1>7, <1>8, <1>9 DEF SessionNext, Roles

(* The strengthened invariant holds in every state. *)
LEMMA SessionInvariant == SessionSpec => []SessionInv
  BY SessionInvInit, SessionInvStep, PTL DEF SessionSpec

(* No two browsers hold a current token of one account. *)
LEMMA HoldersServeOne == SessionInv => OneBrowserEach
  BY DEF SessionInv, OneHolderEach, OneBrowserEach, ServedAs, IsCurrent, Holds

(* A step that ends the service of a browser is its own sign-out or expiry, the *)
(* deletion of the account or a later sign-in to it.                            *)
LEMMA SignedOutByThemselves ==
  SessionInv /\ [SessionNext]_sessionVars =>
    \A d \in Devices : \A r \in alive :
         ServedAs(d, r) /\ ~ServedAs(d, r)' =>
             \/ jar'[d].recruiter # jar[d].recruiter
             \/ r \notin alive'
             \/ session'[r] = minted' /\ minted' > minted
<1> SUFFICES ASSUME SessionInv, [SessionNext]_sessionVars, NEW d \in Devices, NEW r \in alive,
                    ServedAs(d, r), ~ServedAs(d, r)', jar'[d].recruiter = jar[d].recruiter,
                    r \in alive'
             PROVE  session'[r] = minted' /\ minted' > minted
  OBVIOUS
<1>0. r \in Recruiters /\ session[r] = jar[d].recruiter.sid /\ session'[r] # session[r]
  BY DEF ServedAs, IsCurrent, SessionInv, SessionTypeOK
<1>1. ASSUME NEW e \in Devices, NEW roles \in SUBSET Roles, SignOut(e, roles) PROVE FALSE
  <2>1. e = d
    <3>1. session' = [session EXCEPT ![jar[e].recruiter.rec] = None] /\ IsCurrent(jar[e].recruiter)
      BY <1>0, <1>1 DEF SignOut, Released
    <3>2. jar[e].recruiter.rec = r
      BY <1>0, <3>1 DEF SessionInv, SessionTypeOK
    <3> QED BY <3>1, <3>2, HoldersServeOne DEF OneBrowserEach, ServedAs, SessionInv, SessionTypeOK
  <2>2. jar'[d].recruiter = None
    BY <1>0, <1>1, <2>1 DEF SignOut, Cleared, SessionInv, SessionTypeOK
  <2> QED BY <2>2 DEF ServedAs, IsCurrent
<1>2. ASSUME NEW q \in Requests, FinishLogin(q) PROVE session'[r] = minted' /\ minted' > minted
  BY <1>0, <1>2 DEF FinishLogin, Claimed, NewSid, SessionInv, SessionTypeOK
<1>3. ASSUME NEW s \in Recruiters, DeleteRecruiter(s) PROVE FALSE
  BY <1>0, <1>3 DEF DeleteRecruiter, SessionInv, SessionTypeOK
<1> QED
  BY <1>0, <1>1, <1>2, <1>3
  DEF SessionNext, sessionVars, Roles, SignInCandidate, RefuseSuperseded, TokenExpires,
      RequestLogin, SessionsRestart

(* One account is open in one browser, no other browser signs it out, and the hint   *)
(* its pages read is true, however many sign-ins overlap (setRecruiterSession,        *)
(* releaseRecruiterSession, writeHint).                                               *)
THEOREM SessionsStaySound == SessionSpec => SessionsAreSound
<1>1. SessionInv => SessionTypeOK /\ OneBrowserEach /\ SignedInIsHinted
  BY HoldersServeOne DEF SessionInv
<1>2. SessionSpec => OthersDoNotSignMeOut
  BY SessionInvariant, SignedOutByThemselves, PTL DEF SessionSpec, OthersDoNotSignMeOut
<1> QED
  BY <1>1, <1>2, SessionInvariant, PTL DEF SessionsAreSound

-----------------------------------------------------------------------------
(* Codes.  Both tables are kept by the same statements, so what they keep is  *)
(* stated of a table: every row but the newest was consumed or retired, and    *)
(* guesses are counted while there are some left.                             *)

NewestOnly(rows) == \A i \in DOMAIN rows : ~rows[i].consumed => i = Len(rows)
WithinGuesses(rows) == \A i \in DOMAIN rows : rows[i].attempts <= MaxAttempts

TableInv(rows, spent) ==
    /\ rows \in Seq(Row) /\ Len(rows) <= MaxCodes
    /\ spent \subseteq DOMAIN rows
    /\ \A i \in spent : rows[i].consumed
    /\ NewestOnly(rows) /\ WithinGuesses(rows)

CodesInv ==
    /\ TableInv(login, opened) /\ TableInv(signup, proved)
    /\ proof \in {Fresh, Expired, Old} /\ member \in BOOLEAN

(* At most the newest code is worth anything. *)
LEMMA OneLiveCode ==
  ASSUME NEW rows, NEW spent, TableInv(rows, spent)
  PROVE  LiveCodes(rows) \subseteq {Len(rows)}
  BY DEF TableInv, NewestOnly, LiveCodes, IsLive, Unconsumed

(* A new code: the earlier ones are retired, and it alone is worth something. *)
LEMMA IssueKeepsTable ==
  ASSUME NEW rows, NEW spent, TableInv(rows, spent), Len(rows) < MaxCodes, CodesAssumption
  PROVE  LET issued == Swept(Append(Retired(rows), NewRow))
         IN  /\ TableInv(issued, spent)
             /\ DOMAIN issued = DOMAIN rows \union {Len(rows) + 1}
             /\ LiveCodes(issued) = {Len(rows) + 1}
<1> DEFINE retired == Retired(rows)
           longer == Append(retired, NewRow)
           issued == Swept(longer)
<1>1. /\ retired \in Seq(Row) /\ Len(retired) = Len(rows)
      /\ \A i \in DOMAIN rows : retired[i] = [rows[i] EXCEPT !.consumed = TRUE]
  <2> DEFINE n == Len(rows)
  <2>1. n \in Nat /\ DOMAIN rows = 1..n /\ \A i \in 1..n : rows[i] \in Row
    BY DEF TableInv
  <2>2. retired = [i \in 1..n |-> [rows[i] EXCEPT !.consumed = TRUE]]
    BY <2>1 DEF Retired
  <2>3. retired \in [1..n -> Row]
    <3> SUFFICES ASSUME NEW i \in 1..n PROVE [rows[i] EXCEPT !.consumed = TRUE] \in Row
      BY <2>2
    <3> QED BY <2>1 DEF Row
  <2> HIDE DEF n, retired
  <2> QED BY <2>1, <2>2, <2>3, FunctionIsSeq DEF n
<1>2. NewRow \in Row
  BY DEF NewRow, Row
<1>3. /\ longer \in Seq(Row) /\ Len(longer) = Len(rows) + 1
      /\ \A i \in 1..Len(rows) : longer[i] = [rows[i] EXCEPT !.consumed = TRUE]
      /\ longer[Len(rows) + 1] = NewRow
  BY <1>1, <1>2 DEF TableInv
<1>4. /\ issued \in Seq(Row) /\ Len(issued) = Len(rows) + 1
      /\ \A i \in 1..Len(rows) + 1 :
            issued[i] = [longer[i] EXCEPT !.swept = longer[i].swept \/ longer[i].age = Old]
  <2> DEFINE n == Len(rows) + 1
             swept(i) == [longer[i] EXCEPT !.swept = longer[i].swept \/ longer[i].age = Old]
  <2> HIDE DEF longer
  <2>1. n \in Nat /\ DOMAIN longer = 1..n /\ \A i \in 1..n : longer[i] \in Row
    BY <1>3 DEF TableInv
  <2>2. issued = [i \in 1..n |-> swept(i)]
    BY <2>1 DEF Swept
  <2>3. issued \in [1..n -> Row]
    <3> SUFFICES ASSUME NEW i \in 1..n PROVE swept(i) \in Row
      BY <2>2
    <3> QED BY <2>1 DEF Row
  <2>4. \A i \in 1..n : issued[i] = swept(i)
    BY <2>2
  <2> HIDE DEF n, issued, swept
  <2>5. issued \in Seq(Row) /\ Len(issued) = n
    BY <2>1, <2>3, FunctionIsSeq
  <2> QED BY <2>4, <2>5 DEF n, swept
<1> HIDE DEF issued, longer, retired
<1>5. \A i \in 1..Len(rows) : issued[i].consumed /\ issued[i].attempts = rows[i].attempts
  <2> SUFFICES ASSUME NEW i \in 1..Len(rows)
               PROVE  issued[i].consumed /\ issued[i].attempts = rows[i].attempts
    OBVIOUS
  <2>1. rows[i] \in Row /\ longer[i] \in Row /\ i \in 1..Len(rows) + 1
    BY <1>3 DEF TableInv
  <2>2. longer[i].consumed = TRUE /\ longer[i].attempts = rows[i].attempts
    BY <1>3, <2>1 DEF Row
  <2>3. issued[i].consumed = longer[i].consumed /\ issued[i].attempts = longer[i].attempts
    BY <1>4, <2>1 DEF Row
  <2> QED BY <2>2, <2>3
<1>6. /\ issued[Len(rows) + 1].consumed = FALSE /\ issued[Len(rows) + 1].attempts = 0
      /\ issued[Len(rows) + 1].age = Fresh /\ issued[Len(rows) + 1].swept = FALSE
  <2>1. Len(rows) + 1 \in 1..Len(rows) + 1
    BY DEF TableInv
  <2>2. issued[Len(rows) + 1] = [NewRow EXCEPT !.swept = NewRow.swept \/ NewRow.age = Old]
    BY <1>3, <1>4, <2>1
  <2>3. /\ NewRow.consumed = FALSE /\ NewRow.attempts = 0 /\ NewRow.age = Fresh
        /\ NewRow.swept = FALSE /\ Fresh # Old
    BY DEF NewRow, Fresh, Old
  <2>4. [NewRow EXCEPT !.swept = NewRow.swept \/ NewRow.age = Old] = NewRow
    BY <2>3 DEF NewRow
  <2> QED BY <2>2, <2>3, <2>4
<1>7. DOMAIN issued = 1..Len(rows) + 1 /\ DOMAIN rows = 1..Len(rows) /\ Len(rows) \in Nat
  BY <1>4 DEF TableInv
<1>8. TableInv(issued, spent)
  BY <1>4, <1>5, <1>6, <1>7, CodesAssumption DEF TableInv, NewestOnly, WithinGuesses
<1>9. LiveCodes(issued) = {Len(rows) + 1}
  BY <1>5, <1>6, <1>7, CodesAssumption DEF LiveCodes, IsLive, Unconsumed
<1> QED BY <1>7, <1>8, <1>9 DEF issued, longer, retired

(* One row changes a field. *)
LEMMA ReplaceRow ==
  ASSUME NEW rows \in Seq(Row), NEW last \in DOMAIN rows
  PROVE  /\ LET redeemed == [rows EXCEPT ![last].consumed = TRUE] IN
             /\ redeemed \in Seq(Row) /\ Len(redeemed) = Len(rows) /\ DOMAIN redeemed = DOMAIN rows
             /\ \A i \in DOMAIN rows :
                   redeemed[i] = IF i = last THEN [rows[i] EXCEPT !.consumed = TRUE] ELSE rows[i]
         /\ LET missed == [rows EXCEPT ![last].attempts = rows[last].attempts + 1] IN
             /\ missed \in Seq(Row) /\ Len(missed) = Len(rows) /\ DOMAIN missed = DOMAIN rows
             /\ \A i \in DOMAIN rows :
                   missed[i] = IF i = last THEN [rows[i] EXCEPT !.attempts = rows[last].attempts + 1]
                               ELSE rows[i]
<1>1. rows[last] \in Row
  OBVIOUS
<1>2. [rows[last] EXCEPT !.consumed = TRUE] \in Row
  BY <1>1 DEF Row
<1>3. [rows[last] EXCEPT !.attempts = rows[last].attempts + 1] \in Row
  BY <1>1 DEF Row
<1> DEFINE redeemed == [rows[last] EXCEPT !.consumed = TRUE]
           missed == [rows[last] EXCEPT !.attempts = rows[last].attempts + 1]
<1>4. /\ [rows EXCEPT ![last].consumed = TRUE] = [rows EXCEPT ![last] = redeemed]
      /\ [rows EXCEPT ![last].attempts = rows[last].attempts + 1] = [rows EXCEPT ![last] = missed]
  OBVIOUS
<1>5. last \in 1..Len(rows) /\ DOMAIN rows = 1..Len(rows) /\ Len(rows) \in Nat
  OBVIOUS
<1>6. ASSUME NEW one \in Row
      PROVE  LET new == [rows EXCEPT ![last] = one]
             IN  /\ new \in Seq(Row) /\ Len(new) = Len(rows) /\ DOMAIN new = DOMAIN rows
                 /\ \A i \in DOMAIN rows : new[i] = IF i = last THEN one ELSE rows[i]
  BY <1>5
<1> HIDE DEF redeemed, missed
<1>7. LET new == [rows EXCEPT ![last] = redeemed]
      IN  /\ new \in Seq(Row) /\ Len(new) = Len(rows) /\ DOMAIN new = DOMAIN rows
          /\ \A i \in DOMAIN rows : new[i] = IF i = last THEN redeemed ELSE rows[i]
  BY <1>2, <1>6 DEF redeemed
<1>8. LET new == [rows EXCEPT ![last] = missed]
      IN  /\ new \in Seq(Row) /\ Len(new) = Len(rows) /\ DOMAIN new = DOMAIN rows
          /\ \A i \in DOMAIN rows : new[i] = IF i = last THEN missed ELSE rows[i]
  BY <1>3, <1>6 DEF missed
<1> QED
  BY <1>4, <1>7, <1>8 DEF redeemed, missed

(* A guess: it is right and the code is spent, or it is counted. *)
LEMMA GuessKeepsTable ==
  ASSUME NEW rows, NEW spent, TableInv(rows, spent), CanRedeem(rows), NEW guess, CodesAssumption
  PROVE  LET guessed == AfterGuess(rows, guess)
             opens == IF guess = Latest(rows) THEN spent \union {guess} ELSE spent
         IN  /\ TableInv(guessed, opens)
             /\ DOMAIN guessed = DOMAIN rows
             /\ LiveCodes(rows) = {Latest(rows)}
             /\ guess = Latest(rows) => LiveCodes(guessed) = {}
             /\ LiveCodes(guessed) \subseteq LiveCodes(rows)
<1> DEFINE guessed == AfterGuess(rows, guess)
           last == Latest(rows)
<1>1. /\ last \in DOMAIN rows /\ last = Len(rows) /\ ~rows[last].consumed
      /\ rows[last].attempts < MaxAttempts /\ last \in LiveCodes(rows)
  BY DEF CanRedeem, IsLive, Unconsumed, TableInv, NewestOnly, LiveCodes
<1>2. LiveCodes(rows) = {last}
  BY <1>1, OneLiveCode
<1>5. rows \in Seq(Row) /\ \A i \in DOMAIN rows : rows[i] \in Row
  BY DEF TableInv
<1> HIDE DEF last
<1>3. CASE guess = last
  <2>1. guessed = [rows EXCEPT ![last].consumed = TRUE]
    BY <1>3 DEF AfterGuess, last
  <2> HIDE DEF guessed
  <2>2. /\ guessed \in Seq(Row) /\ Len(guessed) = Len(rows) /\ DOMAIN guessed = DOMAIN rows
        /\ \A i \in DOMAIN rows :
              guessed[i] = IF i = last THEN [rows[i] EXCEPT !.consumed = TRUE] ELSE rows[i]
    BY <1>1, <1>5, <2>1, ReplaceRow, ZenonT(60)
  <2>4. \A i \in DOMAIN rows : /\ guessed[i].consumed = (rows[i].consumed \/ i = last)
                               /\ guessed[i].attempts = rows[i].attempts
    BY <1>5, <2>2 DEF Row
  <2>5. TableInv(guessed, spent \union {guess})
    BY <1>1, <1>3, <2>2, <2>4 DEF TableInv, NewestOnly, WithinGuesses
  <2>3. LiveCodes(guessed) = {}
    BY <1>1, <2>2, <2>4 DEF TableInv, NewestOnly, LiveCodes, IsLive, Unconsumed
  <2> QED BY <1>2, <1>3, <2>2, <2>3, <2>5 DEF guessed, last
<1>4. CASE guess # last
  <2>1. guessed = [rows EXCEPT ![last].attempts = rows[last].attempts + 1]
    BY <1>4 DEF AfterGuess, last
  <2> HIDE DEF guessed
  <2>2. /\ guessed \in Seq(Row) /\ Len(guessed) = Len(rows) /\ DOMAIN guessed = DOMAIN rows
        /\ \A i \in DOMAIN rows :
              guessed[i] = IF i = last THEN [rows[i] EXCEPT !.attempts = rows[last].attempts + 1]
                           ELSE rows[i]
    BY <1>1, <1>5, <2>1, ReplaceRow
  <2>3. \A i \in DOMAIN rows :
          /\ guessed[i].consumed = rows[i].consumed
          /\ guessed[i].attempts = IF i = last THEN rows[i].attempts + 1 ELSE rows[i].attempts
    BY <1>5, <2>2 DEF Row
  <2>6. WithinGuesses(guessed)
    <3> SUFFICES ASSUME NEW i \in DOMAIN rows PROVE guessed[i].attempts <= MaxAttempts
      BY <2>2 DEF WithinGuesses
    <3>1. rows[i].attempts \in Nat /\ rows[i].attempts <= MaxAttempts /\ MaxAttempts \in Nat
      BY <1>5, CodesAssumption DEF Row, TableInv, WithinGuesses
    <3> QED BY <1>1, <2>3, <3>1
  <2>4. TableInv(guessed, spent)
    BY <2>2, <2>3, <2>6 DEF TableInv, NewestOnly
  <2>5. LiveCodes(guessed) \subseteq {last}
    BY <1>1, <2>2, <2>4, OneLiveCode
  <2> QED BY <1>2, <1>4, <2>2, <2>4, <2>5 DEF guessed, last
<1> QED BY <1>3, <1>4

(* Rows that grow older, are retired or are swept stay a table, and no code is *)
(* worth anything that was not before.                                        *)
LEMMA RelabelKeepsTable ==
  ASSUME NEW rows, NEW spent, TableInv(rows, spent), NEW new \in [DOMAIN rows -> Row],
         \A i \in DOMAIN rows : /\ rows[i].consumed => new[i].consumed
                                /\ new[i].attempts = rows[i].attempts
  PROVE  TableInv(new, spent) /\ DOMAIN new = DOMAIN rows
<1>1. Len(rows) \in Nat /\ DOMAIN rows = 1..Len(rows)
  BY DEF TableInv
<1>2. new \in Seq(Row) /\ Len(new) = Len(rows)
  BY <1>1, FunctionIsSeq
<1> QED
  BY <1>1, <1>2 DEF TableInv, NewestOnly, WithinGuesses

RetiredRows(rows) ==
    /\ Retired(rows) \in [DOMAIN rows -> Row]
    /\ \A i \in DOMAIN rows : /\ rows[i].consumed => Retired(rows)[i].consumed
                              /\ Retired(rows)[i].attempts = rows[i].attempts
    /\ \A i \in DOMAIN rows : Retired(rows)[i].consumed

LEMMA RetiredType ==
  ASSUME NEW rows \in Seq(Row)
  PROVE  RetiredRows(rows)
<1>1. ASSUME NEW i \in DOMAIN rows
      PROVE  /\ [rows[i] EXCEPT !.consumed = TRUE] \in Row
             /\ [rows[i] EXCEPT !.consumed = TRUE].consumed
             /\ [rows[i] EXCEPT !.consumed = TRUE].attempts = rows[i].attempts
  <2>1. rows[i] \in Row
    OBVIOUS
  <2> QED BY <2>1 DEF Row
<1> QED
  BY <1>1 DEF RetiredRows, Retired

(* The rows of a deleted member. *)
LEMMA SweptAway ==
  ASSUME NEW rows, NEW spent, TableInv(rows, spent)
  PROVE  LET new == [i \in DOMAIN rows |-> [rows[i] EXCEPT !.swept = TRUE]]
         IN  TableInv(new, spent) /\ DOMAIN new = DOMAIN rows /\ LiveCodes(new) = {}
<1> DEFINE new == [i \in DOMAIN rows |-> [rows[i] EXCEPT !.swept = TRUE]]
<1>1. ASSUME NEW i \in DOMAIN rows
      PROVE  /\ new[i] \in Row /\ new[i].swept /\ new[i].consumed = rows[i].consumed
             /\ new[i].attempts = rows[i].attempts
  <2>1. rows[i] \in Row
    BY DEF TableInv
  <2> QED BY <2>1 DEF Row
<1>2. new \in [DOMAIN rows -> Row]
  BY <1>1
<1> HIDE DEF new
<1>3. TableInv(new, spent) /\ DOMAIN new = DOMAIN rows
  BY <1>1, <1>2, RelabelKeepsTable
<1>4. LiveCodes(new) = {}
  BY <1>1, <1>3 DEF LiveCodes, IsLive, Unconsumed
<1> QED
  BY <1>3, <1>4 DEF new

(* Time ends the life of every code. *)
LEMMA AgedTable ==
  ASSUME NEW rows, NEW spent, TableInv(rows, spent)
  PROVE  LET new == [i \in DOMAIN rows |-> [rows[i] EXCEPT !.age = Older(rows[i].age)]]
         IN  TableInv(new, spent) /\ DOMAIN new = DOMAIN rows /\ LiveCodes(new) = {}
<1> DEFINE new == [i \in DOMAIN rows |-> [rows[i] EXCEPT !.age = Older(rows[i].age)]]
<1>1. ASSUME NEW i \in DOMAIN rows
      PROVE  /\ new[i] \in Row /\ new[i].age # Fresh /\ new[i].consumed = rows[i].consumed
             /\ new[i].attempts = rows[i].attempts
  <2>1. rows[i] \in Row
    BY DEF TableInv
  <2>2. rows[i].age \in {Fresh, Expired, Old}
    BY <2>1 DEF Row
  <2>3. Older(rows[i].age) \in {Expired, Old}
    BY <2>2 DEF Older, Fresh, Expired, Old
  <2>4. new[i] = [rows[i] EXCEPT !.age = Older(rows[i].age)]
    OBVIOUS
  <2> HIDE DEF new
  <2>5. /\ new[i].age = Older(rows[i].age) /\ new[i].consumed = rows[i].consumed
        /\ new[i].attempts = rows[i].attempts /\ new[i] \in Row
    BY <2>1, <2>3, <2>4 DEF Row
  <2> QED BY <2>3, <2>5 DEF Fresh, Expired, Old
<1>2. new \in [DOMAIN rows -> Row]
  BY <1>1
<1> HIDE DEF new
<1>3. TableInv(new, spent) /\ DOMAIN new = DOMAIN rows
  BY <1>1, <1>2, RelabelKeepsTable
<1>4. LiveCodes(new) = {}
  BY <1>1, <1>3 DEF LiveCodes, IsLive, Unconsumed
<1> QED
  BY <1>3, <1>4 DEF new

LEMMA EmptyTable == CodesAssumption => TableInv(<<>>, {}) /\ LiveCodes(<<>>) = {} /\ DOMAIN <<>> = {}
  BY DEF CodesAssumption, TableInv, NewestOnly, WithinGuesses, LiveCodes

(* The codes start empty. *)
LEMMA CodesInvInit == CodesInit => CodesInv
  BY EmptyTable, CodesAssumption DEF CodesInit, CodesInv

(* Every statement on the two tables keeps them. *)
LEMMA CodesInvStep == CodesInv /\ [CodesNext]_codesVars => CodesInv'
<1> SUFFICES ASSUME CodesInv, [CodesNext]_codesVars PROVE CodesInv'
  OBVIOUS
<1>0. login \in Seq(Row) /\ signup \in Seq(Row)
  BY DEF CodesInv, TableInv
<1>1. CASE IssueLoginCode
  BY <1>1, IssueKeepsTable, CodesAssumption DEF IssueLoginCode, CodesInv
<1>2. CASE IssueVerificationCode
  BY <1>2, IssueKeepsTable, CodesAssumption DEF IssueVerificationCode, CodesInv
<1>3. CASE IssueCutOff
  <2>1. TableInv(Retired(login), opened) /\ TableInv(Retired(signup), proved)
    BY <1>0, RetiredType, RelabelKeepsTable DEF CodesInv, RetiredRows
  <2> QED BY <1>3, <2>1 DEF IssueCutOff, CodesInv
<1>4. ASSUME NEW g, RedeemLoginCode(g) PROVE CodesInv'
  BY <1>4, GuessKeepsTable, CodesAssumption DEF RedeemLoginCode, CodesInv
<1>5. ASSUME NEW g, RedeemVerificationCode(g) PROVE CodesInv'
  <2>0. TableInv(AfterGuess(signup, g), IF g = Latest(signup) THEN proved \union {g} ELSE proved)
    BY <1>5, GuessKeepsTable, CodesAssumption DEF RedeemVerificationCode, CodesInv
  <2>1. TableInv(signup', proved')
    BY <1>5, <2>0 DEF RedeemVerificationCode
  <2>2. proof' \in {Fresh, Expired, Old} /\ UNCHANGED <<login, opened>>
    BY <1>5 DEF RedeemVerificationCode, CodesInv
  <2> QED BY <1>5, <2>1, <2>2 DEF RedeemVerificationCode, CodesInv
<1>6. CASE Register
  BY <1>6 DEF Register, CodesInv
<1>7. CASE DeleteMember
  BY <1>7, SweptAway DEF DeleteMember, CodesInv
<1>8. CASE TimePasses
  <2>1. proof' \in {Fresh, Expired, Old}
    BY <1>8 DEF TimePasses, CodesInv, Older, Fresh, Expired, Old
  <2> QED BY <1>8, <2>1, AgedTable DEF TimePasses, CodesInv
<1>9. CASE UNCHANGED codesVars
  BY <1>9 DEF codesVars, CodesInv
<1> QED
  BY <1>1, <1>2, <1>3, <1>4, <1>5, <1>6, <1>7, <1>8, <1>9 DEF CodesNext

LEMMA CodesInvariant == CodesSpec => []CodesInv
  BY CodesInvInit, CodesInvStep, PTL DEF CodesSpec

(* No code is compared with more than MAX_CODE_ATTEMPTS wrong guesses, however they   *)
(* are spread over requests for another code (redeemLoginCode, redeemVerificationCode). *)
THEOREM CodesStaySound == CodesSpec => []CodesAreSound
<1>1. CodesInv => CodesAreSound
  BY DEF CodesInv, TableInv, WithinGuesses, CodesAreSound, CodesTypeOK, GuessesAreBounded
<1> QED
  BY <1>1, CodesInvariant, PTL

-----------------------------------------------------------------------------
(* The refinement: a step on a table is a step of the one-time code.         *)

(* A sign-in code behaves as a one-time code in every step. *)
LEMMA LoginStepsAreSteps ==
  CodesInv /\ [CodesNext]_codesVars => [SignIn!CodeNext]_(SignIn!codeVars)
<1> SUFFICES ASSUME CodesInv, [CodesNext]_codesVars
             PROVE  SignIn!CodeNext \/ UNCHANGED SignIn!codeVars
  OBVIOUS
<1> USE DEF SignIn!CodeNext, SignIn!codeVars
<1>0. /\ TableInv(login, opened) /\ login \in Seq(Row) /\ Len(login) <= MaxCodes
      /\ DOMAIN login = 1..Len(login) /\ Len(login) \in Nat
  BY DEF CodesInv, TableInv
<1>1. CASE IssueLoginCode
  <2>1. /\ DOMAIN login' = DOMAIN login \union {Len(login) + 1}
        /\ LiveCodes(login') = {Len(login) + 1} /\ opened' = opened
    BY <1>0, <1>1, IssueKeepsTable, CodesAssumption DEF IssueLoginCode
  <2>2. Len(login) + 1 \in 1..MaxCodes \ DOMAIN login
    BY <1>0, <1>1, CodesAssumption DEF IssueLoginCode
  <2> QED BY <2>1, <2>2 DEF SignIn!Issue
<1>2. ASSUME NEW g, RedeemLoginCode(g) PROVE SignIn!CodeNext \/ UNCHANGED SignIn!codeVars
  <2>1. /\ DOMAIN login' = DOMAIN login /\ LiveCodes(login) = {Latest(login)}
        /\ g = Latest(login) => LiveCodes(login') = {}
        /\ LiveCodes(login') \subseteq LiveCodes(login)
    BY <1>0, <1>2, GuessKeepsTable, CodesAssumption DEF RedeemLoginCode
  <2>2. opened' = IF g = Latest(login) THEN opened \union {g} ELSE opened
    BY <1>2 DEF RedeemLoginCode
  <2>3. CASE g = Latest(login)
    BY <2>1, <2>2, <2>3 DEF SignIn!Use
  <2>4. CASE g # Latest(login)
    BY <2>1, <2>2, <2>4 DEF SignIn!Lapse
  <2> QED BY <2>3, <2>4
<1>3. CASE IssueCutOff
  <2>1. CASE login' = Retired(login)
    <3>1. DOMAIN Retired(login) = DOMAIN login /\ LiveCodes(Retired(login)) = {}
      BY <1>0, RetiredType DEF RetiredRows, LiveCodes, IsLive, Unconsumed
    <3> QED BY <1>3, <2>1, <3>1 DEF IssueCutOff, SignIn!Lapse
  <2>2. CASE UNCHANGED login
    BY <1>3, <2>2 DEF IssueCutOff
  <2> QED BY <1>3, <2>1, <2>2 DEF IssueCutOff
<1>4. CASE DeleteMember
  BY <1>0, <1>4, SweptAway DEF DeleteMember, SignIn!Lapse
<1>5. CASE TimePasses
  BY <1>0, <1>5, AgedTable DEF TimePasses, SignIn!Lapse
<1> QED
  BY <1>1, <1>2, <1>3, <1>4, <1>5
  DEF CodesNext, codesVars, IssueVerificationCode, RedeemVerificationCode, Register

(* And so does a sign-up code. *)
LEMMA SignupStepsAreSteps ==
  CodesInv /\ [CodesNext]_codesVars => [SignUp!CodeNext]_(SignUp!codeVars)
<1> SUFFICES ASSUME CodesInv, [CodesNext]_codesVars
             PROVE  SignUp!CodeNext \/ UNCHANGED SignUp!codeVars
  OBVIOUS
<1> USE DEF SignUp!CodeNext, SignUp!codeVars
<1>0. /\ TableInv(signup, proved) /\ signup \in Seq(Row) /\ Len(signup) <= MaxCodes
      /\ DOMAIN signup = 1..Len(signup) /\ Len(signup) \in Nat
  BY DEF CodesInv, TableInv
<1>1. CASE IssueVerificationCode
  <2>1. /\ DOMAIN signup' = DOMAIN signup \union {Len(signup) + 1}
        /\ LiveCodes(signup') = {Len(signup) + 1} /\ proved' = proved
    BY <1>0, <1>1, IssueKeepsTable, CodesAssumption DEF IssueVerificationCode
  <2>2. Len(signup) + 1 \in 1..MaxCodes \ DOMAIN signup
    BY <1>0, <1>1, CodesAssumption DEF IssueVerificationCode
  <2> QED BY <2>1, <2>2 DEF SignUp!Issue
<1>2. ASSUME NEW g, RedeemVerificationCode(g) PROVE SignUp!CodeNext \/ UNCHANGED SignUp!codeVars
  <2>1. /\ DOMAIN signup' = DOMAIN signup /\ LiveCodes(signup) = {Latest(signup)}
        /\ g = Latest(signup) => LiveCodes(signup') = {}
        /\ LiveCodes(signup') \subseteq LiveCodes(signup)
    BY <1>0, <1>2, GuessKeepsTable, CodesAssumption DEF RedeemVerificationCode
  <2>2. proved' = IF g = Latest(signup) THEN proved \union {g} ELSE proved
    BY <1>2 DEF RedeemVerificationCode
  <2>3. CASE g = Latest(signup)
    BY <2>1, <2>2, <2>3 DEF SignUp!Use
  <2>4. CASE g # Latest(signup)
    BY <2>1, <2>2, <2>4 DEF SignUp!Lapse
  <2> QED BY <2>3, <2>4
<1>3. CASE IssueCutOff
  <2>1. CASE signup' = Retired(signup)
    <3>1. DOMAIN Retired(signup) = DOMAIN signup /\ LiveCodes(Retired(signup)) = {}
      BY <1>0, RetiredType DEF RetiredRows, LiveCodes, IsLive, Unconsumed
    <3> QED BY <1>3, <2>1, <3>1 DEF IssueCutOff, SignUp!Lapse
  <2>2. CASE UNCHANGED signup
    BY <1>3, <2>2 DEF IssueCutOff
  <2> QED BY <1>3, <2>1, <2>2 DEF IssueCutOff
<1>4. CASE TimePasses
  BY <1>0, <1>4, AgedTable DEF TimePasses, SignUp!Lapse
<1> QED
  BY <1>1, <1>2, <1>3, <1>4
  DEF CodesNext, codesVars, IssueLoginCode, RedeemLoginCode, Register, DeleteMember

(* Both kinds of code implement a one-time code: at most one is worth anything, it is   *)
(* the last one asked for, and it opens the door once, through guesses, expiry, sweeps  *)
(* and requests that break off (issueLoginCode, redeemLoginCode, verification.js).       *)
THEOREM CodesImplementOneTime == CodesSpec => CodesAreOneTime
<1>1. CodesInit => SignIn!CodeInit /\ SignUp!CodeInit
  BY EmptyTable, CodesAssumption DEF CodesInit, SignIn!CodeInit, SignUp!CodeInit
<1>2. CodesSpec => SignInIsOneTime
  BY <1>1, LoginStepsAreSteps, CodesInvariant, PTL DEF CodesSpec, SignInIsOneTime, SignIn!CodeSpec
<1>3. CodesSpec => SignUpIsOneTime
  BY <1>1, SignupStepsAreSteps, CodesInvariant, PTL DEF CodesSpec, SignUpIsOneTime, SignUp!CodeSpec
<1> QED
  BY <1>2, <1>3, PTL DEF CodesAreOneTime

-----------------------------------------------------------------------------
(* Passwords.  A link is spent before the hash of the new password is awaited, *)
(* so the request in flight holds a link nobody else can take any more.        *)

RedeemersHoldUsedLinks ==
    \A q \in Handlers : handler[q].kind = "redeem" =>
        /\ handler[q].link \in DOMAIN links
        /\ links[handler[q].link] = "used"
        /\ applied[handler[q].link] = 0

OneRedeemerEach ==
    \A q, p \in Handlers :
        handler[q].kind = "redeem" /\ handler[p].kind = "redeem"
            /\ handler[q].link = handler[p].link => q = p

AppliedWereUsed ==
    \A l \in 1..MaxLinks : applied[l] # 0 =>
        applied[l] = 1 /\ l \in DOMAIN links /\ links[l] = "used"

LinksAreSpentOnce ==
    /\ Len(links) <= MaxLinks
    /\ RedeemersHoldUsedLinks /\ OneRedeemerEach /\ AppliedWereUsed

PasswordInv == PasswordTypeOK /\ IsFiniteSet(Alive) /\ NamesTellApart /\ LinksAreSpentOnce

(* Among one number more than there are accounts, one is nobody's (deriveUsername). *)
LEMMA DerivedNameIsFree ==
  ASSUME PasswordTypeOK, IsFiniteSet(Alive)
  PROVE  DerivedName \in Nat /\ NameIsFree(DerivedName)
<1>1. /\ IsFiniteSet(Names) /\ Cardinality(Names) <= Cardinality(Alive)
      /\ Cardinality(Alive) \in Nat /\ Cardinality(Names) \in Nat
  <2> DEFINE img == {name[r] : r \in Alive}
  <2>0. name \in [Alive -> Nat]
    BY DEF PasswordTypeOK
  <2>1. name \in Surjection(Alive, img)
    BY <2>0 DEF Surjection
  <2>2. IsFiniteSet(img) /\ Cardinality(img) <= Cardinality(Alive)
    BY <2>1, FS_Surjection
  <2> QED BY <2>2, FS_CardinalityType DEF Names
<1>2. IsFiniteSet(0..Cardinality(Alive)) /\ Cardinality(0..Cardinality(Alive)) = Cardinality(Alive) + 1
  BY <1>1, FS_Interval
<1>3. (0..Cardinality(Alive)) \ Names # {}
  <2> SUFFICES ASSUME 0..Cardinality(Alive) \subseteq Names PROVE FALSE
    OBVIOUS
  <2>1. Cardinality(0..Cardinality(Alive)) <= Cardinality(Names)
    BY <1>1, FS_Subset
  <2> QED BY <1>1, <1>2, <2>1
<1>4. (0..Cardinality(Alive)) \ Names \subseteq Nat
  BY <1>1
<1> QED
  BY <1>3, <1>4, MinIsLeast DEF DerivedName, NameIsFree

(* The accounts start with the administrator's and no link. *)
LEMMA PasswordInvInit == PasswordInit => PasswordInv
<1> SUFFICES ASSUME PasswordInit PROVE PasswordInv
  OBVIOUS
<1> USE PasswordsAssumption DEF PasswordInit, Free
<1>1. /\ DOMAIN name = {Admin} /\ name[Admin] = 0
      /\ DOMAIN password = {Admin} /\ password[Admin] = "first"
      /\ name = [x \in {Admin} |-> 0] /\ password = [x \in {Admin} |-> "first"]
  BY Zenon
<1>2. PasswordTypeOK
  BY <1>1 DEF PasswordTypeOK, Alive, Accounts, Handling
<1>3. IsFiniteSet(Alive)
  BY <1>1, FS_Singleton DEF Alive
<1>4. NamesTellApart
  BY <1>1 DEF NamesTellApart, Alive
<1>5. LinksAreSpentOnce
  BY DEF LinksAreSpentOnce, RedeemersHoldUsedLinks, OneRedeemerEach, AppliedWereUsed
<1> QED
  BY <1>2, <1>3, <1>4, <1>5 DEF PasswordInv

(* A handler that goes on with anything but a link holds no link. *)
LEMMA HandlersKeepLinks ==
  ASSUME PasswordTypeOK, LinksAreSpentOnce,
         NEW q \in Handlers, NEW h, h.kind # "redeem",
         handler' = [handler EXCEPT ![q] = h], UNCHANGED <<links, applied>>
  PROVE  LinksAreSpentOnce'
<1>1. /\ handler'[q] = h
      /\ \A p \in Handlers : p # q => handler'[p] = handler[p]
  BY DEF PasswordTypeOK
<1>2. RedeemersHoldUsedLinks'
  BY <1>1 DEF LinksAreSpentOnce, RedeemersHoldUsedLinks
<1>3. OneRedeemerEach'
  BY <1>1 DEF LinksAreSpentOnce, OneRedeemerEach
<1> QED
  BY <1>2, <1>3 DEF LinksAreSpentOnce, AppliedWereUsed

(* The links of a step that is none of theirs. *)
LEMMA OtherStepsKeepLinks ==
  ASSUME LinksAreSpentOnce, UNCHANGED <<links, applied, handler>>
  PROVE  LinksAreSpentOnce'
  BY DEF LinksAreSpentOnce, RedeemersHoldUsedLinks, OneRedeemerEach, AppliedWereUsed

(* Asking for a link spends the open ones and leaves the others as they are. *)
LEMMA LinksOnlyClose ==
  ASSUME PasswordTypeOK, LinksAreSpentOnce, Len(links') <= MaxLinks,
         DOMAIN links \subseteq DOMAIN links',
         \A l \in DOMAIN links : links[l] = "used" => links'[l] = "used",
         UNCHANGED <<applied, handler>>
  PROVE  LinksAreSpentOnce'
<1>1. RedeemersHoldUsedLinks'
  BY DEF LinksAreSpentOnce, RedeemersHoldUsedLinks
<1>2. AppliedWereUsed'
  BY DEF LinksAreSpentOnce, AppliedWereUsed
<1> QED
  BY <1>1, <1>2 DEF LinksAreSpentOnce, OneRedeemerEach

(* No account loses its name or password to a request about another. *)
LEMMA PasswordsKeepNames ==
  ASSUME PasswordInv, UNCHANGED name
  PROVE  IsFiniteSet(Alive)' /\ NamesTellApart'
  BY DEF PasswordInv, Alive, NamesTellApart

(* The creation of an account, whatever happened since its name was chosen. *)
LEMMA CreationKeepsInv ==
  ASSUME PasswordInv, NEW q \in Handlers, FinishCreate(q)
  PROVE  PasswordInv'
<1>0. handler[q] \in Handling /\ handler[q].kind = "create"
  BY DEF PasswordInv, PasswordTypeOK, FinishCreate
<1>1. handler[q].name \in Nat
  BY <1>0 DEF Handling, Free
<1>2. LinksAreSpentOnce'
  BY HandlersKeepLinks DEF PasswordInv, FinishCreate, Free
<1>3. handler' \in [Handlers -> Handling]
  BY DEF PasswordInv, PasswordTypeOK, FinishCreate, Handling
<1>4. CASE NameIsFree(handler[q].name)
  <2>1. PICK r \in Colleagues \ (Alive \union gone) :
            /\ name' = With(name, r, handler[q].name)
            /\ password' = With(password, r, "first")
    BY <1>4 DEF FinishCreate
  <2>2. /\ name \in [Alive -> Nat] /\ password \in [Alive -> {"first", "own", "admin", "link"}]
        /\ r \notin Alive
    BY <2>1 DEF PasswordInv, PasswordTypeOK
  <2>3. /\ name' = [x \in Alive \union {r} |-> IF x = r THEN handler[q].name ELSE name[x]]
        /\ password' = [x \in Alive \union {r} |-> IF x = r THEN "first" ELSE password[x]]
    BY <2>1, <2>2 DEF With, Alive
  <2>4. /\ Alive' = Alive \union {r} /\ name' \in [Alive' -> Nat]
        /\ password' \in [Alive' -> {"first", "own", "admin", "link"}]
    BY <1>1, <2>2, <2>3 DEF Alive
  <2>5. PasswordTypeOK'
    BY <1>3, <2>1, <2>4 DEF PasswordInv, PasswordTypeOK, FinishCreate, Accounts
  <2>6. IsFiniteSet(Alive)'
    BY <2>4, FS_AddElement DEF PasswordInv
  <2>7. NamesTellApart'
    BY <1>4, <2>2, <2>3, <2>4 DEF PasswordInv, NamesTellApart, NameIsFree, Names
  <2> QED BY <1>2, <2>5, <2>6, <2>7 DEF PasswordInv
<1>5. CASE ~NameIsFree(handler[q].name)
  <2>1. UNCHANGED <<name, password, gone, links, applied>>
    BY <1>5 DEF FinishCreate
  <2>2. PasswordTypeOK'
    BY <1>3, <2>1 DEF PasswordInv, PasswordTypeOK, Alive
  <2> QED BY <1>2, <2>1, <2>2, PasswordsKeepNames DEF PasswordInv
<1> QED
  BY <1>4, <1>5

(* A link in flight sets the administrator's password, once. *)
LEMMA RedeemingKeepsInv ==
  ASSUME PasswordInv, NEW q \in Handlers, FinishLink(q)
  PROVE  PasswordInv'
<1> DEFINE k == handler[q].link
<1>0. /\ k \in DOMAIN links /\ links[k] = "used" /\ applied[k] = 0
      /\ k \in 1..MaxLinks /\ applied \in [1..MaxLinks -> Nat]
  BY PasswordsAssumption
  DEF PasswordInv, PasswordTypeOK, LinksAreSpentOnce, RedeemersHoldUsedLinks, FinishLink
<1>1. /\ applied' = [applied EXCEPT ![k] = applied[k] + 1]
      /\ handler' = [handler EXCEPT ![q] = Free]
      /\ password' = WithPassword(Admin, "link")
      /\ UNCHANGED <<name, gone, links>>
  BY DEF FinishLink
<1>2. /\ handler'[q] = Free /\ Free.kind = "free"
      /\ \A p \in Handlers : p # q => handler'[p] = handler[p]
      /\ \A p \in Handlers : p # q /\ handler[p].kind = "redeem" => handler[p].link # k
  BY <1>1 DEF PasswordInv, PasswordTypeOK, Free, LinksAreSpentOnce, OneRedeemerEach, FinishLink
<1>3. /\ applied' \in [1..MaxLinks -> Nat] /\ applied'[k] = 1
      /\ \A l \in 1..MaxLinks : l # k => applied'[l] = applied[l]
  BY <1>0, <1>1
<1> HIDE DEF k
<1>4. RedeemersHoldUsedLinks'
  <2> SUFFICES ASSUME NEW p \in Handlers, handler'[p].kind = "redeem"
               PROVE  /\ handler'[p].link \in DOMAIN links
                      /\ links[handler'[p].link] = "used"
                      /\ applied'[handler'[p].link] = 0
    BY <1>1 DEF RedeemersHoldUsedLinks
  <2>1. /\ p # q /\ handler'[p] = handler[p] /\ handler[p].link # k
        /\ handler[p].link \in DOMAIN links /\ links[handler[p].link] = "used"
        /\ applied[handler[p].link] = 0
    BY <1>2 DEF PasswordInv, LinksAreSpentOnce, RedeemersHoldUsedLinks
  <2>2. handler[p].link \in 1..MaxLinks
    BY <2>1, PasswordsAssumption DEF PasswordInv, PasswordTypeOK, LinksAreSpentOnce
  <2> QED BY <1>3, <2>1, <2>2
<1>5. OneRedeemerEach'
  BY <1>2 DEF PasswordInv, LinksAreSpentOnce, OneRedeemerEach
<1>6. AppliedWereUsed'
  BY <1>0, <1>1, <1>3 DEF PasswordInv, LinksAreSpentOnce, AppliedWereUsed
<1>7. PasswordTypeOK'
  <2>1. handler' \in [Handlers -> Handling]
    BY <1>1 DEF PasswordInv, PasswordTypeOK, Handling
  <2>2. password' \in [Alive -> {"first", "own", "admin", "link"}]
    BY <1>1 DEF PasswordInv, PasswordTypeOK, WithPassword
  <2> QED BY <1>1, <1>3, <2>1, <2>2 DEF PasswordInv, PasswordTypeOK, Alive
<1> QED
  BY <1>1, <1>4, <1>5, <1>6, <1>7, PasswordsKeepNames DEF PasswordInv, LinksAreSpentOnce

(* Every statement on the accounts and their links, and a restart, keeps them sound. *)
LEMMA PasswordInvStep == PasswordInv /\ [PasswordNext]_passwordVars => PasswordInv'
<1> SUFFICES ASSUME PasswordInv, [PasswordNext]_passwordVars PROVE PasswordInv'
  OBVIOUS
<1>1. ASSUME NEW q \in Handlers, RequestCreate(q) PROVE PasswordInv'
  <2>1. [kind |-> "create", name |-> DerivedName] \in Handling
    BY DerivedNameIsFree DEF PasswordInv, Handling
  <2>2. PasswordTypeOK'
    BY <1>1, <2>1 DEF RequestCreate, PasswordInv, PasswordTypeOK, Alive
  <2>3. LinksAreSpentOnce'
    BY <1>1, HandlersKeepLinks DEF RequestCreate, PasswordInv
  <2> QED BY <1>1, <2>2, <2>3, PasswordsKeepNames DEF RequestCreate, PasswordInv
<1>2. ASSUME NEW q \in Handlers, NEW kind \in {"change", "reset"}, NEW r \in Accounts,
             RequestPassword(q, kind, r)
      PROVE  PasswordInv'
  <2>1. [kind |-> kind, rec |-> r] \in Handling
    BY DEF Handling
  <2>2. PasswordTypeOK'
    BY <1>2, <2>1 DEF RequestPassword, PasswordInv, PasswordTypeOK, Alive
  <2>3. LinksAreSpentOnce'
    BY <1>2, HandlersKeepLinks DEF RequestPassword, PasswordInv
  <2> QED BY <1>2, <2>2, <2>3, PasswordsKeepNames DEF RequestPassword, PasswordInv
<1>3. ASSUME NEW q \in Handlers, NEW l \in DOMAIN links, RedeemLink(q, l) PROVE PasswordInv'
  <2>0. /\ links \in Seq({"open", "used", "expired"}) /\ links[l] = "open"
        /\ links' = [links EXCEPT ![l] = "used"] /\ l \in 1..Len(links) /\ l \in Nat
        /\ handler' = [handler EXCEPT ![q] = [kind |-> "redeem", link |-> l]]
        /\ UNCHANGED <<name, gone, password, applied>>
    BY <1>3 DEF RedeemLink, LinkTaken, PasswordInv, PasswordTypeOK
  <2>1. /\ links' \in Seq({"open", "used", "expired"}) /\ Len(links') = Len(links)
        /\ DOMAIN links' = DOMAIN links /\ links'[l] = "used"
        /\ \A m \in DOMAIN links : m # l => links'[m] = links[m]
    BY <2>0
  <2>2. /\ handler'[q].kind = "redeem" /\ handler'[q].link = l
        /\ \A p \in Handlers : p # q => handler'[p] = handler[p]
    BY <2>0 DEF PasswordInv, PasswordTypeOK
  <2>3. /\ \A p \in Handlers : handler[p].kind = "redeem" => handler[p].link # l
        /\ applied[l] = 0
    BY <2>0, PasswordsAssumption
    DEF PasswordInv, PasswordTypeOK, LinksAreSpentOnce, RedeemersHoldUsedLinks, AppliedWereUsed
  <2>4. PasswordTypeOK'
    <3>1. [kind |-> "redeem", link |-> l] \in Handling
      BY <2>0 DEF Handling
    <3>2. handler' \in [Handlers -> Handling]
      BY <2>0, <3>1 DEF PasswordInv, PasswordTypeOK
    <3> QED BY <2>0, <2>1, <3>2 DEF PasswordInv, PasswordTypeOK, Alive
  <2>5. RedeemersHoldUsedLinks'
    <3> SUFFICES ASSUME NEW p \in Handlers, handler'[p].kind = "redeem"
                 PROVE  /\ handler'[p].link \in DOMAIN links'
                        /\ links'[handler'[p].link] = "used"
                        /\ applied'[handler'[p].link] = 0
      BY DEF RedeemersHoldUsedLinks
    <3>1. CASE p = q
      BY <2>0, <2>1, <2>2, <2>3, <3>1
    <3>2. CASE p # q
      BY <2>0, <2>1, <2>2, <2>3, <3>2 DEF PasswordInv, LinksAreSpentOnce, RedeemersHoldUsedLinks
    <3> QED BY <3>1, <3>2
  <2>6. OneRedeemerEach'
    BY <2>2, <2>3 DEF PasswordInv, LinksAreSpentOnce, OneRedeemerEach
  <2>7. AppliedWereUsed'
    BY <2>0, <2>1 DEF PasswordInv, LinksAreSpentOnce, AppliedWereUsed
  <2>8. Len(links') <= MaxLinks
    BY <2>1 DEF PasswordInv, LinksAreSpentOnce
  <2> QED BY <2>0, <2>4, <2>5, <2>6, <2>7, <2>8, PasswordsKeepNames DEF PasswordInv, LinksAreSpentOnce
<1>4. ASSUME NEW q \in Handlers, FinishPassword(q) PROVE PasswordInv'
  <2>1. handler' \in [Handlers -> Handling]
    BY <1>4 DEF FinishPassword, PasswordInv, PasswordTypeOK, Handling
  <2>2. password' \in [Alive -> {"first", "own", "admin", "link"}]
    BY <1>4 DEF FinishPassword, WithPassword, PasswordInv, PasswordTypeOK
  <2>3. PasswordTypeOK'
    BY <1>4, <2>1, <2>2 DEF FinishPassword, PasswordInv, PasswordTypeOK, Alive
  <2>4. LinksAreSpentOnce'
    BY <1>4, HandlersKeepLinks DEF FinishPassword, PasswordInv, Free
  <2> QED BY <1>4, <2>3, <2>4, PasswordsKeepNames DEF FinishPassword, PasswordInv
<1>5. ASSUME NEW r \in Colleagues, DeleteAccount(r) PROVE PasswordInv'
  <2>0. /\ name' = [x \in Alive \ {r} |-> name[x]]
        /\ password' = [x \in Alive \ {r} |-> password[x]]
        /\ gone' = gone \union {r} /\ r # Admin
        /\ UNCHANGED <<links, applied, handler>>
    BY <1>5 DEF DeleteAccount, Without, Alive, PasswordInv, PasswordTypeOK
  <2>1. Alive' = Alive \ {r}
    BY <2>0 DEF Alive
  <2>2. PasswordTypeOK'
    BY <2>0, <2>1 DEF PasswordInv, PasswordTypeOK
  <2>3. IsFiniteSet(Alive)'
    BY <2>1, FS_RemoveElement DEF PasswordInv
  <2>4. NamesTellApart'
    BY <2>0, <2>1 DEF PasswordInv, NamesTellApart
  <2> QED BY <2>0, <2>2, <2>3, <2>4, OtherStepsKeepLinks DEF PasswordInv
<1>6. CASE ForgotPassword
  <2>0. links \in Seq({"open", "used", "expired"}) /\ UNCHANGED <<name, gone, password, applied, handler>>
    BY <1>6 DEF ForgotPassword, PasswordInv, PasswordTypeOK
  <2>1. /\ Spent \in Seq({"open", "used", "expired"}) /\ Len(Spent) = Len(links)
        /\ \A l \in DOMAIN links : links[l] = "used" => Spent[l] = "used"
    BY <2>0, FunctionIsSeq DEF Spent
  <2>2. /\ links' \in Seq({"open", "used", "expired"}) /\ Len(links') = Len(links) + 1
        /\ \A l \in DOMAIN links : links'[l] = Spent[l]
    BY <1>6, <2>0, <2>1 DEF ForgotPassword
  <2>3. Len(links') <= MaxLinks
    BY <1>6, <2>0, <2>2, PasswordsAssumption DEF ForgotPassword
  <2>4. DOMAIN links \subseteq DOMAIN links'
    BY <2>0, <2>2
  <2>5. LinksAreSpentOnce'
    BY <2>0, <2>1, <2>2, <2>3, <2>4, LinksOnlyClose DEF PasswordInv
  <2>6. PasswordTypeOK'
    BY <2>0, <2>2 DEF PasswordInv, PasswordTypeOK, Alive
  <2> QED BY <2>0, <2>5, <2>6, PasswordsKeepNames DEF PasswordInv
<1>7. ASSUME NEW l \in DOMAIN links, LinkExpires(l) PROVE PasswordInv'
  <2>0. /\ links \in Seq({"open", "used", "expired"}) /\ links[l] = "open"
        /\ links' = [links EXCEPT ![l] = "expired"]
        /\ UNCHANGED <<name, gone, password, applied, handler>>
    BY <1>7 DEF LinkExpires, PasswordInv, PasswordTypeOK
  <2>1. /\ links' \in Seq({"open", "used", "expired"}) /\ Len(links') = Len(links)
        /\ DOMAIN links' = DOMAIN links
        /\ \A m \in DOMAIN links : links[m] = "used" => links'[m] = "used"
    BY <2>0
  <2>2. LinksAreSpentOnce'
    BY <2>0, <2>1, LinksOnlyClose DEF PasswordInv, LinksAreSpentOnce
  <2>3. PasswordTypeOK'
    BY <2>0, <2>1 DEF PasswordInv, PasswordTypeOK, Alive
  <2> QED BY <2>0, <2>2, <2>3, PasswordsKeepNames DEF PasswordInv
<1>8. CASE PasswordsRestart
  <2>1. PasswordTypeOK'
    BY <1>8 DEF PasswordsRestart, PasswordInv, PasswordTypeOK, Alive, Handling
  <2>2. LinksAreSpentOnce'
    BY <1>8 DEF PasswordsRestart, PasswordInv, LinksAreSpentOnce, RedeemersHoldUsedLinks,
                OneRedeemerEach, AppliedWereUsed, Free
  <2> QED BY <1>8, <2>1, <2>2, PasswordsKeepNames DEF PasswordsRestart, PasswordInv
<1>9. CASE UNCHANGED passwordVars
  <2>1. PasswordTypeOK'
    BY <1>9 DEF passwordVars, PasswordInv, PasswordTypeOK, Alive
  <2> QED BY <1>9, <2>1, OtherStepsKeepLinks, PasswordsKeepNames DEF passwordVars, PasswordInv
<1> QED
  BY <1>1, <1>2, <1>3, <1>4, <1>5, <1>6, <1>7, <1>8, <1>9, CreationKeepsInv, RedeemingKeepsInv
  DEF PasswordNext, FinishHandler

(* A reset link sets one password however often it is opened while the first request *)
(* is still hashing, and two creations in flight never share a username              *)
(* (redeemPasswordReset, deriveUsername).                                            *)
THEOREM PasswordsStaySound == PasswordSpec => []PasswordsAreSound
<1>1. PasswordInv => PasswordsAreSound
  <2> SUFFICES ASSUME PasswordInv PROVE LinkWorksOnce
    BY DEF PasswordInv, PasswordsAreSound
  <2>1. DOMAIN applied = 1..MaxLinks /\ \A l \in 1..MaxLinks : applied[l] = 0 \/ applied[l] = 1
    BY DEF PasswordInv, PasswordTypeOK, LinksAreSpentOnce, AppliedWereUsed
  <2> QED BY <2>1 DEF LinkWorksOnce
<1> QED
  BY <1>1, PasswordInvInit, PasswordInvStep, PTL DEF PasswordSpec

-----------------------------------------------------------------------------
(* The public demo.  What belongs to somebody has been claimed by somebody, and   *)
(* the searches in flight are counted with the runs they will store.                *)

Posting == [owner : Owners, age : Ages, there : BOOLEAN]
PoolRow(n) == [owner : Owners, job : 1..n, age : Ages, there : BOOLEAN]
StoredRow(n) ==
    [by : Visitors, pool : 0..n, claimed : Owners, age : Ages, there : BOOLEAN, late : BOOLEAN]
ProfileStage(n) == [stage : {"profile"}, by : Visitors, fresh : BOOLEAN, job : 1..n]
JudgeStage(n, k) ==
    [stage : {"judge"}, by : Visitors, job : 1..n, resumed : BOOLEAN, pool : 1..k]

DemoShape ==
    /\ postings \in Seq(Posting)
    /\ pools \in Seq(PoolRow(Len(postings)))
    /\ stored \in Seq(StoredRow(Len(pools)))
    /\ call \in [Calls -> ProfileStage(Len(postings)) \union JudgeStage(Len(postings), Len(pools))
                             \union {NoCall}]

ClaimedIsThere ==
    \A i \in DOMAIN stored :
        stored[i].claimed # Nobody => stored[i].there /\ stored[i].pool # 0

OwnedWasClaimed ==
    \A p \in DOMAIN pools : pools[p].owner # Nobody =>
        \E i \in DOMAIN stored : stored[i].pool = p /\ stored[i].claimed # Nobody

Flights == {q \in Calls : call[q] # NoCall}
FlightsOf(v) == {q \in Flights : call[q].by = v}

RunsAreCounted ==
    /\ Len(stored) + Cardinality(Flights) <= MaxRuns + Cardinality(Calls)
    /\ \A v \in Visitors :
        Cardinality(RunsOf(v)) + Cardinality(FlightsOf(v)) <= Allowance + Cardinality(Calls)

DemoInv ==
    /\ DemoShape /\ ClaimedIsThere /\ OwnedWasClaimed /\ RunsAreCounted
    /\ NothingDangles /\ ClaimedIsKept

(* Before the first visitor there is nothing. *)
LEMMA DemoInvInit == DemoInit => DemoInv
<1> SUFFICES ASSUME DemoInit PROVE DemoInv
  OBVIOUS
<1>1. postings = <<>> /\ pools = <<>> /\ stored = <<>> /\ Len(stored) = 0 /\ DOMAIN stored = {}
  BY DEF DemoInit
<1>2. DemoShape
  BY <1>1 DEF DemoInit, DemoShape
<1>3. ClaimedIsThere /\ OwnedWasClaimed /\ NothingDangles /\ ClaimedIsKept
  BY <1>1 DEF ClaimedIsThere, OwnedWasClaimed, NothingDangles, ClaimedIsKept
<1>4. Flights = {} /\ \A v \in Visitors : RunsOf(v) = {} /\ FlightsOf(v) = {}
  BY <1>1 DEF DemoInit, Flights, FlightsOf, RunsOf
<1>5. Cardinality(Calls) \in Nat /\ Allowance \in Nat /\ MaxRuns \in Nat
  BY DemoAssumption, FS_CardinalityType
<1>6. RunsAreCounted
  <2>1. Cardinality({}) = 0
    BY FS_EmptySet
  <2>2. Cardinality(Flights) = 0 /\ \A v \in Visitors : Cardinality(RunsOf(v)) = 0 /\ Cardinality(FlightsOf(v)) = 0
    BY <1>4, <2>1
  <2>3. Len(stored) + Cardinality(Flights) <= MaxRuns + Cardinality(Calls)
    BY <1>1, <1>5, <2>2
  <2>4. \A v \in Visitors :
          Cardinality(RunsOf(v)) + Cardinality(FlightsOf(v)) <= Allowance + Cardinality(Calls)
    BY <1>5, <2>2
  <2> QED BY <2>3, <2>4 DEF RunsAreCounted
<1> QED
  BY <1>2, <1>3, <1>6 DEF DemoInv

(* The rows, as functions of their numbers. *)
LEMMA DemoRows ==
  ASSUME DemoShape
  PROVE  /\ Len(postings) \in Nat /\ DOMAIN postings = 1..Len(postings)
         /\ Len(pools) \in Nat /\ DOMAIN pools = 1..Len(pools)
         /\ Len(stored) \in Nat /\ DOMAIN stored = 1..Len(stored)
         /\ \A j \in DOMAIN postings : postings[j] \in Posting
         /\ \A p \in DOMAIN pools : pools[p] \in PoolRow(Len(postings))
         /\ \A i \in DOMAIN stored : stored[i] \in StoredRow(Len(pools))
         /\ \A q \in Calls : call[q] \in ProfileStage(Len(postings))
                                          \union JudgeStage(Len(postings), Len(pools)) \union {NoCall}
<1>1. postings \in Seq(Posting) /\ pools \in Seq(PoolRow(Len(postings))) /\ stored \in Seq(StoredRow(Len(pools)))
  BY DEF DemoShape
<1> QED
  BY <1>1 DEF DemoShape

(* Searches in flight and runs can be counted. *)
LEMMA FlightCounts ==
  /\ IsFiniteSet(Flights) /\ Cardinality(Flights) \in Nat
  /\ Cardinality(Flights) <= Cardinality(Calls)
  /\ Cardinality(Calls) \in Nat /\ Allowance \in Nat /\ MaxRuns \in Nat
<1>1. IsFiniteSet(Calls) /\ Allowance \in Nat /\ MaxRuns \in Nat
  BY DemoAssumption
<1>2. Flights \in SUBSET Calls
  BY DEF Flights
<1>3. IsFiniteSet(Flights) /\ Cardinality(Flights) <= Cardinality(Calls)
  BY <1>1, <1>2, FS_Subset
<1> QED
  BY <1>1, <1>3, FS_CardinalityType

LEMMA RunCounts ==
  ASSUME DemoShape, NEW v \in Visitors
  PROVE  /\ IsFiniteSet(FlightsOf(v)) /\ Cardinality(FlightsOf(v)) \in Nat
         /\ Cardinality(FlightsOf(v)) <= Cardinality(Calls)
         /\ IsFiniteSet(RunsOf(v)) /\ Cardinality(RunsOf(v)) \in Nat
<1>1. IsFiniteSet(Calls)
  BY DemoAssumption
<1>2. FlightsOf(v) \in SUBSET Calls
  BY DEF Flights, FlightsOf
<1>3. IsFiniteSet(FlightsOf(v)) /\ Cardinality(FlightsOf(v)) <= Cardinality(Calls)
  BY <1>1, <1>2, FS_Subset
<1>4. RunsOf(v) \in SUBSET (1..Len(stored)) /\ IsFiniteSet(1..Len(stored))
  BY DemoRows, FS_Interval DEF RunsOf
<1>5. IsFiniteSet(RunsOf(v))
  BY <1>4, FS_Subset
<1> QED
  BY <1>3, <1>5, FS_CardinalityType

(* What stores no run and lets no search begin keeps the count. *)
LEMMA CountStays ==
  ASSUME DemoShape, RunsAreCounted, Len(stored') = Len(stored), Flights' \subseteq Flights,
         \A v \in Visitors : RunsOf(v)' \subseteq RunsOf(v) /\ FlightsOf(v)' \subseteq FlightsOf(v)
  PROVE  RunsAreCounted'
<1>1. PICK n \in Nat : n = Len(stored)
  BY DemoRows
<1>2. PICK fly : fly = Flights'
  OBVIOUS
<1>3. fly \in SUBSET Flights
  BY <1>2
<1>4. Cardinality(fly) <= Cardinality(Flights) /\ IsFiniteSet(fly)
  BY <1>3, FlightCounts, FS_Subset
<1>5. Cardinality(fly) \in Nat
  BY <1>4, FS_CardinalityType
<1>6. Len(stored') + Cardinality(Flights') <= MaxRuns + Cardinality(Calls)
  BY <1>1, <1>2, <1>4, <1>5, FlightCounts DEF RunsAreCounted
<1>7. ASSUME NEW v \in Visitors
      PROVE  Cardinality(RunsOf(v)') + Cardinality(FlightsOf(v)') <= Allowance + Cardinality(Calls)
  <2>1. PICK some : some = RunsOf(v)'
    OBVIOUS
  <2>2. PICK air : air = FlightsOf(v)'
    OBVIOUS
  <2>3. some \in SUBSET RunsOf(v) /\ air \in SUBSET FlightsOf(v)
    BY <1>7, <2>1, <2>2
  <2>4. Cardinality(some) <= Cardinality(RunsOf(v)) /\ IsFiniteSet(some)
    BY <2>3, RunCounts, FS_Subset
  <2>5. Cardinality(air) <= Cardinality(FlightsOf(v)) /\ IsFiniteSet(air)
    BY <2>3, RunCounts, FS_Subset
  <2>6. Cardinality(some) \in Nat /\ Cardinality(air) \in Nat
    BY <2>4, <2>5, FS_CardinalityType
  <2>7. Cardinality(RunsOf(v)) + Cardinality(FlightsOf(v)) <= Allowance + Cardinality(Calls)
    BY DEF RunsAreCounted
  <2>8. Cardinality(RunsOf(v)) \in Nat /\ Cardinality(FlightsOf(v)) \in Nat
    BY RunCounts
  <2> QED BY <2>1, <2>2, <2>4, <2>5, <2>6, <2>7, <2>8, FlightCounts
<1> QED
  BY <1>6, <1>7 DEF RunsAreCounted

-----------------------------------------------------------------------------
(* A search that begins counts against the allowance it was let in by. *)
LEMMA BeginKeeps ==
  ASSUME DemoInv, NEW q \in Calls, NEW w \in Visitors, BeginDemo(q, w)
  PROVE  DemoInv'
<1>1. /\ DemoShape /\ ClaimedIsThere /\ OwnedWasClaimed /\ RunsAreCounted /\ NothingDangles /\ ClaimedIsKept
      /\ call[q] = NoCall /\ ~RunOut(w) /\ Len(stored) < MaxRuns /\ UNCHANGED <<pools, stored>>
  BY DEF DemoInv, BeginDemo
<1>2. PICK j : j = IF NobodysJobs = {} THEN Len(postings') ELSE Max(NobodysJobs)
  OBVIOUS
<1>3. PICK c : c = [stage |-> "profile", by |-> w, fresh |-> NobodysJobs = {}, job |-> j]
  OBVIOUS
<1>4. call' = [call EXCEPT ![q] = c]
  BY <1>2, <1>3 DEF BeginDemo
<1>5. /\ postings' \in Seq(Posting) /\ j \in 1..Len(postings') /\ Len(postings') \in Nat
      /\ Len(postings) <= Len(postings') /\ DOMAIN postings \subseteq DOMAIN postings'
      /\ \A k \in DOMAIN postings : postings'[k] = postings[k]
  <2>1. CASE NobodysJobs = {}
    <3>1. postings' = Append(postings, [owner |-> Nobody, age |-> 0, there |-> TRUE])
      BY <2>1 DEF BeginDemo
    <3>2. PICK posting : posting = [owner |-> Nobody, age |-> 0, there |-> TRUE]
      OBVIOUS
    <3>3. posting \in Posting
      BY <3>2 DEF Posting, Owners, Ages
    <3>4. postings \in Seq(Posting) /\ Len(postings) \in Nat /\ DOMAIN postings = 1..Len(postings)
      BY <1>1, DemoRows DEF DemoShape
    <3>5. postings' = Append(postings, posting)
      BY <3>1, <3>2
    <3>6. j = Len(postings')
      BY <1>2, <2>1
    <3>7. /\ postings' \in Seq(Posting) /\ Len(postings') = Len(postings) + 1
          /\ DOMAIN postings' = 1..Len(postings')
          /\ \A k \in DOMAIN postings : postings'[k] = postings[k]
      BY <3>4, <3>5, <3>3
    <3>8. j \in 1..Len(postings') /\ Len(postings') \in Nat /\ DOMAIN postings \subseteq DOMAIN postings'
      BY <3>4, <3>6, <3>7
    <3> QED BY <3>4, <3>7, <3>8
  <2>2. CASE NobodysJobs # {}
    <3>1. postings' = postings
      BY <2>2 DEF BeginDemo
    <3>2. NobodysJobs \in SUBSET (1..Len(postings)) /\ NobodysJobs \subseteq Int /\ IsFiniteSet(1..Len(postings))
      BY <1>1, DemoRows, FS_Interval DEF NobodysJobs
    <3>3. IsFiniteSet(NobodysJobs)
      BY <3>2, FS_Subset
    <3>4. Max(NobodysJobs) \in NobodysJobs
      BY <2>2, <3>2, <3>3, MaxIsGreatest
    <3>5. j = Max(NobodysJobs)
      BY <1>2, <2>2
    <3>6. j \in 1..Len(postings)
      BY <3>2, <3>4, <3>5
    <3>7. postings \in Seq(Posting) /\ Len(postings) \in Nat
      BY <1>1, DemoRows DEF DemoShape
    <3> QED BY <3>1, <3>6, <3>7
  <2> QED BY <2>1, <2>2
<1>6. DemoShape'
  <2>1. c \in ProfileStage(Len(postings'))
    BY <1>3, <1>5 DEF ProfileStage
  <2>2. Len(postings) \in Nat /\ Len(pools) \in Nat
    BY <1>1, DemoRows
  <2>3. PoolRow(Len(postings)) \subseteq PoolRow(Len(postings'))
    BY <1>5, <2>2 DEF PoolRow
  <2>4. pools' \in Seq(PoolRow(Len(postings')))
    <3>1. pools \in Seq(PoolRow(Len(postings)))
      BY <1>1 DEF DemoShape
    <3> QED BY <1>1, <2>3, <3>1
  <2>5. \A r \in Calls : call'[r] \in ProfileStage(Len(postings'))
                              \union JudgeStage(Len(postings'), Len(pools')) \union {NoCall}
    <3>1. ProfileStage(Len(postings)) \subseteq ProfileStage(Len(postings'))
      BY <1>5, <2>2 DEF ProfileStage
    <3>2. JudgeStage(Len(postings), Len(pools)) \subseteq JudgeStage(Len(postings'), Len(pools'))
      BY <1>1, <1>5, <2>2 DEF JudgeStage
    <3>3. call \in [Calls -> ProfileStage(Len(postings))
                                \union JudgeStage(Len(postings), Len(pools)) \union {NoCall}]
      BY <1>1 DEF DemoShape
    <3> QED BY <1>4, <2>1, <3>1, <3>2, <3>3
  <2>6. call' = [r \in Calls |-> call'[r]]
    BY <1>1, <1>4 DEF DemoShape
  <2> QED BY <1>1, <1>5, <2>4, <2>5, <2>6 DEF DemoShape
<1>7. ClaimedIsThere' /\ OwnedWasClaimed' /\ ClaimedIsKept'
  BY <1>1 DEF ClaimedIsThere, OwnedWasClaimed, ClaimedIsKept
<1>8. NothingDangles'
  <2> SUFFICES ASSUME NEW i \in DOMAIN stored, stored[i].there, stored[i].pool # 0, ~stored[i].late
               PROVE  pools[stored[i].pool].there /\ postings'[pools[stored[i].pool].job].there
    BY <1>1 DEF NothingDangles
  <2>1. pools[stored[i].pool].there /\ postings[pools[stored[i].pool].job].there
    BY <1>1 DEF NothingDangles
  <2>2. stored[i].pool \in DOMAIN pools
    BY <1>1, DemoRows DEF StoredRow
  <2>3. pools[stored[i].pool].job \in DOMAIN postings
    BY <1>1, <2>2, DemoRows DEF PoolRow
  <2> QED BY <1>5, <2>1, <2>3
<1>9. RunsAreCounted'
  <2>1. c # NoCall /\ c.by = w
    BY <1>3 DEF NoCall
  <2>2. call \in [Calls -> ProfileStage(Len(postings))
                              \union JudgeStage(Len(postings), Len(pools)) \union {NoCall}]
    BY <1>1 DEF DemoShape
  <2>3. Flights' \subseteq Calls /\ \A v \in Visitors : FlightsOf(v)' \subseteq Calls
    BY DEF Flights, FlightsOf
  <2>4. \A v \in Visitors \ {w} : FlightsOf(v)' \subseteq FlightsOf(v)
    BY <1>4, <2>1, <2>2 DEF Flights, FlightsOf
  <2>5. \A v \in Visitors : RunsOf(v)' = RunsOf(v)
    BY <1>1 DEF RunsOf
  <2>6. Len(stored') + Cardinality(Flights') <= MaxRuns + Cardinality(Calls)
    <3>1. PICK fly : fly = Flights'
      OBVIOUS
    <3>2. fly \in SUBSET Calls /\ IsFiniteSet(Calls)
      BY <2>3, <3>1, DemoAssumption
    <3>3. Cardinality(fly) <= Cardinality(Calls) /\ Cardinality(fly) \in Nat
      BY <3>2, FS_Subset, FS_CardinalityType
    <3>4. Len(stored') = Len(stored) /\ Len(stored) \in Nat
      BY <1>1, DemoRows
    <3> QED BY <1>1, <3>1, <3>3, <3>4, FlightCounts
  <2>7. ASSUME NEW v \in Visitors
        PROVE  Cardinality(RunsOf(v)') + Cardinality(FlightsOf(v)') <= Allowance + Cardinality(Calls)
    <3>1. PICK air : air = FlightsOf(v)'
      OBVIOUS
    <3>2. Cardinality(RunsOf(v)) + Cardinality(FlightsOf(v)) <= Allowance + Cardinality(Calls)
      BY <1>1 DEF RunsAreCounted
    <3>3. /\ Cardinality(RunsOf(v)) \in Nat /\ Cardinality(FlightsOf(v)) \in Nat
          /\ IsFiniteSet(FlightsOf(v))
      BY <1>1, RunCounts
    <3>4. CASE v = w
      <4>1. air \in SUBSET Calls /\ IsFiniteSet(Calls)
        BY <2>3, <3>1, DemoAssumption
      <4>2. Cardinality(air) <= Cardinality(Calls) /\ Cardinality(air) \in Nat
        BY <4>1, FS_Subset, FS_CardinalityType
      <4>3. ~ (Cardinality(RunsOf(v)) >= Allowance)
        BY <1>1, <3>4 DEF RunOut
      <4> QED BY <2>5, <3>1, <3>3, <4>2, <4>3, FlightCounts
    <3>5. CASE v # w
      <4>1. air \in SUBSET FlightsOf(v)
        BY <2>4, <3>1, <3>5
      <4>2. Cardinality(air) <= Cardinality(FlightsOf(v)) /\ IsFiniteSet(air)
        BY <3>3, <4>1, FS_Subset
      <4>3. Cardinality(air) \in Nat
        BY <4>2, FS_CardinalityType
      <4> QED BY <2>5, <3>1, <3>2, <3>3, <4>2, <4>3, FlightCounts
    <3> QED BY <3>4, <3>5
  <2> QED BY <2>6, <2>7 DEF RunsAreCounted
<1> QED
  BY <1>6, <1>7, <1>8, <1>9 DEF DemoInv

(* A flight goes on: nothing is counted that was not. *)
LEMMA FlightGoesOn ==
  ASSUME DemoInv, NEW q \in Calls, call[q] # NoCall, NEW c, c # NoCall, c.by = call[q].by,
         call' = [call EXCEPT ![q] = c], UNCHANGED stored
  PROVE  RunsAreCounted'
<1>1. DemoShape /\ RunsAreCounted
  BY DEF DemoInv
<1>2. call \in [Calls -> ProfileStage(Len(postings))
                           \union JudgeStage(Len(postings), Len(pools)) \union {NoCall}]
  BY <1>1 DEF DemoShape
<1>3. Flights' \subseteq Flights
  BY <1>2 DEF Flights
<1>4. \A v \in Visitors : FlightsOf(v)' \subseteq FlightsOf(v)
  BY <1>2 DEF Flights, FlightsOf
<1>5. \A v \in Visitors : RunsOf(v)' \subseteq RunsOf(v)
  BY DEF RunsOf
<1> QED
  BY <1>1, <1>3, <1>4, <1>5, CountStays

(* A session is taken for a search that has none, or found nobody in the one it resumed. *)
LEMMA TakingKeeps ==
  ASSUME DemoInv, NEW q \in Calls, call[q] # NoCall, TakeSession(q), UNCHANGED <<postings, stored>>
  PROVE  DemoInv'
<1>1. DemoShape /\ ClaimedIsThere /\ OwnedWasClaimed /\ RunsAreCounted /\ NothingDangles /\ ClaimedIsKept
  BY DEF DemoInv
<1>2. PICK e : e = [owner |-> Nobody, job |-> call[q].job, age |-> 0, there |-> TRUE]
  OBVIOUS
<1>3. PICK c : c = [stage |-> "judge", by |-> call[q].by, job |-> call[q].job,
                    resumed |-> FALSE, pool |-> Len(pools')]
  OBVIOUS
<1>4. pools' = Append(pools, e) /\ call' = [call EXCEPT ![q] = c]
  BY <1>2, <1>3 DEF TakeSession
<1>5. Len(postings) \in Nat /\ Len(pools) \in Nat /\ pools \in Seq(PoolRow(Len(postings)))
  BY <1>1, DemoRows DEF DemoShape
<1>6. call[q] \in ProfileStage(Len(postings)) \union JudgeStage(Len(postings), Len(pools))
  BY <1>1, DemoRows
<1>7. call[q].by \in Visitors /\ call[q].job \in 1..Len(postings)
  BY <1>6 DEF ProfileStage, JudgeStage
<1>8. e \in PoolRow(Len(postings))
  BY <1>2, <1>7 DEF PoolRow, Owners, Ages
<1>9. /\ pools' \in Seq(PoolRow(Len(postings))) /\ Len(pools') = Len(pools) + 1
      /\ DOMAIN pools' = 1..(Len(pools) + 1) /\ pools'[Len(pools) + 1] = e
      /\ \A p \in DOMAIN pools : p \in DOMAIN pools' /\ pools'[p] = pools[p]
  BY <1>4, <1>5, <1>8
<1>10. DemoShape'
  <2>1. c \in JudgeStage(Len(postings), Len(pools'))
    BY <1>3, <1>5, <1>7, <1>9 DEF JudgeStage
  <2>2. JudgeStage(Len(postings), Len(pools)) \subseteq JudgeStage(Len(postings), Len(pools'))
    BY <1>5, <1>9 DEF JudgeStage
  <2>3. call' \in [Calls -> ProfileStage(Len(postings))
                              \union JudgeStage(Len(postings), Len(pools')) \union {NoCall}]
    BY <1>1, <1>4, <2>1, <2>2 DEF DemoShape
  <2>4. StoredRow(Len(pools)) \subseteq StoredRow(Len(pools'))
    BY <1>5, <1>9 DEF StoredRow
  <2>5. stored' \in Seq(StoredRow(Len(pools')))
    BY <1>1, <2>4 DEF DemoShape
  <2> QED BY <1>1, <1>9, <2>3, <2>5 DEF DemoShape
<1>11. \A i \in DOMAIN stored : stored[i].pool # 0 => stored[i].pool \in DOMAIN pools
  BY <1>1, DemoRows DEF StoredRow
<1>12. ClaimedIsThere'
  BY <1>1 DEF ClaimedIsThere
<1>13. OwnedWasClaimed'
  <2> SUFFICES ASSUME NEW p \in DOMAIN pools', pools'[p].owner # Nobody
               PROVE  \E i \in DOMAIN stored : stored[i].pool = p /\ stored[i].claimed # Nobody
    BY DEF OwnedWasClaimed
  <2>1. p \in DOMAIN pools
    BY <1>1, <1>2, <1>5, <1>9, DemoRows
  <2> QED BY <1>1, <1>9, <2>1 DEF OwnedWasClaimed
<1>14. NothingDangles'
  BY <1>1, <1>9, <1>11 DEF NothingDangles
<1>15. ClaimedIsKept'
  <2> SUFFICES ASSUME NEW i \in DOMAIN stored, stored[i].claimed # Nobody, ~stored[i].late
               PROVE  \/ pools'[stored[i].pool].there /\ pools'[stored[i].pool].owner = stored[i].claimed
                      \/ \E k \in DOMAIN stored \ {i} :
                            stored[k].pool = stored[i].pool /\ stored[k].claimed # Nobody
    BY DEF ClaimedIsKept
  <2>1. stored[i].pool \in DOMAIN pools
    BY <1>1, <1>11 DEF ClaimedIsThere
  <2> QED BY <1>1, <1>9, <2>1 DEF ClaimedIsKept
<1>16. RunsAreCounted'
  <2>1. c # NoCall /\ c.by = call[q].by
    BY <1>3 DEF NoCall
  <2> QED BY <1>4, <2>1, FlightGoesOn
<1> QED
  BY <1>10, <1>12, <1>13, <1>14, <1>15, <1>16 DEF DemoInv

(* Or the session of whoever pasted this text before. *)
LEMMA ResumingKeeps ==
  ASSUME DemoInv, NEW q \in Calls, BeginJudging(q)
  PROVE  DemoInv'
<1>1. DemoShape /\ ClaimedIsThere /\ OwnedWasClaimed /\ RunsAreCounted /\ NothingDangles /\ ClaimedIsKept
  BY DEF DemoInv
<1>2. call[q].stage = "profile" /\ call[q] # NoCall
  BY DEF BeginJudging, NoCall
<1>3. CASE Resumable(call[q]) = {}
  BY <1>2, <1>3, TakingKeeps DEF BeginJudging
<1>4. CASE Resumable(call[q]) # {}
  <2>1. PICK p : p = Max(Resumable(call[q]))
    OBVIOUS
  <2>2. PICK c : c = [stage |-> "judge", by |-> call[q].by, job |-> call[q].job, resumed |-> TRUE, pool |-> p]
    OBVIOUS
  <2>3. call' = [call EXCEPT ![q] = c] /\ UNCHANGED <<postings, pools, stored>>
    BY <1>4, <2>1, <2>2 DEF BeginJudging
  <2>4. p \in 1..Len(pools)
    <3>1. /\ Resumable(call[q]) \in SUBSET (1..Len(pools)) /\ Resumable(call[q]) \subseteq Int
          /\ IsFiniteSet(1..Len(pools))
      BY <1>1, DemoRows, FS_Interval DEF Resumable
    <3>2. IsFiniteSet(Resumable(call[q]))
      BY <3>1, FS_Subset
    <3> QED BY <1>4, <2>1, <3>1, <3>2, MaxIsGreatest
  <2>5. call[q] \in ProfileStage(Len(postings)) \union JudgeStage(Len(postings), Len(pools))
    BY <1>1, <1>2, DemoRows
  <2>6. c \in JudgeStage(Len(postings), Len(pools))
    BY <2>2, <2>4, <2>5 DEF ProfileStage, JudgeStage
  <2>7. DemoShape'
    <3>1. call' \in [Calls -> ProfileStage(Len(postings))
                                \union JudgeStage(Len(postings), Len(pools)) \union {NoCall}]
      BY <1>1, <2>3, <2>6 DEF DemoShape
    <3> QED BY <1>1, <2>3, <3>1 DEF DemoShape
  <2>8. ClaimedIsThere' /\ OwnedWasClaimed' /\ NothingDangles' /\ ClaimedIsKept'
    BY <1>1, <2>3 DEF ClaimedIsThere, OwnedWasClaimed, NothingDangles, ClaimedIsKept
  <2>9. RunsAreCounted'
    <3>1. c # NoCall /\ c.by = call[q].by
      BY <2>2 DEF NoCall
    <3> QED BY <1>2, <2>3, <3>1, FlightGoesOn
  <2> QED BY <2>7, <2>8, <2>9 DEF DemoInv
<1> QED
  BY <1>3, <1>4

(* A run is stored: it was in flight, or it is within the allowance. *)
LEMMA StoringKeeps ==
  ASSUME DemoInv, NEW w \in Visitors, NEW slot \in 0..Len(pools),
         stored' = Append(stored, DemoRow(w, slot)), UNCHANGED <<postings, pools>>
  PROVE  /\ stored' \in Seq(StoredRow(Len(pools)))
         /\ ClaimedIsThere' /\ OwnedWasClaimed' /\ NothingDangles' /\ ClaimedIsKept'
         /\ Len(stored') = Len(stored) + 1
         /\ \A v \in Visitors \ {w} : RunsOf(v)' = RunsOf(v)
         /\ RunsOf(w)' = RunsOf(w) \union {Len(stored) + 1}
<1>1. DemoShape /\ ClaimedIsThere /\ OwnedWasClaimed /\ NothingDangles /\ ClaimedIsKept
  BY DEF DemoInv
<1>2. PICK e : e = DemoRow(w, slot)
  OBVIOUS
<1>3. /\ e.by = w /\ e.pool = slot /\ e.claimed = Nobody /\ e.age = 0 /\ e.there
      /\ e.late = (slot # 0 /\ ~(pools[slot].there /\ postings[pools[slot].job].there))
      /\ e \in StoredRow(Len(pools))
  <2>1. PICK z \in BOOLEAN : z = (slot # 0 /\ ~(pools[slot].there /\ postings[pools[slot].job].there))
    BY Zenon
  <2>2. e = [by |-> w, pool |-> slot, claimed |-> Nobody, age |-> 0, there |-> TRUE, late |-> z]
    BY <1>2, <2>1, Zenon DEF DemoRow
  <2>3. e.by = w /\ e.pool = slot /\ e.claimed = Nobody /\ e.age = 0 /\ e.there /\ e.late = z
    BY <2>2
  <2>4. e \in StoredRow(Len(pools))
    BY <2>2 DEF StoredRow, Owners, Ages
  <2> QED BY <2>1, <2>3, <2>4, Zenon
<1>4. Len(stored) \in Nat /\ stored \in Seq(StoredRow(Len(pools))) /\ DOMAIN stored = 1..Len(stored)
  BY <1>1, DemoRows DEF DemoShape
<1>5. /\ stored' \in Seq(StoredRow(Len(pools))) /\ Len(stored') = Len(stored) + 1
      /\ DOMAIN stored' = DOMAIN stored \union {Len(stored) + 1} /\ Len(stored) + 1 \notin DOMAIN stored
      /\ stored'[Len(stored) + 1] = e
      /\ \A i \in DOMAIN stored : stored'[i] = stored[i]
  BY <1>2, <1>3, <1>4
<1>6. ClaimedIsThere'
  BY <1>1, <1>3, <1>5 DEF ClaimedIsThere
<1>7. OwnedWasClaimed'
  BY <1>1, <1>3, <1>5 DEF OwnedWasClaimed
<1>8. NothingDangles'
  <2> SUFFICES ASSUME NEW i \in DOMAIN stored', stored'[i].there, stored'[i].pool # 0, ~stored'[i].late
               PROVE  pools[stored'[i].pool].there /\ postings[pools[stored'[i].pool].job].there
    BY DEF NothingDangles
  <2>1. CASE i = Len(stored) + 1
    BY <1>3, <1>5, <2>1
  <2>2. CASE i \in DOMAIN stored
    BY <1>1, <1>5, <2>2 DEF NothingDangles
  <2> QED BY <1>5, <2>1, <2>2
<1>9. ClaimedIsKept'
  <2> SUFFICES ASSUME NEW i \in DOMAIN stored', stored'[i].claimed # Nobody, ~stored'[i].late
               PROVE  \/ pools[stored'[i].pool].there /\ pools[stored'[i].pool].owner = stored'[i].claimed
                      \/ \E k \in DOMAIN stored' \ {i} :
                            stored'[k].pool = stored'[i].pool /\ stored'[k].claimed # Nobody
    BY DEF ClaimedIsKept
  <2>1. i \in DOMAIN stored /\ stored'[i] = stored[i]
    BY <1>3, <1>5
  <2> QED BY <1>1, <1>5, <2>1 DEF ClaimedIsKept
<1>10. \A v \in Visitors \ {w} : RunsOf(v)' = RunsOf(v)
  BY <1>3, <1>5 DEF RunsOf
<1>11. RunsOf(w)' = RunsOf(w) \union {Len(stored) + 1}
  BY <1>3, <1>5 DEF RunsOf
<1> QED
  BY <1>5, <1>6, <1>7, <1>8, <1>9, <1>10, <1>11

(* The run of a search takes the place of its flight. *)
LEMMA FinishingKeeps ==
  ASSUME DemoInv, NEW q \in Calls, FinishDemo(q)
  PROVE  DemoInv'
<1>1. DemoShape /\ RunsAreCounted /\ call[q].stage = "judge" /\ UNCHANGED <<postings, pools>>
  BY DEF DemoInv, FinishDemo
<1>2. call[q] # NoCall /\ call[q] \in JudgeStage(Len(postings), Len(pools))
  BY <1>1, DemoRows DEF NoCall, ProfileStage
<1>3. PICK w \in Visitors : w = call[q].by
  BY <1>2 DEF JudgeStage
<1>4. PICK slot \in 0..Len(pools) : slot = call[q].pool
  BY <1>1, <1>2, DemoRows DEF JudgeStage
<1>5. stored' = Append(stored, DemoRow(w, slot)) /\ call' = [call EXCEPT ![q] = NoCall]
  BY <1>3, <1>4 DEF FinishDemo
<1>6. /\ stored' \in Seq(StoredRow(Len(pools)))
      /\ ClaimedIsThere' /\ OwnedWasClaimed' /\ NothingDangles' /\ ClaimedIsKept'
      /\ Len(stored') = Len(stored) + 1
      /\ \A v \in Visitors \ {w} : RunsOf(v)' = RunsOf(v)
      /\ RunsOf(w)' = RunsOf(w) \union {Len(stored) + 1}
  BY <1>1, <1>5, StoringKeeps
<1>7. call \in [Calls -> ProfileStage(Len(postings))
                           \union JudgeStage(Len(postings), Len(pools)) \union {NoCall}]
  BY <1>1 DEF DemoShape
<1>8. DemoShape'
  <2>1. call' \in [Calls -> ProfileStage(Len(postings))
                              \union JudgeStage(Len(postings), Len(pools)) \union {NoCall}]
    BY <1>5, <1>7
  <2> QED BY <1>1, <1>6, <2>1 DEF DemoShape
<1>9. Flights' = Flights \ {q} /\ q \in Flights
  BY <1>2, <1>5, <1>7 DEF Flights
<1>10. /\ FlightsOf(w)' = FlightsOf(w) \ {q} /\ q \in FlightsOf(w)
       /\ \A v \in Visitors \ {w} : FlightsOf(v)' \subseteq FlightsOf(v)
  BY <1>2, <1>3, <1>5, <1>7, <1>9 DEF Flights, FlightsOf
<1>11. Len(stored') + Cardinality(Flights') <= MaxRuns + Cardinality(Calls)
  <2>1. Cardinality(Flights \ {q}) = Cardinality(Flights) - 1
    BY <1>9, FlightCounts, FS_RemoveElement
  <2>2. Len(stored) \in Nat
    BY <1>1, DemoRows
  <2>3. Len(stored) + Cardinality(Flights) <= MaxRuns + Cardinality(Calls)
    BY <1>1 DEF RunsAreCounted
  <2>4. Cardinality(Flights') = Cardinality(Flights) - 1
    BY <1>9, <2>1
  <2> QED BY <1>6, <2>2, <2>3, <2>4, FlightCounts
<1>12. ASSUME NEW v \in Visitors
       PROVE  Cardinality(RunsOf(v)') + Cardinality(FlightsOf(v)') <= Allowance + Cardinality(Calls)
  <2>1. PICK air : air = FlightsOf(v)'
    OBVIOUS
  <2>2. PICK some : some = RunsOf(v)'
    OBVIOUS
  <2>3. Cardinality(RunsOf(v)) + Cardinality(FlightsOf(v)) <= Allowance + Cardinality(Calls)
    BY <1>1 DEF RunsAreCounted
  <2>4. /\ Cardinality(RunsOf(v)) \in Nat /\ Cardinality(FlightsOf(v)) \in Nat
        /\ IsFiniteSet(FlightsOf(v)) /\ IsFiniteSet(RunsOf(v))
    BY <1>1, RunCounts
  <2>5. CASE v = w
    <3>1. air = FlightsOf(v) \ {q} /\ q \in FlightsOf(v)
      BY <1>10, <2>1, <2>5
    <3>2. Cardinality(air) = Cardinality(FlightsOf(v)) - 1
      BY <2>4, <3>1, FS_RemoveElement
    <3>3. some = RunsOf(v) \union {Len(stored) + 1}
      BY <1>6, <2>2, <2>5
    <3>4. Len(stored) + 1 \notin RunsOf(v)
      BY <1>1, DemoRows DEF RunsOf
    <3>5. Cardinality(some) = Cardinality(RunsOf(v)) + 1
      BY <2>4, <3>3, <3>4, FS_AddElement
    <3> QED BY <2>1, <2>2, <2>3, <2>4, <3>2, <3>5, FlightCounts
  <2>6. CASE v # w
    <3>1. some = RunsOf(v) /\ air \in SUBSET FlightsOf(v)
      BY <1>6, <1>10, <2>1, <2>2, <2>6
    <3>2. Cardinality(air) <= Cardinality(FlightsOf(v)) /\ IsFiniteSet(air)
      BY <2>4, <3>1, FS_Subset
    <3>3. Cardinality(air) \in Nat
      BY <3>2, FS_CardinalityType
    <3> QED BY <2>1, <2>2, <2>3, <2>4, <3>1, <3>2, <3>3, FlightCounts
  <2> QED BY <2>5, <2>6
<1>13. RunsAreCounted'
  BY <1>11, <1>12 DEF RunsAreCounted
<1> QED
  BY <1>6, <1>8, <1>13 DEF DemoInv

(* A run of Triage is stored as it begins. *)
LEMMA TriagingKeeps ==
  ASSUME DemoInv, NEW w \in Visitors, RunTriage(w)
  PROVE  DemoInv'
<1>1. /\ DemoShape /\ RunsAreCounted /\ ~RunOut(w) /\ Len(stored) < MaxRuns
      /\ UNCHANGED <<postings, pools, call>>
  BY DEF DemoInv, RunTriage
<1>2. PICK none : none = 0
  OBVIOUS
<1>3. none \in 0..Len(pools) /\ stored' = Append(stored, DemoRow(w, none))
  BY <1>1, <1>2, DemoRows DEF RunTriage
<1>4. /\ stored' \in Seq(StoredRow(Len(pools)))
      /\ ClaimedIsThere' /\ OwnedWasClaimed' /\ NothingDangles' /\ ClaimedIsKept'
      /\ Len(stored') = Len(stored) + 1
      /\ \A v \in Visitors \ {w} : RunsOf(v)' = RunsOf(v)
      /\ RunsOf(w)' = RunsOf(w) \union {Len(stored) + 1}
  BY <1>1, <1>3, StoringKeeps
<1>5. DemoShape'
  BY <1>1, <1>4 DEF DemoShape
<1>6. Flights' = Flights /\ \A v \in Visitors : FlightsOf(v)' = FlightsOf(v)
  BY <1>1 DEF Flights, FlightsOf
<1>7. Len(stored') + Cardinality(Flights') <= MaxRuns + Cardinality(Calls)
  <2>1. Len(stored) \in Nat
    BY <1>1, DemoRows
  <2>2. Cardinality(Flights') = Cardinality(Flights)
    BY <1>6
  <2> QED BY <1>1, <1>4, <2>1, <2>2, FlightCounts
<1>8. ASSUME NEW v \in Visitors
      PROVE  Cardinality(RunsOf(v)') + Cardinality(FlightsOf(v)') <= Allowance + Cardinality(Calls)
  <2>1. PICK some : some = RunsOf(v)'
    OBVIOUS
  <2>2. Cardinality(FlightsOf(v)') = Cardinality(FlightsOf(v))
    BY <1>6
  <2>3. Cardinality(RunsOf(v)) + Cardinality(FlightsOf(v)) <= Allowance + Cardinality(Calls)
    BY <1>1 DEF RunsAreCounted
  <2>4. /\ Cardinality(RunsOf(v)) \in Nat /\ Cardinality(FlightsOf(v)) \in Nat
        /\ Cardinality(FlightsOf(v)) <= Cardinality(Calls) /\ IsFiniteSet(RunsOf(v))
    BY <1>1, RunCounts
  <2>5. CASE v = w
    <3>1. some = RunsOf(v) \union {Len(stored) + 1}
      BY <1>4, <2>1, <2>5
    <3>2. Len(stored) + 1 \notin RunsOf(v)
      BY <1>1, DemoRows DEF RunsOf
    <3>3. Cardinality(some) = Cardinality(RunsOf(v)) + 1
      BY <2>4, <3>1, <3>2, FS_AddElement
    <3>4. ~ (Cardinality(RunsOf(v)) >= Allowance)
      BY <1>1, <2>5 DEF RunOut
    <3> QED BY <2>1, <2>2, <2>4, <3>3, <3>4, FlightCounts
  <2>6. CASE v # w
    BY <1>4, <2>2, <2>3, <2>6
  <2> QED BY <2>5, <2>6
<1>9. RunsAreCounted'
  BY <1>7, <1>8 DEF RunsAreCounted
<1> QED
  BY <1>4, <1>5, <1>9 DEF DemoInv

(* A claim takes what is nobody's; what it finds claimed has another claim on it. *)
LEMMA ClaimingKeeps ==
  ASSUME DemoInv, NEW v \in Visitors, NEW i \in DOMAIN stored, Claim(v, i)
  PROVE  DemoInv'
<1>1. DemoShape /\ ClaimedIsThere /\ OwnedWasClaimed /\ RunsAreCounted /\ NothingDangles /\ ClaimedIsKept
  BY DEF DemoInv
<1>2. /\ stored[i].pool # 0 /\ stored[i].there /\ stored[i].claimed = Nobody /\ UNCHANGED call
      /\ v \in Owners /\ v # Nobody
  BY DemoAssumption DEF Claim, Owners
<1>3. PICK p \in DOMAIN pools : p = stored[i].pool
  BY <1>1, <1>2, DemoRows DEF StoredRow
<1>4. PICK j \in DOMAIN postings : j = pools[p].job
  BY <1>1, DemoRows DEF PoolRow
<1>5. /\ postings' = [postings EXCEPT ![j].owner = TakenOver(@, v)]
      /\ pools' = [pools EXCEPT ![p].owner = TakenOver(@, v)]
      /\ stored' = [stored EXCEPT ![i].claimed = v]
  BY <1>3, <1>4 DEF Claim, JobAndSession
<1>6. /\ Len(postings) \in Nat /\ DOMAIN postings = 1..Len(postings)
      /\ Len(pools) \in Nat /\ DOMAIN pools = 1..Len(pools)
      /\ Len(stored) \in Nat /\ DOMAIN stored = 1..Len(stored)
      /\ \A k \in DOMAIN postings : postings[k] \in Posting
      /\ \A k \in DOMAIN pools : pools[k] \in PoolRow(Len(postings))
      /\ \A k \in DOMAIN stored : stored[k] \in StoredRow(Len(pools))
  BY <1>1, DemoRows
<1>7. \A x \in Owners : TakenOver(x, v) \in Owners /\ TakenOver(x, v) # Nobody /\ (x # Nobody => TakenOver(x, v) = x)
  BY <1>2 DEF TakenOver
<1>8. /\ DOMAIN postings' = DOMAIN postings
      /\ \A k \in DOMAIN postings : /\ postings'[k] \in Posting /\ postings'[k].there = postings[k].there
                                    /\ postings[k].owner # Nobody => postings'[k].owner = postings[k].owner
  BY <1>5, <1>6, <1>7 DEF Posting
<1>9. /\ DOMAIN pools' = DOMAIN pools
      /\ \A k \in DOMAIN pools :
            /\ pools'[k] \in PoolRow(Len(postings)) /\ pools'[k].there = pools[k].there
            /\ pools'[k].job = pools[k].job
            /\ pools[k].owner # Nobody => pools'[k].owner = pools[k].owner
            /\ k # p => pools'[k].owner = pools[k].owner
      /\ pools[p].owner = Nobody => pools'[p].owner = v
  BY <1>5, <1>6, <1>7 DEF PoolRow, TakenOver
<1>10. /\ DOMAIN stored' = DOMAIN stored
       /\ \A k \in DOMAIN stored :
            /\ stored'[k] \in StoredRow(Len(pools)) /\ stored'[k].there = stored[k].there
            /\ stored'[k].pool = stored[k].pool /\ stored'[k].late = stored[k].late
            /\ stored'[k].age = stored[k].age /\ stored'[k].by = stored[k].by
            /\ k # i => stored'[k].claimed = stored[k].claimed
       /\ stored'[i].claimed = v
  BY <1>2, <1>5, <1>6 DEF StoredRow
<1>11. postings' \in Seq(Posting) /\ Len(postings') = Len(postings)
  <2>1. postings' \in [1..Len(postings) -> Posting]
    BY <1>5, <1>6, <1>8
  <2> QED BY <1>6, <2>1, FunctionIsSeq
<1>12. pools' \in Seq(PoolRow(Len(postings))) /\ Len(pools') = Len(pools)
  <2>1. pools' \in [1..Len(pools) -> PoolRow(Len(postings))]
    BY <1>5, <1>6, <1>9
  <2> QED BY <1>6, <2>1, FunctionIsSeq
<1>13. stored' \in Seq(StoredRow(Len(pools))) /\ Len(stored') = Len(stored)
  <2>1. stored' \in [1..Len(stored) -> StoredRow(Len(pools))]
    BY <1>5, <1>6, <1>10
  <2> QED BY <1>6, <2>1, FunctionIsSeq
<1>14. DemoShape'
  BY <1>1, <1>2, <1>11, <1>12, <1>13 DEF DemoShape
<1>15. ClaimedIsThere'
  BY <1>1, <1>2, <1>10 DEF ClaimedIsThere
<1>16. OwnedWasClaimed'
  <2> SUFFICES ASSUME NEW r \in DOMAIN pools, pools'[r].owner # Nobody
               PROVE  \E k \in DOMAIN stored' : stored'[k].pool = r /\ stored'[k].claimed # Nobody
    BY <1>9 DEF OwnedWasClaimed
  <2>1. CASE r = p
    BY <1>2, <1>3, <1>10, <2>1
  <2>2. CASE r # p
    <3>1. PICK k \in DOMAIN stored : stored[k].pool = r /\ stored[k].claimed # Nobody
      BY <1>1, <1>9, <2>2 DEF OwnedWasClaimed
    <3> QED BY <1>2, <1>10, <3>1
  <2> QED BY <2>1, <2>2
<1>17. NothingDangles'
  <2> SUFFICES ASSUME NEW k \in DOMAIN stored, stored'[k].there, stored'[k].pool # 0, ~stored'[k].late
               PROVE  pools'[stored'[k].pool].there /\ postings'[pools'[stored'[k].pool].job].there
    BY <1>10 DEF NothingDangles
  <2>1. PICK r \in DOMAIN pools : r = stored[k].pool
    BY <1>6, <1>10 DEF StoredRow
  <2>2. pools[r].there /\ postings[pools[r].job].there
    BY <1>1, <1>10, <2>1 DEF NothingDangles
  <2>3. pools[r].job \in DOMAIN postings
    BY <1>6 DEF PoolRow
  <2> QED BY <1>8, <1>9, <1>10, <2>1, <2>2, <2>3
<1>18. ClaimedIsKept'
  <2> SUFFICES ASSUME NEW k \in DOMAIN stored, stored'[k].claimed # Nobody, ~stored'[k].late
               PROVE  \/ pools'[stored'[k].pool].there /\ pools'[stored'[k].pool].owner = stored'[k].claimed
                      \/ \E m \in DOMAIN stored' \ {k} :
                            stored'[m].pool = stored'[k].pool /\ stored'[m].claimed # Nobody
    BY <1>10 DEF ClaimedIsKept
  <2>1. CASE k # i
    <3>1. stored[k].claimed # Nobody /\ ~stored[k].late
      BY <1>10, <2>1
    <3>2. PICK r \in DOMAIN pools : r = stored[k].pool
      BY <1>1, <1>6, <3>1 DEF StoredRow, ClaimedIsThere
    <3>3. CASE pools[r].there /\ pools[r].owner = stored[k].claimed
      BY <1>9, <1>10, <2>1, <3>1, <3>2, <3>3
    <3>4. CASE \E m \in DOMAIN stored \ {k} : stored[m].pool = stored[k].pool /\ stored[m].claimed # Nobody
      <4>1. PICK m \in DOMAIN stored \ {k} : stored[m].pool = stored[k].pool /\ stored[m].claimed # Nobody
        BY <3>4
      <4> QED BY <1>2, <1>10, <4>1
    <3> QED BY <1>1, <3>1, <3>2, <3>3, <3>4 DEF ClaimedIsKept
  <2>2. CASE k = i
    <3>1. CASE pools[p].owner = Nobody
      <4>1. pools[p].there
        BY <1>1, <1>2, <1>3, <1>10, <2>2 DEF NothingDangles
      <4> QED BY <1>3, <1>9, <1>10, <2>2, <3>1, <4>1
    <3>2. CASE pools[p].owner # Nobody
      <4>1. PICK m \in DOMAIN stored : stored[m].pool = p /\ stored[m].claimed # Nobody
        BY <1>1, <3>2 DEF OwnedWasClaimed
      <4> QED BY <1>2, <1>3, <1>10, <2>2, <4>1
    <3> QED BY <3>1, <3>2
  <2> QED BY <2>1, <2>2
<1>19. RunsAreCounted'
  <2>1. Flights' \subseteq Flights
    BY <1>2 DEF Flights
  <2>2. \A w \in Visitors : RunsOf(w)' \subseteq RunsOf(w) /\ FlightsOf(w)' \subseteq FlightsOf(w)
    BY <1>2, <1>10 DEF RunsOf, FlightsOf, Flights
  <2> QED BY <1>1, <1>13, <2>1, <2>2, CountStays
<1> QED
  BY <1>14, <1>15, <1>16, <1>17, <1>18, <1>19 DEF DemoInv

(* An era makes every row older and nothing else. *)
LEMMA EraKeeps ==
  ASSUME DemoInv, EraPasses
  PROVE  DemoInv'
<1>1. DemoShape /\ ClaimedIsThere /\ OwnedWasClaimed /\ RunsAreCounted /\ NothingDangles /\ ClaimedIsKept
  BY DEF DemoInv
<1>2. /\ Len(postings) \in Nat /\ DOMAIN postings = 1..Len(postings)
      /\ Len(pools) \in Nat /\ DOMAIN pools = 1..Len(pools)
      /\ Len(stored) \in Nat /\ DOMAIN stored = 1..Len(stored)
      /\ \A k \in DOMAIN postings : postings[k] \in Posting
      /\ \A k \in DOMAIN pools : pools[k] \in PoolRow(Len(postings))
      /\ \A k \in DOMAIN stored : stored[k] \in StoredRow(Len(pools))
  BY <1>1, DemoRows
<1>3. /\ postings' = [j \in DOMAIN postings |-> [postings[j] EXCEPT !.age = OlderDemo(@)]]
      /\ pools' = [p \in DOMAIN pools |-> [pools[p] EXCEPT !.age = OlderDemo(@)]]
      /\ stored' = [i \in DOMAIN stored |-> [stored[i] EXCEPT !.age = OlderDemo(@)]]
      /\ UNCHANGED call
  BY DEF EraPasses
<1>4. \A a \in Ages : OlderDemo(a) \in Ages /\ OlderDemo(a) # 0
  BY DEF Ages, OlderDemo
<1>5. \A k \in DOMAIN postings : postings'[k] \in Posting /\ postings'[k].there = postings[k].there
  BY <1>2, <1>3, <1>4 DEF Posting
<1>6. \A k \in DOMAIN pools :
            /\ pools'[k] \in PoolRow(Len(postings)) /\ pools'[k].there = pools[k].there
            /\ pools'[k].job = pools[k].job /\ pools'[k].owner = pools[k].owner
  BY <1>2, <1>3, <1>4 DEF PoolRow
<1>7. \A k \in DOMAIN stored :
            /\ stored'[k] \in StoredRow(Len(pools)) /\ stored'[k].there = stored[k].there
            /\ stored'[k].pool = stored[k].pool /\ stored'[k].late = stored[k].late
            /\ stored'[k].by = stored[k].by /\ stored'[k].claimed = stored[k].claimed
            /\ stored'[k].age # 0
  BY <1>2, <1>3, <1>4 DEF StoredRow
<1>8. DOMAIN postings' = DOMAIN postings /\ DOMAIN pools' = DOMAIN pools /\ DOMAIN stored' = DOMAIN stored
  BY <1>3
<1>9. postings' \in Seq(Posting) /\ Len(postings') = Len(postings)
  <2>1. postings' \in [1..Len(postings) -> Posting]
    BY <1>2, <1>3, <1>5
  <2> QED BY <1>2, <2>1, FunctionIsSeq
<1>10. pools' \in Seq(PoolRow(Len(postings))) /\ Len(pools') = Len(pools)
  <2>1. pools' \in [1..Len(pools) -> PoolRow(Len(postings))]
    BY <1>2, <1>3, <1>6
  <2> QED BY <1>2, <2>1, FunctionIsSeq
<1>11. stored' \in Seq(StoredRow(Len(pools))) /\ Len(stored') = Len(stored)
  <2>1. stored' \in [1..Len(stored) -> StoredRow(Len(pools))]
    BY <1>2, <1>3, <1>7
  <2> QED BY <1>2, <2>1, FunctionIsSeq
<1>12. DemoShape'
  BY <1>1, <1>3, <1>9, <1>10, <1>11 DEF DemoShape
<1>13. ClaimedIsThere'
  BY <1>1, <1>7, <1>8 DEF ClaimedIsThere
<1>14. OwnedWasClaimed'
  BY <1>1, <1>6, <1>7, <1>8 DEF OwnedWasClaimed
<1>15. NothingDangles'
  <2> SUFFICES ASSUME NEW k \in DOMAIN stored, stored'[k].there, stored'[k].pool # 0, ~stored'[k].late
               PROVE  pools'[stored'[k].pool].there /\ postings'[pools'[stored'[k].pool].job].there
    BY <1>8 DEF NothingDangles
  <2>1. PICK r \in DOMAIN pools : r = stored[k].pool
    BY <1>2, <1>7 DEF StoredRow
  <2>2. pools[r].there /\ postings[pools[r].job].there
    BY <1>1, <1>7, <2>1 DEF NothingDangles
  <2>3. pools[r].job \in DOMAIN postings
    BY <1>2 DEF PoolRow
  <2> QED BY <1>5, <1>6, <1>7, <2>1, <2>2, <2>3
<1>16. ClaimedIsKept'
  <2> SUFFICES ASSUME NEW k \in DOMAIN stored, stored[k].claimed # Nobody, ~stored[k].late
               PROVE  \/ pools'[stored[k].pool].there /\ pools'[stored[k].pool].owner = stored[k].claimed
                      \/ \E m \in DOMAIN stored \ {k} :
                            stored[m].pool = stored[k].pool /\ stored[m].claimed # Nobody
    BY <1>7, <1>8 DEF ClaimedIsKept
  <2>1. stored[k].pool \in DOMAIN pools
    BY <1>1, <1>2 DEF ClaimedIsThere, StoredRow
  <2> QED BY <1>1, <1>6, <2>1 DEF ClaimedIsKept
<1>17. RunsAreCounted'
  <2>1. Flights' \subseteq Flights
    BY <1>3 DEF Flights
  <2>2. \A w \in Visitors : RunsOf(w)' \subseteq RunsOf(w) /\ FlightsOf(w)' \subseteq FlightsOf(w)
    BY <1>3, <1>7, <1>8 DEF RunsOf, FlightsOf, Flights
  <2> QED BY <1>1, <1>11, <2>1, <2>2, CountStays
<1> QED
  BY <1>12, <1>13, <1>14, <1>15, <1>16, <1>17 DEF DemoInv

(* The sweep takes rows, then sessions no row left points at, then jobs nothing left names. *)
LEMMA SweepKeeps ==
  ASSUME DemoInv, SweepDemo
  PROVE  /\ DemoInv'
         /\ \A j \in DOMAIN postings : postings'[j].owner = postings[j].owner
         /\ \A p \in DOMAIN pools : pools'[p].owner = pools[p].owner
<1>1. DemoShape /\ ClaimedIsThere /\ OwnedWasClaimed /\ RunsAreCounted /\ NothingDangles /\ ClaimedIsKept
  BY DEF DemoInv
<1>2. /\ Len(postings) \in Nat /\ DOMAIN postings = 1..Len(postings)
      /\ Len(pools) \in Nat /\ DOMAIN pools = 1..Len(pools)
      /\ Len(stored) \in Nat /\ DOMAIN stored = 1..Len(stored)
      /\ \A k \in DOMAIN postings : postings[k] \in Posting
      /\ \A k \in DOMAIN pools : pools[k] \in PoolRow(Len(postings))
      /\ \A k \in DOMAIN stored : stored[k] \in StoredRow(Len(pools))
  BY <1>1, DemoRows
<1>3. PICK rows : rows = LeftRows
  OBVIOUS
<1>4. PICK idle : idle = LeftPools(stored')
  OBVIOUS
<1>5. PICK named : named = {pools'[p].job : p \in {k \in DOMAIN pools : pools'[k].there}}
                    \union {pools[stored[i].pool].job :
                            i \in {k \in DOMAIN stored : stored'[k].there /\ stored[k].pool # 0}}
  OBVIOUS
<1>6. PICK leaving : leaving = {j \in DOMAIN postings :
                            postings[j].owner = Nobody /\ postings[j].age = 2 /\ j \notin named}
  OBVIOUS
<1>7. /\ stored' = [r \in DOMAIN stored |-> IF r \in rows THEN [stored[r] EXCEPT !.there = FALSE] ELSE stored[r]]
      /\ pools' = [r \in DOMAIN pools |-> IF r \in idle THEN [pools[r] EXCEPT !.there = FALSE] ELSE pools[r]]
      /\ postings' = [r \in DOMAIN postings |->
                        IF r \in leaving THEN [postings[r] EXCEPT !.there = FALSE] ELSE postings[r]]
      /\ UNCHANGED call
  BY <1>3, <1>4, <1>5, <1>6 DEF SweepDemo, DemoSwept
<1>8. \A k \in DOMAIN stored :
            /\ stored'[k] \in StoredRow(Len(pools)) /\ stored'[k].there = (stored[k].there /\ k \notin rows)
            /\ stored'[k].pool = stored[k].pool /\ stored'[k].late = stored[k].late
            /\ stored'[k].by = stored[k].by /\ stored'[k].claimed = stored[k].claimed
            /\ stored'[k].age = stored[k].age
  BY <1>2, <1>7 DEF StoredRow
<1>9. \A k \in DOMAIN pools :
            /\ pools'[k] \in PoolRow(Len(postings)) /\ pools'[k].there = (pools[k].there /\ k \notin idle)
            /\ pools'[k].job = pools[k].job /\ pools'[k].owner = pools[k].owner
  BY <1>2, <1>7 DEF PoolRow
<1>10. \A k \in DOMAIN postings : /\ postings'[k] \in Posting /\ postings'[k].owner = postings[k].owner
                                  /\ postings'[k].there = (postings[k].there /\ k \notin leaving)
  BY <1>2, <1>7 DEF Posting
<1>11. DOMAIN postings' = DOMAIN postings /\ DOMAIN pools' = DOMAIN pools /\ DOMAIN stored' = DOMAIN stored
  BY <1>7
<1>12. postings' \in Seq(Posting) /\ Len(postings') = Len(postings)
  <2>1. postings' \in [1..Len(postings) -> Posting]
    BY <1>2, <1>7, <1>10
  <2> QED BY <1>2, <2>1, FunctionIsSeq
<1>13. pools' \in Seq(PoolRow(Len(postings))) /\ Len(pools') = Len(pools)
  <2>1. pools' \in [1..Len(pools) -> PoolRow(Len(postings))]
    BY <1>2, <1>7, <1>9
  <2> QED BY <1>2, <2>1, FunctionIsSeq
<1>14. stored' \in Seq(StoredRow(Len(pools))) /\ Len(stored') = Len(stored)
  <2>1. stored' \in [1..Len(stored) -> StoredRow(Len(pools))]
    BY <1>2, <1>7, <1>8
  <2> QED BY <1>2, <2>1, FunctionIsSeq
<1>15. DemoShape'
  BY <1>1, <1>7, <1>12, <1>13, <1>14 DEF DemoShape
<1>16. \A k \in rows : stored[k].claimed = Nobody
  BY <1>3 DEF LeftRows
<1>17. ClaimedIsThere'
  BY <1>1, <1>8, <1>11, <1>16 DEF ClaimedIsThere
<1>18. OwnedWasClaimed'
  BY <1>1, <1>8, <1>9, <1>11 DEF OwnedWasClaimed
<1>19. ASSUME NEW k \in DOMAIN stored, stored'[k].there, stored'[k].pool # 0, ~stored'[k].late
       PROVE  pools'[stored'[k].pool].there /\ postings'[pools'[stored'[k].pool].job].there
  <2>1. PICK r \in DOMAIN pools : r = stored[k].pool
    BY <1>2, <1>8, <1>19 DEF StoredRow
  <2>2. stored[k].there /\ stored[k].pool # 0 /\ ~stored[k].late
    BY <1>8, <1>19
  <2>3. pools[r].there /\ postings[pools[r].job].there
    BY <1>1, <2>1, <2>2 DEF NothingDangles
  <2>4. r \notin idle
    BY <1>4, <1>8, <1>11, <1>19, <2>1 DEF LeftPools
  <2>5. pools[r].job \in named
    BY <1>5, <1>19, <2>1, <2>2
  <2>6. pools[r].job \in DOMAIN postings
    BY <1>2 DEF PoolRow
  <2>7. pools[r].job \notin leaving
    BY <1>6, <2>5
  <2>8. stored'[k].pool = r /\ pools'[r].job = pools[r].job
    BY <1>8, <1>9, <2>1
  <2>9. pools'[r].there
    BY <1>9, <2>3, <2>4
  <2>10. postings'[pools[r].job].there
    BY <1>10, <2>3, <2>6, <2>7
  <2> QED BY <2>8, <2>9, <2>10
<1>20. NothingDangles'
  BY <1>11, <1>19 DEF NothingDangles
<1>21. ClaimedIsKept'
  <2> SUFFICES ASSUME NEW k \in DOMAIN stored, stored[k].claimed # Nobody, ~stored[k].late
               PROVE  \/ pools'[stored[k].pool].there /\ pools'[stored[k].pool].owner = stored[k].claimed
                      \/ \E m \in DOMAIN stored \ {k} :
                            stored[m].pool = stored[k].pool /\ stored[m].claimed # Nobody
    BY <1>8, <1>11 DEF ClaimedIsKept
  <2>1. stored[k].pool \in DOMAIN pools /\ stored[k].pool # 0 /\ stored[k].there
    BY <1>1, <1>2 DEF ClaimedIsThere, StoredRow
  <2>2. stored'[k].there
    BY <1>8, <1>16, <2>1
  <2>3. pools'[stored[k].pool].there
    BY <1>8, <1>19, <2>1, <2>2
  <2> QED BY <1>1, <1>9, <2>1, <2>3 DEF ClaimedIsKept
<1>22. RunsAreCounted'
  <2>1. Flights' \subseteq Flights
    BY <1>7 DEF Flights
  <2>2. \A w \in Visitors : RunsOf(w)' \subseteq RunsOf(w) /\ FlightsOf(w)' \subseteq FlightsOf(w)
    BY <1>7, <1>8, <1>11 DEF RunsOf, FlightsOf, Flights
  <2> QED BY <1>1, <1>14, <2>1, <2>2, CountStays
<1> QED
  BY <1>9, <1>10, <1>15, <1>17, <1>18, <1>20, <1>21, <1>22 DEF DemoInv

(* A restart forgets the searches in flight. *)
LEMMA RestartKeeps ==
  ASSUME DemoInv, DemoRestart
  PROVE  DemoInv'
<1>1. DemoShape /\ ClaimedIsThere /\ OwnedWasClaimed /\ RunsAreCounted /\ NothingDangles /\ ClaimedIsKept
  BY DEF DemoInv
<1>2. UNCHANGED <<postings, pools, stored>> /\ call' = [q \in Calls |-> NoCall]
  BY DEF DemoRestart
<1>3. DemoShape'
  BY <1>1, <1>2 DEF DemoShape
<1>4. RunsAreCounted'
  <2>1. Flights' \subseteq Flights
    BY <1>2 DEF Flights
  <2>2. \A w \in Visitors : RunsOf(w)' \subseteq RunsOf(w) /\ FlightsOf(w)' \subseteq FlightsOf(w)
    BY <1>2 DEF RunsOf, FlightsOf, Flights
  <2> QED BY <1>1, <1>2, <2>1, <2>2, CountStays
<1>5. ClaimedIsThere' /\ OwnedWasClaimed' /\ NothingDangles' /\ ClaimedIsKept'
  BY <1>1, <1>2 DEF ClaimedIsThere, OwnedWasClaimed, NothingDangles, ClaimedIsKept
<1> QED
  BY <1>3, <1>4, <1>5 DEF DemoInv

(* Every request of a visitor, every claim and every sweep keeps it. *)
LEMMA DemoInvStep == DemoInv /\ [DemoNext]_demoVars => DemoInv'
<1> SUFFICES ASSUME DemoInv, [DemoNext]_demoVars PROVE DemoInv'
  OBVIOUS
<1>1. CASE UNCHANGED demoVars
  BY <1>1 DEF demoVars, DemoInv, DemoShape, ClaimedIsThere, OwnedWasClaimed, RunsAreCounted, RunsOf,
              Flights, FlightsOf, NothingDangles, ClaimedIsKept
<1>2. ASSUME NEW q \in Calls, FoundEmpty(q) PROVE DemoInv'
  <2>1. call[q] # NoCall
    BY <1>2 DEF FoundEmpty, NoCall
  <2> QED BY <1>2, <2>1, TakingKeeps DEF FoundEmpty
<1> QED
  BY <1>1, <1>2, BeginKeeps, ResumingKeeps, FinishingKeeps, TriagingKeeps, ClaimingKeeps, EraKeeps,
     SweepKeeps, RestartKeeps DEF DemoNext

(* What is somebody's stays theirs through every step. *)
LEMMA OwnersStep ==
  DemoInv /\ [DemoNext]_demoVars =>
    \/ UNCHANGED demoVars
    \/ /\ \A j \in DOMAIN postings : postings[j].owner # Nobody => postings'[j].owner = postings[j].owner
       /\ \A p \in DOMAIN pools : pools[p].owner # Nobody => pools'[p].owner = pools[p].owner
<1> SUFFICES ASSUME DemoInv, DemoNext
             PROVE  /\ \A j \in DOMAIN postings : postings[j].owner # Nobody => postings'[j].owner = postings[j].owner
                    /\ \A p \in DOMAIN pools : pools[p].owner # Nobody => pools'[p].owner = pools[p].owner
  OBVIOUS
<1>1. DemoShape /\ postings \in Seq(Posting) /\ pools \in Seq(PoolRow(Len(postings)))
  BY DEF DemoInv, DemoShape
<1>2. ASSUME NEW e, postings' = Append(postings, e)
      PROVE  \A j \in DOMAIN postings : postings'[j] = postings[j]
  BY <1>1, <1>2
<1>3. ASSUME NEW e, pools' = Append(pools, e)
      PROVE  \A p \in DOMAIN pools : pools'[p] = pools[p]
  BY <1>1, <1>3
<1>4. ASSUME NEW q \in Calls, NEW v \in Visitors, BeginDemo(q, v)
      PROVE  (\A j \in DOMAIN postings : postings'[j] = postings[j]) /\ UNCHANGED pools
  BY <1>2, <1>4 DEF BeginDemo
<1>5. ASSUME NEW q \in Calls, BeginJudging(q) \/ FoundEmpty(q)
      PROVE  (\A p \in DOMAIN pools : pools'[p] = pools[p]) /\ UNCHANGED postings
  BY <1>3, <1>5 DEF BeginJudging, FoundEmpty, TakeSession
<1>6. ASSUME UNCHANGED <<postings, pools>>
      PROVE  /\ \A j \in DOMAIN postings : postings[j].owner # Nobody => postings'[j].owner = postings[j].owner
             /\ \A p \in DOMAIN pools : pools[p].owner # Nobody => pools'[p].owner = pools[p].owner
  BY <1>6
<1>7. ASSUME NEW v \in Visitors, NEW i \in DOMAIN stored, Claim(v, i)
      PROVE  /\ \A j \in DOMAIN postings : postings[j].owner # Nobody => postings'[j].owner = postings[j].owner
             /\ \A p \in DOMAIN pools : pools[p].owner # Nobody => pools'[p].owner = pools[p].owner
  <2>1. PICK r : r = stored[i].pool
    OBVIOUS
  <2>2. PICK k : k = pools[r].job
    OBVIOUS
  <2>3. /\ postings' = [postings EXCEPT ![k].owner = TakenOver(@, v)]
        /\ pools' = [pools EXCEPT ![r].owner = TakenOver(@, v)]
    BY <1>7, <2>1, <2>2 DEF Claim, JobAndSession
  <2>4. (\A j \in DOMAIN postings : postings[j] \in Posting) /\ \A p \in DOMAIN pools : pools[p] \in PoolRow(Len(postings))
    BY <1>1, DemoRows
  <2>5. \A j \in DOMAIN postings : postings[j].owner # Nobody => postings'[j].owner = postings[j].owner
    BY <2>3, <2>4 DEF TakenOver, Posting
  <2>6. \A p \in DOMAIN pools : pools[p].owner # Nobody => pools'[p].owner = pools[p].owner
    BY <2>3, <2>4 DEF TakenOver, PoolRow
  <2> QED BY <2>5, <2>6
<1>8. ASSUME EraPasses
      PROVE  /\ \A j \in DOMAIN postings : postings'[j].owner = postings[j].owner
             /\ \A p \in DOMAIN pools : pools'[p].owner = pools[p].owner
  <2>1. (\A j \in DOMAIN postings : postings[j] \in Posting) /\ \A p \in DOMAIN pools : pools[p] \in PoolRow(Len(postings))
    BY <1>1, DemoRows
  <2> QED BY <1>8, <2>1 DEF EraPasses, Posting, PoolRow
<1>9. ASSUME NEW q \in Calls, FinishDemo(q) PROVE UNCHANGED <<postings, pools>>
  BY <1>9 DEF FinishDemo
<1>10. ASSUME NEW v \in Visitors, RunTriage(v) PROVE UNCHANGED <<postings, pools>>
  BY <1>10 DEF RunTriage
<1>11. ASSUME DemoRestart PROVE UNCHANGED <<postings, pools>>
  BY <1>11 DEF DemoRestart
<1> QED
  BY <1>4, <1>5, <1>6, <1>7, <1>8, <1>9, <1>10, <1>11, SweepKeeps DEF DemoNext

(* The demo's runs, sessions and claims are in order for any number of visitors and
   searches in flight: the allowance bends by what is in flight and no more, nothing
   points at what the sweep removed, and what was claimed stays whose it is
   (recentSearchCount, claimPublicSearch, sweepAnonymousDemoArtefacts). *)
THEOREM DemoStaysSound == DemoSpec => DemoIsSound
<1>1. DemoInv => DemoTypeOK /\ AllowanceBends /\ NothingDangles /\ ClaimedIsKept
  <2> SUFFICES ASSUME DemoInv PROVE DemoTypeOK /\ AllowanceBends
    BY DEF DemoInv
  <2>1. DemoShape /\ ClaimedIsThere /\ RunsAreCounted
    BY DEF DemoInv
  <2>2. AllowanceBends
    <3> SUFFICES ASSUME NEW v \in Visitors PROVE Cardinality(RunsOf(v)) <= Allowance + Cardinality(Calls)
      BY DEF AllowanceBends
    <3>1. Cardinality(RunsOf(v)) + Cardinality(FlightsOf(v)) <= Allowance + Cardinality(Calls)
      BY <2>1 DEF RunsAreCounted
    <3>2. Cardinality(RunsOf(v)) \in Nat /\ Cardinality(FlightsOf(v)) \in Nat
      BY <2>1, RunCounts
    <3> QED BY <3>1, <3>2, FlightCounts
  <2>3. Len(stored) <= MaxRuns + Cardinality(Calls)
    <3>1. Len(stored) \in Nat /\ Len(stored) + Cardinality(Flights) <= MaxRuns + Cardinality(Calls)
      BY <2>1, DemoRows DEF RunsAreCounted
    <3> QED BY <3>1, FlightCounts
  <2>4. \A j \in DOMAIN postings : postings[j] \in [owner : Owners, age : Ages, there : BOOLEAN]
    BY <2>1, DemoRows DEF Posting
  <2>5. \A p \in DOMAIN pools :
          pools[p] \in [owner : Owners, job : DOMAIN postings, age : Ages, there : BOOLEAN]
    BY <2>1, DemoRows DEF PoolRow
  <2>6. \A i \in DOMAIN stored :
          /\ stored[i].by \in Visitors /\ stored[i].claimed \in Owners /\ stored[i].age \in Ages
          /\ stored[i].pool \in 0..Len(pools)
          /\ stored[i].claimed # Nobody => stored[i].there
    BY <2>1, DemoRows DEF StoredRow, ClaimedIsThere
  <2> QED BY <2>2, <2>3, <2>4, <2>5, <2>6 DEF DemoTypeOK
<1>2. DemoInv /\ [DemoNext]_demoVars =>
        [/\ \A j \in DOMAIN postings : postings[j].owner # Nobody => postings'[j].owner = postings[j].owner
         /\ \A p \in DOMAIN pools : pools[p].owner # Nobody => pools'[p].owner = pools[p].owner]_demoVars
  BY OwnersStep
<1> QED
  BY <1>1, <1>2, DemoInvInit, DemoInvStep, PTL DEF DemoSpec, DemoIsSound, OwnersStay

-----------------------------------------------------------------------------
(* The prepaid capacity.  What is known of one session is a fact about its   *)
(* row, the CVs in no delivery, its deliveries and its history; what a seat   *)
(* drew covers what is outstanding of it over all sessions.                  *)

Slots == 1..MaxDrops

SessionRow == [there : BOOLEAN, paid : BOOLEAN, failed : BOOLEAN, charged : Nat,
               refunded : Nat, payer : Seats \union {Null}, by : Seats]

ChargedOf(ps) == [d \in Slots |-> IF d \in DOMAIN ps THEN ps[d].charged ELSE 0]
RefundedOf(ps) == [d \in Slots |-> IF d \in DOMAIN ps THEN ps[d].refunded ELSE 0]
OutOf(ps, s) == [d \in Slots |-> IF d \in DOMAIN ps /\ ps[d].payer = s
                                 THEN ps[d].charged - ps[d].refunded ELSE 0]

(* What seat s paid for in a session and did not get back. *)
Outstanding(r, ps, s) ==
    IF Paid(ps) # {} THEN TotalOver(OutOf(ps, s), Slots)
    ELSE IF r.payer = s THEN r.charged - r.refunded ELSE 0

RowIsRight(r, led) ==
    /\ r \in SessionRow /\ led \in Nat /\ r.refunded <= r.charged
    /\ r.paid => r.there /\ r.charged > 0
    /\ ~r.paid => r.charged = 0
    /\ r.there => r.charged - r.refunded = led

PileIsRight(p) ==
    /\ p \in Delivery
    /\ p.paid => p.charged = p.cvs /\ p.refunded <= p.charged
    /\ ~p.paid => p.charged = 0 /\ p.refunded = 0

PilesAreRight(ps) ==
    /\ DOMAIN ps \in SUBSET Slots /\ ps = [d \in DOMAIN ps |-> ps[d]]
    /\ \A d \in DOMAIN ps : PileIsRight(ps[d])

Agree(r, l, ps, on) ==
    /\ l \in 0..MaxPile
    /\ Paid(ps) # {} => /\ r.paid /\ r.charged = TotalOver(ChargedOf(ps), Slots)
                        /\ r.refunded = TotalOver(RefundedOf(ps), Slots)
    /\ l > 0 => DOMAIN ps = {} /\ (r.paid => r.charged = l)
    /\ r.paid /\ l = 0 /\ Paid(ps) = {} => ~on /\ DOMAIN ps = {1} /\ ps[1].cvs = r.charged

Settled(r, l, ps, on, led) == RowIsRight(r, led) /\ PilesAreRight(ps) /\ Agree(r, l, ps, on)

(* The numbers of the constants, once and for all. *)
LEMMA WalletNumbers ==
  /\ IsFiniteSet(Slots) /\ Slots \subseteq Nat \ {0} /\ 1 \in Slots
  /\ IsFiniteSet(Seats) /\ Administrator \in Seats /\ Null \notin Seats /\ Null \notin Int
  /\ MaxPile \in Nat /\ MaxPile > 0 /\ MaxDrops \in Nat /\ Pack \in Nat
<1>1. /\ MaxPile \in Nat /\ MaxPile > 0 /\ MaxDrops \in Nat /\ MaxDrops > 0 /\ Pack \in Nat
      /\ Null \notin Int /\ Null \notin Seats /\ IsFiniteSet(Staff)
  BY WalletAssumption DEF Seats
<1>2. IsFiniteSet(1..MaxDrops)
  BY <1>1, FS_Interval
<1>3. IsFiniteSet(Seats)
  BY <1>1, FS_AddElement DEF Seats
<1> QED
  BY <1>1, <1>2, <1>3 DEF Slots, Seats

(* The terms of the sums are numbers. *)
LEMMA TermsAreNumbers ==
  ASSUME NEW ps, PilesAreRight(ps)
  PROVE  /\ ChargedOf(ps) \in [Slots -> Int] /\ RefundedOf(ps) \in [Slots -> Int]
         /\ \A d \in Slots : 0 <= RefundedOf(ps)[d] /\ RefundedOf(ps)[d] <= ChargedOf(ps)[d]
         /\ TotalOver(ChargedOf(ps), Slots) \in Nat /\ TotalOver(RefundedOf(ps), Slots) \in Nat
         /\ TotalOver(RefundedOf(ps), Slots) <= TotalOver(ChargedOf(ps), Slots)
<1>1. /\ ChargedOf(ps) \in [Slots -> Int] /\ RefundedOf(ps) \in [Slots -> Int]
      /\ \A d \in Slots : 0 <= RefundedOf(ps)[d] /\ RefundedOf(ps)[d] <= ChargedOf(ps)[d]
  <2> SUFFICES ASSUME NEW d \in Slots
               PROVE  /\ ChargedOf(ps)[d] \in Int /\ RefundedOf(ps)[d] \in Int
                      /\ 0 <= RefundedOf(ps)[d] /\ RefundedOf(ps)[d] <= ChargedOf(ps)[d]
    BY DEF ChargedOf, RefundedOf
  <2>1. CASE d \in DOMAIN ps
    <3>1. PICK p : p = ps[d] /\ PileIsRight(p)
      BY <2>1 DEF PilesAreRight
    <3>2. p.charged \in Nat /\ p.refunded \in Nat /\ p.refunded <= p.charged
      BY <3>1 DEF PileIsRight, Delivery
    <3> QED BY <2>1, <3>1, <3>2 DEF ChargedOf, RefundedOf
  <2>2. CASE d \notin DOMAIN ps
    BY <2>2 DEF ChargedOf, RefundedOf
  <2> QED BY <2>1, <2>2
<1>2. /\ TotalOver(ChargedOf(ps), Slots) \in Int /\ TotalOver(RefundedOf(ps), Slots) \in Int
      /\ TotalOver(RefundedOf(ps), Slots) <= TotalOver(ChargedOf(ps), Slots)
  BY <1>1, WalletNumbers, TotalType, TotalIsMonotone
<1>3. 0 <= TotalOver(RefundedOf(ps), Slots)
  BY <1>1, WalletNumbers, TermIsWithin
<1> QED
  BY <1>1, <1>2, <1>3

LEMMA OutsAreNumbers ==
  ASSUME NEW ps, PilesAreRight(ps), NEW s
  PROVE  /\ OutOf(ps, s) \in [Slots -> Int] /\ \A d \in Slots : 0 <= OutOf(ps, s)[d]
         /\ TotalOver(OutOf(ps, s), Slots) \in Nat
<1>1. OutOf(ps, s) \in [Slots -> Int] /\ \A d \in Slots : 0 <= OutOf(ps, s)[d]
  <2> SUFFICES ASSUME NEW d \in Slots PROVE OutOf(ps, s)[d] \in Int /\ 0 <= OutOf(ps, s)[d]
    BY DEF OutOf
  <2>1. CASE d \in DOMAIN ps
    <3>1. PICK p : p = ps[d] /\ PileIsRight(p)
      BY <2>1 DEF PilesAreRight
    <3>2. p.charged \in Nat /\ p.refunded \in Nat /\ p.refunded <= p.charged
      BY <3>1 DEF PileIsRight, Delivery
    <3> QED BY <2>1, <3>1, <3>2 DEF OutOf
  <2>2. CASE d \notin DOMAIN ps
    BY <2>2 DEF OutOf
  <2> QED BY <2>1, <2>2
<1>2. TotalOver(OutOf(ps, s), Slots) \in Int /\ 0 <= TotalOver(OutOf(ps, s), Slots)
  BY <1>1, WalletNumbers, TotalType, TermIsWithin
<1> QED
  BY <1>1, <1>2

(* Deliveries that nobody paid for owe nothing. *)
LEMMA NothingPaid ==
  ASSUME NEW ps, PilesAreRight(ps), Paid(ps) = {}
  PROVE  /\ TotalOver(ChargedOf(ps), Slots) = 0 /\ TotalOver(RefundedOf(ps), Slots) = 0
         /\ \A s : TotalOver(OutOf(ps, s), Slots) = 0
<1>1. \A d \in DOMAIN ps : ps[d].charged = 0 /\ ps[d].refunded = 0
  BY DEF PilesAreRight, PileIsRight, Paid
<1>2. \A d \in Slots : ChargedOf(ps)[d] = 0 /\ RefundedOf(ps)[d] = 0
  BY <1>1 DEF ChargedOf, RefundedOf
<1>3. TotalOver(ChargedOf(ps), Slots) = 0 /\ TotalOver(RefundedOf(ps), Slots) = 0
  BY <1>2, TermsAreNumbers, WalletNumbers, TotalOfZeros
<1>4. ASSUME NEW s PROVE TotalOver(OutOf(ps, s), Slots) = 0
  <2>1. \A d \in Slots : OutOf(ps, s)[d] = 0
    BY <1>1 DEF OutOf
  <2> QED BY <2>1, OutsAreNumbers, WalletNumbers, TotalOfZeros
<1> QED
  BY <1>3, <1>4

(* In a session whose charge is on its deliveries, or that has none, the    *)
(* sums are the sums over its deliveries.                                  *)
LEMMA SumsHold ==
  ASSUME NEW r, NEW l, NEW ps, NEW on, NEW led, Settled(r, l, ps, on, led),
         r.paid => Paid(ps) # {}
  PROVE  /\ r.charged = TotalOver(ChargedOf(ps), Slots)
         /\ r.refunded = TotalOver(RefundedOf(ps), Slots)
         /\ \A s \in Seats : Outstanding(r, ps, s) = TotalOver(OutOf(ps, s), Slots)
<1>1. CASE Paid(ps) # {}
  BY <1>1 DEF Settled, Agree, Outstanding
<1>2. CASE Paid(ps) = {}
  <2>1. ~r.paid /\ PilesAreRight(ps)
    BY <1>2 DEF Settled
  <2>2. r.charged = 0 /\ r.refunded = 0
    BY <2>1 DEF Settled, RowIsRight, SessionRow
  <2> QED BY <1>2, <2>1, <2>2, NothingPaid DEF Outstanding
<1> QED
  BY <1>1, <1>2

LEMMA OutstandingIsNatural ==
  ASSUME NEW r, NEW l, NEW ps, NEW on, NEW led, Settled(r, l, ps, on, led), NEW s
  PROVE  Outstanding(r, ps, s) \in Nat
<1>1. PilesAreRight(ps) /\ r.charged \in Nat /\ r.refunded \in Nat /\ r.refunded <= r.charged
  BY DEF Settled, RowIsRight, SessionRow
<1>2. TotalOver(OutOf(ps, s), Slots) \in Nat
  BY <1>1, OutsAreNumbers
<1> QED
  BY <1>1, <1>2 DEF Outstanding

-----------------------------------------------------------------------------
(* One delivery that takes over the charge of its session.                  *)
TakesCharge(p, r) ==
    /\ p \in Delivery /\ p.paid /\ p.cvs = r.charged /\ p.charged = r.charged
    /\ p.refunded = r.refunded /\ p.payer = r.payer

OnePile(ps, p) == DOMAIN ps = {1} /\ ps = [d \in DOMAIN ps |-> ps[d]] /\ ps[1] = p

LEMMA OnePileTakesTheCharge ==
  ASSUME NEW r, NEW led, RowIsRight(r, led), r.paid, NEW ps, NEW p,
         OnePile(ps, p), TakesCharge(p, r)
  PROVE  /\ Settled(r, 0, ps, TRUE, led) /\ Paid(ps) = {1}
         /\ \A s \in Seats : Outstanding(r, ps, s) = IF r.payer = s THEN r.charged - r.refunded ELSE 0
<1> USE DEF OnePile, TakesCharge
<1>1. PilesAreRight(ps)
  <2>1. PileIsRight(p)
    BY DEF PileIsRight, RowIsRight
  <2>2. DOMAIN ps \in SUBSET Slots
    BY WalletNumbers
  <2> QED BY <2>1, <2>2 DEF PilesAreRight
<1>2. Paid(ps) = {1}
  BY DEF Paid
<1>3. 1 \in Slots /\ IsFiniteSet(Slots)
  BY WalletNumbers
<1>4. r.charged \in Nat /\ r.refunded \in Nat
  BY DEF RowIsRight, SessionRow
<1>5. TotalOver(ChargedOf(ps), Slots) = r.charged
  <2>1. ChargedOf(ps)[1] = r.charged /\ \A d \in Slots \ {1} : ChargedOf(ps)[d] = 0
    BY <1>3 DEF ChargedOf
  <2>2. ChargedOf(ps) \in [Slots -> Int]
    BY <1>1, TermsAreNumbers
  <2> QED BY <1>3, <2>1, <2>2, TotalOfOneTerm
<1>6. TotalOver(RefundedOf(ps), Slots) = r.refunded
  <2>1. RefundedOf(ps)[1] = r.refunded /\ \A d \in Slots \ {1} : RefundedOf(ps)[d] = 0
    BY <1>3 DEF RefundedOf
  <2>2. RefundedOf(ps) \in [Slots -> Int]
    BY <1>1, TermsAreNumbers
  <2> QED BY <1>3, <2>1, <2>2, TotalOfOneTerm
<1>7. ASSUME NEW s \in Seats
      PROVE  Outstanding(r, ps, s) = IF r.payer = s THEN r.charged - r.refunded ELSE 0
  <2>1. /\ OutOf(ps, s)[1] = IF r.payer = s THEN r.charged - r.refunded ELSE 0
        /\ \A d \in Slots \ {1} : OutOf(ps, s)[d] = 0
    BY <1>3 DEF OutOf
  <2>2. OutOf(ps, s) \in [Slots -> Int]
    BY <1>1, OutsAreNumbers
  <2>3. TotalOver(OutOf(ps, s), Slots) = OutOf(ps, s)[1]
    BY <1>3, <2>1, <2>2, TotalOfOneTerm
  <2> QED BY <1>2, <2>1, <2>3 DEF Outstanding
<1>8. Agree(r, 0, ps, TRUE)
  BY <1>2, <1>5, <1>6, WalletNumbers DEF Agree
<1> QED
  BY <1>1, <1>2, <1>7, <1>8 DEF Settled

(* The first delivery of a session that had none is number one. *)
LEMMA FirstDrop ==
  ASSUME NEW ps, DOMAIN ps = {}
  PROVE  NextDrop(ps) = 1
<1>1. PICK z : z = DOMAIN ps \union {0}
  OBVIOUS
<1>2. z = {0} /\ z \subseteq Int /\ z # {}
  BY <1>1
<1>3. IsFiniteSet(z)
  BY <1>2, FS_Singleton
<1>4. Max(z) \in z
  BY <1>2, <1>3, MaxIsGreatest
<1> QED
  BY <1>1, <1>2, <1>4 DEF NextDrop

(* A number that no delivery has. *)
LEMMA NextDropIsFree ==
  ASSUME NEW ps, DOMAIN ps \in SUBSET Slots
  PROVE  NextDrop(ps) \in Nat \ {0} /\ NextDrop(ps) \notin DOMAIN ps
<1>1. PICK D : D = DOMAIN ps
  OBVIOUS
<1>2. PICK z : z = D \union {0}
  OBVIOUS
<1>3. IsFiniteSet(D) /\ D \subseteq Slots
  BY <1>1, WalletNumbers, FS_Subset
<1>4. IsFiniteSet(z)
  BY <1>2, <1>3, FS_AddElement
<1>5. z \subseteq Int /\ z # {} /\ z \subseteq Nat
  BY <1>2, <1>3, WalletNumbers
<1>6. z \subseteq Int /\ z # {} /\ IsFiniteSet(z) /\ z \subseteq Nat
  BY <1>4, <1>5
<1>7. Max(z) \in z /\ \A n \in z : n <= Max(z)
  BY <1>6, MaxIsGreatest
<1>8. NextDrop(ps) = Max(z) + 1
  BY <1>1, <1>2 DEF NextDrop
<1>9. \A n \in DOMAIN ps : n <= Max(z)
  BY <1>1, <1>2, <1>7
<1>10. Max(z) \in Nat
  BY <1>6, <1>7
<1> QED
  BY <1>6, <1>8, <1>9, <1>10, WalletNumbers

(* CVs in no delivery get one, which takes over what was charged for them. *)
LEMMA EnsuredIsSettled ==
  ASSUME NEW t \in Triages, Settled(row[t], loose[t], drops[t], TRUE, ledger[t])
  PROVE  /\ Settled(row[t], 0, Ensured(t), TRUE, ledger[t])
         /\ row[t].paid => Paid(Ensured(t)) # {}
         /\ ~row[t].paid => Paid(Ensured(t)) = {}
         /\ \A s \in Seats : Outstanding(row[t], Ensured(t), s) = Outstanding(row[t], drops[t], s)
         /\ \A d \in DOMAIN drops[t] : d \in DOMAIN Ensured(t) /\ Ensured(t)[d] = drops[t][d]
         /\ \A d \in DOMAIN Ensured(t) :
              d \in DOMAIN drops[t] \/ (Ensured(t)[d].payer \in {row[t].payer, Null} /\ loose[t] > 0)
<1> SUFFICES ASSUME NEW r, r = row[t], NEW l, l = loose[t], NEW ps, ps = drops[t],
                    NEW led, led = ledger[t], Settled(r, l, ps, TRUE, led),
                    NEW qs, qs = Ensured(t)
             PROVE  /\ Settled(r, 0, qs, TRUE, led)
                    /\ r.paid => Paid(qs) # {}
                    /\ ~r.paid => Paid(qs) = {}
                    /\ \A s \in Seats : Outstanding(r, qs, s) = Outstanding(r, ps, s)
                    /\ \A d \in DOMAIN ps : d \in DOMAIN qs /\ qs[d] = ps[d]
                    /\ \A d \in DOMAIN qs : d \in DOMAIN ps \/ (qs[d].payer \in {r.payer, Null} /\ l > 0)
  OBVIOUS
<1>1. RowIsRight(r, led) /\ PilesAreRight(ps) /\ Agree(r, l, ps, TRUE) /\ l \in 0..MaxPile
  BY DEF Settled, Agree
<1>2. CASE l = 0
  <2>1. qs = ps
    BY <1>2 DEF Ensured
  <2>2. r.paid => Paid(ps) # {}
    BY <1>1, <1>2 DEF Agree
  <2>3. ~r.paid => Paid(ps) = {}
    BY <1>1 DEF Agree
  <2> QED BY <1>2, <2>1, <2>2, <2>3
<1>3. CASE l # 0
  <2>1. l > 0 /\ DOMAIN ps = {} /\ (r.paid => r.charged = l) /\ l \in 1..MaxPile /\ Paid(ps) = {}
    BY <1>1, <1>3 DEF Agree, Paid
  <2>2. PICK first : first = [Unpaid(l, Administrator) EXCEPT !.by = Null]
    OBVIOUS
  <2>3. first = [cvs |-> l, paid |-> FALSE, charged |-> 0, refunded |-> 0, payer |-> Null, by |-> Null]
    BY <2>2 DEF Unpaid
  <2>4. PICK p : p = Adopted(t, first, ps)
    OBVIOUS
  <2>5. qs = [d \in {1} |-> p]
    <3>1. NextDrop(ps) = 1
      BY <2>1, FirstDrop
    <3>2. qs = [d \in DOMAIN ps \union {NextDrop(ps)} |-> IF d \in DOMAIN ps THEN ps[d] ELSE p]
      BY <1>3, <2>2, <2>4 DEF Ensured
    <3> QED BY <2>1, <3>1, <3>2
  <2>6. DOMAIN qs = {1} /\ qs = [d \in DOMAIN qs |-> qs[d]] /\ qs[1] = p
    BY <2>5
  <2>7. CASE r.paid
    <3>1. r.charged > 0 /\ r.charged = l
      BY <1>1, <2>1, <2>7 DEF RowIsRight
    <3>2. p = [first EXCEPT !.paid = TRUE, !.charged = r.charged,
                            !.refunded = r.refunded, !.payer = r.payer]
      BY <2>1, <2>4, <2>7, <3>1 DEF Adopted
    <3>3. p = [cvs |-> l, paid |-> TRUE, charged |-> r.charged, refunded |-> r.refunded,
               payer |-> r.payer, by |-> Null]
      BY <2>3, <3>2
    <3>4. r.charged \in Nat /\ r.refunded \in Nat /\ r.payer \in Seats \union {Null}
      BY <1>1 DEF RowIsRight, SessionRow
    <3>5. p \in Delivery
      BY <1>1, <3>3, <3>4 DEF Delivery
    <3>6. /\ Settled(r, 0, qs, TRUE, led) /\ Paid(qs) = {1}
          /\ \A s \in Seats : Outstanding(r, qs, s) = IF r.payer = s THEN r.charged - r.refunded ELSE 0
      <4>1. TakesCharge(p, r)
        BY <3>1, <3>3, <3>5 DEF TakesCharge
      <4>2. OnePile(qs, p)
        BY <2>6 DEF OnePile
      <4> QED BY <1>1, <2>7, <4>1, <4>2, OnePileTakesTheCharge
    <3>7. \A s : Outstanding(r, ps, s) = IF r.payer = s THEN r.charged - r.refunded ELSE 0
      BY <2>1 DEF Outstanding
    <3>8. qs[1].payer = r.payer
      BY <2>6, <3>3
    <3> QED BY <2>1, <2>6, <2>7, <3>6, <3>7, <3>8
  <2>8. CASE ~r.paid
    <3>1. p = first
      BY <2>4, <2>8 DEF Adopted
    <3>2. p \in Delivery /\ ~p.paid /\ p.charged = 0 /\ p.refunded = 0 /\ p.payer = Null
      BY <1>1, <2>3, <3>1 DEF Delivery
    <3>3. PilesAreRight(qs) /\ Paid(qs) = {}
      <4>1. PileIsRight(p)
        BY <3>2 DEF PileIsRight
      <4>2. DOMAIN qs \in SUBSET Slots
        BY <2>6, WalletNumbers
      <4> QED BY <2>6, <3>2, <4>1, <4>2 DEF PilesAreRight, Paid
    <3>4. Agree(r, 0, qs, TRUE)
      BY <2>8, <3>3, WalletNumbers DEF Agree
    <3>5. \A s : Outstanding(r, qs, s) = Outstanding(r, ps, s)
      BY <2>1, <3>3 DEF Outstanding
    <3> QED BY <1>1, <2>1, <2>6, <2>8, <3>2, <3>3, <3>4, <3>5 DEF Settled
  <2> QED BY <2>7, <2>8
<1> QED
  BY <1>2, <1>3

(* The boot does the same for a delivery that does not know of its charge. *)
LEMMA AttributedIsSettled ==
  ASSUME NEW t \in Triages, Settled(row[t], loose[t], drops[t], FALSE, ledger[t])
  PROVE  /\ Settled(row[t], loose[t], Attributed(t), TRUE, ledger[t])
         /\ \A s \in Seats : Outstanding(row[t], Attributed(t), s) = Outstanding(row[t], drops[t], s)
         /\ DOMAIN Attributed(t) = DOMAIN drops[t]
         /\ \A d \in DOMAIN drops[t] : Attributed(t)[d].payer \in {row[t].payer, drops[t][d].payer}
<1> SUFFICES ASSUME NEW r, r = row[t], NEW l, l = loose[t], NEW ps, ps = drops[t],
                    NEW led, led = ledger[t], Settled(r, l, ps, FALSE, led),
                    NEW qs, qs = Attributed(t)
             PROVE  /\ Settled(r, l, qs, TRUE, led)
                    /\ \A s \in Seats : Outstanding(r, qs, s) = Outstanding(r, ps, s)
                    /\ DOMAIN qs = DOMAIN ps
                    /\ \A d \in DOMAIN ps : qs[d].payer \in {r.payer, ps[d].payer}
  OBVIOUS
<1>1. RowIsRight(r, led) /\ PilesAreRight(ps) /\ Agree(r, l, ps, FALSE) /\ l \in 0..MaxPile
  BY DEF Settled, Agree
<1>2. CASE ~(r.paid /\ Paid(ps) = {})
  <2>1. qs = ps
    BY <1>2 DEF Attributed
  <2>2. Agree(r, l, ps, TRUE)
    BY <1>1, <1>2 DEF Agree
  <2> QED BY <1>1, <2>1, <2>2 DEF Settled
<1>3. CASE r.paid /\ Paid(ps) = {} /\ l > 0
  <2>1. DOMAIN ps = {}
    BY <1>1, <1>3 DEF Agree
  <2>2. DOMAIN qs = {} /\ qs = ps
    <3>1. r.charged > 0
      BY <1>1, <1>3 DEF RowIsRight
    <3>2. DOMAIN qs = DOMAIN ps
      BY DEF Attributed
    <3>3. qs = [d \in DOMAIN ps |-> IF d = Min(DOMAIN ps) THEN qs[d] ELSE ps[d]]
      BY <1>3, <3>1 DEF Attributed
    <3>4. qs = [d \in {} |-> ps[d]] /\ ps = [d \in {} |-> ps[d]]
      BY <1>1, <2>1, <3>3 DEF PilesAreRight
    <3> QED BY <2>1, <3>2, <3>4
  <2>3. Agree(r, l, ps, TRUE)
    BY <1>1, <1>3 DEF Agree
  <2> QED BY <1>1, <2>1, <2>2, <2>3 DEF Settled
<1>4. CASE r.paid /\ Paid(ps) = {} /\ l = 0
  <2>1. DOMAIN ps = {1} /\ ps[1].cvs = r.charged /\ r.charged > 0
    BY <1>1, <1>4 DEF Agree, RowIsRight
  <2>2. PICK p : p = [ps[1] EXCEPT !.paid = TRUE, !.charged = r.charged,
                                   !.refunded = r.refunded, !.payer = r.payer]
    OBVIOUS
  <2>3. ps[1] \in Delivery
    BY <1>1, <2>1 DEF PilesAreRight, PileIsRight
  <2>4. r.charged \in Nat /\ r.refunded \in Nat /\ r.payer \in Seats \union {Null}
    BY <1>1 DEF RowIsRight, SessionRow
  <2>5. /\ p \in Delivery /\ p.paid /\ p.cvs = r.charged /\ p.charged = r.charged
        /\ p.refunded = r.refunded /\ p.payer = r.payer
    BY <2>1, <2>2, <2>3, <2>4 DEF Delivery
  <2>6. Min(DOMAIN ps) = 1
    <3>1. PICK z : z = {1}
      OBVIOUS
    <3>2. z \subseteq Nat /\ z # {}
      BY <3>1
    <3>3. Min(z) \in z
      BY <3>2, MinIsLeast
    <3> QED BY <2>1, <3>1, <3>3
  <2>7. DOMAIN qs = {1} /\ qs = [d \in DOMAIN qs |-> qs[d]] /\ qs[1] = p
    <3>1. qs = [d \in DOMAIN ps |-> IF d = Min(DOMAIN ps) THEN p ELSE ps[d]]
      BY <1>4, <2>1, <2>2, <2>6 DEF Attributed
    <3> QED BY <2>1, <2>6, <3>1
  <2>8. /\ Settled(r, 0, qs, TRUE, led) /\ Paid(qs) = {1}
        /\ \A s \in Seats : Outstanding(r, qs, s) = IF r.payer = s THEN r.charged - r.refunded ELSE 0
    <3>1. TakesCharge(p, r)
      BY <2>5 DEF TakesCharge
    <3>2. OnePile(qs, p)
      BY <2>7 DEF OnePile
    <3> QED BY <1>1, <1>4, <3>1, <3>2, OnePileTakesTheCharge
  <2>9. \A s : Outstanding(r, ps, s) = IF r.payer = s THEN r.charged - r.refunded ELSE 0
    BY <1>4 DEF Outstanding
  <2> QED BY <1>4, <2>1, <2>5, <2>7, <2>8, <2>9
<1>5. l = 0 \/ l > 0
  BY <1>1, WalletNumbers
<1> QED
  BY <1>2, <1>3, <1>4, <1>5, Zenon

-----------------------------------------------------------------------------
(* What happens to the deliveries of one session.                           *)

(* Deliveries nobody paid for come and go.                                  *)
SamePaid(r, ps, qs) ==
    /\ r.paid => Paid(ps) # {}
    /\ PilesAreRight(qs) /\ Paid(qs) = Paid(ps) /\ \A d \in Paid(ps) : qs[d] = ps[d]

LEMMA UnpaidComeAndGo ==
  ASSUME NEW r, NEW led, NEW ps, Settled(r, 0, ps, TRUE, led), NEW qs, SamePaid(r, ps, qs)
  PROVE  /\ Settled(r, 0, qs, TRUE, led)
         /\ \A s \in Seats : Outstanding(r, qs, s) = Outstanding(r, ps, s)
<1> USE DEF SamePaid
<1>1. RowIsRight(r, led) /\ PilesAreRight(ps) /\ Agree(r, 0, ps, TRUE)
  BY DEF Settled
<1>2. /\ \A d \in DOMAIN ps \ Paid(ps) : ps[d].charged = 0 /\ ps[d].refunded = 0
      /\ \A d \in DOMAIN qs \ Paid(ps) : qs[d].charged = 0 /\ qs[d].refunded = 0
      /\ Paid(ps) \subseteq DOMAIN ps /\ Paid(ps) \subseteq DOMAIN qs
  BY <1>1 DEF PilesAreRight, PileIsRight, Paid
<1>3. ASSUME NEW d \in Slots
      PROVE  ChargedOf(qs)[d] = ChargedOf(ps)[d] /\ RefundedOf(qs)[d] = RefundedOf(ps)[d]
  <2>1. CASE d \in Paid(ps)
    BY <1>2, <2>1 DEF ChargedOf, RefundedOf
  <2>2. CASE d \notin Paid(ps)
    BY <1>2, <2>2 DEF ChargedOf, RefundedOf
  <2> QED BY <2>1, <2>2
<1>4. /\ TotalOver(ChargedOf(qs), Slots) = TotalOver(ChargedOf(ps), Slots)
      /\ TotalOver(RefundedOf(qs), Slots) = TotalOver(RefundedOf(ps), Slots)
  <2>1. /\ ChargedOf(ps) \in [Slots -> Int] /\ RefundedOf(ps) \in [Slots -> Int]
        /\ ChargedOf(qs) \in [Slots -> Int] /\ RefundedOf(qs) \in [Slots -> Int]
    BY <1>1, TermsAreNumbers
  <2> QED BY <1>3, <2>1, WalletNumbers, TotalOfEquals
<1>5. ASSUME NEW s \in Seats PROVE TotalOver(OutOf(qs, s), Slots) = TotalOver(OutOf(ps, s), Slots)
  <2>1. ASSUME NEW d \in Slots PROVE OutOf(qs, s)[d] = OutOf(ps, s)[d]
    <3>1. CASE d \in Paid(ps)
      BY <1>2, <3>1 DEF OutOf
    <3>2. CASE d \notin Paid(ps)
      BY <1>2, <3>2 DEF OutOf
    <3> QED BY <3>1, <3>2
  <2>2. OutOf(ps, s) \in [Slots -> Int] /\ OutOf(qs, s) \in [Slots -> Int]
    BY <1>1, OutsAreNumbers
  <2> QED BY <2>1, <2>2, WalletNumbers, TotalOfEquals
<1>6. \A s \in Seats : Outstanding(r, qs, s) = Outstanding(r, ps, s)
  BY <1>5 DEF Outstanding
<1>7. Agree(r, 0, qs, TRUE)
  BY <1>1, <1>4 DEF Agree
<1> QED
  BY <1>1, <1>6, <1>7 DEF Settled

(* Some deliveries are charged to a seat, each for its size.                *)
ChargedPiles(ps, unpaid, s) ==
    [d \in DOMAIN ps |->
        IF d \in unpaid THEN [ps[d] EXCEPT !.paid = TRUE, !.charged = ps[d].cvs, !.payer = s]
        ELSE ps[d]]

ChargedRow(r, n, s) ==
    [r EXCEPT !.charged = r.charged + n, !.paid = TRUE, !.payer = IF r.paid THEN r.payer ELSE s]

(* What a charge finds: `g` has the size of each delivery that it charges, n in
   all, and `after` is what the history says next. *)
ToCharge(r, led, ps, unpaid, g, n, after) ==
    /\ Settled(r, 0, ps, TRUE, led) /\ r.there
    /\ r.paid => Paid(ps) # {}
    /\ unpaid # {} /\ unpaid \subseteq DOMAIN ps \ Paid(ps)
    /\ \A d \in unpaid : ps[d].cvs > 0
    /\ g \in [Slots -> Int] /\ \A d \in Slots : g[d] = IF d \in unpaid THEN ps[d].cvs ELSE 0
    /\ n = TotalOver(g, Slots) /\ after = led + n

(* All that changes of what is outstanding is what seat s drew. *)
OwesMore(r, ps, b, qs, s, n) ==
    \A x \in Seats : Outstanding(b, qs, x) = Outstanding(r, ps, x) + (IF x = s THEN n ELSE 0)

LEMMA ChargingSettles ==
  ASSUME NEW r, NEW led, NEW ps, NEW unpaid, NEW g, NEW n, NEW after,
         ToCharge(r, led, ps, unpaid, g, n, after), NEW s \in Seats
  PROVE  /\ n \in Nat /\ n > 0
         /\ Settled(ChargedRow(r, n, s), 0, ChargedPiles(ps, unpaid, s), TRUE, after)
         /\ OwesMore(r, ps, ChargedRow(r, n, s), ChargedPiles(ps, unpaid, s), s, n)
<1> SUFFICES ASSUME NEW qs, qs = ChargedPiles(ps, unpaid, s),
                    NEW b, b = ChargedRow(r, n, s)
             PROVE  /\ n \in Nat /\ n > 0
                    /\ Settled(b, 0, qs, TRUE, after)
                    /\ \A x \in Seats : Outstanding(b, qs, x) = Outstanding(r, ps, x) + (IF x = s THEN n ELSE 0)
  BY DEF OwesMore
<1>1. /\ Settled(r, 0, ps, TRUE, led) /\ r.there /\ (r.paid => Paid(ps) # {})
      /\ unpaid # {} /\ unpaid \subseteq DOMAIN ps \ Paid(ps)
      /\ \A d \in unpaid : ps[d].cvs > 0
      /\ g \in [Slots -> Int] /\ \A d \in Slots : g[d] = IF d \in unpaid THEN ps[d].cvs ELSE 0
      /\ n = TotalOver(g, Slots) /\ after = led + n
  BY DEF ToCharge
<1> USE <1>1
<1>2. /\ RowIsRight(r, led) /\ PilesAreRight(ps) /\ Agree(r, 0, ps, TRUE)
      /\ IsFiniteSet(Slots) /\ DOMAIN ps \subseteq Slots
  BY WalletNumbers DEF Settled, PilesAreRight
<1>3. ASSUME NEW d \in unpaid
      PROVE  /\ ps[d].cvs \in Nat /\ ps[d].cvs > 0 /\ ps[d].charged = 0 /\ ps[d].refunded = 0
             /\ qs[d] \in Delivery /\ qs[d].paid /\ qs[d].charged = ps[d].cvs /\ qs[d].cvs = ps[d].cvs
             /\ qs[d].refunded = 0 /\ qs[d].payer = s /\ d \in Slots /\ d \in DOMAIN ps
  <2>1. PICK p : p = ps[d] /\ PileIsRight(p) /\ ~p.paid
    BY <1>2 DEF PilesAreRight, Paid
  <2>2. p.cvs \in 0..MaxPile /\ p.cvs > 0 /\ p.charged = 0 /\ p.refunded = 0 /\ p \in Delivery
    BY <2>1 DEF PileIsRight, Delivery
  <2>3. qs[d] = [p EXCEPT !.paid = TRUE, !.charged = p.cvs, !.payer = s]
    BY <2>1 DEF ChargedPiles
  <2>4. p.cvs \in Nat
    BY <2>2, WalletNumbers
  <2>5. /\ qs[d] \in Delivery /\ qs[d].paid /\ qs[d].charged = p.cvs /\ qs[d].cvs = p.cvs
        /\ qs[d].refunded = 0 /\ qs[d].payer = s
    BY <2>2, <2>3, <2>4, ZenonT(60) DEF Delivery
  <2> QED BY <1>2, <2>1, <2>2, <2>4, <2>5
<1>4. \A d \in DOMAIN ps \ unpaid : qs[d] = ps[d]
  BY DEF ChargedPiles
<1>5. DOMAIN qs = DOMAIN ps /\ qs = [d \in DOMAIN qs |-> qs[d]]
  BY DEF ChargedPiles
<1>6. PilesAreRight(qs)
  <2>1. \A d \in unpaid : PileIsRight(qs[d])
    BY <1>3 DEF PileIsRight
  <2>2. \A d \in DOMAIN qs : PileIsRight(qs[d])
    BY <1>2, <1>4, <1>5, <2>1 DEF PilesAreRight
  <2> QED BY <1>2, <1>5, <2>2 DEF PilesAreRight
<1>7. Paid(qs) # {}
  BY <1>3, <1>5 DEF Paid
<1>8. n \in Nat /\ n > 0
  <2>1. \A d \in Slots : 0 <= g[d]
    BY <1>3
  <2>2. TotalOver(g, Slots) \in Int /\ 0 <= TotalOver(g, Slots)
    BY <1>2, <2>1, TotalType, TermIsWithin
  <2>3. PICK d \in unpaid : TRUE
    OBVIOUS
  <2>4. g[d] > 0 /\ d \in Slots /\ g[d] \in Nat
    BY <1>3, <2>3
  <2>5. g[d] <= TotalOver(g, Slots)
    BY <1>2, <2>1, <2>4, TermIsWithin
  <2> QED BY <2>2, <2>4, <2>5
<1>9. /\ ChargedOf(ps) \in [Slots -> Int] /\ RefundedOf(ps) \in [Slots -> Int]
      /\ ChargedOf(qs) \in [Slots -> Int] /\ RefundedOf(qs) \in [Slots -> Int]
  BY <1>2, <1>6, TermsAreNumbers
<1>10. ASSUME NEW d \in Slots
      PROVE  /\ ChargedOf(qs)[d] = ChargedOf(ps)[d] + g[d]
             /\ RefundedOf(qs)[d] = RefundedOf(ps)[d]
  <2>1. CASE d \in unpaid
    <3>1. ChargedOf(ps)[d] = 0 /\ RefundedOf(ps)[d] = 0
      BY <1>3, <2>1 DEF ChargedOf, RefundedOf
    <3>2. ChargedOf(qs)[d] = ps[d].cvs /\ RefundedOf(qs)[d] = 0
      BY <1>3, <1>5, <2>1 DEF ChargedOf, RefundedOf
    <3> QED BY <1>3, <2>1, <3>1, <3>2
  <2>2. CASE d \notin unpaid
    <3>1. ChargedOf(qs)[d] = ChargedOf(ps)[d] /\ RefundedOf(qs)[d] = RefundedOf(ps)[d]
      BY <1>4, <1>5, <2>2 DEF ChargedOf, RefundedOf
    <3>2. g[d] = 0 /\ ChargedOf(ps)[d] \in Int
      BY <1>9, <2>2
    <3> QED BY <3>1, <3>2
  <2> QED BY <2>1, <2>2
<1>11. /\ TotalOver(ChargedOf(qs), Slots) = TotalOver(ChargedOf(ps), Slots) + n
       /\ TotalOver(RefundedOf(qs), Slots) = TotalOver(RefundedOf(ps), Slots)
  <2>1. TotalOver(ChargedOf(qs), Slots) = TotalOver(ChargedOf(ps), Slots) + TotalOver(g, Slots)
    <3>1. PICK old \in [Slots -> Int] : old = ChargedOf(ps)
      BY <1>9
    <3>2. PICK new \in [Slots -> Int] : new = ChargedOf(qs)
      BY <1>9
    <3>3. \A d \in Slots : new[d] = old[d] + g[d]
      BY <1>10, <3>1, <3>2
    <3>4. IsFiniteSet(Slots)
      BY <1>2
    <3>5. TotalOver(new, Slots) = TotalOver(old, Slots) + TotalOver(g, Slots)
      BY <3>3, <3>4, TotalOfTwo
    <3> QED BY <3>1, <3>2, <3>5
  <2>2. TotalOver(RefundedOf(qs), Slots) = TotalOver(RefundedOf(ps), Slots)
    BY <1>2, <1>9, <1>10, TotalOfEquals
  <2> QED BY <2>1, <2>2
<1>12. /\ r.charged = TotalOver(ChargedOf(ps), Slots) /\ r.refunded = TotalOver(RefundedOf(ps), Slots)
       /\ \A x \in Seats : Outstanding(r, ps, x) = TotalOver(OutOf(ps, x), Slots)
  BY SumsHold
<1>13. ASSUME NEW x \in Seats
       PROVE  TotalOver(OutOf(qs, x), Slots) = TotalOver(OutOf(ps, x), Slots) + (IF x = s THEN n ELSE 0)
  <2>1. OutOf(ps, x) \in [Slots -> Int] /\ OutOf(qs, x) \in [Slots -> Int]
    BY <1>2, <1>6, OutsAreNumbers
  <2>2. ASSUME NEW d \in unpaid
        PROVE  OutOf(ps, x)[d] = 0 /\ OutOf(qs, x)[d] = (IF x = s THEN g[d] ELSE 0)
    <3>1. OutOf(ps, x)[d] = 0
      BY <1>3 DEF OutOf
    <3>2. OutOf(qs, x)[d] = IF x = s THEN ps[d].cvs ELSE 0
      BY <1>3, <1>5 DEF OutOf
    <3>3. g[d] = ps[d].cvs
      BY <1>3
    <3> QED BY <3>1, <3>2, <3>3
  <2>3. \A d \in Slots \ unpaid : OutOf(qs, x)[d] = OutOf(ps, x)[d] /\ g[d] = 0
    BY <1>4, <1>5 DEF OutOf
  <2>4. CASE x = s
    <3>1. \A d \in Slots : OutOf(qs, x)[d] = OutOf(ps, x)[d] + g[d]
      BY <2>1, <2>2, <2>3, <2>4
    <3>2. TotalOver(OutOf(qs, x), Slots) = TotalOver(OutOf(ps, x), Slots) + TotalOver(g, Slots)
      BY <1>2, <2>1, <3>1, TotalOfTwo
    <3> QED BY <2>4, <3>2
  <2>5. CASE x # s
    <3>1. \A d \in Slots : OutOf(qs, x)[d] = OutOf(ps, x)[d]
      BY <2>1, <2>2, <2>3, <2>5
    <3>2. TotalOver(OutOf(qs, x), Slots) = TotalOver(OutOf(ps, x), Slots)
      BY <1>2, <2>1, <3>1, TotalOfEquals
    <3>3. TotalOver(OutOf(ps, x), Slots) \in Nat
      BY <1>2, OutsAreNumbers
    <3> QED BY <2>5, <3>2, <3>3
  <2> QED BY <2>4, <2>5
<1>14. \A x \in Seats : Outstanding(b, qs, x) = Outstanding(r, ps, x) + (IF x = s THEN n ELSE 0)
  BY <1>7, <1>12, <1>13 DEF Outstanding
<1>15. /\ r \in SessionRow /\ led \in Nat /\ r.charged \in Nat /\ r.refunded \in Nat
       /\ r.refunded <= r.charged /\ r.charged - r.refunded = led
  BY <1>2 DEF RowIsRight, SessionRow
<1>16. /\ b \in SessionRow /\ b.charged = r.charged + n /\ b.paid /\ b.there = r.there
       /\ b.refunded = r.refunded
  <2>1. PICK y \in Seats \union {Null} : y = IF r.paid THEN r.payer ELSE s
    BY <1>15 DEF SessionRow
  <2>2. PICK m \in Nat : m = r.charged + n
    BY <1>8, <1>15
  <2>3. b = [r EXCEPT !.charged = m, !.paid = TRUE, !.payer = y]
    BY <2>1, <2>2 DEF ChargedRow
  <2> QED BY <1>15, <2>2, <2>3 DEF SessionRow
<1>17. RowIsRight(b, after)
  <2>1. after \in Nat /\ b.charged - b.refunded = after
    BY <1>8, <1>15, <1>16
  <2>2. b.refunded <= b.charged /\ b.charged > 0
    BY <1>8, <1>15, <1>16
  <2> QED BY <2>1, <2>2, <1>8, <1>15, <1>16 DEF RowIsRight
<1>18. Agree(b, 0, qs, TRUE)
  BY <1>7, <1>11, <1>12, <1>16, WalletNumbers DEF Agree
<1> QED
  BY <1>6, <1>8, <1>14, <1>17, <1>18 DEF Settled

(* Part of what was charged for some deliveries goes back.                  *)
RefundedPiles(ps, owed) ==
    [d \in DOMAIN ps |->
        IF d \in DOMAIN owed THEN [ps[d] EXCEPT !.refunded = ps[d].refunded + owed[d]] ELSE ps[d]]

RefundedRow(r, n) == [r EXCEPT !.refunded = r.refunded + n]

(* What is owed of some deliveries, as terms of a sum. *)
OwedIn(owed, some) == [d \in Slots |-> IF d \in some THEN owed[d] ELSE 0]

(* What a refund finds: it gives back n in all, of `some` deliveries, and `after`
   is what the history says next. *)
ToRefund(r, l, led, ps, on, some, owed, n, after) ==
    /\ Settled(r, l, ps, on, led)
    /\ some \subseteq Paid(ps) /\ some # {}
    /\ owed \in [some -> Nat] /\ \A d \in some : owed[d] <= ps[d].charged - ps[d].refunded
    /\ n = TotalOver(OwedIn(owed, some), Slots) /\ after = led - n

LEMMA RefundSettles ==
  ASSUME NEW r, NEW l, NEW led, NEW ps, NEW on, NEW some, NEW owed, NEW n, NEW after,
         ToRefund(r, l, led, ps, on, some, owed, n, after)
  PROVE  /\ n \in Nat /\ n <= led
         /\ Settled(RefundedRow(r, n), l, RefundedPiles(ps, owed), on, after)
<1> SUFFICES ASSUME NEW qs, qs = RefundedPiles(ps, owed), NEW b, b = RefundedRow(r, n)
             PROVE  /\ n \in Nat /\ n <= led
                    /\ Settled(b, l, qs, on, after)
  OBVIOUS
<1> PICK g : g = OwedIn(owed, some)
  OBVIOUS
<1>1. /\ Settled(r, l, ps, on, led) /\ some \subseteq Paid(ps) /\ some # {}
      /\ owed \in [some -> Nat] /\ \A d \in some : owed[d] <= ps[d].charged - ps[d].refunded
      /\ g \in [Slots -> Int] /\ \A d \in Slots : g[d] = IF d \in some THEN owed[d] ELSE 0
      /\ n = TotalOver(g, Slots) /\ after = led - n
  BY DEF ToRefund, OwedIn
<1> USE <1>1
<1>2. /\ RowIsRight(r, led) /\ PilesAreRight(ps) /\ Agree(r, l, ps, on)
      /\ IsFiniteSet(Slots) /\ DOMAIN ps \subseteq Slots /\ DOMAIN owed = some
      /\ Paid(ps) \subseteq DOMAIN ps /\ Paid(ps) # {}
  BY WalletNumbers DEF Settled, PilesAreRight, Paid
<1>3. ASSUME NEW d \in some
      PROVE  /\ qs[d] \in Delivery /\ qs[d].paid /\ qs[d].charged = ps[d].charged
             /\ qs[d].cvs = ps[d].cvs /\ qs[d].charged = qs[d].cvs
             /\ qs[d].refunded = ps[d].refunded + owed[d] /\ qs[d].refunded <= qs[d].charged
             /\ qs[d].payer = ps[d].payer /\ d \in Slots /\ d \in DOMAIN ps
             /\ ps[d].charged \in Nat /\ ps[d].refunded \in Nat /\ owed[d] \in Nat
  <2>1. PICK p : p = ps[d] /\ PileIsRight(p) /\ p.paid
    BY <1>2 DEF PilesAreRight, Paid
  <2>2. p \in Delivery /\ p.charged = p.cvs /\ p.refunded <= p.charged
    BY <2>1 DEF PileIsRight
  <2>3. PICK m \in Nat : m = owed[d] /\ m <= p.charged - p.refunded
    BY <2>1
  <2>4. PICK q : q = [p EXCEPT !.refunded = p.refunded + m]
    OBVIOUS
  <2>5. /\ q \in Delivery /\ q.paid /\ q.charged = p.charged /\ q.cvs = p.cvs
        /\ q.refunded = p.refunded + m /\ q.payer = p.payer /\ q.refunded <= q.charged
        /\ p.charged \in Nat /\ p.refunded \in Nat
    BY <2>1, <2>2, <2>3, <2>4 DEF Delivery
  <2>6. qs[d] = q
    BY <1>2, <2>1, <2>3, <2>4 DEF RefundedPiles
  <2> QED BY <1>2, <2>1, <2>2, <2>3, <2>5, <2>6
<1>4. \A d \in DOMAIN ps \ some : qs[d] = ps[d]
  BY <1>2 DEF RefundedPiles
<1>5. DOMAIN qs = DOMAIN ps /\ qs = [d \in DOMAIN qs |-> qs[d]]
  BY DEF RefundedPiles
<1>6. PilesAreRight(qs)
  <2>1. \A d \in some : PileIsRight(qs[d])
    BY <1>3 DEF PileIsRight
  <2>2. \A d \in DOMAIN qs : PileIsRight(qs[d])
    BY <1>2, <1>4, <1>5, <2>1 DEF PilesAreRight
  <2> QED BY <1>2, <1>5, <2>2 DEF PilesAreRight
<1>7. Paid(qs) # {}
  BY <1>3, <1>5 DEF Paid
<1>8. n \in Nat
  <2>1. \A d \in Slots : 0 <= g[d]
    BY <1>3
  <2> QED BY <1>2, <2>1, TotalType, TermIsWithin
<1>9. PICK c0 \in [Slots -> Int] : c0 = ChargedOf(ps)
  BY <1>2, TermsAreNumbers
<1>10. PICK f0 \in [Slots -> Int] : f0 = RefundedOf(ps)
  BY <1>2, TermsAreNumbers
<1>11. PICK c1 \in [Slots -> Int] : c1 = ChargedOf(qs)
  BY <1>6, TermsAreNumbers
<1>12. PICK f1 \in [Slots -> Int] : f1 = RefundedOf(qs)
  BY <1>6, TermsAreNumbers
<1>13. ASSUME NEW d \in Slots PROVE c1[d] = c0[d] /\ f1[d] = f0[d] + g[d]
  <2>1. CASE d \in some
    <3>1. c0[d] = ps[d].charged /\ f0[d] = ps[d].refunded
      BY <1>3, <1>9, <1>10, <2>1 DEF ChargedOf, RefundedOf
    <3>2. c1[d] = ps[d].charged /\ f1[d] = ps[d].refunded + owed[d]
      BY <1>3, <1>5, <1>11, <1>12, <2>1 DEF ChargedOf, RefundedOf
    <3> QED BY <1>3, <2>1, <3>1, <3>2
  <2>2. CASE d \notin some
    <3>1. c1[d] = c0[d] /\ f1[d] = f0[d]
      BY <1>4, <1>5, <1>9, <1>10, <1>11, <1>12, <2>2 DEF ChargedOf, RefundedOf
    <3>2. g[d] = 0 /\ f0[d] \in Int
      BY <2>2
    <3> QED BY <3>1, <3>2
  <2> QED BY <2>1, <2>2
<1>14. TotalOver(f1, Slots) = TotalOver(f0, Slots) + n
  <2>1. IsFiniteSet(Slots) /\ \A d \in Slots : f1[d] = f0[d] + g[d]
    BY <1>2, <1>13
  <2>2. TotalOver(f1, Slots) = TotalOver(f0, Slots) + TotalOver(g, Slots)
    BY <2>1, TotalOfTwo
  <2> QED BY <2>2
<1>15. TotalOver(c1, Slots) = TotalOver(c0, Slots)
  <2>1. IsFiniteSet(Slots) /\ \A d \in Slots : c0[d] = c1[d]
    BY <1>2, <1>13
  <2> QED BY <2>1, TotalOfEquals
<1>16. /\ r.paid /\ r.charged = TotalOver(c0, Slots) /\ r.refunded = TotalOver(f0, Slots)
       /\ (l > 0 => DOMAIN ps = {}) /\ l \in 0..MaxPile
  BY <1>2, <1>9, <1>10 DEF Agree
<1>17. /\ TotalOver(f1, Slots) \in Nat /\ TotalOver(c1, Slots) \in Nat
       /\ TotalOver(f1, Slots) <= TotalOver(c1, Slots)
  BY <1>6, <1>11, <1>12, TermsAreNumbers
<1>18. /\ r \in SessionRow /\ led \in Nat /\ r.charged \in Nat /\ r.refunded \in Nat
       /\ r.there /\ r.charged > 0 /\ r.charged - r.refunded = led
  BY <1>2, <1>16 DEF RowIsRight, SessionRow
<1>19. /\ b \in SessionRow /\ b.charged = r.charged /\ b.paid = r.paid /\ b.there = r.there
       /\ b.refunded = r.refunded + n
  <2>1. PICK m \in Nat : m = r.refunded + n
    BY <1>8, <1>18
  <2>2. b = [r EXCEPT !.refunded = m]
    BY <2>1 DEF RefundedRow
  <2> QED BY <1>18, <2>1, <2>2 DEF SessionRow
<1>20. r.refunded + n <= r.charged /\ n <= led /\ led - n \in Nat
  BY <1>8, <1>14, <1>15, <1>16, <1>17, <1>18, SMTT(30)
<1>21. RowIsRight(b, after)
  <2>1. after \in Nat /\ b.charged - b.refunded = after /\ b.refunded <= b.charged
    BY <1>8, <1>18, <1>19, <1>20
  <2> QED BY <2>1, <1>8, <1>16, <1>18, <1>19, <1>20 DEF RowIsRight
<1>22. Agree(b, l, qs, on)
  BY <1>2, <1>5, <1>7, <1>11, <1>12, <1>14, <1>15, <1>16, <1>19 DEF Agree
<1> QED
  BY <1>6, <1>8, <1>20, <1>21, <1>22 DEF Settled

(* ... and is no longer outstanding of those who had paid it.               *)
LEMMA RefundIsNotOutstanding ==
  ASSUME NEW r, NEW l, NEW led, NEW ps, NEW on, NEW some, NEW owed, NEW n, NEW after,
         ToRefund(r, l, led, ps, on, some, owed, n, after),
         PilesAreRight(RefundedPiles(ps, owed)),
         NEW b, NEW x \in Seats, NEW own, own = TotalOver(OwedIn(owed, {d \in some : ps[d].payer = x}), Slots)
  PROVE  /\ own \in Nat
         /\ Outstanding(b, RefundedPiles(ps, owed), x) = Outstanding(r, ps, x) - own
<1> SUFFICES ASSUME NEW qs, qs = RefundedPiles(ps, owed)
             PROVE  own \in Nat /\ Outstanding(b, qs, x) = Outstanding(r, ps, x) - own
  OBVIOUS
<1> PICK g : g = OwedIn(owed, {d \in some : ps[d].payer = x})
  OBVIOUS
<1>1. /\ Settled(r, l, ps, on, led) /\ some \subseteq Paid(ps) /\ some # {}
      /\ owed \in [some -> Nat] /\ PilesAreRight(qs)
      /\ g \in [Slots -> Int]
      /\ \A d \in Slots : g[d] = IF d \in some /\ ps[d].payer = x THEN owed[d] ELSE 0
      /\ own = TotalOver(g, Slots)
  BY DEF ToRefund, OwedIn
<1> USE <1>1
<1>2. /\ PilesAreRight(ps) /\ IsFiniteSet(Slots) /\ DOMAIN ps \subseteq Slots /\ DOMAIN owed = some
      /\ Paid(ps) \subseteq DOMAIN ps /\ Paid(ps) # {}
  BY WalletNumbers DEF Settled, PilesAreRight, Paid
<1>3. ASSUME NEW d \in some
      PROVE  /\ qs[d].paid /\ qs[d].charged = ps[d].charged
             /\ qs[d].refunded = ps[d].refunded + owed[d]
             /\ qs[d].payer = ps[d].payer /\ d \in Slots /\ d \in DOMAIN ps
             /\ ps[d].charged \in Nat /\ ps[d].refunded \in Nat /\ owed[d] \in Nat
  <2>1. PICK p : p = ps[d] /\ PileIsRight(p) /\ p.paid
    BY <1>2 DEF PilesAreRight, Paid
  <2>2. p \in Delivery
    BY <2>1 DEF PileIsRight
  <2>3. PICK m \in Nat : m = owed[d]
    BY <2>1
  <2>4. PICK q : q = [p EXCEPT !.refunded = p.refunded + m]
    OBVIOUS
  <2>5. /\ q.paid /\ q.charged = p.charged /\ q.refunded = p.refunded + m /\ q.payer = p.payer
        /\ p.charged \in Nat /\ p.refunded \in Nat
    BY <2>1, <2>2, <2>3, <2>4 DEF Delivery
  <2>6. qs[d] = q
    BY <1>2, <2>1, <2>3, <2>4 DEF RefundedPiles
  <2> QED BY <1>2, <2>1, <2>3, <2>5, <2>6
<1>4. /\ \A d \in DOMAIN ps \ some : qs[d] = ps[d]
      /\ DOMAIN qs = DOMAIN ps
  BY <1>2 DEF RefundedPiles
<1>5. Paid(qs) # {}
  BY <1>3, <1>4 DEF Paid
<1>6. TotalOver(g, Slots) \in Nat
  <2>1. \A d \in Slots : 0 <= g[d]
    BY <1>3
  <2> QED BY <1>2, <2>1, TotalType, TermIsWithin
<1>7. PICK o0 \in [Slots -> Int] : o0 = OutOf(ps, x)
  BY <1>2, OutsAreNumbers
<1>8. PICK o1 \in [Slots -> Int] : o1 = OutOf(qs, x)
  BY OutsAreNumbers
<1>9. ASSUME NEW d \in Slots PROVE o0[d] = o1[d] + g[d]
  <2>1. CASE d \in some
    <3>1. o0[d] = IF ps[d].payer = x THEN ps[d].charged - ps[d].refunded ELSE 0
      BY <1>3, <1>7, <2>1 DEF OutOf
    <3>2. o1[d] = IF ps[d].payer = x THEN ps[d].charged - (ps[d].refunded + owed[d]) ELSE 0
      BY <1>3, <1>4, <1>8, <2>1 DEF OutOf
    <3>3. CASE ps[d].payer = x
      <4>1. g[d] = owed[d]
        BY <2>1, <3>3
      <4> QED BY <1>3, <2>1, <3>1, <3>2, <3>3, <4>1
    <3>4. CASE ps[d].payer # x
      <4>1. g[d] = 0
        BY <2>1, <3>4
      <4> QED BY <3>1, <3>2, <3>4, <4>1
    <3> QED BY <3>3, <3>4
  <2>2. CASE d \notin some
    <3>1. o1[d] = o0[d]
      BY <1>4, <1>7, <1>8, <2>2 DEF OutOf
    <3>2. g[d] = 0 /\ o0[d] \in Int
      BY <2>2
    <3> QED BY <3>1, <3>2
  <2> QED BY <2>1, <2>2
<1>10. TotalOver(o0, Slots) = TotalOver(o1, Slots) + TotalOver(g, Slots)
  <2>1. IsFiniteSet(Slots) /\ \A d \in Slots : o0[d] = o1[d] + g[d]
    BY <1>2, <1>9
  <2> QED BY <2>1, TotalOfTwo
<1>11. TotalOver(o1, Slots) \in Int
  BY <1>2, TotalType
<1>12. Outstanding(r, ps, x) = TotalOver(o0, Slots) /\ Outstanding(b, qs, x) = TotalOver(o1, Slots)
  BY <1>2, <1>5, <1>7, <1>8 DEF Outstanding
<1> QED
  BY <1>6, <1>10, <1>11, <1>12

(* A refund of a charge that is on no delivery.                             *)
LEMMA RowRefundSettles ==
  ASSUME NEW r, NEW l, NEW led, NEW ps, NEW on, Settled(r, l, ps, on, led),
         r.paid, Paid(ps) = {}, NEW n \in Nat, n <= r.charged - r.refunded,
         l > 0,
         NEW b, b = [r EXCEPT !.refunded = r.refunded + n]
  PROVE  /\ n <= led /\ Settled(b, l, ps, on, led - n)
         /\ \A x \in Seats :
              Outstanding(b, ps, x) = Outstanding(r, ps, x) - (IF r.payer = x THEN n ELSE 0)
<1>1. RowIsRight(r, led) /\ PilesAreRight(ps) /\ Agree(r, l, ps, on)
  BY DEF Settled
<1>2. /\ r \in SessionRow /\ led \in Nat /\ r.charged \in Nat /\ r.refunded \in Nat
      /\ r.there /\ r.charged > 0 /\ r.charged - r.refunded = led
  BY <1>1 DEF RowIsRight, SessionRow
<1>3. /\ b \in SessionRow /\ b.charged = r.charged /\ b.paid = r.paid /\ b.there = r.there
      /\ b.refunded = r.refunded + n /\ b.payer = r.payer
  <2>1. PICK m \in Nat : m = r.refunded + n
    BY <1>2
  <2>2. b = [r EXCEPT !.refunded = m]
    BY <2>1
  <2> QED BY <1>2, <2>1, <2>2 DEF SessionRow
<1>4. RowIsRight(b, led - n) /\ n <= led
  BY <1>2, <1>3 DEF RowIsRight
<1>5. Agree(b, l, ps, on)
  BY <1>1, <1>3 DEF Agree
<1>6. \A x \in Seats :
        Outstanding(b, ps, x) = Outstanding(r, ps, x) - (IF r.payer = x THEN n ELSE 0)
  BY <1>2, <1>3 DEF Outstanding
<1> QED
  BY <1>1, <1>4, <1>5, <1>6 DEF Settled

-----------------------------------------------------------------------------
(* The sums of the model are sums of functions.                             *)

(* What MapThenSumSet makes of a field of records.                          *)
FieldOver(ps, f, S) ==
    (CHOOSE F : F = [z \in SUBSET S |-> IF z = {} THEN 0
                                        ELSE ps[Pick(z)][f] + F[z \ {Pick(z)}]])[S]

LEMMA FieldOverIsTotal ==
  ASSUME NEW S, IsFiniteSet(S), NEW ps, NEW f, NEW g \in [S -> Int], \A x \in S : g[x] = ps[x][f]
  PROVE  FieldOver(ps, f, S) = TotalOver(g, S)
<1> DEFINE Is(F) == F = [z \in SUBSET S |-> IF z = {} THEN 0
                                            ELSE ps[Pick(z)][f] + F[z \ {Pick(z)}]]
<1>1. \A F : IsSum(F, g, S) <=> Is(F)
  <2> SUFFICES ASSUME NEW F PROVE IsSum(F, g, S) <=> Is(F)
    OBVIOUS
  <2>1. \A z \in SUBSET S : z # {} => g[Pick(z)] = ps[Pick(z)][f]
    BY DEF Pick
  <2>2. \A z \in SUBSET S : (IF z = {} THEN 0 ELSE g[Pick(z)] + F[z \ {Pick(z)}])
                              = (IF z = {} THEN 0 ELSE ps[Pick(z)][f] + F[z \ {Pick(z)}])
    BY <2>1
  <2> QED BY <2>2 DEF IsSum
<1> DEFINE H == CHOOSE F : Is(F)
           G == CHOOSE F : IsSum(F, g, S)
<1>2. \E F : IsSum(F, g, S)
  BY SumExists
<1> HIDE DEF Is
<1>3. IsSum(H, g, S)
  BY <1>1, <1>2
<1>4. IsSum(G, g, S)
  BY <1>2
<1> HIDE DEF H, G
<1>5. H = G
  BY <1>3, <1>4, SumUnique
<1> QED
  BY <1>5 DEF FieldOver, TotalOver, H, G, Is

(* A sum of the deliveries' fields, as a sum over all numbers a delivery can have. *)
LEMMA DeliveriesAddUp ==
  ASSUME NEW ps, NEW S \in SUBSET Slots, NEW f,
         NEW g \in [Slots -> Int],
         \A d \in Slots : g[d] = IF d \in S THEN ps[d][f] ELSE 0
  PROVE  FieldOver(ps, f, S) = TotalOver(g, Slots)
<1>1. IsFiniteSet(Slots) /\ IsFiniteSet(S)
  BY WalletNumbers, FS_Subset
<1> DEFINE k == [d \in S |-> g[d]]
<1>2. k \in [S -> Int] /\ (\A d \in S : k[d] = ps[d][f] /\ g[d] = k[d]) /\ \A d \in Slots \ S : g[d] = 0
  OBVIOUS
<1> HIDE DEF k
<1>3. TotalOver(g, Slots) = TotalOver(k, S)
  BY <1>1, <1>2, TotalOfSome
<1>4. FieldOver(ps, f, S) = TotalOver(k, S)
  BY <1>1, <1>2, FieldOverIsTotal
<1> QED
  BY <1>3, <1>4

LEMMA SumsOfDeliveries ==
  ASSUME NEW ps, PilesAreRight(ps)
  PROVE  /\ MapThenSumSet(LAMBDA d : ps[d].charged, DOMAIN ps) = TotalOver(ChargedOf(ps), Slots)
         /\ MapThenSumSet(LAMBDA d : ps[d].refunded, DOMAIN ps) = TotalOver(RefundedOf(ps), Slots)
<1>1. PICK S \in SUBSET Slots : S = DOMAIN ps
  BY DEF PilesAreRight
<1>2. ChargedOf(ps) \in [Slots -> Int] /\ RefundedOf(ps) \in [Slots -> Int]
  BY TermsAreNumbers
<1>3. FieldOver(ps, "charged", S) = TotalOver(ChargedOf(ps), Slots)
  <2>1. \A d \in Slots : ChargedOf(ps)[d] = IF d \in S THEN ps[d]["charged"] ELSE 0
    BY <1>1 DEF ChargedOf
  <2> QED BY <1>2, <2>1, DeliveriesAddUp
<1>4. FieldOver(ps, "refunded", S) = TotalOver(RefundedOf(ps), Slots)
  <2>1. \A d \in Slots : RefundedOf(ps)[d] = IF d \in S THEN ps[d]["refunded"] ELSE 0
    BY <1>1 DEF RefundedOf
  <2> QED BY <1>2, <2>1, DeliveriesAddUp
<1>5. /\ MapThenSumSet(LAMBDA d : ps[d].charged, DOMAIN ps) = FieldOver(ps, "charged", DOMAIN ps)
      /\ MapThenSumSet(LAMBDA d : ps[d].refunded, DOMAIN ps) = FieldOver(ps, "refunded", DOMAIN ps)
  BY DEF MapThenSumSet, MapThenFoldSet, FieldOver, Pick
<1> QED
  BY <1>1, <1>3, <1>4, <1>5

(* What a launch or an added pile costs. *)
Cost(ps, S) == MapThenSumSet(LAMBDA d : ps[d].cvs, S)

LEMMA CostIsTotal ==
  ASSUME NEW ps, PilesAreRight(ps), NEW S, S \subseteq DOMAIN ps
  PROVE  \E g \in [Slots -> Int] :
           /\ \A d \in Slots : g[d] = IF d \in S THEN ps[d].cvs ELSE 0
           /\ Cost(ps, S) = TotalOver(g, Slots)
<1>1. PICK T \in SUBSET Slots : T = S /\ T \subseteq DOMAIN ps
  BY DEF PilesAreRight
<1> DEFINE g == [d \in Slots |-> IF d \in T THEN ps[d].cvs ELSE 0]
<1>2. \A d \in T : ps[d].cvs \in Int
  <2> SUFFICES ASSUME NEW d \in T PROVE ps[d].cvs \in Int
    OBVIOUS
  <2>1. PICK p : p = ps[d] /\ p \in Delivery
    BY <1>1 DEF PilesAreRight, PileIsRight
  <2> QED BY <2>1 DEF Delivery
<1>3. g \in [Slots -> Int] /\ \A d \in Slots : g[d] = IF d \in T THEN ps[d]["cvs"] ELSE 0
  BY <1>2
<1> HIDE DEF g
<1>4. FieldOver(ps, "cvs", T) = TotalOver(g, Slots)
  BY <1>3, DeliveriesAddUp
<1>5. Cost(ps, T) = FieldOver(ps, "cvs", T)
  BY DEF Cost, MapThenSumSet, MapThenFoldSet, FieldOver, Pick
<1> QED
  BY <1>1, <1>3, <1>4, <1>5

-----------------------------------------------------------------------------
(* Shares that divide a number evenly. *)
LEMMA ShareIsNatural ==
  ASSUME NEW people \in SUBSET Seats, people # {}, NEW amount \in Nat, NEW s
  PROVE  EqualShare(people, amount, s) \in Nat
<1>1. IsFiniteSet(people)
  BY WalletNumbers, FS_Subset
<1>2. PICK n \in Nat : n = Cardinality(people) /\ n # 0
  BY <1>1, FS_CardinalityType, FS_EmptySet
<1>3. amount \div n \in Nat /\ amount % n \in Nat
  BY <1>2
<1> QED
  BY <1>2, <1>3 DEF EqualShare

LEMMA DividedWhole ==
  ASSUME NEW a \in Nat, NEW n \in Nat, n # 0
  PROVE  a = n * (a \div n) + (a % n)
  BY n > 0

LEMMA SharesAddUp ==
  ASSUME NEW people \in SUBSET Seats, Administrator \in people, NEW amount \in Nat,
         NEW g \in [people -> Int], \A s \in people : g[s] = EqualShare(people, amount, s)
  PROVE  TotalOver(g, people) = amount
<1>1. IsFiniteSet(people)
  BY WalletNumbers, FS_Subset
<1>2. PICK n \in Nat : n = Cardinality(people) /\ n # 0
  BY <1>1, FS_CardinalityType, FS_EmptySet
<1>3. PICK q \in Nat : q = amount \div n
  BY <1>2
<1>4. PICK m \in Nat : m = amount % n
  BY <1>2
<1>5. amount = n * q + m
  <2>1. amount = n * (amount \div n) + (amount % n)
    BY <1>2, DividedWhole
  <2> QED BY <2>1, <1>3, <1>4
<1>6. \A s \in people : g[s] = IF s = Administrator THEN q + m ELSE q
  BY <1>2, <1>3, <1>4 DEF EqualShare
<1> DEFINE h == [s \in people |-> q]
<1>7. h \in [people -> Int] /\ \A s \in people : h[s] = q
  OBVIOUS
<1> HIDE DEF h
<1>8. TotalOver(h, people) = n * q
  BY <1>1, <1>2, <1>7, TotalOfConstant
<1>9. \A s \in people \ {Administrator} : h[s] = g[s]
  BY <1>6, <1>7
<1>10. TotalOver(g, people) = TotalOver(h, people) + (g[Administrator] - h[Administrator])
  BY <1>1, <1>7, <1>9, TotalOfOneChange
<1>11. n * q \in Nat
  BY <1>2, <1>3
<1> QED
  BY <1>5, <1>6, <1>7, <1>8, <1>10, <1>11

-----------------------------------------------------------------------------
(* The invariant. *)

SeatsAreRight ==
    /\ team \subseteq Seats /\ Administrator \in team
    /\ former \subseteq Seats /\ team \cap former = {}
    /\ split \in BOOLEAN /\ even \in BOOLEAN
    /\ allowance \in [Seats -> Nat \union {Null}] /\ used \in [Seats -> Nat]
    /\ drawn \in [Seats -> Int] /\ inherited \subseteq team
    /\ \A s \in Seats \ team : used[s] = 0 /\ drawn[s] = 0
    /\ \A s \in team \ inherited : used[s] = drawn[s]

SessionsAreSettled ==
    /\ row \in [Triages -> SessionRow] /\ loose \in [Triages -> 0..MaxPile]
    /\ ledger \in [Triages -> Nat] /\ up \in BOOLEAN
    /\ DOMAIN drops = Triages /\ drops = [t \in Triages |-> drops[t]]
    /\ \A t \in Triages : Settled(row[t], loose[t], drops[t], up, ledger[t])

(* Who paid is still there. *)
SeatedOr(people, r, ps) ==
    /\ r.payer \in people \union {Null}
    /\ \A d \in DOMAIN ps : ps[d].payer \in people \union {Null}

PayersAreSeated == \A t \in Triages : SeatedOr(team, row[t], drops[t])

(* A delivery that is being added is unpaid, in a session that runs, or gone with it. *)
IsOpen(r, l, ps, d) ==
    IF r.there THEN r.paid /\ l = 0 /\ d \in DOMAIN ps /\ ~ps[d].paid ELSE d \notin DOMAIN ps

AddingIsOpen ==
    /\ adding \subseteq [session : Triages, drop : Slots, seat : Seats]
    /\ ~up => adding = {}
    /\ \A a \in adding : IsOpen(row[a.session], loose[a.session], drops[a.session], a.drop)
    /\ \A a, b \in adding : a.session = b.session /\ a.drop = b.drop => a = b

MoneyIsRight ==
    /\ credits \in Nat /\ pool \in Nat
    /\ pool = credits - TotalOver(ledger, Triages)

(* What a seat drew covers what is outstanding of it. *)
OutIn(x) == [t \in Triages |-> Outstanding(row[t], drops[t], x)]

DrawsCover == \A x \in Seats : TotalOver(OutIn(x), Triages) <= drawn[x]

(* The shares of the seats are the pool. *)
LeftTo(people, a, u) == [s \in people |-> a[s] - u[s]]

SharesAreRight ==
    split /\ even =>
      /\ \A s \in team : allowance[s] # Null
      /\ TotalOver(LeftTo(team, allowance, used), team) = pool

CapacityInv ==
    /\ SeatsAreRight /\ SessionsAreSettled /\ PayersAreSeated /\ AddingIsOpen
    /\ MoneyIsRight /\ DrawsCover /\ SharesAreRight

-----------------------------------------------------------------------------
(* What the invariant says of the properties. *)
LEMMA TriagesAreFinite == IsFiniteSet(Triages)
  BY WalletAssumption

LEMMA CapacityIsSound == CapacityInv => TriageWalletIsSound
<1> SUFFICES ASSUME CapacityInv PROVE TriageWalletIsSound
  OBVIOUS
<1>1. SeatsAreRight /\ SessionsAreSettled /\ MoneyIsRight /\ SharesAreRight
  BY DEF CapacityInv
<1>2. \A t \in Triages : /\ RowIsRight(row[t], ledger[t]) /\ PilesAreRight(drops[t])
                         /\ Agree(row[t], loose[t], drops[t], up)
  BY <1>1 DEF SessionsAreSettled, Settled
<1>3. WalletTypeOK
  <2>1. row \in [Triages -> [there : BOOLEAN, paid : BOOLEAN, failed : BOOLEAN, charged : Nat,
                             refunded : Nat, payer : Seats \union {Null}, by : Seats]]
    BY <1>1 DEF SessionsAreSettled, SessionRow
  <2>2. ASSUME NEW t \in Triages
        PROVE  DOMAIN drops[t] \subseteq 1..MaxDrops /\ Range(drops[t]) \subseteq Delivery
    <3>1. PilesAreRight(drops[t])
      BY <1>2
    <3> QED BY <3>1 DEF PilesAreRight, PileIsRight, Range, Slots
  <2> QED BY <1>1, <2>1, <2>2 DEF WalletTypeOK, SeatsAreRight, SessionsAreSettled, MoneyIsRight
<1>4. PoolIsTheHistory
  <2>1. MapThenSumSet(LAMBDA t : ledger[t], Triages) = TotalOver(ledger, Triages)
    BY MapThenSumIsTotal
  <2> QED BY <1>1, <2>1 DEF PoolIsTheHistory, MoneyIsRight
<1>5. SessionsAddUp
  <2> SUFFICES ASSUME NEW t \in There
               PROVE  /\ row[t].charged - row[t].refunded = ledger[t]
                      /\ up /\ row[t].paid /\ loose[t] = 0 =>
                          /\ row[t].charged = MapThenSumSet(LAMBDA d : drops[t][d].charged, DOMAIN drops[t])
                          /\ row[t].refunded = MapThenSumSet(LAMBDA d : drops[t][d].refunded, DOMAIN drops[t])
    BY DEF SessionsAddUp
  <2>1. t \in Triages /\ row[t].there
    BY DEF There
  <2>2. row[t].charged - row[t].refunded = ledger[t]
    BY <1>2, <2>1 DEF RowIsRight
  <2>3. ASSUME up, row[t].paid, loose[t] = 0
        PROVE  /\ row[t].charged = MapThenSumSet(LAMBDA d : drops[t][d].charged, DOMAIN drops[t])
               /\ row[t].refunded = MapThenSumSet(LAMBDA d : drops[t][d].refunded, DOMAIN drops[t])
    <3>1. PICK ps : ps = drops[t]
      OBVIOUS
    <3>2. PilesAreRight(ps) /\ Agree(row[t], loose[t], ps, up)
      BY <1>2, <2>1, <3>1
    <3>3. /\ row[t].charged = TotalOver(ChargedOf(ps), Slots)
          /\ row[t].refunded = TotalOver(RefundedOf(ps), Slots)
      BY <2>3, <3>2 DEF Agree
    <3>4. /\ MapThenSumSet(LAMBDA d : ps[d].charged, DOMAIN ps) = TotalOver(ChargedOf(ps), Slots)
          /\ MapThenSumSet(LAMBDA d : ps[d].refunded, DOMAIN ps) = TotalOver(RefundedOf(ps), Slots)
      BY <3>2, SumsOfDeliveries
    <3> QED BY <3>1, <3>3, <3>4
  <2> QED BY <2>2, <2>3
<1>6. ChargedOnce
  <2> SUFFICES ASSUME NEW t \in There, NEW d \in DOMAIN drops[t]
               PROVE  /\ drops[t][d].paid => drops[t][d].charged = drops[t][d].cvs
                                             /\ drops[t][d].refunded <= drops[t][d].charged
                      /\ ~drops[t][d].paid => drops[t][d].charged = 0 /\ drops[t][d].refunded = 0
    BY DEF ChargedOnce
  <2>1. PilesAreRight(drops[t])
    BY <1>2 DEF There
  <2> QED BY <2>1 DEF PilesAreRight, PileIsRight
<1>7. UsageIsTheDraw
  BY <1>1 DEF UsageIsTheDraw, SeatsAreRight
<1>8. SharesAreThePool
  <2> SUFFICES ASSUME split, even
               PROVE  MapThenSumSet(LAMBDA s : allowance[s] - used[s], team) = pool
    BY DEF SharesAreThePool
  <2>1. MapThenSumSet(LAMBDA s : allowance[s] - used[s], team) = LeftOver(allowance, used, team)
    BY DEF MapThenSumSet, MapThenFoldSet, LeftOver, Pick
  <2>2. PICK g : g = LeftTo(team, allowance, used)
    OBVIOUS
  <2>3. \A s \in team : allowance[s] # Null
    BY <1>1 DEF SharesAreRight
  <2>4. g \in [team -> Int] /\ \A s \in team : g[s] = allowance[s] - used[s]
    BY <1>1, <2>2, <2>3 DEF SeatsAreRight, LeftTo
  <2>5. IsFiniteSet(team)
    BY <1>1, WalletNumbers, FS_Subset DEF SeatsAreRight
  <2>6. LeftOver(allowance, used, team) = TotalOver(g, team)
    BY <2>4, <2>5, LeftOverIsTotal
  <2> QED BY <1>1, <2>1, <2>2, <2>6 DEF SharesAreRight
<1> QED
  BY <1>3, <1>4, <1>5, <1>6, <1>7, <1>8 DEF TriageWalletIsSound

-----------------------------------------------------------------------------
(* What keeps the other parts. *)

LEMMA SessionsRest ==
  ASSUME SessionsAreSettled, PayersAreSeated, AddingIsOpen, UNCHANGED <<row, loose, drops, ledger, up, adding>>
  PROVE  /\ SessionsAreSettled' /\ AddingIsOpen'
         /\ \A x : OutIn(x)' = OutIn(x)
         /\ (team \subseteq team' => PayersAreSeated')
<1>1. SessionsAreSettled' /\ AddingIsOpen'
  BY DEF SessionsAreSettled, AddingIsOpen
<1>2. \A x : OutIn(x)' = OutIn(x)
  BY DEF OutIn
<1>3. team \subseteq team' => PayersAreSeated'
  BY DEF PayersAreSeated, SeatedOr
<1> QED
  BY <1>1, <1>2, <1>3

LEMMA MoneyRests ==
  ASSUME MoneyIsRight, UNCHANGED <<credits, pool, ledger>>
  PROVE  MoneyIsRight'
  BY DEF MoneyIsRight

LEMMA DrawsRest ==
  ASSUME DrawsCover, \A x : OutIn(x)' = OutIn(x), drawn' = drawn
  PROVE  DrawsCover'
  BY DEF DrawsCover

LEMMA TeamIsFinite ==
  ASSUME NEW people \in SUBSET Seats
  PROVE  IsFiniteSet(people)
  BY WalletNumbers, FS_Subset

-----------------------------------------------------------------------------
(* Levelling gives out what is in the pool. *)
LEMMA LevellingIsRight ==
  ASSUME SeatsAreRight, MoneyIsRight, NEW people \in SUBSET Seats, Administrator \in people,
         allowance' = Levelled(people, pool), team' = people, pool' = pool,
         \A s \in people : used'[s] = used[s]
  PROVE  allowance' \in [Seats -> Nat \union {Null}] /\ SharesAreRight'
<1>1. used \in [Seats -> Nat] /\ pool \in Nat /\ Null \notin Int
  BY WalletNumbers DEF SeatsAreRight, MoneyIsRight
<1>2. ASSUME NEW s \in people
      PROVE  /\ EqualShare(people, pool, s) \in Nat
             /\ allowance'[s] = used[s] + EqualShare(people, pool, s)
             /\ allowance'[s] \in Nat /\ allowance'[s] # Null
             /\ allowance'[s] - used'[s] = EqualShare(people, pool, s)
  <2>1. PICK e \in Nat : e = EqualShare(people, pool, s)
    BY <1>1, ShareIsNatural
  <2>2. allowance'[s] = used[s] + e
    BY <2>1 DEF Levelled
  <2>3. PICK u \in Nat : u = used[s]
    BY <1>1
  <2> QED BY <1>1, <2>1, <2>2, <2>3
<1>3. \A s \in Seats \ people : allowance'[s] = Null
  BY DEF Levelled
<1>4. allowance' \in [Seats -> Nat \union {Null}]
  <2>1. allowance' = [s \in Seats |-> allowance'[s]]
    BY DEF Levelled
  <2>2. \A s \in Seats : allowance'[s] \in Nat \union {Null}
    BY <1>2, <1>3
  <2> QED BY <2>1, <2>2
<1> DEFINE g == [s \in people |-> EqualShare(people, pool, s)]
<1>5. g \in [people -> Int] /\ \A s \in people : g[s] = EqualShare(people, pool, s)
  BY <1>2
<1>6. LeftTo(people, allowance', used') = g
  BY <1>2 DEF LeftTo
<1> HIDE DEF g
<1>7. TotalOver(g, people) = pool
  BY <1>1, <1>5, SharesAddUp
<1>8. TotalOver(LeftTo(team', allowance', used'), team') = pool'
  BY <1>6, <1>7
<1> QED
  BY <1>2, <1>4, <1>8 DEF SharesAreRight

(* So does resettling the seats. *)
LEMMA ResettlingIsRight ==
  ASSUME SeatsAreRight, MoneyIsRight, NEW people \in SUBSET Seats, Administrator \in people,
         Resettle(people), split' = split, team' = people, pool' = pool,
         \A s \in people : used'[s] = used[s]
  PROVE  allowance' \in [Seats -> Nat \union {Null}] /\ SharesAreRight' /\ even' \in BOOLEAN
<1>1. even' \in BOOLEAN /\ split \in BOOLEAN
  BY Zenon DEF Resettle, SeatsAreRight
<1>2. CASE split
  <2>1. allowance' = Levelled(people, pool)
    BY <1>2 DEF Resettle
  <2> QED BY <1>1, <2>1, LevellingIsRight
<1>3. CASE ~split
  <2>1. SharesAreRight'
    BY <1>3 DEF SharesAreRight
  <2>2. allowance' = [s \in Seats |-> IF s \in people THEN allowance[s] ELSE Null]
    BY <1>3 DEF Resettle
  <2>3. allowance' \in [Seats -> Nat \union {Null}]
    BY <2>2 DEF SeatsAreRight
  <2> QED BY <1>1, <2>1, <2>3
<1> QED
  BY <1>2, <1>3

(* A credit gives out what it brings. *)
LEMMA PurchaseKeeps == ASSUME CapacityInv, Purchase PROVE CapacityInv'
<1>1. /\ SeatsAreRight /\ SessionsAreSettled /\ PayersAreSeated /\ AddingIsOpen
      /\ MoneyIsRight /\ DrawsCover /\ SharesAreRight
  BY DEF CapacityInv
<1>2. /\ credits' = credits + Pack /\ pool' = pool + Pack /\ allowance' = Raised(Pack)
      /\ UNCHANGED <<team, former, split, even, used, row, loose, drops, adding, up, ledger, drawn, inherited>>
  BY DEF Purchase, chargeVars
<1>3. SessionsAreSettled' /\ AddingIsOpen' /\ PayersAreSeated' /\ \A x : OutIn(x)' = OutIn(x)
  BY <1>1, <1>2, SessionsRest
<1>4. DrawsCover'
  BY <1>1, <1>2, <1>3, DrawsRest
<1>5. Pack \in Nat /\ Null \notin Int
  BY WalletNumbers
<1>6. MoneyIsRight'
  <2>1. TotalOver(ledger, Triages) \in Int
    BY <1>1, TriagesAreFinite, TotalType DEF SessionsAreSettled
  <2> QED BY <1>1, <1>2, <1>5, <2>1 DEF MoneyIsRight
<1>7. team \in SUBSET Seats /\ team # {} /\ Administrator \in team /\ IsFiniteSet(team)
  BY <1>1, TeamIsFinite DEF SeatsAreRight
<1>8. /\ used \in [Seats -> Nat] /\ allowance \in [Seats -> Nat \union {Null}]
      /\ team \subseteq Seats
  BY <1>1 DEF SeatsAreRight
<1>9. ASSUME NEW s \in team, split
      PROVE  /\ allowance'[s] = (IF allowance[s] = Null THEN 0 ELSE allowance[s]) + EqualShare(team, Pack, s)
             /\ allowance'[s] \in Nat /\ allowance'[s] # Null /\ EqualShare(team, Pack, s) \in Nat
  <2>1. PICK e \in Nat : e = EqualShare(team, Pack, s)
    BY <1>5, <1>7, ShareIsNatural
  <2>2. allowance'[s] = (IF allowance[s] = Null THEN 0 ELSE allowance[s]) + e
    BY <1>2, <1>8, <1>9, <2>1 DEF Raised
  <2>3. PICK a \in Nat : a = IF allowance[s] = Null THEN 0 ELSE allowance[s]
    BY <1>8
  <2> QED BY <1>5, <2>1, <2>2, <2>3
<1>10. allowance' \in [Seats -> Nat \union {Null}]
  <2>1. allowance' = [s \in Seats |-> allowance'[s]]
    BY <1>2 DEF Raised
  <2>2. ASSUME NEW s \in Seats PROVE allowance'[s] \in Nat \union {Null}
    <3>1. CASE s \in team /\ split
      BY <1>9, <3>1
    <3>2. CASE ~(s \in team /\ split)
      BY <1>2, <1>8, <3>2 DEF Raised
    <3> QED BY <3>1, <3>2
  <2> QED BY <2>1, <2>2
<1>11. SeatsAreRight'
  BY <1>1, <1>2, <1>10 DEF SeatsAreRight
<1>12. SharesAreRight'
  <2> SUFFICES ASSUME split, even
               PROVE  /\ \A s \in team : allowance'[s] # Null
                      /\ TotalOver(LeftTo(team, allowance', used), team) = pool + Pack
    BY <1>2 DEF SharesAreRight
  <2>1. (\A s \in team : allowance[s] # Null) /\ TotalOver(LeftTo(team, allowance, used), team) = pool
    BY <1>1 DEF SharesAreRight
  <2>2. PICK g : g = LeftTo(team, allowance, used)
    OBVIOUS
  <2>3. PICK k : k = LeftTo(team, allowance', used)
    OBVIOUS
  <2>4. PICK h : h = [s \in team |-> EqualShare(team, Pack, s)]
    OBVIOUS
  <2>5. h \in [team -> Int] /\ \A s \in team : h[s] = EqualShare(team, Pack, s)
    BY <1>9, <2>4
  <2>6. ASSUME NEW s \in team
        PROVE  g[s] \in Int /\ k[s] \in Int /\ k[s] = g[s] + h[s]
    <3>1. PICK a \in Nat : a = allowance[s]
      BY <1>8, <2>1
    <3>2. PICK u \in Nat : u = used[s]
      BY <1>8
    <3>3. PICK e \in Nat : e = EqualShare(team, Pack, s)
      BY <1>9
    <3>4. allowance'[s] = a + e
      BY <1>9, <2>1, <3>1, <3>3
    <3>5. g[s] = a - u /\ k[s] = (a + e) - u /\ h[s] = e
      BY <2>2, <2>3, <2>5, <3>1, <3>2, <3>3, <3>4 DEF LeftTo
    <3> QED BY <3>5
  <2>7. g \in [team -> Int] /\ k \in [team -> Int]
    BY <2>2, <2>3, <2>6 DEF LeftTo
  <2>8. TotalOver(k, team) = TotalOver(g, team) + TotalOver(h, team)
    <3>1. IsFiniteSet(team) /\ \A s \in team : k[s] = g[s] + h[s]
      BY <1>7, <2>6
    <3>2. g \in [team -> Int] /\ h \in [team -> Int] /\ k \in [team -> Int]
      BY <2>5, <2>7
    <3> QED BY <3>1, <3>2, TotalOfTwo
  <2>9. TotalOver(h, team) = Pack
    BY <1>5, <1>7, <2>5, SharesAddUp
  <2> QED BY <1>9, <2>1, <2>2, <2>3, <2>8, <2>9
<1> QED
  BY <1>3, <1>4, <1>6, <1>11, <1>12 DEF CapacityInv

LEMMA AllocationsKeep ==
  ASSUME CapacityInv, NEW s \in Seats, NEW ceiling \in 0..MaxShare \union {Null},
         SetTriageAllocations(s, ceiling)
  PROVE  CapacityInv'
<1>1. /\ SeatsAreRight /\ SessionsAreSettled /\ PayersAreSeated /\ AddingIsOpen
      /\ MoneyIsRight /\ DrawsCover /\ SharesAreRight
  BY DEF CapacityInv
<1>2. /\ allowance' = [allowance EXCEPT ![s] = ceiling] /\ even' = FALSE
      /\ UNCHANGED <<team, former, split, used, pool, row, loose, drops, adding, up, credits, ledger, drawn, inherited>>
  BY DEF SetTriageAllocations, chargeVars
<1>3. SessionsAreSettled' /\ AddingIsOpen' /\ PayersAreSeated' /\ \A x : OutIn(x)' = OutIn(x)
  BY <1>1, <1>2, SessionsRest
<1>4. DrawsCover' /\ MoneyIsRight'
  BY <1>1, <1>2, <1>3, DrawsRest, MoneyRests
<1>5. ceiling \in Nat \union {Null}
  BY WalletAssumption
<1>6. SeatsAreRight'
  BY <1>1, <1>2, <1>5 DEF SeatsAreRight
<1>7. SharesAreRight'
  BY <1>2 DEF SharesAreRight
<1> QED
  BY <1>3, <1>4, <1>6, <1>7 DEF CapacityInv

LEMMA SplitKeeps ==
  ASSUME CapacityInv, NEW on \in BOOLEAN, SetSplitEqually(on)
  PROVE  CapacityInv'
<1>1. /\ SeatsAreRight /\ SessionsAreSettled /\ PayersAreSeated /\ AddingIsOpen
      /\ MoneyIsRight /\ DrawsCover /\ SharesAreRight
  BY DEF CapacityInv
<1>2. /\ split' = on /\ allowance' = (IF on THEN Levelled(team, pool) ELSE allowance)
      /\ UNCHANGED <<team, former, used, pool, row, loose, drops, adding, up, credits, ledger, drawn, inherited>>
  BY DEF SetSplitEqually, chargeVars
<1>3. SessionsAreSettled' /\ AddingIsOpen' /\ PayersAreSeated' /\ \A x : OutIn(x)' = OutIn(x)
  BY <1>1, <1>2, SessionsRest
<1>4. DrawsCover' /\ MoneyIsRight'
  BY <1>1, <1>2, <1>3, DrawsRest, MoneyRests
<1>5. even' \in BOOLEAN
  BY Zenon DEF SetSplitEqually
<1>6. allowance' \in [Seats -> Nat \union {Null}] /\ SharesAreRight'
  <2>1. CASE on
    <3>1. team \in SUBSET Seats /\ Administrator \in team
      BY <1>1 DEF SeatsAreRight
    <3>2. allowance' = Levelled(team, pool) /\ team' = team /\ pool' = pool
          /\ \A s \in team : used'[s] = used[s]
      BY <1>2, <2>1
    <3> QED BY <1>1, <3>1, <3>2, LevellingIsRight
  <2>2. CASE ~on
    BY <1>1, <1>2, <2>2 DEF SharesAreRight, SeatsAreRight
  <2> QED BY <2>1, <2>2
<1>7. SeatsAreRight'
  BY <1>1, <1>2, <1>5, <1>6 DEF SeatsAreRight
<1> QED
  BY <1>3, <1>4, <1>6, <1>7 DEF CapacityInv

LEMMA JoinKeeps ==
  ASSUME CapacityInv, NEW s \in Staff, Join(s)
  PROVE  CapacityInv'
<1>1. /\ SeatsAreRight /\ SessionsAreSettled /\ PayersAreSeated /\ AddingIsOpen
      /\ MoneyIsRight /\ DrawsCover /\ SharesAreRight
  BY DEF CapacityInv
<1>2. /\ s \in Staff \ (team \union former) /\ team' = team \union {s} /\ Resettle(team \union {s})
      /\ UNCHANGED <<former, split, used, pool, row, loose, drops, adding, up, credits, ledger, drawn, inherited>>
  BY DEF Join, chargeVars
<1>3. SessionsAreSettled' /\ AddingIsOpen' /\ PayersAreSeated' /\ \A x : OutIn(x)' = OutIn(x)
  BY <1>1, <1>2, SessionsRest
<1>4. DrawsCover' /\ MoneyIsRight'
  BY <1>1, <1>2, <1>3, DrawsRest, MoneyRests
<1>5. PICK people : people = team \union {s}
  OBVIOUS
<1>6. people \in SUBSET Seats /\ Administrator \in people /\ s \in Seats
  BY <1>1, <1>5 DEF SeatsAreRight, Seats
<1>7. allowance' \in [Seats -> Nat \union {Null}] /\ SharesAreRight' /\ even' \in BOOLEAN
  <2>1. Resettle(people) /\ split' = split /\ team' = people /\ pool' = pool
        /\ \A x \in people : used'[x] = used[x]
    BY <1>2, <1>5
  <2> QED BY <1>1, <1>6, <2>1, ResettlingIsRight
<1>8. used[s] = 0 /\ drawn[s] = 0
  BY <1>1, <1>2, <1>6 DEF SeatsAreRight
<1>9. SeatsAreRight'
  BY <1>1, <1>2, <1>5, <1>6, <1>7, <1>8 DEF SeatsAreRight
<1> QED
  BY <1>3, <1>4, <1>7, <1>9 DEF CapacityInv

-----------------------------------------------------------------------------
(* An account that is gone is named by no charge. *)
WithoutPayer(r, s) == IF r.payer = s THEN [r EXCEPT !.payer = Null] ELSE r
PilesWithout(ps, s) == [d \in DOMAIN ps |-> WithoutPayer(ps[d], s)]

LEMMA PayerIsRemoved ==
  ASSUME NEW r, NEW l, NEW ps, NEW on, NEW led, Settled(r, l, ps, on, led), NEW s \in Seats,
         NEW b, b = WithoutPayer(r, s), NEW qs, qs = PilesWithout(ps, s)
  PROVE  /\ Settled(b, l, qs, on, led)
         /\ \A x \in Seats : Outstanding(b, qs, x) = IF x = s THEN 0 ELSE Outstanding(r, ps, x)
         /\ \A people : SeatedOr(people, r, ps) => SeatedOr(people \ {s}, b, qs)
         /\ \A d : IsOpen(r, l, ps, d) => IsOpen(b, l, qs, d)
<1>1. RowIsRight(r, led) /\ PilesAreRight(ps) /\ Agree(r, l, ps, on)
  BY DEF Settled
<1>2. Null \notin Seats /\ IsFiniteSet(Slots) /\ s # Null
  BY WalletNumbers
<1>3. /\ b \in SessionRow /\ b.charged = r.charged /\ b.refunded = r.refunded
      /\ b.paid = r.paid /\ b.there = r.there
      /\ b.payer = IF r.payer = s THEN Null ELSE r.payer
  <2>1. r \in SessionRow
    BY <1>1 DEF RowIsRight
  <2> QED BY <2>1 DEF WithoutPayer, SessionRow
<1>4. DOMAIN qs = DOMAIN ps /\ qs = [d \in DOMAIN qs |-> qs[d]] /\ DOMAIN ps \in SUBSET Slots
  BY <1>1 DEF PilesWithout, PilesAreRight
<1>5. ASSUME NEW d \in DOMAIN ps
      PROVE  /\ PileIsRight(qs[d]) /\ qs[d].paid = ps[d].paid /\ qs[d].charged = ps[d].charged
             /\ qs[d].refunded = ps[d].refunded /\ qs[d].cvs = ps[d].cvs
             /\ qs[d].payer = IF ps[d].payer = s THEN Null ELSE ps[d].payer
  <2>1. PICK p : p = ps[d] /\ PileIsRight(p)
    BY <1>1 DEF PilesAreRight
  <2>2. p \in Delivery
    BY <2>1 DEF PileIsRight
  <2>3. PICK q : q = WithoutPayer(p, s)
    OBVIOUS
  <2>4. /\ q \in Delivery /\ q.paid = p.paid /\ q.charged = p.charged /\ q.refunded = p.refunded
        /\ q.cvs = p.cvs /\ q.payer = IF p.payer = s THEN Null ELSE p.payer
    BY <2>2, <2>3 DEF WithoutPayer, Delivery
  <2>5. PileIsRight(q)
    BY <2>1, <2>4 DEF PileIsRight
  <2>6. qs[d] = q
    BY <2>1, <2>3 DEF PilesWithout
  <2> QED BY <2>1, <2>4, <2>5, <2>6
<1>6. PilesAreRight(qs)
  BY <1>4, <1>5 DEF PilesAreRight
<1>7. Paid(qs) = Paid(ps)
  BY <1>4, <1>5 DEF Paid
<1>8. ChargedOf(qs) = ChargedOf(ps) /\ RefundedOf(qs) = RefundedOf(ps)
  BY <1>4, <1>5 DEF ChargedOf, RefundedOf
<1>9. RowIsRight(b, led)
  BY <1>1, <1>3 DEF RowIsRight
<1>10. Agree(b, l, qs, on)
  <2>1. DOMAIN ps = {1} => 1 \in DOMAIN ps
    OBVIOUS
  <2> QED BY <1>1, <1>3, <1>4, <1>5, <1>7, <1>8, <2>1 DEF Agree
<1>11. ASSUME NEW x \in Seats
       PROVE  Outstanding(b, qs, x) = IF x = s THEN 0 ELSE Outstanding(r, ps, x)
  <2>1. CASE x = s
    <3>1. \A d \in Slots : OutOf(qs, x)[d] = 0
      BY <1>2, <1>4, <1>5, <2>1 DEF OutOf
    <3>2. OutOf(qs, x) \in [Slots -> Int]
      BY <1>6, OutsAreNumbers
    <3>3. TotalOver(OutOf(qs, x), Slots) = 0
      BY <1>2, <3>1, <3>2, TotalOfZeros
    <3> QED BY <1>2, <1>3, <2>1, <3>3 DEF Outstanding
  <2>2. CASE x # s
    <3>1. OutOf(qs, x) = OutOf(ps, x)
      <4>1. \A d \in DOMAIN ps : qs[d].payer = x <=> ps[d].payer = x
        BY <1>2, <1>5, <2>2
      <4>2. \A d \in Slots : OutOf(qs, x)[d] = OutOf(ps, x)[d]
        BY <1>4, <1>5, <4>1 DEF OutOf
      <4> QED BY <4>2 DEF OutOf
    <3>2. b.payer = x <=> r.payer = x
      BY <1>2, <1>3, <2>2
    <3> QED BY <1>3, <1>7, <2>2, <3>1, <3>2 DEF Outstanding
  <2> QED BY <2>1, <2>2
<1>12. ASSUME NEW people, SeatedOr(people, r, ps) PROVE SeatedOr(people \ {s}, b, qs)
  BY <1>3, <1>4, <1>5, <1>12 DEF SeatedOr
<1>13. ASSUME NEW d, IsOpen(r, l, ps, d) PROVE IsOpen(b, l, qs, d)
  BY <1>3, <1>4, <1>5, <1>13 DEF IsOpen
<1> QED
  BY <1>6, <1>9, <1>10, <1>11, <1>12, <1>13 DEF Settled

LEMMA DeletionKeepsSessions ==
  ASSUME CapacityInv, NEW s \in Staff, Deleted(s), UNCHANGED <<loose, adding, up, ledger>>
  PROVE  SessionsAreSettled' /\ PayersAreSeated' /\ AddingIsOpen' /\ DrawsCover'
<1>1. SeatsAreRight /\ SessionsAreSettled /\ PayersAreSeated /\ AddingIsOpen /\ DrawsCover
  BY DEF CapacityInv
<1>2. /\ team' = team \ {s} /\ drawn' = [drawn EXCEPT ![s] = 0] /\ s \in Seats
      /\ row' = [t \in Triages |-> WithoutPayer(row[t], s)]
      /\ drops' = [t \in Triages |-> PilesWithout(drops[t], s)]
  BY DEF Deleted, WithoutPayer, PilesWithout, Seats
<1>3. ASSUME NEW t \in Triages
      PROVE  /\ Settled(row'[t], loose[t], drops'[t], up, ledger[t])
             /\ \A x \in Seats : Outstanding(row'[t], drops'[t], x)
                                   = IF x = s THEN 0 ELSE Outstanding(row[t], drops[t], x)
             /\ SeatedOr(team, row[t], drops[t]) => SeatedOr(team \ {s}, row'[t], drops'[t])
             /\ \A d : IsOpen(row[t], loose[t], drops[t], d) => IsOpen(row'[t], loose[t], drops'[t], d)
  <2>1. Settled(row[t], loose[t], drops[t], up, ledger[t])
    BY <1>1 DEF SessionsAreSettled
  <2>2. row'[t] = WithoutPayer(row[t], s) /\ drops'[t] = PilesWithout(drops[t], s)
    BY <1>2
  <2> QED BY <1>2, <2>1, <2>2, PayerIsRemoved
<1>4. SessionsAreSettled'
  <2>1. row' \in [Triages -> SessionRow]
    BY <1>2, <1>3 DEF Settled, RowIsRight
  <2>2. DOMAIN drops' = Triages /\ drops' = [t \in Triages |-> drops'[t]]
    BY <1>2
  <2> QED BY <1>1, <1>3, <2>1, <2>2 DEF SessionsAreSettled
<1>5. PayersAreSeated'
  BY <1>1, <1>2, <1>3 DEF PayersAreSeated
<1>6. AddingIsOpen'
  <2>1. \A a \in adding : a.session \in Triages
    BY <1>1 DEF AddingIsOpen
  <2> QED BY <1>1, <1>3, <2>1 DEF AddingIsOpen
<1>7. DrawsCover'
  <2> SUFFICES ASSUME NEW x \in Seats
               PROVE  TotalOver([t \in Triages |-> Outstanding(row'[t], drops'[t], x)], Triages) <= drawn'[x]
    BY DEF DrawsCover, OutIn
  <2>1. PICK g : g = [t \in Triages |-> Outstanding(row'[t], drops'[t], x)]
    OBVIOUS
  <2>2. CASE x = s
    <3>1. g \in [Triages -> Int] /\ \A t \in Triages : g[t] = 0
      BY <1>3, <2>1, <2>2
    <3>2. TotalOver(g, Triages) = 0
      BY <3>1, TriagesAreFinite, TotalOfZeros
    <3>3. drawn'[x] = 0
      BY <1>1, <1>2, <2>2 DEF SeatsAreRight
    <3> QED BY <2>1, <3>2, <3>3
  <2>3. CASE x # s
    <3>1. g = OutIn(x)
      BY <1>3, <2>1, <2>3 DEF OutIn
    <3>2. drawn'[x] = drawn[x]
      BY <1>1, <1>2, <2>3 DEF SeatsAreRight
    <3>3. TotalOver(OutIn(x), Triages) <= drawn[x]
      BY <1>1 DEF DrawsCover
    <3> QED BY <2>1, <3>1, <3>2, <3>3
  <2> QED BY <2>2, <2>3
<1> QED
  BY <1>4, <1>5, <1>6, <1>7

LEMMA DeletionKeepsSeats ==
  ASSUME SeatsAreRight, NEW s \in Staff, Deleted(s), split' = split,
         allowance' \in [Seats -> Nat \union {Null}], even' \in BOOLEAN
  PROVE  SeatsAreRight'
<1>1. /\ s \in team /\ s # Administrator /\ team' = team \ {s} /\ former' = former \union {s}
      /\ used' = [used EXCEPT ![s] = 0] /\ drawn' = [drawn EXCEPT ![s] = 0]
      /\ inherited' = inherited \ {s} /\ s \in Seats
  BY DEF Deleted, Seats
<1>2. used' \in [Seats -> Nat] /\ drawn' \in [Seats -> Int]
  BY <1>1 DEF SeatsAreRight
<1>3. \A x \in Seats : x # s => used'[x] = used[x] /\ drawn'[x] = drawn[x]
  BY <1>1 DEF SeatsAreRight
<1>4. used'[s] = 0 /\ drawn'[s] = 0
  BY <1>1 DEF SeatsAreRight
<1>5. \A x \in Seats \ team' : used'[x] = 0 /\ drawn'[x] = 0
  BY <1>1, <1>3, <1>4 DEF SeatsAreRight
<1>6. \A x \in team' \ inherited' : used'[x] = drawn'[x]
  BY <1>1, <1>3 DEF SeatsAreRight
<1> QED
  BY <1>1, <1>2, <1>5, <1>6 DEF SeatsAreRight

LEMMA LeaveKeeps == ASSUME CapacityInv, NEW s \in Staff, Leave(s) PROVE CapacityInv'
<1>1. SeatsAreRight /\ MoneyIsRight
  BY DEF CapacityInv
<1>2. Deleted(s) /\ Resettle(team \ {s}) /\ UNCHANGED <<split, pool, loose, adding, up, credits, ledger>>
  BY DEF Leave
<1>3. SessionsAreSettled' /\ PayersAreSeated' /\ AddingIsOpen' /\ DrawsCover'
  BY <1>2, DeletionKeepsSessions
<1>4. MoneyIsRight'
  BY <1>1, <1>2, MoneyRests
<1>5. PICK people : people = team \ {s}
  OBVIOUS
<1>6. people \in SUBSET Seats /\ Administrator \in people
  BY <1>1, <1>2, <1>5 DEF SeatsAreRight, Deleted
<1>7. allowance' \in [Seats -> Nat \union {Null}] /\ SharesAreRight' /\ even' \in BOOLEAN
  <2>1. Resettle(people) /\ split' = split /\ team' = people /\ pool' = pool
    BY <1>2, <1>5 DEF Deleted
  <2>2. \A x \in people : used'[x] = used[x]
    BY <1>1, <1>2, <1>5, <1>6 DEF Deleted, SeatsAreRight
  <2> QED BY <1>1, <1>6, <2>1, <2>2, ResettlingIsRight
<1>8. SeatsAreRight'
  BY <1>1, <1>2, <1>7, DeletionKeepsSeats
<1> QED
  BY <1>3, <1>4, <1>7, <1>8 DEF CapacityInv

LEMMA RenewalKeeps == ASSUME CapacityInv, NEW s \in Staff, Renewal(s) PROVE CapacityInv'
<1>1. SeatsAreRight /\ MoneyIsRight
  BY DEF CapacityInv
<1>2. /\ Deleted(s) /\ allowance' = [allowance EXCEPT ![s] = Null] /\ even' = FALSE
      /\ UNCHANGED <<split, pool, loose, adding, up, credits, ledger>>
  BY DEF Renewal
<1>3. SessionsAreSettled' /\ PayersAreSeated' /\ AddingIsOpen' /\ DrawsCover'
  BY <1>2, DeletionKeepsSessions
<1>4. MoneyIsRight'
  BY <1>1, <1>2, MoneyRests
<1>5. allowance' \in [Seats -> Nat \union {Null}] /\ even' \in BOOLEAN
  BY <1>1, <1>2 DEF SeatsAreRight
<1>6. SharesAreRight'
  BY <1>2 DEF SharesAreRight
<1>7. SeatsAreRight'
  BY <1>1, <1>2, <1>5, DeletionKeepsSeats
<1> QED
  BY <1>3, <1>4, <1>6, <1>7 DEF CapacityInv

-----------------------------------------------------------------------------
(* The server stops and boots. *)
LEMMA CrashKeeps == ASSUME CapacityInv, Crash PROVE CapacityInv'
<1>1. /\ SeatsAreRight /\ SessionsAreSettled /\ PayersAreSeated /\ AddingIsOpen
      /\ MoneyIsRight /\ DrawsCover /\ SharesAreRight
  BY DEF CapacityInv
<1>2. /\ up /\ up' = FALSE /\ adding' = {}
      /\ UNCHANGED <<team, former, split, allowance, used, even, pool, row, loose, drops,
                     credits, ledger, drawn, inherited>>
  BY DEF Crash, seatVars, chargeVars
<1>3. ASSUME NEW t \in Triages PROVE Settled(row[t], loose[t], drops[t], FALSE, ledger[t])
  BY <1>1, <1>2 DEF SessionsAreSettled, Settled, Agree
<1>4. SessionsAreSettled'
  BY <1>1, <1>2, <1>3 DEF SessionsAreSettled
<1>5. SeatsAreRight' /\ SharesAreRight'
  BY <1>1, <1>2 DEF SeatsAreRight, SharesAreRight
<1>6. PayersAreSeated' /\ AddingIsOpen' /\ MoneyIsRight'
  BY <1>1, <1>2 DEF PayersAreSeated, AddingIsOpen, MoneyIsRight
<1>7. DrawsCover'
  <2>1. \A x : OutIn(x)' = OutIn(x)
    BY <1>2 DEF OutIn
  <2> QED BY <1>1, <1>2, <2>1, DrawsRest
<1> QED
  BY <1>4, <1>5, <1>6, <1>7 DEF CapacityInv

LEMMA BootKeeps == ASSUME CapacityInv, Boot PROVE CapacityInv'
<1>1. /\ SeatsAreRight /\ SessionsAreSettled /\ PayersAreSeated /\ AddingIsOpen
      /\ MoneyIsRight /\ DrawsCover /\ SharesAreRight
  BY DEF CapacityInv
<1>2. /\ ~up /\ up' = TRUE /\ drops' = [t \in Triages |-> Attributed(t)] /\ adding = {}
      /\ UNCHANGED <<team, former, split, allowance, used, even, pool, row, loose, adding,
                     credits, ledger, drawn, inherited>>
  BY <1>1 DEF Boot, seatVars, AddingIsOpen
<1>3. ASSUME NEW t \in Triages
      PROVE  /\ Settled(row[t], loose[t], drops'[t], TRUE, ledger[t])
             /\ \A x \in Seats : Outstanding(row[t], drops'[t], x) = Outstanding(row[t], drops[t], x)
             /\ SeatedOr(team, row[t], drops'[t])
  <2>1. Settled(row[t], loose[t], drops[t], FALSE, ledger[t])
    BY <1>1, <1>2 DEF SessionsAreSettled
  <2>2. /\ Settled(row[t], loose[t], Attributed(t), TRUE, ledger[t])
        /\ \A x \in Seats : Outstanding(row[t], Attributed(t), x) = Outstanding(row[t], drops[t], x)
        /\ DOMAIN Attributed(t) = DOMAIN drops[t]
        /\ \A d \in DOMAIN drops[t] : Attributed(t)[d].payer \in {row[t].payer, drops[t][d].payer}
    BY <2>1, AttributedIsSettled
  <2>3. SeatedOr(team, row[t], drops[t])
    BY <1>1 DEF PayersAreSeated
  <2>4. SeatedOr(team, row[t], Attributed(t))
    BY <2>2, <2>3 DEF SeatedOr
  <2>5. drops'[t] = Attributed(t)
    BY <1>2
  <2> QED BY <2>2, <2>4, <2>5
<1>4. SessionsAreSettled'
  BY <1>1, <1>2, <1>3 DEF SessionsAreSettled
<1>5. SeatsAreRight' /\ SharesAreRight'
  BY <1>1, <1>2 DEF SeatsAreRight, SharesAreRight
<1>6. PayersAreSeated' /\ AddingIsOpen' /\ MoneyIsRight'
  BY <1>1, <1>2, <1>3 DEF PayersAreSeated, AddingIsOpen, MoneyIsRight
<1>7. DrawsCover'
  <2> SUFFICES ASSUME NEW x \in Seats
               PROVE  TotalOver([t \in Triages |-> Outstanding(row'[t], drops'[t], x)], Triages) <= drawn'[x]
    BY DEF DrawsCover, OutIn
  <2>1. [t \in Triages |-> Outstanding(row'[t], drops'[t], x)] = OutIn(x)
    BY <1>2, <1>3 DEF OutIn
  <2>2. TotalOver(OutIn(x), Triages) <= drawn[x]
    BY <1>1 DEF DrawsCover
  <2> QED BY <1>2, <2>1, <2>2
<1> QED
  BY <1>4, <1>5, <1>6, <1>7 DEF CapacityInv

-----------------------------------------------------------------------------
(* A step of one session. *)
OnlySession(t, b, l, qs, led) ==
    /\ row' = [row EXCEPT ![t] = b] /\ loose' = [loose EXCEPT ![t] = l]
    /\ drops' = [drops EXCEPT ![t] = qs] /\ ledger' = [ledger EXCEPT ![t] = led] /\ up' = up
    /\ Settled(b, l, qs, up, led)

LEMMA OneSessionChanges ==
  ASSUME SessionsAreSettled, NEW t \in Triages, NEW b, NEW l, NEW qs, NEW led,
         OnlySession(t, b, l, qs, led)
  PROVE  /\ SessionsAreSettled'
         /\ \A y \in Triages \ {t} : row'[y] = row[y] /\ loose'[y] = loose[y] /\ drops'[y] = drops[y]
         /\ row'[t] = b /\ loose'[t] = l /\ drops'[t] = qs
<1> USE DEF OnlySession
<1>1. /\ row \in [Triages -> SessionRow] /\ loose \in [Triages -> 0..MaxPile]
      /\ ledger \in [Triages -> Nat] /\ up \in BOOLEAN
      /\ DOMAIN drops = Triages /\ drops = [y \in Triages |-> drops[y]]
  BY DEF SessionsAreSettled
<1>2. b \in SessionRow /\ l \in 0..MaxPile /\ led \in Nat
  BY DEF Settled, RowIsRight, Agree
<1>3. \A y \in Triages \ {t} : /\ row'[y] = row[y] /\ loose'[y] = loose[y] /\ drops'[y] = drops[y]
                               /\ ledger'[y] = ledger[y]
  BY <1>1
<1>4. row'[t] = b /\ loose'[t] = l /\ drops'[t] = qs /\ ledger'[t] = led
  BY <1>1
<1>5. \A y \in Triages : Settled(row'[y], loose'[y], drops'[y], up', ledger'[y])
  BY <1>3, <1>4 DEF SessionsAreSettled
<1>6. /\ row' \in [Triages -> SessionRow] /\ loose' \in [Triages -> 0..MaxPile]
      /\ ledger' \in [Triages -> Nat] /\ up' \in BOOLEAN
      /\ DOMAIN drops' = Triages /\ drops' = [y \in Triages |-> drops'[y]]
  BY <1>1, <1>2
<1>7. SessionsAreSettled'
  BY <1>5, <1>6 DEF SessionsAreSettled
<1> QED
  BY <1>3, <1>4, <1>7

(* ... changes what is outstanding by what it changes there, *)
LEMMA OneSessionOwes ==
  ASSUME SessionsAreSettled, SessionsAreSettled', NEW t \in Triages,
         \A y \in Triages \ {t} : row'[y] = row[y] /\ drops'[y] = drops[y],
         NEW x \in Seats
  PROVE  /\ TotalOver([y \in Triages |-> Outstanding(row'[y], drops'[y], x)], Triages)
              = TotalOver(OutIn(x), Triages)
                + (Outstanding(row'[t], drops'[t], x) - Outstanding(row[t], drops[t], x))
         /\ TotalOver(OutIn(x), Triages) \in Int
         /\ Outstanding(row'[t], drops'[t], x) \in Nat /\ Outstanding(row[t], drops[t], x) \in Nat
<1>1. \A y \in Triages : Outstanding(row[y], drops[y], x) \in Nat
  <2> SUFFICES ASSUME NEW y \in Triages PROVE Outstanding(row[y], drops[y], x) \in Nat
    OBVIOUS
  <2>1. Settled(row[y], loose[y], drops[y], up, ledger[y])
    BY DEF SessionsAreSettled
  <2> QED BY <2>1, OutstandingIsNatural
<1>2. \A y \in Triages : Outstanding(row'[y], drops'[y], x) \in Nat
  <2> SUFFICES ASSUME NEW y \in Triages PROVE Outstanding(row'[y], drops'[y], x) \in Nat
    OBVIOUS
  <2>1. Settled(row'[y], loose'[y], drops'[y], up', ledger'[y])
    BY DEF SessionsAreSettled
  <2> QED BY <2>1, OutstandingIsNatural
<1>3. PICK g : g = OutIn(x)
  OBVIOUS
<1>4. PICK h : h = [y \in Triages |-> Outstanding(row'[y], drops'[y], x)]
  OBVIOUS
<1>5. /\ g \in [Triages -> Int] /\ h \in [Triages -> Int]
      /\ \A y \in Triages \ {t} : g[y] = h[y]
      /\ g[t] = Outstanding(row[t], drops[t], x) /\ h[t] = Outstanding(row'[t], drops'[t], x)
  BY <1>1, <1>2, <1>3, <1>4 DEF OutIn
<1>6. TotalOver(h, Triages) = TotalOver(g, Triages) + (h[t] - g[t])
  BY <1>5, TriagesAreFinite, TotalOfOneChange
<1>7. TotalOver(g, Triages) \in Int
  BY <1>5, TriagesAreFinite, TotalType
<1> QED
  BY <1>1, <1>2, <1>3, <1>4, <1>5, <1>6, <1>7

(* ... and the history by what it is charged. *)
LEMMA OneSessionCosts ==
  ASSUME MoneyIsRight, NEW t \in Triages, ledger \in [Triages -> Nat], NEW led \in Nat,
         ledger' = [ledger EXCEPT ![t] = led], pool' = pool - (led - ledger[t]), pool' \in Nat,
         credits' = credits
  PROVE  MoneyIsRight'
<1>1. /\ ledger \in [Triages -> Int] /\ ledger' \in [Triages -> Int]
      /\ ledger'[t] = led /\ \A y \in Triages \ {t} : ledger[y] = ledger'[y]
  OBVIOUS
<1>2. PICK h \in [Triages -> Int] : h = ledger'
  BY <1>1
<1>3. TotalOver(h, Triages) = TotalOver(ledger, Triages) + (h[t] - ledger[t])
  <2>1. \A y \in Triages \ {t} : ledger[y] = h[y]
    BY <1>1, <1>2
  <2>2. PICK g \in [Triages -> Int] : g = ledger
    BY <1>1
  <2>3. \A y \in Triages \ {t} : g[y] = h[y]
    BY <2>1, <2>2
  <2>4. TotalOver(h, Triages) = TotalOver(g, Triages) + (h[t] - g[t])
    BY <2>3, TriagesAreFinite, TotalOfOneChange, ZenonT(60)
  <2> QED BY <2>2, <2>4
<1>4. TotalOver(ledger, Triages) \in Int
  BY <1>1, TriagesAreFinite, TotalType
<1>5. credits \in Nat /\ pool = credits - TotalOver(ledger, Triages) /\ pool \in Nat
  BY DEF MoneyIsRight
<1>6. PICK total \in Int : total = TotalOver(ledger, Triages)
  BY <1>4
<1>7. PICK before \in Nat : before = ledger[t]
  OBVIOUS
<1>8. TotalOver(h, Triages) = total + (led - before)
  BY <1>1, <1>2, <1>3, <1>6, <1>7
<1>9. pool' = credits - TotalOver(h, Triages)
  BY <1>5, <1>6, <1>7, <1>8
<1> QED
  BY <1>2, <1>5, <1>9 DEF MoneyIsRight

(* Whoever paid in the session is still there. *)
LEMMA OneSessionIsSeated ==
  ASSUME PayersAreSeated, NEW t \in Triages, SeatedOr(team, row'[t], drops'[t]), team' = team,
         \A y \in Triages \ {t} : row'[y] = row[y] /\ drops'[y] = drops[y]
  PROVE  PayersAreSeated'
<1>1. \A y \in Triages : SeatedOr(team', row'[y], drops'[y])
  BY DEF PayersAreSeated
<1> QED
  BY <1>1 DEF PayersAreSeated

(* Deliveries that are being added to the session are still open. *)
LEMMA OneSessionIsOpen ==
  ASSUME AddingIsOpen, NEW t \in Triages, adding' \subseteq adding, up' = up,
         \A y \in Triages \ {t} : row'[y] = row[y] /\ loose'[y] = loose[y] /\ drops'[y] = drops[y],
         \A a \in adding' : a.session = t => IsOpen(row'[t], loose'[t], drops'[t], a.drop)
  PROVE  AddingIsOpen'
<1>1. \A a \in adding' : IsOpen(row'[a.session], loose'[a.session], drops'[a.session], a.drop)
  <2> SUFFICES ASSUME NEW a \in adding'
               PROVE  IsOpen(row'[a.session], loose'[a.session], drops'[a.session], a.drop)
    OBVIOUS
  <2>1. a.session \in Triages /\ IsOpen(row[a.session], loose[a.session], drops[a.session], a.drop)
    BY DEF AddingIsOpen
  <2>2. CASE a.session = t
    BY <2>2
  <2>3. CASE a.session # t
    BY <2>1, <2>3
  <2> QED BY <2>2, <2>3
<1>2. adding' \subseteq [session : Triages, drop : Slots, seat : Seats]
  BY DEF AddingIsOpen
<1>3. ~up' => adding' = {}
  BY DEF AddingIsOpen
<1>4. \A a, c \in adding' : a.session = c.session /\ a.drop = c.drop => a = c
  BY DEF AddingIsOpen
<1> QED
  BY <1>1, <1>2, <1>3, <1>4 DEF AddingIsOpen

-----------------------------------------------------------------------------
(* Charging some deliveries of a session to a seat. *)

(* What a handler holds when it is about to charge deliveries of session t: they
   are those that the rows say, or the ones that its first act made of them. *)
Chargeable(t, ps, unpaid) ==
    /\ Settled(row[t], 0, ps, TRUE, ledger[t]) /\ row[t].there
    /\ row[t].paid => Paid(ps) # {}
    /\ \A x \in Seats : Outstanding(row[t], ps, x) = Outstanding(row[t], drops[t], x)
    /\ SeatedOr(team, row[t], ps)
    /\ unpaid # {} /\ unpaid \subseteq DOMAIN ps \ Paid(ps)
    /\ \A d \in unpaid : ps[d].cvs > 0

LEMMA ChargeIsSettled ==
  ASSUME NEW t \in Triages, NEW ps, NEW unpaid, Chargeable(t, ps, unpaid), NEW s \in Seats,
         NEW n, n = Cost(ps, unpaid), NEW after, after = ledger[t] + n
  PROVE  /\ n \in Nat /\ n > 0
         /\ Settled(ChargedRow(row[t], n, s), 0, ChargedPiles(ps, unpaid, s), TRUE, after)
         /\ OwesMore(row[t], ps, ChargedRow(row[t], n, s), ChargedPiles(ps, unpaid, s), s, n)
<1>1. PilesAreRight(ps) /\ unpaid \subseteq DOMAIN ps
  BY DEF Chargeable, Settled
<1>2. PICK g \in [Slots -> Int] : /\ \A d \in Slots : g[d] = IF d \in unpaid THEN ps[d].cvs ELSE 0
                                  /\ Cost(ps, unpaid) = TotalOver(g, Slots)
  BY <1>1, CostIsTotal
<1>3. ToCharge(row[t], ledger[t], ps, unpaid, g, n, after)
  BY <1>2 DEF Chargeable, ToCharge
<1>4. n \in Nat /\ n > 0
  BY <1>3, ChargingSettles
<1>5. Settled(ChargedRow(row[t], n, s), 0, ChargedPiles(ps, unpaid, s), TRUE, after)
  BY <1>3, ChargingSettles
<1>6. OwesMore(row[t], ps, ChargedRow(row[t], n, s), ChargedPiles(ps, unpaid, s), s, n)
  BY <1>3, ChargingSettles
<1> QED
  BY <1>4, <1>5, <1>6

LEMMA ChargeOfDrops ==
  ASSUME SessionsAreSettled, NEW t \in Triages, NEW ps, NEW unpaid, NEW s \in Seats,
         ChargeDrops(t, ps, unpaid, s), SeatsAreRight
  PROVE  /\ Affords(s, Cost(ps, unpaid)) /\ pool' = pool - Cost(ps, unpaid)
         /\ used' = [used EXCEPT ![s] = used[s] + Cost(ps, unpaid)]
         /\ drawn' = [drawn EXCEPT ![s] = drawn[s] + Cost(ps, unpaid)]
         /\ ledger' = [ledger EXCEPT ![t] = ledger[t] + Cost(ps, unpaid)]
         /\ row' = [row EXCEPT ![t] = ChargedRow(row[t], Cost(ps, unpaid), s)]
         /\ drops' = [drops EXCEPT ![t] = ChargedPiles(ps, unpaid, s)]
<1>1. PICK n : n = Cost(ps, unpaid)
  OBVIOUS
<1>2. /\ Affords(s, n) /\ pool' = pool - n
      /\ used' = [used EXCEPT ![s] = @ + n] /\ drawn' = [drawn EXCEPT ![s] = @ + n]
      /\ ledger' = [ledger EXCEPT ![t] = @ + n]
      /\ row' = [row EXCEPT ![t].charged = @ + n, ![t].paid = TRUE,
                            ![t].payer = IF row[t].paid THEN @ ELSE s]
      /\ drops' = [drops EXCEPT ![t] = ChargedPiles(ps, unpaid, s)]
  BY <1>1 DEF ChargeDrops, Cost, ChargedPiles
<1>3. row' = [row EXCEPT ![t] = ChargedRow(row[t], n, s)]
  <2>1. row \in [Triages -> SessionRow]
    BY DEF SessionsAreSettled
  <2>2. PICK r \in SessionRow : r = row[t]
    BY <2>1
  <2>3. row'[t] = [r EXCEPT !.charged = r.charged + n, !.paid = TRUE,
                            !.payer = IF r.paid THEN r.payer ELSE s]
    BY <1>2, <2>1, <2>2 DEF SessionRow
  <2>4. row' = [row EXCEPT ![t] = row'[t]]
    BY <1>2, <2>1
  <2> QED BY <2>2, <2>3, <2>4 DEF ChargedRow
<1> QED
  BY <1>1, <1>2, <1>3

LEMMA ChargingIsSound ==
  ASSUME CapacityInv, up, NEW t \in Triages, NEW ps, NEW unpaid, Chargeable(t, ps, unpaid),
         NEW s \in Seats, ChargeDrops(t, ps, unpaid, s), loose' = [loose EXCEPT ![t] = 0],
         UNCHANGED <<team, former, split, even, allowance, up, credits, inherited>>
  PROVE  /\ SeatsAreRight' /\ SessionsAreSettled' /\ PayersAreSeated' /\ MoneyIsRight'
         /\ DrawsCover' /\ SharesAreRight'
         /\ \A y \in Triages \ {t} : row'[y] = row[y] /\ loose'[y] = loose[y] /\ drops'[y] = drops[y]
<1>1. /\ SeatsAreRight /\ SessionsAreSettled /\ PayersAreSeated
      /\ MoneyIsRight /\ DrawsCover /\ SharesAreRight
  BY DEF CapacityInv
<1>2. PICK n : n = Cost(ps, unpaid)
  OBVIOUS
<1>3. PICK b : b = ChargedRow(row[t], n, s)
  OBVIOUS
<1>4. PICK qs : qs = ChargedPiles(ps, unpaid, s)
  OBVIOUS
<1>5. /\ Affords(s, n) /\ pool' = pool - n
      /\ used' = [used EXCEPT ![s] = used[s] + n] /\ drawn' = [drawn EXCEPT ![s] = drawn[s] + n]
      /\ ledger' = [ledger EXCEPT ![t] = ledger[t] + n]
      /\ row' = [row EXCEPT ![t] = b] /\ drops' = [drops EXCEPT ![t] = qs]
  BY <1>1, <1>2, <1>3, <1>4, ChargeOfDrops
<1>6. PICK after : after = ledger[t] + n
  OBVIOUS
<1>7. /\ n \in Nat /\ n > 0 /\ Settled(b, 0, qs, TRUE, after)
      /\ \A x \in Seats : Outstanding(b, qs, x) = Outstanding(row[t], ps, x) + (IF x = s THEN n ELSE 0)
  <2>1. /\ n \in Nat /\ n > 0
        /\ Settled(ChargedRow(row[t], n, s), 0, ChargedPiles(ps, unpaid, s), TRUE, after)
        /\ OwesMore(row[t], ps, ChargedRow(row[t], n, s), ChargedPiles(ps, unpaid, s), s, n)
    BY <1>2, <1>6, ChargeIsSettled
  <2> QED BY <1>3, <1>4, <2>1 DEF OwesMore
<1>8. \A x \in Seats : Outstanding(b, qs, x) = Outstanding(row[t], drops[t], x) + (IF x = s THEN n ELSE 0)
  BY <1>7 DEF Chargeable
<1>9. /\ SessionsAreSettled'
      /\ \A y \in Triages \ {t} : row'[y] = row[y] /\ loose'[y] = loose[y] /\ drops'[y] = drops[y]
      /\ row'[t] = b /\ loose'[t] = 0 /\ drops'[t] = qs
  <2>1. up = TRUE
    BY <1>1 DEF SessionsAreSettled
  <2>2. Settled(b, 0, qs, up, after) /\ ledger' = [ledger EXCEPT ![t] = after] /\ up' = up
    BY <1>5, <1>7, <1>6, <2>1
  <2>3. row' = [row EXCEPT ![t] = b] /\ drops' = [drops EXCEPT ![t] = qs]
    BY <1>5
  <2>4. PICK l : l = 0
    OBVIOUS
  <2>5. Settled(b, l, qs, up, after) /\ loose' = [loose EXCEPT ![t] = l]
    BY <2>2, <2>4
  <2>6. OnlySession(t, b, l, qs, after)
    BY <2>2, <2>3, <2>5 DEF OnlySession
  <2>7. /\ SessionsAreSettled'
        /\ \A y \in Triages \ {t} : row'[y] = row[y] /\ loose'[y] = loose[y] /\ drops'[y] = drops[y]
        /\ row'[t] = b /\ loose'[t] = l /\ drops'[t] = qs
    BY <1>1, <2>6, OneSessionChanges
  <2> QED BY <2>4, <2>7
<1>10. PayersAreSeated'
  <2>1. SeatedOr(team, row[t], ps)
    BY DEF Chargeable
  <2>2. s \in team
    BY <1>5 DEF Affords
  <2>3. b.payer \in {row[t].payer, s}
    <3>1. row[t] \in SessionRow
      BY <1>1 DEF SessionsAreSettled
    <3> QED BY <1>3, <3>1 DEF ChargedRow, SessionRow
  <2>4. DOMAIN qs = DOMAIN ps
    BY <1>4 DEF ChargedPiles
  <2>5. \A d \in DOMAIN ps : qs[d].payer \in {ps[d].payer, s}
    <3> SUFFICES ASSUME NEW d \in DOMAIN ps PROVE qs[d].payer \in {ps[d].payer, s}
      OBVIOUS
    <3>1. PilesAreRight(ps)
      BY DEF Chargeable, Settled
    <3>2. PICK p : p = ps[d] /\ p \in Delivery
      BY <3>1 DEF PilesAreRight, PileIsRight
    <3>3. qs[d] = p \/ qs[d] = [p EXCEPT !.paid = TRUE, !.charged = p.cvs, !.payer = s]
      BY <1>4, <3>2 DEF ChargedPiles
    <3> QED BY <3>2, <3>3 DEF Delivery
  <2>6. SeatedOr(team, b, qs)
    BY <2>1, <2>2, <2>3, <2>4, <2>5 DEF SeatedOr
  <2>7. SeatedOr(team, row'[t], drops'[t])
    BY <1>9, <2>6
  <2> QED BY <1>1, <1>9, <2>7, OneSessionIsSeated
<1>11. pool \in Nat /\ pool' \in Nat /\ n <= pool /\ s \in team
  BY <1>1, <1>5, <1>7 DEF MoneyIsRight, Affords
<1>12. MoneyIsRight'
  <2>1. ledger \in [Triages -> Nat]
    BY <1>1 DEF SessionsAreSettled
  <2>2. PICK led \in Nat : led = ledger[t] + n
    BY <1>7, <2>1
  <2>3. ledger' = [ledger EXCEPT ![t] = led] /\ pool' = pool - (led - ledger[t])
    <3>1. ledger[t] \in Nat
      BY <2>1
    <3> QED BY <1>5, <1>7, <1>11, <2>2, <3>1
  <2> QED BY <1>1, <1>11, <2>1, <2>3, OneSessionCosts
<1>13. /\ used \in [Seats -> Nat] /\ drawn \in [Seats -> Int] /\ team \subseteq Seats
       /\ used[s] \in Nat /\ drawn[s] \in Int
  BY <1>1 DEF SeatsAreRight
<1>14. /\ used' \in [Seats -> Nat] /\ drawn' \in [Seats -> Int]
       /\ used'[s] = used[s] + n /\ drawn'[s] = drawn[s] + n
       /\ \A x \in Seats \ {s} : used'[x] = used[x] /\ drawn'[x] = drawn[x]
  BY <1>5, <1>7, <1>13
<1>15. SeatsAreRight'
  <2>1. \A x \in Seats \ team : used'[x] = 0 /\ drawn'[x] = 0
    BY <1>1, <1>11, <1>14 DEF SeatsAreRight
  <2>2. \A x \in team \ inherited : used'[x] = drawn'[x]
    BY <1>1, <1>13, <1>14 DEF SeatsAreRight
  <2> QED BY <1>1, <1>14, <2>1, <2>2 DEF SeatsAreRight
<1>16. DrawsCover'
  <2> SUFFICES ASSUME NEW x \in Seats
               PROVE  TotalOver([y \in Triages |-> Outstanding(row'[y], drops'[y], x)], Triages) <= drawn'[x]
    BY DEF DrawsCover, OutIn
  <2>1. /\ TotalOver([y \in Triages |-> Outstanding(row'[y], drops'[y], x)], Triages)
              = TotalOver(OutIn(x), Triages)
                + (Outstanding(row'[t], drops'[t], x) - Outstanding(row[t], drops[t], x))
        /\ TotalOver(OutIn(x), Triages) \in Int
        /\ Outstanding(row'[t], drops'[t], x) \in Nat /\ Outstanding(row[t], drops[t], x) \in Nat
    BY <1>1, <1>9, OneSessionOwes
  <2>2. Outstanding(row'[t], drops'[t], x) = Outstanding(row[t], drops[t], x) + (IF x = s THEN n ELSE 0)
    BY <1>8, <1>9
  <2>3. PICK before \in Int : before = TotalOver(OutIn(x), Triages)
    BY <2>1
  <2>4. PICK there \in Nat : there = Outstanding(row[t], drops[t], x)
    BY <2>1
  <2>5. before <= drawn[x] /\ drawn[x] \in Int
    BY <1>1, <1>13, <2>3 DEF DrawsCover
  <2>6. TotalOver([y \in Triages |-> Outstanding(row'[y], drops'[y], x)], Triages)
          = before + (IF x = s THEN n ELSE 0)
    BY <1>7, <2>1, <2>2, <2>3, <2>4
  <2>7. drawn'[x] = drawn[x] + (IF x = s THEN n ELSE 0)
    BY <1>7, <1>13, <1>14, <2>5
  <2> QED BY <1>7, <2>5, <2>6, <2>7
<1>17. SharesAreRight'
  <2> SUFFICES ASSUME split, even
               PROVE  TotalOver(LeftTo(team, allowance, used'), team) = pool'
    BY <1>1 DEF SharesAreRight
  <2>1. (\A x \in team : allowance[x] # Null) /\ TotalOver(LeftTo(team, allowance, used), team) = pool
    BY <1>1 DEF SharesAreRight
  <2>2. allowance \in [Seats -> Nat \union {Null}]
    BY <1>1 DEF SeatsAreRight
  <2>3. PICK g : g = LeftTo(team, allowance, used)
    OBVIOUS
  <2>4. PICK h : h = LeftTo(team, allowance, used')
    OBVIOUS
  <2>5. \A x \in team : /\ g[x] = allowance[x] - used[x] /\ h[x] = allowance[x] - used'[x]
                        /\ allowance[x] \in Nat /\ used[x] \in Nat /\ used'[x] \in Nat
    BY <1>13, <1>14, <2>1, <2>2, <2>3, <2>4 DEF LeftTo
  <2>6. g \in [team -> Int] /\ h \in [team -> Int]
    BY <2>3, <2>4, <2>5 DEF LeftTo
  <2>7. \A x \in team \ {s} : g[x] = h[x]
    BY <1>13, <1>14, <2>5
  <2>8. IsFiniteSet(team)
    BY <1>13, TeamIsFinite
  <2>9. TotalOver(h, team) = TotalOver(g, team) + (h[s] - g[s])
    BY <1>11, <2>6, <2>7, <2>8, TotalOfOneChange
  <2>10. h[s] - g[s] = 0 - n
    BY <1>7, <1>11, <1>14, <2>5
  <2> QED BY <1>5, <1>7, <1>11, <2>1, <2>3, <2>4, <2>9, <2>10
<1> QED
  BY <1>9, <1>10, <1>12, <1>15, <1>16, <1>17

-----------------------------------------------------------------------------
(* Deliveries of a session that are set up or dropped without a charge. *)
SetUp(t, qs) ==
    /\ Settled(row[t], 0, qs, TRUE, ledger[t])
    /\ \A x \in Seats : Outstanding(row[t], qs, x) = Outstanding(row[t], drops[t], x)
    /\ SeatedOr(team, row[t], qs)

LEMMA SettingUpIsSound ==
  ASSUME CapacityInv, up, NEW t \in Triages, NEW qs, SetUp(t, qs),
         drops' = [drops EXCEPT ![t] = qs], loose' = [loose EXCEPT ![t] = 0],
         UNCHANGED <<team, former, split, even, allowance, used, pool, row, up, credits, ledger, drawn, inherited>>
  PROVE  /\ SeatsAreRight' /\ SessionsAreSettled' /\ PayersAreSeated' /\ MoneyIsRight'
         /\ DrawsCover' /\ SharesAreRight'
         /\ \A y \in Triages \ {t} : row'[y] = row[y] /\ loose'[y] = loose[y] /\ drops'[y] = drops[y]
         /\ row'[t] = row[t] /\ loose'[t] = 0 /\ drops'[t] = qs
<1>1. /\ SeatsAreRight /\ SessionsAreSettled /\ PayersAreSeated
      /\ MoneyIsRight /\ DrawsCover /\ SharesAreRight
  BY DEF CapacityInv
<1>2. SeatsAreRight' /\ SharesAreRight'
  BY <1>1 DEF SeatsAreRight, SharesAreRight
<1>3. MoneyIsRight'
  BY <1>1, MoneyRests
<1>4. PICK l : l = 0
  OBVIOUS
<1>5. PICK b : b = row[t]
  OBVIOUS
<1>6. PICK led : led = ledger[t]
  OBVIOUS
<1>7. OnlySession(t, b, l, qs, led)
  <2>1. row' = [row EXCEPT ![t] = b] /\ ledger' = [ledger EXCEPT ![t] = led]
    BY <1>1, <1>5, <1>6 DEF SessionsAreSettled
  <2>2. up = TRUE
    BY <1>1 DEF SessionsAreSettled
  <2>3. Settled(b, l, qs, up, led)
    BY <1>4, <1>5, <1>6, <2>2 DEF SetUp
  <2> QED BY <1>4, <2>1, <2>3 DEF OnlySession
<1>8. /\ SessionsAreSettled'
      /\ \A y \in Triages \ {t} : row'[y] = row[y] /\ loose'[y] = loose[y] /\ drops'[y] = drops[y]
      /\ row'[t] = b /\ loose'[t] = l /\ drops'[t] = qs
  BY <1>1, <1>7, OneSessionChanges
<1>9. PayersAreSeated'
  <2>1. SeatedOr(team, row'[t], drops'[t])
    BY <1>5, <1>8 DEF SetUp
  <2> QED BY <1>1, <1>8, <2>1, OneSessionIsSeated
<1>10. DrawsCover'
  <2> SUFFICES ASSUME NEW x \in Seats
               PROVE  TotalOver([y \in Triages |-> Outstanding(row'[y], drops'[y], x)], Triages) <= drawn'[x]
    BY DEF DrawsCover, OutIn
  <2>1. /\ TotalOver([y \in Triages |-> Outstanding(row'[y], drops'[y], x)], Triages)
              = TotalOver(OutIn(x), Triages)
                + (Outstanding(row'[t], drops'[t], x) - Outstanding(row[t], drops[t], x))
        /\ TotalOver(OutIn(x), Triages) \in Int
        /\ Outstanding(row'[t], drops'[t], x) \in Nat /\ Outstanding(row[t], drops[t], x) \in Nat
    BY <1>1, <1>8, OneSessionOwes
  <2>2. Outstanding(row'[t], drops'[t], x) = Outstanding(row[t], drops[t], x)
    BY <1>5, <1>8 DEF SetUp
  <2>3. TotalOver(OutIn(x), Triages) <= drawn[x]
    BY <1>1 DEF DrawsCover
  <2>4. TotalOver([y \in Triages |-> Outstanding(row'[y], drops'[y], x)], Triages) = TotalOver(OutIn(x), Triages)
    BY <2>1, <2>2
  <2> QED BY <2>3, <2>4
<1> QED
  BY <1>2, <1>3, <1>4, <1>5, <1>8, <1>9, <1>10

(* What a handler makes of the CVs in no delivery, before it charges or adds. *)
LEMMA EnsuringSetsUp ==
  ASSUME CapacityInv, up, NEW t \in Triages
  PROVE  /\ SetUp(t, Ensured(t))
         /\ row[t].paid => Paid(Ensured(t)) # {}
         /\ ~row[t].paid => Paid(Ensured(t)) = {}
         /\ \A d \in DOMAIN drops[t] : d \in DOMAIN Ensured(t) /\ Ensured(t)[d] = drops[t][d]
<1>1. SessionsAreSettled /\ PayersAreSeated
  BY DEF CapacityInv
<1>2. Settled(row[t], loose[t], drops[t], TRUE, ledger[t])
  <2>1. up = TRUE
    BY <1>1 DEF SessionsAreSettled
  <2> QED BY <1>1, <2>1 DEF SessionsAreSettled
<1>3. /\ Settled(row[t], 0, Ensured(t), TRUE, ledger[t])
      /\ row[t].paid => Paid(Ensured(t)) # {}
      /\ ~row[t].paid => Paid(Ensured(t)) = {}
      /\ \A s \in Seats : Outstanding(row[t], Ensured(t), s) = Outstanding(row[t], drops[t], s)
      /\ \A d \in DOMAIN drops[t] : d \in DOMAIN Ensured(t) /\ Ensured(t)[d] = drops[t][d]
      /\ \A d \in DOMAIN Ensured(t) :
              d \in DOMAIN drops[t] \/ (Ensured(t)[d].payer \in {row[t].payer, Null} /\ loose[t] > 0)
  BY <1>2, EnsuredIsSettled
<1>4. SeatedOr(team, row[t], drops[t])
  BY <1>1 DEF PayersAreSeated
<1>5. SeatedOr(team, row[t], Ensured(t))
  BY <1>3, <1>4 DEF SeatedOr
<1> QED
  BY <1>3, <1>5 DEF SetUp

LEMMA LaunchKeeps ==
  ASSUME CapacityInv, NEW t \in Triages, NEW s \in Seats, NEW started \in BOOLEAN, Launch(t, s, started)
  PROVE  CapacityInv'
<1>1. AddingIsOpen
  BY DEF CapacityInv
<1>2. PICK ps : ps = Ensured(t)
  OBVIOUS
<1>3. PICK unpaid : unpaid = {d \in DOMAIN ps \ Paid(ps) : ps[d].cvs > 0}
  OBVIOUS
<1>4. /\ up /\ row[t].there /\ ~row[t].paid /\ unpaid # {}
      /\ loose' = [loose EXCEPT ![t] = 0]
      /\ IF started THEN ChargeDrops(t, ps, unpaid, s)
         ELSE /\ drops' = [drops EXCEPT ![t] = ps]
              /\ UNCHANGED <<pool, used, drawn, ledger, row>>
      /\ UNCHANGED <<team, former, split, even, allowance, adding, up, credits, inherited>>
  BY <1>2, <1>3 DEF Launch
<1>5. SetUp(t, ps)
  BY <1>2, <1>4, EnsuringSetsUp
<1>6. ASSUME NEW a \in adding, a.session = t PROVE FALSE
  BY <1>1, <1>4, <1>6 DEF AddingIsOpen, IsOpen
<1>7. CASE started
  <2>1. Chargeable(t, ps, unpaid)
    BY <1>3, <1>4, <1>5 DEF Chargeable, SetUp
  <2>2. ChargeDrops(t, ps, unpaid, s)
    BY <1>4, <1>7
  <2>3. /\ SeatsAreRight' /\ SessionsAreSettled' /\ PayersAreSeated' /\ MoneyIsRight'
        /\ DrawsCover' /\ SharesAreRight'
        /\ \A y \in Triages \ {t} : row'[y] = row[y] /\ loose'[y] = loose[y] /\ drops'[y] = drops[y]
    BY <1>4, <2>1, <2>2, ChargingIsSound
  <2>4. AddingIsOpen'
    <3>1. adding' \subseteq adding /\ up' = up
      BY <1>4
    <3>2. \A a \in adding' : a.session = t => IsOpen(row'[t], loose'[t], drops'[t], a.drop)
      BY <1>4, <1>6
    <3> QED BY <1>1, <2>3, <3>1, <3>2, OneSessionIsOpen
  <2> QED BY <2>3, <2>4 DEF CapacityInv
<1>8. CASE ~started
  <2>1. /\ SeatsAreRight' /\ SessionsAreSettled' /\ PayersAreSeated' /\ MoneyIsRight'
        /\ DrawsCover' /\ SharesAreRight'
        /\ \A y \in Triages \ {t} : row'[y] = row[y] /\ loose'[y] = loose[y] /\ drops'[y] = drops[y]
    BY <1>4, <1>5, <1>8, SettingUpIsSound
  <2>2. AddingIsOpen'
    <3>1. adding' \subseteq adding /\ up' = up
      BY <1>4
    <3>2. \A a \in adding' : a.session = t => IsOpen(row'[t], loose'[t], drops'[t], a.drop)
      BY <1>4, <1>6
    <3> QED BY <1>1, <2>1, <3>1, <3>2, OneSessionIsOpen
  <2> QED BY <2>1, <2>2 DEF CapacityInv
<1> QED
  BY <1>7, <1>8

(* One more delivery, unpaid. *)
WithDrop(ps, d, p) == [e \in DOMAIN ps \union {d} |-> IF e = d THEN p ELSE ps[e]]

LEMMA AddingSetsUp ==
  ASSUME NEW t \in Triages, NEW ps, SetUp(t, ps), row[t].paid => Paid(ps) # {},
         NEW d \in Slots, d \notin DOMAIN ps, NEW p, p \in Delivery, ~p.paid,
         p.charged = 0, p.refunded = 0, p.payer = Null
  PROVE  SetUp(t, WithDrop(ps, d, p))
<1>1. PICK r, led : r = row[t] /\ led = ledger[t]
  OBVIOUS
<1>2. PICK qs : qs = WithDrop(ps, d, p)
  OBVIOUS
<1>3. Settled(r, 0, ps, TRUE, led) /\ SeatedOr(team, r, ps) /\ PilesAreRight(ps)
      /\ \A x \in Seats : Outstanding(r, ps, x) = Outstanding(row[t], drops[t], x)
  BY <1>1 DEF SetUp, Settled
<1>4. /\ DOMAIN qs = DOMAIN ps \union {d} /\ qs = [e \in DOMAIN qs |-> qs[e]] /\ qs[d] = p
      /\ \A e \in DOMAIN ps : qs[e] = ps[e]
  BY <1>2 DEF WithDrop
<1>5. PileIsRight(p)
  BY DEF PileIsRight
<1>6. PilesAreRight(qs)
  BY <1>3, <1>4, <1>5 DEF PilesAreRight
<1>7. Paid(qs) = Paid(ps) /\ \A e \in Paid(ps) : qs[e] = ps[e]
  BY <1>4 DEF Paid
<1>8. /\ Settled(r, 0, qs, TRUE, led)
      /\ \A x \in Seats : Outstanding(r, qs, x) = Outstanding(r, ps, x)
  <2>1. SamePaid(r, ps, qs)
    BY <1>1, <1>6, <1>7 DEF SamePaid
  <2>2. Settled(r, 0, ps, TRUE, led)
    BY <1>3
  <2>3. Settled(r, 0, qs, TRUE, led)
    BY <2>1, <2>2, UnpaidComeAndGo
  <2>4. \A x \in Seats : Outstanding(r, qs, x) = Outstanding(r, ps, x)
    BY <2>1, <2>2, UnpaidComeAndGo
  <2> QED BY <2>3, <2>4
<1>9. SeatedOr(team, r, qs)
  BY <1>3, <1>4 DEF SeatedOr
<1> QED
  BY <1>1, <1>2, <1>3, <1>8, <1>9 DEF SetUp

LEMMA RequestKeeps ==
  ASSUME CapacityInv, NEW t \in Triages, NEW s \in Seats, NEW asked \in 1..MaxPile, NEW n \in 0..asked,
         RequestAdd(t, s, asked, n)
  PROVE  CapacityInv'
<1>1. AddingIsOpen
  BY DEF CapacityInv
<1>2. PICK ps : ps = Ensured(t)
  OBVIOUS
<1>3. PICK d : d = NextDrop(ps)
  OBVIOUS
<1>4. PICK p : p = Unpaid(n, s)
  OBVIOUS
<1>5. PICK qs : qs = WithDrop(ps, d, p)
  OBVIOUS
<1>6. /\ up /\ row[t].there /\ row[t].paid /\ d <= MaxDrops
      /\ loose' = [loose EXCEPT ![t] = 0] /\ drops' = [drops EXCEPT ![t] = qs]
      /\ adding' = adding \union {[session |-> t, drop |-> d, seat |-> s]}
      /\ UNCHANGED <<team, former, split, even, allowance, used, pool, row, up, credits, ledger, drawn, inherited>>
  BY <1>2, <1>3, <1>4, <1>5 DEF RequestAdd, WithDrop, seatVars
<1>7. /\ SetUp(t, ps) /\ (row[t].paid => Paid(ps) # {})
      /\ \A e \in DOMAIN drops[t] : e \in DOMAIN ps /\ ps[e] = drops[t][e]
  BY <1>2, <1>6, EnsuringSetsUp
<1>8. d \in Slots /\ d \notin DOMAIN ps
  <2>1. DOMAIN ps \in SUBSET Slots
    BY <1>7 DEF SetUp, Settled, PilesAreRight
  <2>2. NextDrop(ps) \in Nat \ {0} /\ NextDrop(ps) \notin DOMAIN ps
    BY <2>1, NextDropIsFree
  <2> QED BY <1>3, <1>6, <2>2, WalletNumbers DEF Slots
<1>9. p \in Delivery /\ ~p.paid /\ p.charged = 0 /\ p.refunded = 0 /\ p.payer = Null
  <2>1. n \in 0..MaxPile
    BY WalletNumbers
  <2> QED BY <1>4, <2>1 DEF Unpaid, Delivery
<1>10. SetUp(t, qs)
  BY <1>5, <1>7, <1>8, <1>9, AddingSetsUp
<1>11. /\ SeatsAreRight' /\ SessionsAreSettled' /\ PayersAreSeated' /\ MoneyIsRight'
       /\ DrawsCover' /\ SharesAreRight'
       /\ \A y \in Triages \ {t} : row'[y] = row[y] /\ loose'[y] = loose[y] /\ drops'[y] = drops[y]
       /\ row'[t] = row[t] /\ loose'[t] = 0 /\ drops'[t] = qs
  BY <1>6, <1>10, SettingUpIsSound
<1>12. DOMAIN qs = DOMAIN ps \union {d} /\ qs[d] = p /\ \A e \in DOMAIN ps : qs[e] = ps[e]
  BY <1>5, <1>8 DEF WithDrop
<1>13. ASSUME NEW a \in adding, a.session = t
       PROVE  a.drop # d /\ IsOpen(row'[t], loose'[t], drops'[t], a.drop)
  <2>1. IsOpen(row[t], loose[t], drops[t], a.drop)
    BY <1>1, <1>13 DEF AddingIsOpen
  <2>2. a.drop \in DOMAIN drops[t] /\ ~drops[t][a.drop].paid
    BY <1>6, <2>1 DEF IsOpen
  <2>3. a.drop \in DOMAIN ps /\ ps[a.drop] = drops[t][a.drop]
    BY <1>7, <2>2
  <2> QED BY <1>6, <1>8, <1>11, <1>12, <2>2, <2>3 DEF IsOpen
<1>14. PICK new : new = [session |-> t, drop |-> d, seat |-> s]
  OBVIOUS
<1>15. /\ new.session = t /\ new.drop = d /\ new \in [session : Triages, drop : Slots, seat : Seats]
       /\ adding' = adding \union {new}
  BY <1>6, <1>8, <1>14
<1>16. IsOpen(row'[t], loose'[t], drops'[t], d)
  BY <1>6, <1>9, <1>11, <1>12 DEF IsOpen
<1>17. AddingIsOpen'
  <2>1. adding' \subseteq [session : Triages, drop : Slots, seat : Seats]
    BY <1>1, <1>15 DEF AddingIsOpen
  <2>2. \A a \in adding' : IsOpen(row'[a.session], loose'[a.session], drops'[a.session], a.drop)
    <3> SUFFICES ASSUME NEW a \in adding'
                 PROVE  IsOpen(row'[a.session], loose'[a.session], drops'[a.session], a.drop)
      OBVIOUS
    <3>1. CASE a = new
      BY <1>15, <1>16, <3>1
    <3>2. CASE a \in adding
      <4>1. a.session \in Triages /\ IsOpen(row[a.session], loose[a.session], drops[a.session], a.drop)
        BY <1>1, <3>2 DEF AddingIsOpen
      <4> QED BY <1>11, <1>13, <3>2, <4>1
    <3> QED BY <1>15, <3>1, <3>2
  <2>3. \A a, c \in adding' : a.session = c.session /\ a.drop = c.drop => a = c
    BY <1>1, <1>13, <1>15 DEF AddingIsOpen
  <2> QED BY <1>6, <2>1, <2>2, <2>3 DEF AddingIsOpen
<1> QED
  BY <1>11, <1>17 DEF CapacityInv

-----------------------------------------------------------------------------
(* The rest of adding a delivery, and the end of a session.                 *)
LEMMA FinishKeeps ==
  ASSUME CapacityInv, NEW a \in adding, FinishAdd(a)
  PROVE  CapacityInv'
<1>1. /\ SeatsAreRight /\ SessionsAreSettled /\ PayersAreSeated /\ AddingIsOpen
      /\ MoneyIsRight /\ DrawsCover /\ SharesAreRight
  BY DEF CapacityInv
<1>2. PICK t \in Triages : t = a.session
  BY <1>1 DEF AddingIsOpen
<1>3. PICK ps : ps = drops[t]
  OBVIOUS
<1>4. PICK d : d = a.drop
  OBVIOUS
<1>5. PICK s \in Seats : s = a.seat
  BY <1>1 DEF AddingIsOpen
<1>6. up /\ IsOpen(row[t], loose[t], ps, d)
  BY <1>1, <1>2, <1>3, <1>4 DEF AddingIsOpen
<1>7. /\ adding' = adding \ {a}
      /\ IF d \in DOMAIN ps /\ ps[d].cvs > 0 /\ Affords(s, ps[d].cvs)
         THEN ChargeDrops(t, ps, {d}, s)
         ELSE /\ drops' = [drops EXCEPT ![t] = [e \in DOMAIN ps \ {d} |-> ps[e]]]
              /\ UNCHANGED <<pool, used, drawn, ledger, row>>
      /\ UNCHANGED <<team, former, split, even, allowance, loose, up, credits, inherited>>
  BY <1>2, <1>3, <1>4, <1>5 DEF FinishAdd
<1>8. \A c \in adding' : c.session = t => c.drop # d /\ IsOpen(row[t], loose[t], ps, c.drop)
  BY <1>1, <1>2, <1>3, <1>4, <1>7 DEF AddingIsOpen
<1>9. Settled(row[t], loose[t], ps, TRUE, ledger[t])
  <2>1. up = TRUE
    BY <1>1, <1>6 DEF SessionsAreSettled
  <2> QED BY <1>1, <1>3, <2>1 DEF SessionsAreSettled
<1>10. PilesAreRight(ps) /\ ps = [e \in DOMAIN ps |-> ps[e]]
  BY <1>9 DEF Settled, PilesAreRight
<1>11. adding' \subseteq adding /\ up' = up
  BY <1>7
<1>12. CASE ~row[t].there
  <2>1. d \notin DOMAIN ps
    BY <1>6, <1>12 DEF IsOpen
  <2>2. [e \in DOMAIN ps \ {d} |-> ps[e]] = ps
    <3>1. DOMAIN ps \ {d} = DOMAIN ps
      BY <2>1
    <3> QED BY <1>10, <3>1
  <2>3. drops' = drops
    <3>1. drops' = [drops EXCEPT ![t] = ps]
      BY <1>7, <2>1, <2>2
    <3> QED BY <1>1, <1>3, <3>1 DEF SessionsAreSettled
  <2>4. UNCHANGED <<pool, used, drawn, ledger, row>>
    BY <1>7, <2>1
  <2>5. SessionsAreSettled' /\ PayersAreSeated' /\ \A x : OutIn(x)' = OutIn(x)
    <3>1. SessionsAreSettled'
      BY <1>1, <1>7, <2>3, <2>4 DEF SessionsAreSettled
    <3>2. PayersAreSeated'
      BY <1>1, <1>7, <2>3, <2>4 DEF PayersAreSeated, SeatedOr
    <3> QED BY <2>3, <2>4, <3>1, <3>2 DEF OutIn
  <2>6. SeatsAreRight' /\ SharesAreRight'
    BY <1>1, <1>7, <2>4 DEF SeatsAreRight, SharesAreRight
  <2>7. MoneyIsRight' /\ DrawsCover'
    BY <1>1, <1>7, <2>4, <2>5, MoneyRests, DrawsRest
  <2>8. AddingIsOpen'
    <3>1. \A y \in Triages \ {t} : row'[y] = row[y] /\ loose'[y] = loose[y] /\ drops'[y] = drops[y]
      BY <1>7, <2>3, <2>4
    <3>2. \A c \in adding' : c.session = t => IsOpen(row'[t], loose'[t], drops'[t], c.drop)
      BY <1>3, <1>7, <1>8, <2>3, <2>4
    <3> QED BY <1>1, <1>11, <3>1, <3>2, OneSessionIsOpen
  <2> QED BY <2>5, <2>6, <2>7, <2>8 DEF CapacityInv
<1>13. CASE row[t].there
  <2>1. row[t].paid /\ loose[t] = 0 /\ d \in DOMAIN ps /\ ~ps[d].paid
    BY <1>6, <1>13 DEF IsOpen
  <2>2. Settled(row[t], 0, ps, TRUE, ledger[t]) /\ Paid(ps) # {}
    BY <1>9, <2>1 DEF Settled, Agree
  <2>3. loose' = [loose EXCEPT ![t] = 0]
    BY <1>1, <1>7, <2>1 DEF SessionsAreSettled
  <2>4. SeatedOr(team, row[t], ps)
    BY <1>1, <1>3 DEF PayersAreSeated
  <2>5. CASE ps[d].cvs > 0 /\ Affords(s, ps[d].cvs)
    <3>1. PICK unpaid : unpaid = {d}
      OBVIOUS
    <3>2. ChargeDrops(t, ps, unpaid, s)
      BY <1>7, <2>1, <2>5, <3>1
    <3>3. Chargeable(t, ps, unpaid)
      <4>1. unpaid # {} /\ unpaid \subseteq DOMAIN ps \ Paid(ps) /\ \A e \in unpaid : ps[e].cvs > 0
        BY <2>1, <2>5, <3>1 DEF Paid
      <4> QED BY <1>3, <1>13, <2>2, <2>4, <4>1 DEF Chargeable
    <3>4. UNCHANGED <<team, former, split, even, allowance, up, credits, inherited>>
      BY <1>7
    <3>5. /\ SeatsAreRight' /\ SessionsAreSettled' /\ PayersAreSeated' /\ MoneyIsRight'
          /\ DrawsCover' /\ SharesAreRight'
          /\ \A y \in Triages \ {t} : row'[y] = row[y] /\ loose'[y] = loose[y] /\ drops'[y] = drops[y]
          /\ row'[t].there = row[t].there /\ row'[t].paid = TRUE /\ loose'[t] = 0
          /\ drops'[t] = ChargedPiles(ps, unpaid, s)
      <4>1. up
        BY <1>6
      <4>2. /\ SeatsAreRight' /\ SessionsAreSettled' /\ PayersAreSeated' /\ MoneyIsRight'
            /\ DrawsCover' /\ SharesAreRight'
        BY <4>1, <2>3, <3>2, <3>3, <3>4, ChargingIsSound
      <4>3. \A y \in Triages \ {t} : row'[y] = row[y] /\ loose'[y] = loose[y] /\ drops'[y] = drops[y]
        BY <4>1, <2>3, <3>2, <3>3, <3>4, ChargingIsSound
      <4>4. PICK n : n = Cost(ps, unpaid)
        OBVIOUS
      <4>5. /\ row' = [row EXCEPT ![t].charged = @ + n, ![t].paid = TRUE,
                                   ![t].payer = IF row[t].paid THEN @ ELSE s]
            /\ drops' = [drops EXCEPT ![t] = ChargedPiles(ps, unpaid, s)]
        BY <3>2, <4>4 DEF ChargeDrops, Cost, ChargedPiles
      <4>6. /\ row'[t].there = row[t].there /\ row'[t].paid = TRUE /\ loose'[t] = 0
            /\ drops'[t] = ChargedPiles(ps, unpaid, s)
        BY <1>1, <2>3, <4>5 DEF SessionsAreSettled, SessionRow
      <4> QED BY <4>2, <4>3, <4>6
    <3>6. row'[t].there /\ row'[t].paid
      BY <1>13, <3>5
    <3>7. \A e \in DOMAIN ps \ {d} : e \in DOMAIN drops'[t] /\ drops'[t][e] = ps[e]
      BY <3>1, <3>5, ZenonT(60) DEF ChargedPiles
    <3>8. \A c \in adding' : c.session = t => IsOpen(row'[t], loose'[t], drops'[t], c.drop)
      BY <1>8, <1>13, <3>5, <3>6, <3>7 DEF IsOpen
    <3>9. AddingIsOpen'
      BY <1>1, <1>11, <3>5, <3>8, OneSessionIsOpen
    <3> QED BY <3>5, <3>9 DEF CapacityInv
  <2>6. CASE ~(ps[d].cvs > 0 /\ Affords(s, ps[d].cvs))
    <3>1. PICK qs : qs = [e \in DOMAIN ps \ {d} |-> ps[e]]
      OBVIOUS
    <3>2. DOMAIN qs = DOMAIN ps \ {d} /\ (\A e \in DOMAIN qs : qs[e] = ps[e])
          /\ qs = [e \in DOMAIN qs |-> qs[e]]
      BY <3>1
    <3>3. SamePaid(row[t], ps, qs)
      <4>1. PilesAreRight(qs)
        BY <1>10, <3>2 DEF PilesAreRight
      <4>2. Paid(qs) = Paid(ps)
        BY <2>1, <3>2 DEF Paid
      <4>3. \A e \in Paid(ps) : qs[e] = ps[e]
        BY <3>2, <4>2 DEF Paid
      <4> QED BY <2>2, <4>1, <4>2, <4>3 DEF SamePaid
    <3>4. Settled(row[t], 0, qs, TRUE, ledger[t])
      BY <2>2, <3>3, UnpaidComeAndGo
    <3>5. \A x \in Seats : Outstanding(row[t], qs, x) = Outstanding(row[t], ps, x)
      BY <2>2, <3>3, UnpaidComeAndGo
    <3>6. SeatedOr(team, row[t], qs)
      BY <2>4, <3>2 DEF SeatedOr
    <3>7. SetUp(t, qs)
      BY <1>3, <3>4, <3>5, <3>6 DEF SetUp
    <3>8. /\ drops' = [drops EXCEPT ![t] = qs]
          /\ UNCHANGED <<team, former, split, even, allowance, used, pool, row, up, credits, ledger, drawn, inherited>>
      BY <1>7, <2>6, <3>1
    <3>9. /\ SeatsAreRight' /\ SessionsAreSettled' /\ PayersAreSeated' /\ MoneyIsRight'
          /\ DrawsCover' /\ SharesAreRight'
          /\ \A y \in Triages \ {t} : row'[y] = row[y] /\ loose'[y] = loose[y] /\ drops'[y] = drops[y]
          /\ row'[t] = row[t] /\ loose'[t] = 0 /\ drops'[t] = qs
      BY <1>6, <2>3, <3>7, <3>8, SettingUpIsSound
    <3>10. \A c \in adding' : c.session = t => IsOpen(row'[t], loose'[t], drops'[t], c.drop)
      BY <1>8, <1>13, <3>2, <3>9 DEF IsOpen
    <3>11. AddingIsOpen'
      BY <1>1, <1>11, <3>9, <3>10, OneSessionIsOpen
    <3> QED BY <3>9, <3>11 DEF CapacityInv
  <2> QED BY <2>5, <2>6
<1> QED
  BY <1>12, <1>13

LEMMA DeleteKeeps ==
  ASSUME CapacityInv, NEW t \in Triages, DeleteTriage(t)
  PROVE  CapacityInv'
<1>1. /\ SeatsAreRight /\ SessionsAreSettled /\ PayersAreSeated /\ AddingIsOpen
      /\ MoneyIsRight /\ DrawsCover /\ SharesAreRight
  BY DEF CapacityInv
<1>2. PICK b : b = [OlderRow(FALSE, 0) EXCEPT !.there = FALSE]
  OBVIOUS
<1>3. PICK qs : qs = [d \in {} |-> Unpaid(0, Administrator)]
  OBVIOUS
<1>4. PICK l : l = 0
  OBVIOUS
<1>5. PICK led : led = ledger[t]
  OBVIOUS
<1>6. /\ up /\ row' = [row EXCEPT ![t] = b] /\ drops' = [drops EXCEPT ![t] = qs]
      /\ loose' = [loose EXCEPT ![t] = l]
      /\ UNCHANGED <<team, former, split, allowance, used, even, pool, adding, up, credits, ledger, drawn, inherited>>
  BY <1>2, <1>3, <1>4 DEF DeleteTriage, seatVars
<1>7. /\ b \in SessionRow /\ ~b.there /\ ~b.paid /\ b.charged = 0 /\ b.refunded = 0 /\ b.payer = Null
  BY <1>2, WalletNumbers DEF OlderRow, SessionRow
<1>8. DOMAIN qs = {} /\ qs = [d \in DOMAIN qs |-> qs[d]] /\ Paid(qs) = {}
  BY <1>3 DEF Paid
<1>9. Settled(b, l, qs, up, led)
  <2>1. led \in Nat
    BY <1>1, <1>5 DEF SessionsAreSettled
  <2>2. RowIsRight(b, led)
    BY <1>7, <2>1 DEF RowIsRight
  <2>3. PilesAreRight(qs)
    BY <1>8 DEF PilesAreRight
  <2>4. Agree(b, l, qs, up)
    BY <1>4, <1>7, <1>8, WalletNumbers DEF Agree
  <2> QED BY <2>2, <2>3, <2>4 DEF Settled
<1>10. OnlySession(t, b, l, qs, led)
  <2>1. ledger' = [ledger EXCEPT ![t] = led]
    BY <1>1, <1>5, <1>6 DEF SessionsAreSettled
  <2> QED BY <1>6, <1>9, <2>1 DEF OnlySession
<1>11. /\ SessionsAreSettled'
       /\ \A y \in Triages \ {t} : row'[y] = row[y] /\ loose'[y] = loose[y] /\ drops'[y] = drops[y]
       /\ row'[t] = b /\ loose'[t] = l /\ drops'[t] = qs
  BY <1>1, <1>10, OneSessionChanges
<1>12. PayersAreSeated'
  <2>1. SeatedOr(team, row'[t], drops'[t])
    BY <1>7, <1>8, <1>11 DEF SeatedOr
  <2> QED BY <1>1, <1>6, <1>11, <2>1, OneSessionIsSeated
<1>13. AddingIsOpen'
  <2>1. \A c \in adding' : c.session = t => IsOpen(row'[t], loose'[t], drops'[t], c.drop)
    BY <1>7, <1>8, <1>11 DEF IsOpen
  <2> QED BY <1>1, <1>6, <1>11, <2>1, OneSessionIsOpen
<1>14. MoneyIsRight'
  BY <1>1, <1>6, MoneyRests
<1>15. SeatsAreRight' /\ SharesAreRight'
  BY <1>1, <1>6 DEF SeatsAreRight, SharesAreRight
<1>16. DrawsCover'
  <2> SUFFICES ASSUME NEW x \in Seats
               PROVE  TotalOver([y \in Triages |-> Outstanding(row'[y], drops'[y], x)], Triages) <= drawn'[x]
    BY DEF DrawsCover, OutIn
  <2>1. /\ TotalOver([y \in Triages |-> Outstanding(row'[y], drops'[y], x)], Triages)
              = TotalOver(OutIn(x), Triages)
                + (Outstanding(row'[t], drops'[t], x) - Outstanding(row[t], drops[t], x))
        /\ TotalOver(OutIn(x), Triages) \in Int
        /\ Outstanding(row'[t], drops'[t], x) \in Nat /\ Outstanding(row[t], drops[t], x) \in Nat
    BY <1>1, <1>11, OneSessionOwes
  <2>2. Outstanding(row'[t], drops'[t], x) = 0
    BY <1>7, <1>8, <1>11, WalletNumbers DEF Outstanding
  <2>3. TotalOver(OutIn(x), Triages) <= drawn[x] /\ drawn[x] \in Int /\ drawn'[x] = drawn[x]
    BY <1>1, <1>6 DEF DrawsCover, SeatsAreRight
  <2> QED BY <2>1, <2>2, <2>3
<1> QED
  BY <1>11, <1>12, <1>13, <1>14, <1>15, <1>16 DEF CapacityInv

-----------------------------------------------------------------------------
(* Capacity that goes back.                                                 *)

(* What is owed is never more than what is left of the charge. *)
LEMMA OwedIsWithin ==
  ASSUME NEW charge, charge.charged \in Nat, charge.refunded \in Nat,
         charge.refunded <= charge.charged, NEW total \in Nat
  PROVE  Owed(charge, total) \in Nat /\ Owed(charge, total) <= charge.charged - charge.refunded
<1>1. PICK c \in Nat : c = charge.charged
  OBVIOUS
<1>2. PICK r \in Nat : r = charge.refunded
  OBVIOUS
<1>3. PICK m \in Nat : m = Min({total, c}) /\ m <= c
  BY LesserOfTwo
<1>4. PICK w \in Int : w = m - r
  BY <1>2, <1>3
<1>5. Owed(charge, total) = Max({0, w})
  BY <1>1, <1>2, <1>3, <1>4 DEF Owed
<1>6. Max({0, w}) = IF 0 < w THEN w ELSE 0
  BY <1>4, GreaterOfTwo
<1> QED
  BY <1>1, <1>2, <1>3, <1>4, <1>5, <1>6

(* A sum of what is owed, over all numbers a delivery can have. *)
LEMMA SumOfOwed ==
  ASSUME NEW some \in SUBSET Slots, NEW owed \in [some -> Nat], NEW T \in SUBSET some
  PROVE  /\ OwedIn(owed, T) \in [Slots -> Int] /\ \A d \in Slots : 0 <= OwedIn(owed, T)[d]
         /\ TotalOver(owed, T) = TotalOver(OwedIn(owed, T), Slots)
<1>1. IsFiniteSet(Slots) /\ T \in SUBSET Slots /\ IsFiniteSet(T)
  BY WalletNumbers, FS_Subset
<1>2. PICK h : h = OwedIn(owed, T)
  OBVIOUS
<1>3. h \in [Slots -> Int] /\ (\A d \in Slots : 0 <= h[d])
  BY <1>2 DEF OwedIn
<1>4. PICK k : k = [d \in T |-> owed[d]]
  OBVIOUS
<1>5. /\ k \in [T -> Int] /\ (\A d \in T : h[d] = k[d]) /\ \A d \in Slots \ T : h[d] = 0
      /\ \A d \in T : owed[d] \in Int
  BY <1>1, <1>2, <1>4 DEF OwedIn
<1>6. TotalOver(h, Slots) = TotalOver(k, T)
  BY <1>1, <1>3, <1>5, TotalOfSome
<1>7. TotalOver(owed, T) = TotalOver(k, T)
  BY <1>1, <1>4, <1>5, TotalOfPart
<1> QED
  BY <1>2, <1>3, <1>6, <1>7

(* A refund of session t: its row and deliveries become b and qs, `n` goes back to
   the pool and `toSeat` off the usage of each seat, `own` of it its own draw. *)
GivesBack(t, b, qs, toSeat, own, n, after) ==
    /\ Returned(t, toSeat, own, n)
    /\ row' = [row EXCEPT ![t] = b] /\ drops' = [drops EXCEPT ![t] = qs]
    /\ n \in Nat /\ n <= ledger[t] /\ after = ledger[t] - n
    /\ Settled(b, loose[t], qs, up, after)
    /\ toSeat \in [Seats -> Nat] /\ own \in [Seats -> Nat]
    /\ \A x \in Seats : own[x] <= toSeat[x]
    /\ \A x \in Seats : Outstanding(b, qs, x) = Outstanding(row[t], drops[t], x) - own[x]
    /\ SeatedOr(team, b, qs)
    /\ \A d : IsOpen(row[t], loose[t], drops[t], d) => IsOpen(b, loose[t], qs, d)

LEMMA RefundKeeps ==
  ASSUME CapacityInv, NEW t \in Triages, NEW b, NEW qs, NEW toSeat, NEW own, NEW n, NEW after,
         GivesBack(t, b, qs, toSeat, own, n, after),
         UNCHANGED <<team, former, split, allowance, loose, adding, up, credits>>
  PROVE  CapacityInv'
<1>1. /\ SeatsAreRight /\ SessionsAreSettled /\ PayersAreSeated /\ AddingIsOpen
      /\ MoneyIsRight /\ DrawsCover /\ SharesAreRight
  BY DEF CapacityInv
<1>2. /\ pool' = pool + n
      /\ ledger' = [ledger EXCEPT ![t] = ledger[t] - n]
      /\ used' = [x \in Seats |-> Max({0, used[x] - toSeat[x]})]
      /\ drawn' = [x \in Seats |-> drawn[x] - own[x]]
      /\ inherited' = inherited \union {x \in team : toSeat[x] > own[x]}
      /\ row' = [row EXCEPT ![t] = b] /\ drops' = [drops EXCEPT ![t] = qs]
      /\ n \in Nat /\ n <= ledger[t] /\ after = ledger[t] - n
  BY DEF GivesBack, Returned
<1>3. /\ toSeat \in [Seats -> Nat] /\ own \in [Seats -> Nat]
      /\ \A x \in Seats : own[x] <= toSeat[x]
      /\ \A x \in Seats : Outstanding(b, qs, x) = Outstanding(row[t], drops[t], x) - own[x]
      /\ SeatedOr(team, b, qs) /\ Settled(b, loose[t], qs, up, after)
      /\ \A d : IsOpen(row[t], loose[t], drops[t], d) => IsOpen(b, loose[t], qs, d)
  BY DEF GivesBack
<1>4. PICK l : l = loose[t]
  OBVIOUS
<1>5. OnlySession(t, b, l, qs, after)
  <2>1. loose' = [loose EXCEPT ![t] = l] /\ ledger' = [ledger EXCEPT ![t] = after]
    BY <1>1, <1>2, <1>4 DEF SessionsAreSettled
  <2> QED BY <1>2, <1>3, <1>4, <2>1 DEF OnlySession
<1>6. /\ SessionsAreSettled'
      /\ \A y \in Triages \ {t} : row'[y] = row[y] /\ loose'[y] = loose[y] /\ drops'[y] = drops[y]
      /\ row'[t] = b /\ loose'[t] = l /\ drops'[t] = qs
  BY <1>1, <1>5, OneSessionChanges
<1>7. PayersAreSeated'
  <2>1. SeatedOr(team, row'[t], drops'[t])
    BY <1>3, <1>6
  <2> QED BY <1>1, <1>6, <2>1, OneSessionIsSeated
<1>8. AddingIsOpen'
  <2>1. \A c \in adding' : c.session = t => IsOpen(row'[t], loose'[t], drops'[t], c.drop)
    BY <1>1, <1>3, <1>4, <1>6 DEF AddingIsOpen
  <2> QED BY <1>1, <1>6, <2>1, OneSessionIsOpen
<1>9. after \in Nat /\ ledger \in [Triages -> Nat] /\ ledger[t] \in Nat
  BY <1>1, <1>2 DEF SessionsAreSettled
<1>10. pool \in Nat /\ pool' \in Nat
  BY <1>1, <1>2 DEF MoneyIsRight
<1>11. MoneyIsRight'
  <2>1. ledger' = [ledger EXCEPT ![t] = after] /\ pool' = pool - (after - ledger[t])
    BY <1>2, <1>9, <1>10
  <2> QED BY <1>1, <1>9, <1>10, <2>1, OneSessionCosts
<1>12. /\ used \in [Seats -> Nat] /\ drawn \in [Seats -> Int] /\ team \subseteq Seats
       /\ allowance \in [Seats -> Nat \union {Null}]
  BY <1>1 DEF SeatsAreRight
<1>13. ASSUME NEW x \in Seats
       PROVE  /\ own[x] <= drawn[x]
              /\ TotalOver([y \in Triages |-> Outstanding(row'[y], drops'[y], x)], Triages) <= drawn'[x]
  <2>1. /\ TotalOver([y \in Triages |-> Outstanding(row'[y], drops'[y], x)], Triages)
              = TotalOver(OutIn(x), Triages)
                + (Outstanding(row'[t], drops'[t], x) - Outstanding(row[t], drops[t], x))
        /\ TotalOver(OutIn(x), Triages) \in Int
        /\ Outstanding(row'[t], drops'[t], x) \in Nat /\ Outstanding(row[t], drops[t], x) \in Nat
    BY <1>1, <1>6, OneSessionOwes
  <2>2. PICK o \in Nat : o = own[x]
    BY <1>3
  <2>3. PICK before \in Nat : before = Outstanding(row[t], drops[t], x)
    BY <2>1
  <2>4. Outstanding(row'[t], drops'[t], x) = before - o /\ o <= before
    BY <1>3, <1>6, <2>1, <2>2, <2>3
  <2>5. PICK whole \in Int : whole = TotalOver(OutIn(x), Triages)
    BY <2>1
  <2>6. whole <= drawn[x] /\ drawn[x] \in Int
    BY <1>1, <1>12, <2>5 DEF DrawsCover
  <2>7. before <= whole
    <3>1. PICK g : g = OutIn(x)
      OBVIOUS
    <3>2. ASSUME NEW y \in Triages PROVE Outstanding(row[y], drops[y], x) \in Nat
      <4>1. Settled(row[y], loose[y], drops[y], up, ledger[y])
        BY <1>1 DEF SessionsAreSettled
      <4> QED BY <4>1, OutstandingIsNatural
    <3>3. g \in [Triages -> Int] /\ (\A y \in Triages : 0 <= g[y]) /\ g[t] = before
      BY <2>3, <3>1, <3>2 DEF OutIn
    <3>4. g[t] <= TotalOver(g, Triages)
      BY <3>3, TriagesAreFinite, TermIsWithin
    <3> QED BY <2>5, <3>1, <3>3, <3>4
  <2>8. drawn'[x] = drawn[x] - o
    BY <1>2, <2>2
  <2>9. TotalOver([y \in Triages |-> Outstanding(row'[y], drops'[y], x)], Triages) = whole - o
    BY <2>1, <2>3, <2>4, <2>5
  <2> QED BY <2>2, <2>4, <2>6, <2>7, <2>8, <2>9
<1>14. DrawsCover'
  BY <1>13 DEF DrawsCover, OutIn
<1>15. ASSUME NEW x \in Seats
       PROVE  /\ used'[x] \in Nat /\ drawn'[x] \in Int
              /\ used'[x] = (IF toSeat[x] < used[x] THEN used[x] - toSeat[x] ELSE 0)
              /\ drawn'[x] = drawn[x] - own[x]
  <2>1. PICK u \in Nat : u = used[x]
    BY <1>12
  <2>2. PICK c \in Nat : c = toSeat[x]
    BY <1>3
  <2>3. PICK w \in Int : w = u - c
    BY <2>1, <2>2
  <2>4. used'[x] = Max({0, w})
    BY <1>2, <2>1, <2>2, <2>3
  <2>5. Max({0, w}) = IF 0 < w THEN w ELSE 0
    BY <2>3, GreaterOfTwo
  <2>6. drawn'[x] = drawn[x] - own[x] /\ drawn[x] \in Int /\ own[x] \in Nat
    BY <1>2, <1>3, <1>12
  <2> QED BY <2>1, <2>2, <2>3, <2>4, <2>5, <2>6
<1>16. used' \in [Seats -> Nat] /\ drawn' \in [Seats -> Int]
  <2>1. used' = [x \in Seats |-> used'[x]] /\ drawn' = [x \in Seats |-> drawn'[x]]
    BY <1>2
  <2> QED BY <1>15, <2>1
<1>17. SeatsAreRight'
  <2>1. even' \in BOOLEAN
    BY Zenon DEF GivesBack, Returned
  <2>2. inherited' \subseteq team
    BY <1>1, <1>2 DEF SeatsAreRight
  <2>3. ASSUME NEW x \in Seats \ team PROVE used'[x] = 0 /\ drawn'[x] = 0
    <3>1. used[x] = 0 /\ drawn[x] = 0
      BY <1>1 DEF SeatsAreRight
    <3>2. PICK o, c \in Nat : o = own[x] /\ c = toSeat[x]
      BY <1>3
    <3>3. o \in Nat /\ c \in Nat /\ o <= 0
      BY <1>13, <3>1, <3>2
    <3>4. used'[x] = (IF c < 0 THEN 0 - c ELSE 0) /\ drawn'[x] = 0 - o
      BY <1>15, <3>1, <3>2
    <3> QED BY <3>3, <3>4
  <2>4. ASSUME NEW x \in team \ inherited' PROVE used'[x] = drawn'[x]
    <3>1. used[x] = drawn[x]
      BY <1>1, <1>2 DEF SeatsAreRight
    <3>2. x \in Seats /\ ~(toSeat[x] > own[x])
      BY <1>2, <1>12
    <3>3. PICK o \in Nat : o = own[x]
      BY <1>3, <3>2
    <3>4. toSeat[x] = o
      BY <1>3, <3>2, <3>3
    <3>5. PICK u \in Nat : u = used[x]
      BY <1>12, <3>2
    <3>6. o <= u
      BY <1>13, <3>1, <3>2, <3>3, <3>5
    <3> QED BY <1>15, <3>1, <3>2, <3>3, <3>4, <3>5, <3>6
  <2> QED BY <1>1, <1>16, <2>1, <2>2, <2>3, <2>4 DEF SeatsAreRight
<1>18. SharesAreRight'
  <2> SUFFICES ASSUME split, even'
               PROVE  /\ \A x \in team : allowance[x] # Null
                      /\ TotalOver(LeftTo(team, allowance, used'), team) = pool'
    BY DEF SharesAreRight
  <2>1. even /\ MapThenSumSet(LAMBDA x : used[x] - used'[x], team) = n
    BY DEF GivesBack, Returned
  <2>2. (\A x \in team : allowance[x] # Null) /\ TotalOver(LeftTo(team, allowance, used), team) = pool
    BY <1>1, <2>1 DEF SharesAreRight
  <2>3. PICK g : g = LeftTo(team, allowance, used)
    OBVIOUS
  <2>4. PICK k : k = LeftTo(team, allowance, used')
    OBVIOUS
  <2>5. PICK h : h = [x \in team |-> used[x] - used'[x]]
    OBVIOUS
  <2>6. ASSUME NEW x \in team
        PROVE  /\ g[x] \in Int /\ h[x] \in Int /\ k[x] \in Int
               /\ k[x] = g[x] + h[x] /\ h[x] = used[x] - used'[x]
    <3>1. PICK a \in Nat : a = allowance[x]
      BY <1>12, <2>2
    <3>2. PICK u, v \in Nat : u = used[x] /\ v = used'[x]
      BY <1>12, <1>16
    <3>3. g[x] = a - u /\ k[x] = a - v /\ h[x] = u - v
      BY <2>3, <2>4, <2>5, <3>1, <3>2 DEF LeftTo
    <3>4. u \in Nat /\ v \in Nat
      BY <1>12, <1>16, <3>2
    <3> QED BY <3>1, <3>2, <3>3, <3>4
  <2>7. g \in [team -> Int] /\ h \in [team -> Int] /\ k \in [team -> Int]
    BY <2>3, <2>4, <2>5, <2>6 DEF LeftTo
  <2>8. IsFiniteSet(team)
    BY <1>12, TeamIsFinite
  <2>9. TotalOver(k, team) = TotalOver(g, team) + TotalOver(h, team)
    <3>1. \A x \in team : k[x] = g[x] + h[x]
      BY <2>6
    <3> QED BY <2>7, <2>8, <3>1, TotalOfTwo
  <2>10. TotalOver(h, team) = n
    <3>1. MapThenSumSet(LAMBDA x : used[x] - used'[x], team) = LeftOver(used, used', team)
      BY DEF MapThenSumSet, MapThenFoldSet, LeftOver, Pick
    <3>2. \A x \in team : h[x] = used[x] - used'[x]
      BY <2>6
    <3>3. PICK v : v = used'
      OBVIOUS
    <3>4. LeftOver(used, v, team) = TotalOver(h, team)
      BY <2>7, <2>8, <3>2, <3>3, LeftOverIsTotal
    <3> QED BY <2>1, <3>1, <3>3, <3>4
  <2> QED BY <1>2, <2>2, <2>3, <2>4, <2>9, <2>10
<1> QED
  BY <1>6, <1>7, <1>8, <1>11, <1>14, <1>17, <1>18 DEF CapacityInv

-----------------------------------------------------------------------------
(* Each refund is one of those.                                             *)

(* The seat that paid is credited with what it had paid. *)
LEMMA PayerIsPayee ==
  ASSUME NEW t, NEW charge, NEW by, charge.payer \in Seats
  PROVE  Payee(t, charge, by) = charge.payer
  BY WalletNumbers DEF Payee

LEMMA RefundDropsKeeps ==
  ASSUME CapacityInv, NEW t \in Triages, NEW totals, RefundDrops(t, totals),
         DOMAIN totals \subseteq Paid(drops[t]), DOMAIN totals # {},
         \A d \in DOMAIN totals : totals[d] \in Nat,
         UNCHANGED <<team, former, split, allowance, loose, adding, up, credits>>
  PROVE  CapacityInv'
<1>1. SessionsAreSettled /\ PayersAreSeated
  BY DEF CapacityInv
<1>2. PICK ps : ps = drops[t]
  OBVIOUS
<1>3. PICK some : some = DOMAIN totals
  OBVIOUS
<1>4. PICK owed : owed = [d \in some |-> Owed(ps[d], totals[d])]
  OBVIOUS
<1>5. PICK toSeat : toSeat = [x \in Seats |->
                      MapThenSumSet(LAMBDA d : owed[d], {d \in some : Payee(t, ps[d], ps[d].by) = x})]
  OBVIOUS
<1>6. PICK own : own = [x \in Seats |->
                   MapThenSumSet(LAMBDA d : owed[d], {d \in some : ps[d].payer = x})]
  OBVIOUS
<1>7. PICK n : n = MapThenSumSet(LAMBDA d : owed[d], some)
  OBVIOUS
<1>8. PICK qs : qs = RefundedPiles(ps, owed)
  OBVIOUS
<1>9. PICK b : b = RefundedRow(row[t], n)
  OBVIOUS
<1>10. Settled(row[t], loose[t], ps, up, ledger[t])
  BY <1>1, <1>2 DEF SessionsAreSettled
<1>11. PilesAreRight(ps) /\ some \subseteq Paid(ps) /\ some \in SUBSET Slots /\ row[t] \in SessionRow
  BY <1>2, <1>3, <1>10 DEF Settled, PilesAreRight, RowIsRight, Paid
<1>12. ASSUME NEW d \in some
       PROVE  owed[d] \in Nat /\ owed[d] <= ps[d].charged - ps[d].refunded
  <2>1. PICK p : p = ps[d] /\ p \in Delivery /\ p.refunded <= p.charged
    BY <1>11 DEF PilesAreRight, PileIsRight, Paid
  <2>2. p.charged \in Nat /\ p.refunded \in Nat
    BY <2>1 DEF Delivery
  <2>3. PICK total \in Nat : total = totals[d]
    BY <1>3
  <2>4. Owed(p, total) \in Nat /\ Owed(p, total) <= p.charged - p.refunded
    BY <2>1, <2>2, OwedIsWithin
  <2> QED BY <1>4, <2>1, <2>3, <2>4
<1>13. owed \in [some -> Nat] /\ DOMAIN owed = some
  BY <1>4, <1>12
<1>14. PICK after : after = ledger[t] - n
  OBVIOUS
<1>15. ToRefund(row[t], loose[t], ledger[t], ps, up, some, owed, n, after)
  <2>1. n = TotalOver(OwedIn(owed, some), Slots)
    <3>1. n = TotalOver(owed, some)
      BY <1>7, MapThenSumIsTotal
    <3>2. some \in SUBSET some
      OBVIOUS
    <3> QED BY <1>11, <1>13, <3>1, <3>2, SumOfOwed
  <2>2. some # {}
    BY <1>3
  <2> QED BY <1>10, <1>11, <1>12, <1>13, <1>14, <2>1, <2>2 DEF ToRefund
<1>16. n \in Nat /\ n <= ledger[t] /\ Settled(b, loose[t], qs, up, after)
  <2>1. n \in Nat
    BY <1>15, RefundSettles
  <2>2. n <= ledger[t]
    BY <1>15, RefundSettles
  <2>3. Settled(RefundedRow(row[t], n), loose[t], RefundedPiles(ps, owed), up, after)
    BY <1>15, RefundSettles
  <2> QED BY <1>8, <1>9, <2>1, <2>2, <2>3
<1>17. PilesAreRight(RefundedPiles(ps, owed))
  BY <1>8, <1>16 DEF Settled
<1>18. ASSUME NEW x \in Seats
       PROVE  /\ own[x] \in Nat /\ toSeat[x] \in Nat /\ own[x] <= toSeat[x]
              /\ Outstanding(b, qs, x) = Outstanding(row[t], drops[t], x) - own[x]
  <2>1. PICK T \in SUBSET some : T = {d \in some : ps[d].payer = x}
    OBVIOUS
  <2>2. PICK U \in SUBSET some : U = {d \in some : Payee(t, ps[d], ps[d].by) = x}
    OBVIOUS
  <2>3. T \subseteq U
    <3> SUFFICES ASSUME NEW d \in T PROVE Payee(t, ps[d], ps[d].by) = x
      BY <2>1, <2>2
    <3>1. ps[d].payer = x
      BY <2>1
    <3> QED BY <3>1, PayerIsPayee
  <2>4. own[x] = TotalOver(owed, T)
    <3>1. own[x] = MapThenSumSet(LAMBDA d : owed[d], T)
      BY <1>6, <2>1
    <3> QED BY <3>1, MapThenSumIsTotal
  <2>5. toSeat[x] = TotalOver(owed, U)
    <3>1. toSeat[x] = MapThenSumSet(LAMBDA d : owed[d], U)
      BY <1>5, <2>2
    <3> QED BY <3>1, MapThenSumIsTotal
  <2>6. /\ OwedIn(owed, T) \in [Slots -> Int] /\ \A d \in Slots : 0 <= OwedIn(owed, T)[d]
        /\ own[x] = TotalOver(OwedIn(owed, T), Slots)
    BY <1>11, <1>13, <2>4, SumOfOwed
  <2>7. /\ OwedIn(owed, U) \in [Slots -> Int] /\ \A d \in Slots : 0 <= OwedIn(owed, U)[d]
        /\ toSeat[x] = TotalOver(OwedIn(owed, U), Slots)
    BY <1>11, <1>13, <2>5, SumOfOwed
  <2>8. \A d \in Slots : OwedIn(owed, T)[d] <= OwedIn(owed, U)[d]
    <3> SUFFICES ASSUME NEW d \in Slots PROVE OwedIn(owed, T)[d] <= OwedIn(owed, U)[d]
      OBVIOUS
    <3>1. CASE d \in U
      <4>1. OwedIn(owed, U)[d] = owed[d] /\ owed[d] \in Nat
        BY <1>13, <3>1 DEF OwedIn
      <4>2. OwedIn(owed, T)[d] \in {0, owed[d]}
        BY DEF OwedIn
      <4> QED BY <4>1, <4>2
    <3>2. CASE d \notin U
      BY <2>3, <3>2 DEF OwedIn
    <3> QED BY <3>1, <3>2
  <2>9. PICK g, h : g = OwedIn(owed, T) /\ h = OwedIn(owed, U)
    OBVIOUS
  <2>10. IsFiniteSet(Slots)
    BY WalletNumbers
  <2>11. TotalOver(g, Slots) <= TotalOver(h, Slots)
    BY <2>6, <2>7, <2>8, <2>9, <2>10, TotalIsMonotone
  <2>12. TotalOver(h, Slots) \in Int
    BY <2>7, <2>9, <2>10, TotalType
  <2>13. own[x] = TotalOver(OwedIn(owed, {d \in some : ps[d].payer = x}), Slots)
    BY <2>1, <2>6
  <2>14. own[x] \in Nat
    BY <1>15, <1>17, <2>13, RefundIsNotOutstanding
  <2>15. Outstanding(b, RefundedPiles(ps, owed), x) = Outstanding(row[t], ps, x) - own[x]
    BY <1>15, <1>17, <2>13, RefundIsNotOutstanding
  <2> QED BY <1>2, <1>8, <2>6, <2>7, <2>9, <2>11, <2>12, <2>14, <2>15
<1>19. own \in [Seats -> Nat] /\ toSeat \in [Seats -> Nat]
  BY <1>5, <1>6, <1>18
<1>20. /\ b.payer = row[t].payer /\ b.there = row[t].there /\ b.paid = row[t].paid
       /\ DOMAIN qs = DOMAIN ps
       /\ \A d \in DOMAIN ps : qs[d].payer = ps[d].payer /\ qs[d].paid = ps[d].paid
  <2>1. PICK r \in SessionRow : r = row[t]
    BY <1>11
  <2>2. PICK m : m = r.refunded + n
    OBVIOUS
  <2>3. b = [r EXCEPT !.refunded = m]
    BY <1>9, <2>1, <2>2 DEF RefundedRow
  <2>4. ASSUME NEW d \in DOMAIN ps PROVE qs[d].payer = ps[d].payer /\ qs[d].paid = ps[d].paid
    <3>1. PICK p : p = ps[d] /\ p \in Delivery
      BY <1>11 DEF PilesAreRight, PileIsRight
    <3>2. PICK k : k = p.refunded + owed[d]
      OBVIOUS
    <3>3. qs[d] = p \/ qs[d] = [p EXCEPT !.refunded = k]
      BY <1>8, <3>1, <3>2 DEF RefundedPiles
    <3> QED BY <3>1, <3>3 DEF Delivery
  <2> QED BY <1>8, <2>1, <2>3, <2>4 DEF SessionRow, RefundedPiles
<1>21. /\ SeatedOr(team, b, qs)
       /\ \A d : IsOpen(row[t], loose[t], drops[t], d) => IsOpen(b, loose[t], qs, d)
  <2>1. SeatedOr(team, row[t], ps)
    BY <1>1, <1>2 DEF PayersAreSeated
  <2> QED BY <1>2, <1>20, <2>1 DEF SeatedOr, IsOpen
<1>22. /\ Returned(t, toSeat, own, n)
       /\ row' = [row EXCEPT ![t].refunded = @ + n]
       /\ drops' = [drops EXCEPT ![t] = [d \in DOMAIN ps |->
                      IF d \in some THEN [ps[d] EXCEPT !.refunded = @ + owed[d]] ELSE ps[d]]]
  BY <1>2, <1>3, <1>4, <1>5, <1>6, <1>7 DEF RefundDrops
<1>23. row' = [row EXCEPT ![t] = b] /\ drops' = [drops EXCEPT ![t] = qs]
  <2>1. row' = [row EXCEPT ![t] = b]
    BY <1>9, <1>11, <1>22 DEF RefundedRow, SessionRow
  <2>2. drops' = [drops EXCEPT ![t] = qs]
    BY <1>8, <1>13, <1>22 DEF RefundedPiles
  <2> QED BY <2>1, <2>2
<1>24. GivesBack(t, b, qs, toSeat, own, n, after)
  BY <1>14, <1>16, <1>18, <1>19, <1>21, <1>22, <1>23 DEF GivesBack
<1> QED
  BY <1>24, RefundKeeps

LEMMA RefundRowKeeps ==
  ASSUME CapacityInv, NEW t \in Triages, NEW total \in Nat, RefundRow(t, total),
         row[t].paid, Paid(drops[t]) = {}, loose[t] > 0,
         UNCHANGED <<team, former, split, allowance, loose, adding, up, credits>>
  PROVE  CapacityInv'
<1>1. SessionsAreSettled /\ PayersAreSeated
  BY DEF CapacityInv
<1>2. PICK r : r = row[t]
  OBVIOUS
<1>3. PICK qs : qs = drops[t]
  OBVIOUS
<1>4. PICK l : l = loose[t]
  OBVIOUS
<1>5. PICK led : led = ledger[t]
  OBVIOUS
<1>6. Settled(r, l, qs, up, led) /\ r \in SessionRow /\ led \in Nat
  BY <1>1, <1>2, <1>3, <1>4, <1>5 DEF SessionsAreSettled
<1>7. r.charged \in Nat /\ r.refunded \in Nat /\ r.refunded <= r.charged
  BY <1>6 DEF Settled, RowIsRight, SessionRow
<1>8. PICK n : n = Owed(r, total)
  OBVIOUS
<1>9. n \in Nat /\ n <= r.charged - r.refunded
  BY <1>7, <1>8, OwedIsWithin
<1>10. PICK b : b = [r EXCEPT !.refunded = r.refunded + n]
  OBVIOUS
<1>11. /\ n <= led /\ Settled(b, l, qs, up, led - n)
       /\ \A x \in Seats : Outstanding(b, qs, x) = Outstanding(r, qs, x) - (IF r.payer = x THEN n ELSE 0)
  BY <1>2, <1>3, <1>4, <1>6, <1>9, <1>10, RowRefundSettles
<1>12. PICK payee : payee = Payee(t, r, Null)
  OBVIOUS
<1>13. PICK toSeat : toSeat = [x \in Seats |-> IF x = payee THEN n ELSE 0]
  OBVIOUS
<1>14. PICK own : own = [x \in Seats |-> IF x = r.payer THEN n ELSE 0]
  OBVIOUS
<1>15. /\ Returned(t, toSeat, own, n) /\ row' = [row EXCEPT ![t].refunded = @ + n] /\ drops' = drops
  BY <1>2, <1>8, <1>12, <1>13, <1>14 DEF RefundRow
<1>16. row' = [row EXCEPT ![t] = b] /\ drops' = [drops EXCEPT ![t] = qs]
  <2>1. row' = [row EXCEPT ![t] = b]
    BY <1>2, <1>6, <1>10, <1>15 DEF SessionRow
  <2>2. drops' = [drops EXCEPT ![t] = qs]
    BY <1>1, <1>3, <1>15 DEF SessionsAreSettled
  <2> QED BY <2>1, <2>2
<1>17. /\ toSeat \in [Seats -> Nat] /\ own \in [Seats -> Nat]
       /\ \A x \in Seats : own[x] <= toSeat[x]
  <2>1. toSeat \in [Seats -> Nat] /\ own \in [Seats -> Nat]
    BY <1>9, <1>13, <1>14
  <2>2. ASSUME NEW x \in Seats PROVE own[x] <= toSeat[x]
    <3>1. CASE x = r.payer
      <4>1. payee = x
        BY <1>12, <3>1, PayerIsPayee
      <4> QED BY <1>9, <1>13, <1>14, <3>1, <4>1
    <3>2. CASE x # r.payer
      BY <1>9, <1>13, <1>14, <3>2
    <3> QED BY <3>1, <3>2
  <2> QED BY <2>1, <2>2
<1>18. \A x \in Seats : Outstanding(b, qs, x) = Outstanding(row[t], drops[t], x) - own[x]
  <2>1. \A x \in Seats : own[x] = IF r.payer = x THEN n ELSE 0
    BY <1>14
  <2> QED BY <1>2, <1>3, <1>11, <2>1
<1>19. /\ SeatedOr(team, b, qs)
       /\ \A d : IsOpen(row[t], loose[t], drops[t], d) => IsOpen(b, loose[t], qs, d)
  <2>1. SeatedOr(team, r, qs)
    BY <1>1, <1>2, <1>3 DEF PayersAreSeated
  <2>2. b.payer = r.payer /\ b.there = r.there /\ b.paid = r.paid
    BY <1>6, <1>10 DEF SessionRow
  <2> QED BY <1>2, <1>3, <2>1, <2>2 DEF SeatedOr, IsOpen
<1>20. PICK after : after = led - n
  OBVIOUS
<1>21. GivesBack(t, b, qs, toSeat, own, n, after)
  BY <1>4, <1>5, <1>9, <1>11, <1>15, <1>16, <1>17, <1>18, <1>19, <1>20 DEF GivesBack
<1> QED
  BY <1>21, RefundKeeps

-----------------------------------------------------------------------------
LEMMA SweepDropKeeps ==
  ASSUME CapacityInv, NEW t \in Triages, NEW d \in 1..MaxDrops, NEW n \in 1..MaxPile, SweepDrop(t, d, n)
  PROVE  CapacityInv'
<1>1. PICK totals : totals = [e \in {d} |-> n]
  OBVIOUS
<1>2. /\ d \in Paid(drops[t]) /\ RefundDrops(t, totals)
      /\ UNCHANGED <<team, former, split, allowance, loose, adding, up, credits>>
  BY <1>1 DEF SweepDrop
<1>3. n \in Nat
  BY WalletNumbers
<1>4. /\ DOMAIN totals \subseteq Paid(drops[t]) /\ DOMAIN totals # {}
      /\ \A e \in DOMAIN totals : totals[e] \in Nat
  BY <1>1, <1>2, <1>3
<1> QED
  BY <1>2, <1>4, RefundDropsKeeps

LEMMA SweepLooseKeeps ==
  ASSUME CapacityInv, NEW t \in Triages, NEW n \in 1..MaxPile, SweepLoose(t, n)
  PROVE  CapacityInv'
<1>1. /\ row[t].paid /\ n \in 1..loose[t] /\ RefundRow(t, n)
      /\ UNCHANGED <<team, former, split, allowance, loose, adding, up, credits>>
  BY DEF SweepLoose
<1>2. loose[t] \in Nat /\ Agree(row[t], loose[t], drops[t], up)
  <2>1. SessionsAreSettled
    BY DEF CapacityInv
  <2> QED BY <2>1, WalletNumbers DEF SessionsAreSettled, Settled
<1>3. n \in Nat /\ loose[t] > 0
  BY <1>1, <1>2
<1>4. Paid(drops[t]) = {}
  BY <1>2, <1>3 DEF Agree, Paid
<1> QED
  BY <1>1, <1>3, <1>4, RefundRowKeeps

LEMMA FailureKeeps ==
  ASSUME CapacityInv, NEW t \in Triages, SessionFails(t)
  PROVE  CapacityInv'
<1>1. /\ up /\ row[t].paid
      /\ UNCHANGED <<team, former, split, allowance, loose, adding, up, credits>>
  BY DEF SessionFails
<1>2. Settled(row[t], loose[t], drops[t], up, ledger[t])
  BY DEF CapacityInv, SessionsAreSettled
<1>3. CASE Paid(drops[t]) = {}
  <2>1. PICK total : total = row[t].charged
    OBVIOUS
  <2>2. RefundRow(t, total)
    BY <1>3, <2>1 DEF SessionFails
  <2>3. total \in Nat
    BY <1>2, <2>1 DEF Settled, RowIsRight, SessionRow
  <2>4. loose[t] > 0
    BY <1>1, <1>2, <1>3, WalletNumbers DEF Settled, Agree
  <2> QED BY <1>1, <1>3, <2>2, <2>3, <2>4, RefundRowKeeps
<1>4. CASE Paid(drops[t]) # {}
  <2>1. PICK totals : totals = [d \in Paid(drops[t]) |-> drops[t][d].charged]
    OBVIOUS
  <2>2. RefundDrops(t, totals)
    BY <1>4, <2>1 DEF SessionFails
  <2>3. ASSUME NEW d \in DOMAIN totals PROVE totals[d] \in Nat
    <3>1. PICK p : p = drops[t][d] /\ p \in Delivery
      BY <1>2, <2>1 DEF Settled, PilesAreRight, PileIsRight, Paid
    <3> QED BY <2>1, <3>1 DEF Delivery
  <2>4. DOMAIN totals \subseteq Paid(drops[t]) /\ DOMAIN totals # {}
    BY <1>4, <2>1
  <2> QED BY <1>1, <2>2, <2>3, <2>4, RefundDropsKeeps
<1> QED
  BY <1>3, <1>4

-----------------------------------------------------------------------------
(* An organization of any age starts right: a session that was there before. *)
WasThere(launched, delivered, n, r, l, ps, led) ==
    /\ launched \in BOOLEAN /\ delivered \in BOOLEAN /\ n \in 1..MaxPile
    /\ r = OlderRow(launched, n) /\ l = (IF delivered THEN 0 ELSE n)
    /\ ps = [d \in (IF delivered THEN {1} ELSE {}) |-> Unpaid(n, Administrator)]
    /\ led = (IF launched THEN n ELSE 0)

(* Of what was launched, only the administrator drew. *)
OwedByNow(launched, n, r, ps) ==
    \A x \in Seats : Outstanding(r, ps, x) = IF launched /\ x = Administrator THEN n ELSE 0

LEMMA OlderSessionIsSettled ==
  ASSUME NEW launched, NEW delivered, NEW n, NEW r, NEW l, NEW ps, NEW led,
         WasThere(launched, delivered, n, r, l, ps, led)
  PROVE  /\ Settled(r, l, ps, FALSE, led) /\ SeatedOr({Administrator}, r, ps)
         /\ l \in 0..MaxPile /\ r \in SessionRow /\ led \in Nat
         /\ OwedByNow(launched, n, r, ps)
<1> USE DEF WasThere
<1>1. /\ n \in Nat /\ n > 0 /\ n \in 0..MaxPile /\ Administrator \in Seats
      /\ Null \notin Seats /\ Administrator # Null /\ 1 \in Slots
  BY WalletNumbers
<1>2. /\ r \in SessionRow /\ r.there /\ (r.paid <=> launched) /\ r.refunded = 0
      /\ r.charged = (IF launched THEN n ELSE 0)
      /\ r.payer = (IF launched THEN Administrator ELSE Null)
  BY <1>1 DEF OlderRow, SessionRow
<1>3. led \in Nat /\ l \in 0..MaxPile
  <2>1. 0 \in 0..MaxPile
    BY WalletNumbers
  <2> QED BY <1>1, <2>1
<1>4. RowIsRight(r, led)
  BY <1>1, <1>2, <1>3 DEF RowIsRight
<1>5. /\ DOMAIN ps = (IF delivered THEN {1} ELSE {}) /\ ps = [d \in DOMAIN ps |-> ps[d]]
      /\ \A d \in DOMAIN ps : ps[d] = Unpaid(n, Administrator)
  OBVIOUS
<1>6. PICK p : p = Unpaid(n, Administrator)
  OBVIOUS
<1>7. PileIsRight(p) /\ ~p.paid /\ p.payer = Null /\ p.cvs = n
  BY <1>1, <1>6 DEF PileIsRight, Unpaid, Delivery
<1>8. PilesAreRight(ps)
  BY <1>1, <1>5, <1>6, <1>7 DEF PilesAreRight
<1>9. Paid(ps) = {}
  BY <1>5, <1>6, <1>7 DEF Paid
<1>10. Agree(r, l, ps, FALSE)
  BY <1>1, <1>2, <1>3, <1>5, <1>6, <1>7, <1>9 DEF Agree
<1>11. SeatedOr({Administrator}, r, ps)
  BY <1>2, <1>5, <1>6, <1>7 DEF SeatedOr
<1>12. OwedByNow(launched, n, r, ps)
  BY <1>1, <1>2, <1>9 DEF Outstanding, OwedByNow
<1> QED
  BY <1>2, <1>3, <1>4, <1>8, <1>10, <1>11, <1>12 DEF Settled

LEMMA WalletStartsRight == WalletInit => CapacityInv
<1> SUFFICES ASSUME WalletInit PROVE CapacityInv
  OBVIOUS
<1>1. PICK generation \in [Triages -> Generations], n \in 1..MaxPile :
        LET launched == {t \in Triages : generation[t] \in {"on the row", "beside its delivery"}}
            delivered == {t \in Triages : generation[t] \in {"draft", "beside its delivery"}}
        IN
        /\ team = {Administrator} /\ former = {}
        /\ split \in BOOLEAN /\ even = split
        /\ credits = Welcome + n * Cardinality(launched)
        /\ pool = Welcome
        /\ used = [s \in Seats |-> IF s = Administrator THEN n * Cardinality(launched) ELSE 0]
        /\ allowance = [s \in Seats |-> IF s = Administrator /\ split THEN credits ELSE Null]
        /\ row = [t \in Triages |-> OlderRow(t \in launched, n)]
        /\ loose = [t \in Triages |-> IF t \in delivered THEN 0 ELSE n]
        /\ drops = [t \in Triages |->
                      [d \in (IF t \in delivered THEN {1} ELSE {}) |-> Unpaid(n, Administrator)]]
        /\ adding = {} /\ up = FALSE
        /\ ledger = [t \in Triages |-> IF t \in launched THEN n ELSE 0]
        /\ drawn = used
        /\ inherited = {}
  BY DEF WalletInit
<1>2. PICK launched \in SUBSET Triages :
        launched = {t \in Triages : generation[t] \in {"on the row", "beside its delivery"}}
  OBVIOUS
<1>3. PICK delivered \in SUBSET Triages :
        delivered = {t \in Triages : generation[t] \in {"draft", "beside its delivery"}}
  OBVIOUS
<1>4. IsFiniteSet(launched) /\ IsFiniteSet(Triages)
  BY TriagesAreFinite, FS_Subset
<1>5. PICK c \in Nat : c = Cardinality(launched)
  BY <1>4, FS_CardinalityType
<1>6. n \in Nat /\ n > 0 /\ Welcome \in Nat /\ Administrator \in Seats /\ Null \notin Int
  BY WalletNumbers, WalletAssumption
<1>7. PICK m \in Nat : m = n * c /\ m = c * n
  BY <1>6
<1>8. /\ team = {Administrator} /\ former = {} /\ split \in BOOLEAN /\ even = split
      /\ credits = Welcome + m /\ pool = Welcome
      /\ used = [s \in Seats |-> IF s = Administrator THEN m ELSE 0]
      /\ allowance = [s \in Seats |-> IF s = Administrator /\ split THEN credits ELSE Null]
      /\ adding = {} /\ up = FALSE /\ drawn = used /\ inherited = {}
  BY <1>1, <1>2, <1>5, <1>7
<1>9. /\ row = [t \in Triages |-> OlderRow(t \in launched, n)]
      /\ loose = [t \in Triages |-> IF t \in delivered THEN 0 ELSE n]
      /\ drops = [t \in Triages |->
                    [d \in (IF t \in delivered THEN {1} ELSE {}) |-> Unpaid(n, Administrator)]]
      /\ ledger = [t \in Triages |-> IF t \in launched THEN n ELSE 0]
  BY <1>1, <1>2, <1>3
<1>10. SeatsAreRight
  BY <1>6, <1>8 DEF SeatsAreRight, Seats
<1>11. ASSUME NEW t \in Triages
       PROVE  /\ Settled(row[t], loose[t], drops[t], FALSE, ledger[t])
              /\ SeatedOr({Administrator}, row[t], drops[t])
              /\ loose[t] \in 0..MaxPile /\ row[t] \in SessionRow /\ ledger[t] \in Nat
              /\ \A x \in Seats : Outstanding(row[t], drops[t], x)
                                    = IF t \in launched /\ x = Administrator THEN n ELSE 0
  <2>1. PICK p \in BOOLEAN : p = (t \in launched)
    <3>1. (t \in launched) \in BOOLEAN
      OBVIOUS
    <3> QED BY <3>1, Zenon
  <2>2. PICK q \in BOOLEAN : q = (t \in delivered)
    <3>1. (t \in delivered) \in BOOLEAN
      OBVIOUS
    <3> QED BY <3>1, Zenon
  <2>3. PICK r, l : r = row[t] /\ l = loose[t]
    OBVIOUS
  <2>4. PICK ps, led : ps = drops[t] /\ led = ledger[t]
    OBVIOUS
  <2>5. WasThere(p, q, n, r, l, ps, led)
    <3>1. r = OlderRow(p, n)
      BY <1>9, <2>1, <2>3
    <3>2. l = (IF q THEN 0 ELSE n)
      BY <1>9, <2>2, <2>3
    <3>3. ps = [d \in (IF q THEN {1} ELSE {}) |-> Unpaid(n, Administrator)]
      BY <1>9, <2>2, <2>4
    <3>4. led = (IF p THEN n ELSE 0)
      BY <1>9, <2>1, <2>4
    <3> QED BY <3>1, <3>2, <3>3, <3>4 DEF WasThere
  <2>6. Settled(r, l, ps, FALSE, led)
    BY <2>5, OlderSessionIsSettled
  <2>7. SeatedOr({Administrator}, r, ps)
    BY <2>5, OlderSessionIsSettled
  <2>8. l \in 0..MaxPile /\ r \in SessionRow /\ led \in Nat
    BY <2>5, OlderSessionIsSettled
  <2>9. OwedByNow(p, n, r, ps)
    BY <2>5, OlderSessionIsSettled
  <2>10. \A x \in Seats : Outstanding(r, ps, x) = IF t \in launched /\ x = Administrator THEN n ELSE 0
    BY <2>1, <2>9 DEF OwedByNow
  <2> QED BY <2>3, <2>4, <2>6, <2>7, <2>8, <2>10
<1>12. SessionsAreSettled /\ PayersAreSeated
  <2>1. /\ row \in [Triages -> SessionRow] /\ loose \in [Triages -> 0..MaxPile]
        /\ ledger \in [Triages -> Nat]
    BY <1>9, <1>11
  <2>2. DOMAIN drops = Triages /\ drops = [t \in Triages |-> drops[t]]
    BY <1>9
  <2> QED BY <1>8, <1>11, <2>1, <2>2 DEF SessionsAreSettled, PayersAreSeated
<1>13. AddingIsOpen
  BY <1>8 DEF AddingIsOpen
<1>14. MoneyIsRight
  <2>1. ledger \in [Triages -> Int] /\ \A t \in Triages : ledger[t] = IF t \in launched THEN n ELSE 0
    BY <1>6, <1>9
  <2>2. TotalOver(ledger, Triages) = c * n
    BY <1>4, <1>5, <1>6, <2>1, TotalOfSoMany
  <2> QED BY <1>6, <1>7, <1>8, <2>2 DEF MoneyIsRight
<1>15. DrawsCover
  <2> SUFFICES ASSUME NEW x \in Seats PROVE TotalOver(OutIn(x), Triages) <= drawn[x]
    BY DEF DrawsCover
  <2>1. PICK h : h = OutIn(x)
    OBVIOUS
  <2>2. h \in [Triages -> Int] /\ \A t \in Triages : h[t] = IF t \in launched /\ x = Administrator THEN n ELSE 0
    <3>1. h = [t \in Triages |-> h[t]]
      BY <2>1 DEF OutIn
    <3>2. \A t \in Triages : h[t] = IF t \in launched /\ x = Administrator THEN n ELSE 0
      BY <1>11, <2>1 DEF OutIn
    <3>3. \A t \in Triages : h[t] \in Int
      BY <1>6, <3>2
    <3> QED BY <3>1, <3>2, <3>3
  <2>3. CASE x = Administrator
    <3>1. \A t \in Triages : h[t] = IF t \in launched THEN n ELSE 0
      BY <2>2, <2>3
    <3>2. TotalOver(h, Triages) = c * n
      BY <1>4, <1>5, <1>6, <2>2, <3>1, TotalOfSoMany
    <3> QED BY <1>7, <1>8, <2>1, <2>3, <3>2
  <2>4. CASE x # Administrator
    <3>1. \A t \in Triages : h[t] = 0
      BY <2>2, <2>4
    <3>2. TotalOver(h, Triages) = 0
      BY <1>4, <2>2, <3>1, TotalOfZeros
    <3> QED BY <1>8, <2>1, <2>4, <3>2
  <2> QED BY <2>3, <2>4
<1>16. SharesAreRight
  <2> SUFFICES ASSUME split, even
               PROVE  /\ \A s \in team : allowance[s] # Null
                      /\ TotalOver(LeftTo(team, allowance, used), team) = pool
    BY DEF SharesAreRight
  <2>1. allowance[Administrator] = Welcome + m /\ used[Administrator] = m
    BY <1>6, <1>8
  <2>2. PICK g : g = LeftTo(team, allowance, used)
    OBVIOUS
  <2>3. g \in [team -> Int] /\ g[Administrator] = Welcome
    BY <1>6, <1>7, <1>8, <2>1, <2>2 DEF LeftTo
  <2>4. IsFiniteSet(team)
    BY <1>10, TeamIsFinite DEF SeatsAreRight
  <2>5. Administrator \in team /\ \A y \in team \ {Administrator} : g[y] = 0
    BY <1>8
  <2>6. TotalOver(g, team) = Welcome
    BY <2>3, <2>4, <2>5, TotalOfOneTerm
  <2> QED BY <1>6, <1>8, <2>1, <2>2, <2>6
<1> QED
  BY <1>10, <1>12, <1>13, <1>14, <1>15, <1>16 DEF CapacityInv

-----------------------------------------------------------------------------
LEMMA WalletStepKeeps == CapacityInv /\ [WalletNext]_walletVars => CapacityInv'
<1> SUFFICES ASSUME CapacityInv, [WalletNext]_walletVars PROVE CapacityInv'
  OBVIOUS
<1>1. CASE Purchase
  BY <1>1, PurchaseKeeps
<1>2. CASE \E s \in Seats, ceiling \in 0..MaxShare \union {Null} : SetTriageAllocations(s, ceiling)
  BY <1>2, AllocationsKeep
<1>3. CASE \E on \in BOOLEAN : SetSplitEqually(on)
  BY <1>3, SplitKeeps
<1>4. CASE \E s \in Staff : Join(s) \/ Leave(s) \/ Renewal(s)
  BY <1>4, JoinKeeps, LeaveKeeps, RenewalKeeps
<1>5. CASE \E t \in Triages, s \in Seats, started \in BOOLEAN : Launch(t, s, started)
  BY <1>5, LaunchKeeps
<1>6. CASE \E t \in Triages, s \in Seats, asked \in 1..MaxPile : \E n \in 0..asked : RequestAdd(t, s, asked, n)
  BY <1>6, RequestKeeps
<1>7. CASE \E a \in adding : FinishAdd(a)
  BY <1>7, FinishKeeps
<1>8. CASE \E t \in Triages, d \in 1..MaxDrops, n \in 1..MaxPile : SweepDrop(t, d, n)
  BY <1>8, SweepDropKeeps
<1>9. CASE \E t \in Triages, n \in 1..MaxPile : SweepLoose(t, n)
  BY <1>9, SweepLooseKeeps
<1>10. CASE \E t \in Triages : SessionFails(t) \/ DeleteTriage(t)
  BY <1>10, FailureKeeps, DeleteKeeps
<1>11. CASE Crash
  BY <1>11, CrashKeeps
<1>12. CASE Boot
  BY <1>12, BootKeeps
<1>13. CASE UNCHANGED walletVars
  <2>1. UNCHANGED <<team, former, split, allowance, used, even, pool, row, loose, drops, adding, up,
                    credits, ledger, drawn, inherited>>
    BY <1>13 DEF walletVars, seatVars, chargeVars
  <2>2. /\ SeatsAreRight /\ SessionsAreSettled /\ PayersAreSeated /\ AddingIsOpen
        /\ MoneyIsRight /\ DrawsCover /\ SharesAreRight
    BY DEF CapacityInv
  <2>3. SessionsAreSettled' /\ AddingIsOpen' /\ PayersAreSeated' /\ \A x : OutIn(x)' = OutIn(x)
    BY <2>1, <2>2, SessionsRest
  <2>4. MoneyIsRight' /\ DrawsCover'
    BY <2>1, <2>2, <2>3, MoneyRests, DrawsRest
  <2>5. SeatsAreRight' /\ SharesAreRight'
    BY <2>1, <2>2 DEF SeatsAreRight, SharesAreRight
  <2> QED BY <2>3, <2>4, <2>5 DEF CapacityInv
<1> QED
  BY <1>1, <1>2, <1>3, <1>4, <1>5, <1>6, <1>7, <1>8, <1>9, <1>10, <1>11, <1>12, <1>13 DEF WalletNext

(* The capacity an organization paid for is neither made nor lost, whoever draws
   it, whenever it goes back, and however old its sessions are (wallet.js). *)
THEOREM WalletStaysSound == WalletSpec => []TriageWalletIsSound
<1>1. WalletInit => CapacityInv
  BY WalletStartsRight
<1>2. CapacityInv /\ [WalletNext]_walletVars => CapacityInv'
  BY WalletStepKeeps
<1>3. CapacityInv => TriageWalletIsSound
  BY CapacityIsSound
<1> QED
  BY <1>1, <1>2, <1>3, PTL DEF WalletSpec
-----------------------------------------------------------------------------
(* Contacts that are known.                                                  *)

Contacted == Mailboxes \cup Numbers
LiveRows == [is : {"live"}, contact : Details, key : [Channels -> Contacted \cup {Unset}]]
EditRows == [of : Profiles, details : Details, crossed : SUBSET Contacted]

ContactTypes ==
    /\ profiles \in [Profiles -> {Unborn, Erased} \cup LiveRows]
    /\ index \in [Channels -> SUBSET UNION Lists \cup {Unset}]
    /\ setting \in Lists \cup {Unset}
    /\ process \in [{Server, Script} -> [at : {"down", "email", "phone", "up"}, exempt : Lists]]
    /\ edit \in {NoEdit} \cup EditRows
    /\ built \subseteq Channels /\ excused \subseteq Unlisted(profiles) /\ puzzled \in BOOLEAN

(* The first process to open the database writes the keys of every profile. *)
KeysAreRead ==
    \/ \A a \in Live, ch \in Channels : profiles[a].key[ch] = profiles[a].contact[ch].key
    \/ /\ \A p \in {Server, Script} : process[p].at = "down"
       /\ \A ch \in Channels : index[ch] = Unset
       /\ edit = NoEdit

(* An index is true of the rows. *)
IndexIsTrue ==
    \A ch \in Channels : index[ch] # Unset =>
        \A a, b \in Live : a # b /\ profiles[a].key[ch] = profiles[b].key[ch] => profiles[a].key[ch] \in index[ch]

(* Whoever has a contact of the form beside its profile has had it since its guard. *)
FormIsGuarded ==
    edit # NoEdit /\ edit.of \in Live =>
        \A ch \in Channels, b \in Live \ {edit.of} :
            profiles[b].contact[ch].key = edit.details[ch].key =>
                \/ edit.details[ch].key \in edit.crossed
                \/ profiles[edit.of].contact[ch].key = edit.details[ch].key

ContactsInv ==
    /\ ContactTypes /\ KeysAreRead /\ IndexIsTrue /\ FormIsGuarded
    /\ PairsAreAccountedFor /\ IndexesStand /\ GuardsForesee
LEMMA ContactNames ==
  /\ Profiles \subseteq Nat /\ IsFiniteSet(Profiles)
  /\ Unset \notin Profiles /\ Unset \notin Contacted /\ Unset \notin SUBSET Contacted
  /\ UNION Lists \subseteq Contacted /\ Lists \subseteq SUBSET Contacted /\ {} \in Lists
  /\ Server # Script
  /\ \A ch \in Channels : ch = "email" \/ ch = "phone"
  /\ \A ch \in Channels : Keys(ch) \subseteq Contacted
<1>1. IsFiniteSet(Profiles) /\ Profiles = 1..Cardinality(Profiles) /\ Cardinality(Profiles) \in Nat
  BY ContactsAssumption, FS_CardinalityType
<1>2. Profiles \subseteq Nat
  BY <1>1
<1>3. Unset \notin SUBSET Contacted
  BY ContactsAssumption DEF Contacted
<1>4. UNION Lists \subseteq Contacted
  BY ContactsAssumption DEF Contacted
<1>5. Lists \subseteq SUBSET Contacted
  BY <1>4
<1> QED
  BY <1>1, <1>2, <1>3, <1>4, <1>5, ContactsAssumption DEF Channels, Keys, Contacted

(* What a form says of a channel. *)
LEMMA DetailsSay ==
  ASSUME NEW d \in Details, NEW ch \in Channels
  PROVE  d[ch] \in Written(ch) /\ d[ch].key \in Keys(ch) /\ d[ch].key \in Contacted /\ d[ch].key # Unset
<1>1. d[ch] \in Written(ch)
  BY DEF Details
<1>2. PICK k \in Keys(ch), n \in {1, 2} : d[ch] = [key |-> k, as |-> n]
  BY <1>1 DEF Written
<1> QED
  BY <1>1, <1>2, ContactNames

LEMMA EnteredSays ==
  ASSUME NEW d \in Details
  PROVE  /\ Entered(d) \in LiveRows /\ Entered(d).is = "live" /\ Entered(d).contact = d
         /\ \A ch \in Channels : Entered(d).key[ch] = d[ch].key
<1>1. [ch \in Channels |-> d[ch].key] \in [Channels -> Contacted \cup {Unset}]
  BY DetailsSay
<1> QED
  BY <1>1 DEF Entered, LiveRows

(* A form is not the absence of one. *)
LEMMA FormsAreForms ==
  ASSUME edit \in {NoEdit} \cup EditRows
  PROVE  /\ NoEdit.of = Unset
         /\ edit # NoEdit <=> edit.of \in Profiles
         /\ edit # NoEdit => edit \in EditRows
<1>1. NoEdit.of = Unset
  BY DEF NoEdit
<1>2. \A e \in EditRows : e.of \in Profiles
  BY DEF EditRows
<1> QED
  BY <1>1, <1>2, ContactNames

LEMMA LiveHasColumns ==
  ASSUME ContactTypes, NEW a \in Live
  PROVE  /\ a \in Profiles /\ profiles[a] \in LiveRows /\ profiles[a].is = "live" /\ profiles[a].contact \in Details
         /\ \A ch \in Channels : /\ profiles[a].contact[ch] \in Written(ch)
                                 /\ profiles[a].contact[ch].key \in Contacted
                                 /\ profiles[a].contact[ch].key # Unset
<1>1. a \in Profiles /\ profiles[a].is = "live" /\ profiles[a] \in {Unborn, Erased} \cup LiveRows
  BY DEF Live, ContactTypes
<1>2. Unborn.is = "unborn" /\ Erased.is = "erased"
  BY DEF Unborn, Erased
<1>3. profiles[a] \in LiveRows
  BY <1>1, <1>2
<1>4. profiles[a].contact \in Details
  BY <1>3 DEF LiveRows
<1> QED
  BY <1>1, <1>3, <1>4, DetailsSay

(* findCandidateByContact finds one who has the contact, if anybody has. *)
LEMMA FindsWhoHasIt ==
  ASSUME ContactTypes, NEW ch \in Channels, NEW w
  PROVE  LET alike == {b \in Live : profiles[b].contact[ch].key = w.key}
         IN  /\ alike = {} => FindCandidateByContact(ch, w) = Unset
             /\ alike # {} => FindCandidateByContact(ch, w) \in alike
<1> DEFINE alike == {b \in Live : profiles[b].contact[ch].key = w.key}
           exactly == {b \in Live : profiles[b].contact[ch] = w}
           found == IF ch = "email" /\ exactly # {} THEN exactly ELSE alike
<1>1. FindCandidateByContact(ch, w) = Newest(found)
  BY DEF FindCandidateByContact
<1>2. exactly \subseteq alike /\ alike \subseteq Profiles
  BY DEF Live
<1>3. found \subseteq alike /\ (found = {} <=> alike = {})
  BY <1>2
<1>4. found \subseteq Int /\ IsFiniteSet(found)
  <2>1. found \in SUBSET Profiles /\ IsFiniteSet(Profiles) /\ Profiles \subseteq Int
    BY <1>2, <1>3, ContactNames
  <2> HIDE DEF found
  <2> QED BY <2>1, FS_Subset
<1> HIDE DEF found, exactly, alike
<1>5. found = {} => Newest(found) = Unset
  BY DEF Newest
<1>6. found # {} => Newest(found) \in found
  BY <1>4, MaxIsGreatest DEF Newest
<1> QED
  BY <1>1, <1>3, <1>5, <1>6 DEF alike

(* Whoever is in a row of its own. *)
LEMMA SharedBy ==
  ASSUME NEW k, NEW table
  PROVE  k \in Sharing(table) <=>
           /\ k \in Contacted
           /\ \E a, b \in Profiles, ch \in Channels :
                /\ a # b /\ table[a].is = "live" /\ table[b].is = "live"
                /\ table[a].contact[ch].key = k /\ table[b].contact[ch].key = k
  BY DEF Sharing, Contacted

(* One row changes. *)
LEMMA OneRowChanges ==
  ASSUME ContactTypes, NEW a \in Profiles, NEW d \in Details, profiles' = [profiles EXCEPT ![a] = Entered(d)]
  PROVE  /\ Live' = Live \cup {a}
         /\ \A b \in Profiles : b # a => profiles'[b] = profiles[b]
         /\ profiles'[a] = Entered(d)
         /\ profiles' \in [Profiles -> {Unborn, Erased} \cup LiveRows]
<1>1. /\ profiles'[a] = Entered(d) /\ (\A b \in Profiles : b # a => profiles'[b] = profiles[b])
      /\ profiles' \in [Profiles -> {Unborn, Erased} \cup LiveRows]
  BY EnteredSays DEF ContactTypes
<1>2. Live' = Live \cup {a}
  BY <1>1, EnteredSays DEF Live
<1> QED
  BY <1>1, <1>2

(* What is shared then that was not is shared with the new row. *)
LEMMA SharedAnew ==
  ASSUME NEW a \in Profiles, NEW d \in Details, profiles'[a] = Entered(d),
         \A b \in Profiles : b # a => profiles'[b] = profiles[b], NEW k \in Unlisted(profiles')
  PROVE  \/ k \in Unlisted(profiles)
         \/ \E ch \in Channels, b \in Live \ {a} : d[ch].key = k /\ profiles[b].contact[ch].key = k
<1>1. /\ profiles'[a] = Entered(d) /\ \A b \in Profiles : b # a => profiles'[b] = profiles[b]
  OBVIOUS
<1>2. k \in Sharing(profiles') /\ k \notin UNION Lists
  BY DEF Unlisted
<1>3. k \in Contacted
  BY <1>2, SharedBy
<1>4. PICK x \in Profiles, y \in Profiles, ch \in Channels :
        /\ x # y /\ profiles'[x].is = "live" /\ profiles'[y].is = "live"
        /\ profiles'[x].contact[ch].key = k /\ profiles'[y].contact[ch].key = k
  BY <1>2 DEF Sharing
<1>5. CASE x # a /\ y # a
  <2>1. /\ profiles[x].is = "live" /\ profiles[y].is = "live"
        /\ profiles[x].contact[ch].key = k /\ profiles[y].contact[ch].key = k
    BY <1>1, <1>4, <1>5
  <2>2. k \in Sharing(profiles)
    BY <1>3, <1>4, <2>1, SharedBy
  <2> QED BY <1>2, <2>2 DEF Unlisted
<1>6. CASE x = a
  <2>1. y \in Live \ {a} /\ profiles[y].contact[ch].key = k /\ d[ch].key = k
    BY <1>1, <1>4, <1>6, EnteredSays DEF Live
  <2> QED BY <2>1
<1>7. CASE y = a
  <2>1. x \in Live \ {a} /\ profiles[x].contact[ch].key = k /\ d[ch].key = k
    BY <1>1, <1>4, <1>7, EnteredSays DEF Live
  <2> QED BY <2>1
<1> QED BY <1>5, <1>6, <1>7

KeysAreKnown == \A a \in Live, ch \in Channels : profiles[a].key[ch] = profiles[a].contact[ch].key

(* The index refuses a clash, and what it lets pass is on a list, was shared before, *)
(* or is put down.                                                                   *)
LEMMA WritingKeeps ==
  ASSUME ContactTypes, KeysAreKnown, IndexIsTrue, PairsAreAccountedFor, UNCHANGED index,
         NEW a \in Profiles, NEW d \in Details, NEW let, WriteProfile(a, Entered(d), let),
         \A ch \in Channels, b \in Live \ {a} : profiles[b].contact[ch].key = d[ch].key =>
            \/ Refuses(ch, a, Entered(d)) \/ d[ch].key \in UNION Lists \/ d[ch].key \in let
            \/ d[ch].key \in Unlisted(profiles)
  PROVE  /\ profiles' = profiles \/ profiles' = [profiles EXCEPT ![a] = Entered(d)]
         /\ profiles' \in [Profiles -> {Unborn, Erased} \cup LiveRows] /\ excused' \subseteq Unlisted(profiles')
         /\ KeysAreKnown' /\ IndexIsTrue' /\ PairsAreAccountedFor'
<1>1. CASE \E ch \in Channels : Refuses(ch, a, Entered(d))
  <2>1. profiles' = profiles /\ excused' = excused
    BY <1>1 DEF WriteProfile
  <2>2. Live' = Live /\ Unlisted(profiles') = Unlisted(profiles)
    BY <2>1 DEF Live
  <2> QED BY <2>1, <2>2 DEF ContactTypes, KeysAreKnown, IndexIsTrue, PairsAreAccountedFor
<1>2. CASE ~\E ch \in Channels : Refuses(ch, a, Entered(d))
  <2>1. /\ profiles' = [profiles EXCEPT ![a] = Entered(d)]
        /\ excused' = (excused \cup let) \cap Unlisted(profiles')
    BY <1>2 DEF WriteProfile
  <2>2. /\ Live' = Live \cup {a} /\ (\A b \in Profiles : b # a => profiles'[b] = profiles[b])
        /\ profiles'[a] = Entered(d) /\ profiles' \in [Profiles -> {Unborn, Erased} \cup LiveRows]
        /\ \A k \in Unlisted(profiles') :
              \/ k \in Unlisted(profiles)
              \/ \E ch \in Channels, b \in Live \ {a} : d[ch].key = k /\ profiles[b].contact[ch].key = k
    <3>1. profiles' = [profiles EXCEPT ![a] = Entered(d)]
      BY <2>1
    <3>2. Live' = Live \cup {a}
      BY <3>1, OneRowChanges
    <3>3. \A b \in Profiles : b # a => profiles'[b] = profiles[b]
      BY <3>1, OneRowChanges
    <3>4. profiles'[a] = Entered(d) /\ profiles' \in [Profiles -> {Unborn, Erased} \cup LiveRows]
      BY <3>1, OneRowChanges
    <3>5. \A k \in Unlisted(profiles') :
              \/ k \in Unlisted(profiles)
              \/ \E ch \in Channels, b \in Live \ {a} : d[ch].key = k /\ profiles[b].contact[ch].key = k
      <4> SUFFICES ASSUME NEW k \in Unlisted(profiles')
                   PROVE  \/ k \in Unlisted(profiles)
                          \/ \E ch \in Channels, b \in Live \ {a} : d[ch].key = k /\ profiles[b].contact[ch].key = k
        OBVIOUS
      <4> QED BY <3>3, <3>4, SharedAnew
    <3> QED BY <3>2, <3>3, <3>4, <3>5
  <2>3. Live \subseteq Profiles
    BY DEF Live
  <2>4. KeysAreKnown'
    BY <2>2, <2>3, EnteredSays DEF KeysAreKnown
  <2>5. PairsAreAccountedFor'
    <3> SUFFICES ASSUME NEW k \in Unlisted(profiles')
                 PROVE  k \in excused'
      BY DEF PairsAreAccountedFor
    <3>1. k \notin UNION Lists
      BY DEF Unlisted
    <3>2. k \in Unlisted(profiles) => k \in excused
      BY DEF PairsAreAccountedFor
    <3>3. k \in Unlisted(profiles) \/ k \in let
      BY <1>2, <2>2, <3>1
    <3> QED BY <2>1, <3>2, <3>3
  <2>6. IndexIsTrue'
    <3> SUFFICES ASSUME NEW ch \in Channels, index[ch] # Unset, NEW x \in Live', NEW y \in Live', x # y,
                        profiles'[x].key[ch] = profiles'[y].key[ch]
                 PROVE  profiles'[x].key[ch] \in index[ch]
      BY DEF IndexIsTrue
    <3>1. CASE x # a /\ y # a
      BY <2>2, <2>3, <3>1 DEF IndexIsTrue
    <3>2. ASSUME NEW b \in Live \ {a}, profiles[b].key[ch] = Entered(d).key[ch] PROVE Entered(d).key[ch] \in index[ch]
      BY <1>2, <3>2 DEF Refuses
    <3>3. CASE x = a
      BY <2>2, <2>3, <3>2, <3>3
    <3>4. CASE y = a
      BY <2>2, <2>3, <3>2, <3>4
    <3> QED BY <3>1, <3>3, <3>4
  <2> QED BY <2>1, <2>2, <2>4, <2>5, <2>6
<1> QED
  BY <1>1, <1>2

(* A write that comes between the guard of a form and its own write is remembered. *)
LEMMA CrossingGuards ==
  ASSUME ContactTypes, FormIsGuarded, NEW a \in Profiles, NEW d \in Details, Crossing(a, d),
         profiles' = profiles \/ profiles' = [profiles EXCEPT ![a] = Entered(d)]
  PROVE  edit' \in {NoEdit} \cup EditRows /\ FormIsGuarded'
<1>1. CASE edit = NoEdit
  BY <1>1 DEF Crossing, FormIsGuarded
<1>2. CASE edit # NoEdit
  <2> DEFINE taken == {k \in {edit.details[ch].key : ch \in Channels} :
                        a = edit.of \/ k \in {d[ch].key : ch \in Channels}}
  <2>1. edit \in EditRows /\ edit' = [edit EXCEPT !.crossed = edit.crossed \cup taken]
    BY <1>2 DEF Crossing, ContactTypes
  <2>2. taken \subseteq Contacted
    BY <2>1, DetailsSay DEF EditRows
  <2>3. \A ch \in Channels : a = edit.of \/ edit.details[ch].key = d[ch].key => edit.details[ch].key \in taken
    OBVIOUS
  <2> HIDE DEF taken
  <2>4. /\ edit' \in EditRows /\ edit'.of = edit.of /\ edit'.details = edit.details
        /\ edit'.crossed = edit.crossed \cup taken
    BY <2>1, <2>2 DEF EditRows
  <2>5. \A b \in Profiles : b # a => profiles'[b] = profiles[b]
    BY DEF ContactTypes
  <2>6. FormIsGuarded'
    <3> SUFFICES ASSUME edit.of \in Live', NEW ch \in Channels, NEW b \in Live' \ {edit.of},
                        profiles'[b].contact[ch].key = edit.details[ch].key
                 PROVE  \/ edit.details[ch].key \in edit.crossed \cup taken
                        \/ profiles'[edit.of].contact[ch].key = edit.details[ch].key
      BY <2>4 DEF FormIsGuarded
    <3>1. b \in Profiles /\ edit.of \in Profiles
      BY DEF Live
    <3>2. CASE a = edit.of
      BY <2>3, <3>2
    <3>3. CASE a # edit.of /\ b # a
      <4>1. edit.of \in Live /\ b \in Live /\ profiles'[edit.of] = profiles[edit.of] /\ profiles'[b] = profiles[b]
        BY <2>5, <3>1, <3>3 DEF Live
      <4> QED BY <1>2, <4>1 DEF FormIsGuarded
    <3>4. CASE a # edit.of /\ b = a
      <4>1. edit.of \in Live /\ profiles'[edit.of] = profiles[edit.of]
        BY <2>5, <3>1, <3>4 DEF Live
      <4>2. CASE profiles' = profiles
        <5>1. b \in Live
          BY <4>2 DEF Live
        <5> QED BY <1>2, <4>1, <4>2, <5>1 DEF FormIsGuarded
      <4>3. CASE profiles' = [profiles EXCEPT ![a] = Entered(d)]
        <5>1. profiles'[b] = Entered(d)
          BY <3>4, <4>3 DEF ContactTypes
        <5>2. d[ch].key = edit.details[ch].key
          BY <5>1, EnteredSays
        <5> QED BY <2>3, <5>2
      <4> QED BY <4>2, <4>3
    <3> QED BY <3>2, <3>3, <3>4
  <2> QED BY <2>4, <2>6
<1> QED
  BY <1>1, <1>2
LEMMA ContactsStart ==
  ASSUME ContactsInit
  PROVE  ContactsInv
<1>1. PICK older \in 0..Cardinality(Profiles), told \in [Profiles -> Details] :
        profiles = [a \in Profiles |->
                      IF a > older THEN Unborn
                      ELSE [Entered(told[a]) EXCEPT !.key = [ch \in Channels |-> Unset]]]
  BY DEF ContactsInit
<1>2. /\ index = [ch \in Channels |-> Unset] /\ setting = Unset /\ process = [p \in {Server, Script} |-> Down]
      /\ edit = NoEdit /\ excused = Unlisted(profiles) /\ built = {} /\ puzzled = FALSE
  BY DEF ContactsInit
<1>3. \A d \in Details : [Entered(d) EXCEPT !.key = [ch \in Channels |-> Unset]] \in LiveRows
  <2>1. [ch \in Channels |-> Unset] \in [Channels -> Contacted \cup {Unset}]
    OBVIOUS
  <2>2. \A d \in Details : Entered(d) \in LiveRows
    BY EnteredSays
  <2> QED BY <2>1, <2>2 DEF LiveRows
<1>4. profiles \in [Profiles -> {Unborn, Erased} \cup LiveRows]
  BY <1>1, <1>3
<1>5. Down \in [at : {"down", "email", "phone", "up"}, exempt : Lists] /\ Down.at = "down"
  BY ContactNames DEF Down
<1>6. ContactTypes
  BY <1>2, <1>4, <1>5 DEF ContactTypes
<1>7. KeysAreRead /\ IndexIsTrue
  BY <1>2, <1>5 DEF KeysAreRead, IndexIsTrue
<1>8. FormIsGuarded /\ PairsAreAccountedFor /\ IndexesStand /\ GuardsForesee
  BY <1>2 DEF FormIsGuarded, PairsAreAccountedFor, IndexesStand, GuardsForesee
<1> QED
  BY <1>6, <1>7, <1>8 DEF ContactsInv

(* Who shares what is a matter of the contacts. *)
LEMMA SharingIsOfContacts ==
  ASSUME \A a \in Profiles : /\ profiles'[a].is = profiles[a].is
                             /\ profiles[a].is = "live" => profiles'[a].contact = profiles[a].contact
  PROVE  Unlisted(profiles') = Unlisted(profiles) /\ Live' = Live
<1>1. Sharing(profiles') \subseteq Sharing(profiles)
  BY DEF Sharing
<1>2. Sharing(profiles) \subseteq Sharing(profiles')
  BY DEF Sharing
<1>3. Live' = Live
  BY DEF Live
<1> QED
  BY <1>1, <1>2, <1>3 DEF Unlisted

LEMMA ContactsOpen ==
  ASSUME ContactsInv, NEW p \in {Server, Script}, NEW declared \in Lists \cup {Unset}, OpenDatabase(p, declared)
  PROVE  ContactsInv'
<1> DEFINE list == IF declared # Unset THEN declared ELSE IF setting # Unset THEN setting ELSE {}
<1>1. /\ process' = [process EXCEPT ![p] = [at |-> "email", exempt |-> list]]
      /\ setting' = (IF declared # Unset THEN declared ELSE setting)
      /\ profiles' = [a \in Profiles |-> IF a \in Live THEN Entered(profiles[a].contact) ELSE profiles[a]]
      /\ UNCHANGED <<index, edit, excused, built, puzzled>>
  BY DEF OpenDatabase
<1>2. ContactTypes
  BY DEF ContactsInv
<1>3. list \in Lists
  BY <1>2, ContactNames DEF ContactTypes
<1> HIDE DEF list
<1>4. /\ \A a \in Live : /\ profiles'[a] \in LiveRows /\ profiles'[a].is = "live"
                         /\ profiles'[a].contact = profiles[a].contact
                         /\ \A ch \in Channels : profiles'[a].key[ch] = profiles[a].contact[ch].key
      /\ \A a \in Profiles \ Live : profiles'[a] = profiles[a]
  <2> SUFFICES ASSUME NEW a \in Profiles
               PROVE  /\ a \in Live =>
                           /\ profiles'[a] \in LiveRows /\ profiles'[a].is = "live"
                           /\ profiles'[a].contact = profiles[a].contact
                           /\ \A ch \in Channels : profiles'[a].key[ch] = profiles[a].contact[ch].key
                      /\ a \notin Live => profiles'[a] = profiles[a]
    BY DEF Live
  <2>1. CASE a \in Live
    <3>1. profiles'[a] = Entered(profiles[a].contact) /\ profiles[a].contact \in Details
      BY <1>1, <1>2, <2>1, LiveHasColumns
    <3> QED BY <2>1, <3>1, EnteredSays
  <2>2. CASE a \notin Live
    BY <1>1, <2>2
  <2> QED BY <2>1, <2>2
<1>5. Unlisted(profiles') = Unlisted(profiles) /\ Live' = Live
  <2>1. \A a \in Profiles : /\ profiles'[a].is = profiles[a].is
                            /\ profiles[a].is = "live" => profiles'[a].contact = profiles[a].contact
    BY <1>4 DEF Live
  <2> QED BY <2>1, SharingIsOfContacts
<1>6. ContactTypes'
  <2>1. profiles' \in [Profiles -> {Unborn, Erased} \cup LiveRows]
    <3>1. \A a \in Profiles : profiles'[a] \in {Unborn, Erased} \cup LiveRows
      BY <1>2, <1>4 DEF ContactTypes
    <3> QED BY <1>1, <3>1
  <2>2. setting' \in Lists \cup {Unset}
    BY <1>1, <1>2 DEF ContactTypes
  <2>3. process' \in [{Server, Script} -> [at : {"down", "email", "phone", "up"}, exempt : Lists]]
    BY <1>1, <1>2, <1>3 DEF ContactTypes
  <2> QED BY <1>1, <1>2, <1>5, <2>1, <2>2, <2>3 DEF ContactTypes
<1>7. KeysAreRead'
  BY <1>4, <1>5 DEF KeysAreRead
<1>8. IndexIsTrue'
  <2>1. CASE \A ch \in Channels : index[ch] = Unset
    BY <1>1, <2>1 DEF IndexIsTrue
  <2>2. CASE \A a \in Live, ch \in Channels : profiles[a].key[ch] = profiles[a].contact[ch].key
    <3>1. \A a \in Live, ch \in Channels : profiles'[a].key[ch] = profiles[a].key[ch]
      BY <1>4, <2>2
    <3> SUFFICES ASSUME NEW ch \in Channels, index[ch] # Unset, NEW a \in Live, NEW b \in Live, a # b,
                        profiles'[a].key[ch] = profiles'[b].key[ch]
                 PROVE  profiles'[a].key[ch] \in index[ch]
      BY <1>1, <1>5 DEF IndexIsTrue
    <3> QED BY <3>1 DEF ContactsInv, IndexIsTrue
  <2> QED BY <2>1, <2>2 DEF ContactsInv, KeysAreRead
<1>9. FormIsGuarded'
  <2>1. \A a \in Live : profiles'[a].contact = profiles[a].contact
    BY <1>4
  <2> SUFFICES ASSUME edit # NoEdit, edit.of \in Live, NEW ch \in Channels, NEW b \in Live \ {edit.of},
                      profiles'[b].contact[ch].key = edit.details[ch].key
               PROVE  \/ edit.details[ch].key \in edit.crossed
                      \/ profiles'[edit.of].contact[ch].key = edit.details[ch].key
    BY <1>1, <1>5 DEF FormIsGuarded
  <2>2. profiles[b].contact[ch].key = edit.details[ch].key
    BY <2>1
  <2>3. \/ edit.details[ch].key \in edit.crossed
        \/ profiles[edit.of].contact[ch].key = edit.details[ch].key
    BY <2>2 DEF ContactsInv, FormIsGuarded
  <2> QED BY <2>1, <2>3
<1>10. PairsAreAccountedFor' /\ IndexesStand' /\ GuardsForesee'
  BY <1>1, <1>5 DEF ContactsInv, PairsAreAccountedFor, IndexesStand, GuardsForesee
<1> QED
  BY <1>6, <1>7, <1>8, <1>9, <1>10 DEF ContactsInv

(* The profiles stay as they are. *)
LEMMA ContactsRest ==
  ASSUME ContactTypes, UNCHANGED profiles
  PROVE  /\ Live' = Live /\ Unlisted(profiles') = Unlisted(profiles)
         /\ PairsAreAccountedFor /\ excused' = excused => PairsAreAccountedFor'
         /\ IndexIsTrue /\ index' = index => IndexIsTrue'
         /\ FormIsGuarded /\ edit' = edit => FormIsGuarded'
         /\ (\A a \in Live, ch \in Channels : profiles[a].key[ch] = profiles[a].contact[ch].key) => KeysAreRead'
<1>1. Live' = Live /\ Unlisted(profiles') = Unlisted(profiles)
  BY DEF Live
<1> QED
  BY <1>1 DEF PairsAreAccountedFor, IndexIsTrue, FormIsGuarded, KeysAreRead

LEMMA ContactsIndex ==
  ASSUME ContactsInv, NEW p \in {Server, Script}, EnsureContactIndex(p)
  PROVE  ContactsInv'
<1> DEFINE ch == process[p].at
           wanted == process[p].exempt \cap Keys(ch)
           clashes == \E a, b \in Live : a # b /\ profiles[a].key[ch] = profiles[b].key[ch]
                                         /\ profiles[a].key[ch] \notin wanted
           next == IF ch = "email" THEN "phone" ELSE "up"
<1>1. /\ ch \in Channels
      /\ index' = (IF clashes THEN index ELSE [index EXCEPT ![ch] = wanted])
      /\ built' = (IF clashes THEN built ELSE built \cup {ch})
      /\ process' = [process EXCEPT ![p].at = next]
      /\ UNCHANGED <<profiles, setting, edit, excused, puzzled>>
  BY DEF EnsureContactIndex
<1>2. ContactTypes
  BY DEF ContactsInv
<1>3. process[p] \in [at : {"down", "email", "phone", "up"}, exempt : Lists]
  BY <1>2 DEF ContactTypes
<1>4. wanted \subseteq UNION Lists /\ wanted # Unset
  <2>1. process[p].exempt \in Lists
    BY <1>3
  <2> QED BY <2>1, ContactNames
<1>5. next \in {"phone", "up"}
  OBVIOUS
<1>6. process' \in [{Server, Script} -> [at : {"down", "email", "phone", "up"}, exempt : Lists]]
  <2> HIDE DEF next
  <2>1. [process[p] EXCEPT !.at = next] \in [at : {"down", "email", "phone", "up"}, exempt : Lists]
    BY <1>3, <1>5
  <2> QED BY <1>1, <1>2, <2>1 DEF ContactTypes
<1>7. \A a \in Live, c \in Channels : profiles[a].key[c] = profiles[a].contact[c].key
  BY <1>1 DEF ContactsInv, KeysAreRead, Channels
<1>8. KeysAreRead' /\ FormIsGuarded' /\ PairsAreAccountedFor' /\ Live' = Live /\ Unlisted(profiles') = Unlisted(profiles)
  BY <1>1, <1>2, <1>7, ContactsRest DEF ContactsInv
<1>9. GuardsForesee'
  BY <1>1 DEF ContactsInv, GuardsForesee
<1>10. ~clashes => \A a, b \in Live : a # b /\ profiles[a].key[ch] = profiles[b].key[ch] => profiles[a].key[ch] \in wanted
  OBVIOUS
<1> HIDE DEF wanted, clashes, ch
<1>11. CASE clashes
  <2>1. index' = index /\ built' = built
    BY <1>1, <1>11
  <2>2. IndexIsTrue'
    BY <1>1, <1>2, <2>1, ContactsRest DEF ContactsInv
  <2>3. ContactTypes' /\ IndexesStand'
    BY <1>1, <1>2, <1>6, <1>8, <2>1 DEF ContactsInv, ContactTypes, IndexesStand
  <2> QED BY <1>8, <1>9, <2>2, <2>3 DEF ContactsInv
<1>12. CASE ~clashes
  <2>1. index' = [index EXCEPT ![ch] = wanted] /\ built' = built \cup {ch}
    BY <1>1, <1>12
  <2>2. /\ index' \in [Channels -> SUBSET UNION Lists \cup {Unset}] /\ index'[ch] = wanted
        /\ \A c \in Channels : c # ch => index'[c] = index[c]
    BY <1>1, <1>2, <1>4, <2>1 DEF ContactTypes
  <2>3. IndexIsTrue'
    <3> SUFFICES ASSUME NEW c \in Channels, index'[c] # Unset, NEW a \in Live, NEW b \in Live, a # b,
                        profiles[a].key[c] = profiles[b].key[c]
                 PROVE  profiles[a].key[c] \in index'[c]
      BY <1>1, <1>8 DEF IndexIsTrue
    <3>1. CASE c = ch
      BY <1>10, <1>12, <2>2, <3>1
    <3>2. CASE c # ch
      BY <2>2, <3>2 DEF ContactsInv, IndexIsTrue
    <3> QED BY <3>1, <3>2
  <2>4. ContactTypes'
    BY <1>1, <1>2, <1>6, <1>8, <2>1, <2>2 DEF ContactTypes
  <2>5. IndexesStand'
    BY <1>4, <2>1, <2>2, <1>2 DEF ContactsInv, ContactTypes, IndexesStand
  <2> QED BY <1>8, <1>9, <2>3, <2>4, <2>5 DEF ContactsInv
<1> QED
  BY <1>11, <1>12
LEMMA ContactsExempt ==
  ASSUME ContactsInv, NEW list \in Lists, SetExemptContacts(list)
  PROVE  ContactsInv'
<1>1. /\ process[Script].at = "up" /\ setting' = list
      /\ process' = [process EXCEPT ![Script] = [at |-> "email", exempt |-> list]]
      /\ UNCHANGED <<profiles, index, edit, excused, built, puzzled>>
  BY DEF SetExemptContacts
<1>2. ContactTypes
  BY DEF ContactsInv
<1>3. \A a \in Live, c \in Channels : profiles[a].key[c] = profiles[a].contact[c].key
  BY <1>1 DEF ContactsInv, KeysAreRead
<1>4. KeysAreRead' /\ FormIsGuarded' /\ IndexIsTrue' /\ PairsAreAccountedFor' /\ Unlisted(profiles') = Unlisted(profiles)
  BY <1>1, <1>2, <1>3, ContactsRest DEF ContactsInv
<1>5. ContactTypes'
  <2>1. process' \in [{Server, Script} -> [at : {"down", "email", "phone", "up"}, exempt : Lists]]
    BY <1>1, <1>2 DEF ContactTypes
  <2> QED BY <1>1, <1>2, <1>4, <2>1 DEF ContactTypes
<1>6. IndexesStand' /\ GuardsForesee'
  BY <1>1 DEF ContactsInv, IndexesStand, GuardsForesee
<1> QED
  BY <1>4, <1>5, <1>6 DEF ContactsInv

LEMMA ContactsClose ==
  ASSUME ContactsInv, NEW p \in {Server, Script}, CloseDatabase(p)
  PROVE  ContactsInv'
<1>1. /\ process[p].at # "down" /\ process' = [process EXCEPT ![p] = Down]
      /\ edit' = (IF p = Server THEN NoEdit ELSE edit)
      /\ UNCHANGED <<profiles, index, setting, excused, built, puzzled>>
  BY DEF CloseDatabase
<1>2. ContactTypes
  BY DEF ContactsInv
<1>3. \A a \in Live, c \in Channels : profiles[a].key[c] = profiles[a].contact[c].key
  BY <1>1 DEF ContactsInv, KeysAreRead
<1>4. KeysAreRead' /\ IndexIsTrue' /\ PairsAreAccountedFor' /\ Unlisted(profiles') = Unlisted(profiles)
  BY <1>1, <1>2, <1>3, ContactsRest DEF ContactsInv
<1>5. ContactTypes'
  <2>1. Down \in [at : {"down", "email", "phone", "up"}, exempt : Lists]
    BY ContactNames DEF Down
  <2>2. process' \in [{Server, Script} -> [at : {"down", "email", "phone", "up"}, exempt : Lists]]
    BY <1>1, <1>2, <2>1 DEF ContactTypes
  <2> QED BY <1>1, <1>2, <1>4, <2>2 DEF ContactTypes
<1>6. FormIsGuarded'
  <2>1. CASE edit' = NoEdit
    BY <2>1 DEF FormIsGuarded
  <2>2. CASE edit' = edit
    BY <1>1, <1>2, <2>2, ContactsRest DEF ContactsInv
  <2> QED BY <1>1, <2>1, <2>2
<1>7. IndexesStand' /\ GuardsForesee'
  BY <1>1 DEF ContactsInv, IndexesStand, GuardsForesee
<1> QED
  BY <1>4, <1>5, <1>6, <1>7 DEF ContactsInv

LEMMA ContactsErase ==
  ASSUME ContactsInv, NEW a \in Profiles, EraseProfile(a)
  PROVE  ContactsInv'
<1>1. /\ a \in Live /\ profiles' = [profiles EXCEPT ![a] = Erased]
      /\ excused' = excused \cap Unlisted(profiles')
      /\ UNCHANGED <<index, setting, process, edit, built, puzzled>>
  BY DEF EraseProfile
<1>2. /\ profiles'[a] = Erased /\ (\A b \in Profiles : b # a => profiles'[b] = profiles[b])
      /\ profiles' \in [Profiles -> {Unborn, Erased} \cup LiveRows]
  BY <1>1 DEF ContactsInv, ContactTypes
<1>3. Erased.is # "live"
  BY DEF Erased
<1>4. Live' = Live \ {a} /\ Live \subseteq Profiles
  BY <1>2, <1>3 DEF Live
<1>5. Unlisted(profiles') \subseteq Unlisted(profiles)
  <2>1. Sharing(profiles') \subseteq Sharing(profiles)
    BY <1>2, <1>3 DEF Sharing
  <2> QED BY <2>1 DEF Unlisted
<1>6. ContactTypes'
  BY <1>1, <1>2 DEF ContactsInv, ContactTypes
<1>7. KeysAreRead' /\ IndexIsTrue'
  <2>1. \A b \in Live' : b \in Live /\ profiles'[b] = profiles[b]
    BY <1>2, <1>4
  <2> QED BY <1>1, <2>1 DEF ContactsInv, KeysAreRead, IndexIsTrue
<1>8. FormIsGuarded'
  <2>1. \A b \in Live' : b \in Live /\ profiles'[b] = profiles[b]
    BY <1>2, <1>4
  <2> QED BY <1>1, <2>1 DEF ContactsInv, FormIsGuarded
<1>9. PairsAreAccountedFor' /\ IndexesStand' /\ GuardsForesee'
  BY <1>1, <1>5 DEF ContactsInv, PairsAreAccountedFor, IndexesStand, GuardsForesee
<1> QED
  BY <1>6, <1>7, <1>8, <1>9 DEF ContactsInv

LEMMA ContactsBegin ==
  ASSUME ContactsInv, NEW a \in Profiles, NEW d \in Details, BeginEdit(a, d)
  PROVE  ContactsInv'
<1>1. /\ process[Server].at = "up" /\ a \in Live /\ edit' = [of |-> a, details |-> d, crossed |-> {}]
      /\ \A ch \in Channels : d[ch] = profiles[a].contact[ch] \/ FindCandidateByContact(ch, d[ch]) \in {a, Unset}
      /\ UNCHANGED <<profiles, index, setting, process, excused, built, puzzled>>
  BY DEF BeginEdit
<1>2. ContactTypes
  BY DEF ContactsInv
<1>3. \A b \in Live, c \in Channels : profiles[b].key[c] = profiles[b].contact[c].key
  BY <1>1 DEF ContactsInv, KeysAreRead
<1>4. KeysAreRead' /\ IndexIsTrue' /\ PairsAreAccountedFor' /\ Unlisted(profiles') = Unlisted(profiles) /\ Live' = Live
  BY <1>1, <1>2, <1>3, ContactsRest DEF ContactsInv
<1>5. /\ edit' \in EditRows /\ edit'.of = a /\ edit'.details = d
  BY <1>1 DEF EditRows
<1>6. ContactTypes'
  BY <1>1, <1>2, <1>4, <1>5 DEF ContactTypes
<1>7. FormIsGuarded'
  <2> SUFFICES ASSUME NEW ch \in Channels, NEW b \in Live \ {a}, profiles[b].contact[ch].key = d[ch].key
               PROVE  profiles[a].contact[ch].key = d[ch].key
    BY <1>1, <1>4, <1>5 DEF FormIsGuarded
  <2> DEFINE alike == {x \in Live : profiles[x].contact[ch].key = d[ch].key}
  <2>1. CASE d[ch] = profiles[a].contact[ch]
    BY <2>1
  <2>2. CASE FindCandidateByContact(ch, d[ch]) \in {a, Unset}
    <3>1. alike # {}
      OBVIOUS
    <3>2. FindCandidateByContact(ch, d[ch]) \in alike
      BY <1>2, <3>1, FindsWhoHasIt
    <3>3. Unset \notin alike
      BY ContactNames DEF Live
    <3> QED BY <2>2, <3>2, <3>3
  <2> QED BY <1>1, <2>1, <2>2
<1>8. IndexesStand' /\ GuardsForesee'
  BY <1>1 DEF ContactsInv, IndexesStand, GuardsForesee
<1> QED
  BY <1>4, <1>6, <1>7, <1>8 DEF ContactsInv

LEMMA ContactsApply ==
  ASSUME ContactsInv, NEW a \in Profiles, NEW d \in Details, Apply(a, d)
  PROVE  ContactsInv'
<1>1. /\ process[Server].at = "up" /\ profiles[a] = Unborn
      /\ \A ch \in Channels : d[ch].key \in process[Server].exempt \/ FindCandidateByContact(ch, d[ch]) = Unset
      /\ WriteProfile(a, Entered(d), {})
      /\ puzzled' = (puzzled \/ \E ch \in Channels : Refuses(ch, a, Entered(d)) /\ Agrees(Server, ch))
      /\ Crossing(a, d) /\ UNCHANGED <<index, setting, process, built>>
  BY DEF Apply
<1>2. ContactTypes /\ process[Server].exempt \in Lists
  BY DEF ContactsInv, ContactTypes
<1>3. KeysAreKnown
  BY <1>1 DEF ContactsInv, KeysAreRead, KeysAreKnown
<1>4. \A ch \in Channels, b \in Live : profiles[b].contact[ch].key = d[ch].key => d[ch].key \in process[Server].exempt
  <2> SUFFICES ASSUME NEW ch \in Channels, NEW b \in Live, profiles[b].contact[ch].key = d[ch].key,
                      FindCandidateByContact(ch, d[ch]) = Unset
               PROVE  FALSE
    BY <1>1
  <2> DEFINE alike == {x \in Live : profiles[x].contact[ch].key = d[ch].key}
  <2>1. alike # {}
    OBVIOUS
  <2>2. FindCandidateByContact(ch, d[ch]) \in alike
    BY <1>2, <2>1, FindsWhoHasIt
  <2> QED BY <2>2, ContactNames DEF Live
<1>5. \A ch \in Channels, b \in Live \ {a} : profiles[b].contact[ch].key = d[ch].key => d[ch].key \in UNION Lists
  BY <1>2, <1>4
<1>6. /\ profiles' = profiles \/ profiles' = [profiles EXCEPT ![a] = Entered(d)]
      /\ profiles' \in [Profiles -> {Unborn, Erased} \cup LiveRows] /\ excused' \subseteq Unlisted(profiles')
      /\ KeysAreKnown' /\ IndexIsTrue' /\ PairsAreAccountedFor'
  BY <1>1, <1>2, <1>3, <1>5, WritingKeeps DEF ContactsInv
<1>7. edit' \in {NoEdit} \cup EditRows /\ FormIsGuarded'
  BY <1>1, <1>2, <1>6, CrossingGuards DEF ContactsInv
<1>8. puzzled' = FALSE
  <2> SUFFICES ASSUME NEW ch \in Channels, Refuses(ch, a, Entered(d)), Agrees(Server, ch)
               PROVE  FALSE
    BY <1>1 DEF ContactsInv, GuardsForesee
  <2>1. PICK b \in Live \ {a} : profiles[b].key[ch] = Entered(d).key[ch]
    BY DEF Refuses
  <2>2. profiles[b].contact[ch].key = d[ch].key
    BY <1>3, <2>1, EnteredSays DEF KeysAreKnown
  <2>3. d[ch].key \in process[Server].exempt /\ d[ch].key \in Keys(ch)
    BY <1>4, <2>2, DetailsSay
  <2>4. d[ch].key \in index[ch]
    BY <2>3 DEF Agrees
  <2> QED BY <2>4, EnteredSays DEF Refuses
<1>9. ContactTypes' /\ IndexesStand' /\ GuardsForesee' /\ KeysAreRead'
  BY <1>1, <1>2, <1>6, <1>7, <1>8 DEF ContactsInv, ContactTypes, IndexesStand, GuardsForesee, KeysAreRead, KeysAreKnown
<1> QED
  BY <1>6, <1>7, <1>9 DEF ContactsInv
LEMMA ContactsFinish ==
  ASSUME ContactsInv, FinishEdit
  PROVE  ContactsInv'
<1> DEFINE a == edit.of
           d == edit.details
<1>1. edit # NoEdit /\ edit' = NoEdit /\ UNCHANGED <<index, setting, process, built>>
  BY DEF FinishEdit
<1>2. ContactTypes /\ a \in Profiles /\ d \in Details
  BY <1>1 DEF ContactsInv, ContactTypes, EditRows
<1>3. KeysAreKnown
  BY <1>1 DEF ContactsInv, KeysAreRead, KeysAreKnown
<1>4. FormIsGuarded' /\ IndexesStand'
  BY <1>1 DEF ContactsInv, FormIsGuarded, IndexesStand
<1>5. CASE a \notin Live
  <2>1. UNCHANGED <<profiles, excused, puzzled>>
    BY <1>5 DEF FinishEdit
  <2>2. KeysAreRead' /\ IndexIsTrue' /\ PairsAreAccountedFor' /\ Unlisted(profiles') = Unlisted(profiles)
    BY <1>1, <1>2, <1>3, <2>1, ContactsRest DEF ContactsInv, KeysAreKnown
  <2>3. ContactTypes' /\ GuardsForesee'
    BY <1>1, <1>2, <2>1, <2>2 DEF ContactsInv, ContactTypes, GuardsForesee
  <2> QED BY <1>4, <2>2, <2>3 DEF ContactsInv
<1>6. CASE a \in Live
  <2>1. /\ WriteProfile(a, Entered(d), edit.crossed)
        /\ puzzled' = (puzzled \/ \E ch \in Channels : Refuses(ch, a, Entered(d)) /\ d[ch].key \notin edit.crossed)
    BY <1>6 DEF FinishEdit
  <2>2. \A ch \in Channels, b \in Live \ {a} : profiles[b].contact[ch].key = d[ch].key =>
           d[ch].key \in edit.crossed \/ profiles[a].contact[ch].key = d[ch].key
    BY <1>1, <1>6 DEF ContactsInv, FormIsGuarded
  <2> HIDE DEF a, d
  <2>3. ASSUME NEW ch \in Channels, NEW b \in Live \ {a}, profiles[b].contact[ch].key = d[ch].key
        PROVE  \/ d[ch].key \in UNION Lists \/ d[ch].key \in edit.crossed \/ d[ch].key \in Unlisted(profiles)
    <3>1. CASE profiles[a].contact[ch].key = d[ch].key
      <4>1. a \in Profiles /\ b \in Profiles /\ profiles[a].is = "live" /\ profiles[b].is = "live" /\ d[ch].key \in Contacted
        BY <1>2, <1>6, LiveHasColumns, DetailsSay
      <4>2. d[ch].key \in Sharing(profiles)
        BY <2>3, <3>1, <4>1, SharedBy
      <4> QED BY <4>2 DEF Unlisted
    <3> QED BY <2>2, <2>3, <3>1
  <2>4. /\ profiles' = profiles \/ profiles' = [profiles EXCEPT ![a] = Entered(d)]
        /\ profiles' \in [Profiles -> {Unborn, Erased} \cup LiveRows] /\ excused' \subseteq Unlisted(profiles')
        /\ KeysAreKnown' /\ IndexIsTrue' /\ PairsAreAccountedFor'
    <3>1. PICK let \in {edit.crossed} : TRUE
      OBVIOUS
    <3>2. WriteProfile(a, Entered(d), let)
      BY <2>1, <3>1
    <3>3. \A ch \in Channels, b \in Live \ {a} : profiles[b].contact[ch].key = d[ch].key =>
            \/ Refuses(ch, a, Entered(d)) \/ d[ch].key \in UNION Lists \/ d[ch].key \in let
            \/ d[ch].key \in Unlisted(profiles)
      BY <2>3, <3>1
    <3>4. IndexIsTrue /\ PairsAreAccountedFor
      BY DEF ContactsInv
    <3> QED BY <1>1, <1>2, <1>3, <3>2, <3>3, <3>4, WritingKeeps
  <2>5. puzzled' = FALSE
    <3> SUFFICES ASSUME NEW ch \in Channels, Refuses(ch, a, Entered(d)), d[ch].key \notin edit.crossed
                 PROVE  FALSE
      BY <2>1 DEF ContactsInv, GuardsForesee
    <3>1. index[ch] # Unset /\ d[ch].key \notin index[ch] /\ \E b \in Live \ {a} : profiles[b].key[ch] = d[ch].key
      BY <1>2, EnteredSays DEF Refuses
    <3>2. PICK b \in Live \ {a} : profiles[b].key[ch] = d[ch].key
      BY <3>1
    <3>3. profiles[b].contact[ch].key = d[ch].key
      BY <1>3, <3>2 DEF KeysAreKnown
    <3>4. profiles[a].key[ch] = d[ch].key
      BY <1>3, <1>6, <2>2, <3>3 DEF KeysAreKnown
    <3> QED BY <1>6, <3>1, <3>2, <3>4 DEF ContactsInv, IndexIsTrue
  <2>6. ContactTypes' /\ GuardsForesee' /\ KeysAreRead'
    BY <1>1, <1>2, <2>4, <2>5 DEF ContactTypes, GuardsForesee, KeysAreRead, KeysAreKnown
  <2> QED BY <1>4, <2>4, <2>6 DEF ContactsInv
<1> QED
  BY <1>5, <1>6

LEMMA ContactsOperate ==
  ASSUME ContactsInv, NEW a \in Profiles, NEW d \in Details, OperatorSets(a, d)
  PROVE  ContactsInv'
<1> DEFINE all == {d[ch].key : ch \in Channels}
<1>1. /\ process[Script].at = "up" /\ WriteProfile(a, Entered(d), all)
      /\ Crossing(a, d) /\ UNCHANGED <<index, setting, process, built, puzzled>>
  BY DEF OperatorSets
<1>2. ContactTypes /\ IndexIsTrue /\ PairsAreAccountedFor /\ FormIsGuarded
  BY DEF ContactsInv
<1>3. KeysAreKnown
  BY <1>1 DEF ContactsInv, KeysAreRead, KeysAreKnown
<1>4. \A ch \in Channels : d[ch].key \in all
  OBVIOUS
<1> HIDE DEF all
<1>5. /\ profiles' = profiles \/ profiles' = [profiles EXCEPT ![a] = Entered(d)]
      /\ profiles' \in [Profiles -> {Unborn, Erased} \cup LiveRows] /\ excused' \subseteq Unlisted(profiles')
      /\ KeysAreKnown' /\ IndexIsTrue' /\ PairsAreAccountedFor'
  BY <1>1, <1>2, <1>3, <1>4, WritingKeeps
<1>6. edit' \in {NoEdit} \cup EditRows /\ FormIsGuarded'
  BY <1>1, <1>2, <1>5, CrossingGuards
<1>7. ContactTypes' /\ IndexesStand' /\ GuardsForesee' /\ KeysAreRead'
  BY <1>1, <1>2, <1>5, <1>6 DEF ContactsInv, ContactTypes, IndexesStand, GuardsForesee, KeysAreRead, KeysAreKnown
<1> QED
  BY <1>5, <1>6, <1>7 DEF ContactsInv

(* Every step of the processes, the forms and the operator keeps the invariant. *)
LEMMA ContactsStep ==
  ASSUME ContactsInv, [ContactsNext]_contactsVars
  PROVE  ContactsInv'
<1>1. CASE UNCHANGED contactsVars
  BY <1>1 DEF contactsVars, ContactsInv, ContactTypes, KeysAreRead, IndexIsTrue, FormIsGuarded, PairsAreAccountedFor,
              IndexesStand, GuardsForesee, Live
<1>2. ASSUME NEW p \in {Server, Script}, EnsureContactIndex(p) PROVE ContactsInv'
  BY <1>2, ContactsIndex
<1>3. ASSUME NEW p \in {Server, Script}, CloseDatabase(p) PROVE ContactsInv'
  BY <1>3, ContactsClose
<1>4. ASSUME NEW p \in {Server, Script}, NEW declared \in Lists \cup {Unset}, OpenDatabase(p, declared) PROVE ContactsInv'
  BY <1>4, ContactsOpen
<1>5. ASSUME NEW list \in Lists, SetExemptContacts(list) PROVE ContactsInv'
  BY <1>5, ContactsExempt
<1>6. ASSUME FinishEdit PROVE ContactsInv'
  BY <1>6, ContactsFinish
<1>7. ASSUME NEW a \in Profiles, EraseProfile(a) PROVE ContactsInv'
  BY <1>7, ContactsErase
<1>8. ASSUME NEW a \in Profiles, NEW d \in Details, Apply(a, d) PROVE ContactsInv'
  BY <1>8, ContactsApply
<1>9. ASSUME NEW a \in Profiles, NEW d \in Details, BeginEdit(a, d) PROVE ContactsInv'
  BY <1>9, ContactsBegin
<1>10. ASSUME NEW a \in Profiles, NEW d \in Details, OperatorSets(a, d) PROVE ContactsInv'
  BY <1>10, ContactsOperate
<1> QED
  BY <1>1, <1>2, <1>3, <1>4, <1>5, <1>6, <1>7, <1>8, <1>9, <1>10 DEF ContactsNext

LEMMA ContactsMean ==
  ASSUME ContactsInv
  PROVE  ContactsAreSound
<1>1. ContactTypes
  BY DEF ContactsInv
<1>2. \A a \in Live : profiles[a].contact \in Details
  BY <1>1, LiveHasColumns
<1>3. ContactsTypeOK
  BY <1>1, <1>2 DEF ContactTypes, ContactsTypeOK
<1>4. HoldersAreFound
  <2> SUFFICES ASSUME process[Server].at = "up", NEW a \in Live, NEW ch \in Channels,
                      NEW w, w.key = profiles[a].key[ch], w.key \notin Sharing(profiles)
               PROVE  FindCandidateByContact(ch, w) = a
    BY DEF HoldersAreFound
  <2> DEFINE alike == {b \in Live : profiles[b].contact[ch].key = w.key}
  <2>1. profiles[a].contact[ch].key = w.key
    BY DEF ContactsInv, KeysAreRead
  <2>2. a \in alike
    BY <2>1
  <2>3. \A b \in alike : b = a
    <3> SUFFICES ASSUME NEW b \in Live, profiles[b].contact[ch].key = w.key, b # a
                 PROVE  FALSE
      OBVIOUS
    <3>1. a \in Profiles /\ b \in Profiles /\ profiles[a].is = "live" /\ profiles[b].is = "live" /\ w.key \in Contacted
      BY <1>1, <2>1, LiveHasColumns
    <3> QED BY <2>1, <3>1, SharedBy
  <2>4. FindCandidateByContact(ch, w) \in alike
    BY <1>1, <2>2, FindsWhoHasIt
  <2> QED BY <2>3, <2>4
<1> QED
  BY <1>3, <1>4 DEF ContactsInv, ContactsAreSound

(* No start, list, index, form, erasure or operator lets two profiles share a contact
   unaccounted for, costs a column its index, hides a holder from a lookup or refuses what
   a guard let pass: for any number of profiles, mailboxes, numbers and lists
   (ensureContactIndexes and findCandidateByContact of db.js, the routes that call them). *)
THEOREM ContactsStaySound == ContactsSpec => []ContactsAreSound
<1>1. ContactsInit => ContactsInv
  BY ContactsStart
<1>2. ContactsInv /\ [ContactsNext]_contactsVars => ContactsInv'
  BY ContactsStep
<1>3. ContactsInv => ContactsAreSound
  BY ContactsMean
<1> QED
  BY <1>1, <1>2, <1>3, PTL DEF ContactsSpec
=============================================================================
