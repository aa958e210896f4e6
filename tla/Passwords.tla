----------------------------- MODULE Passwords -----------------------------
(***************************************************************************)
(* The recruiter accounts of one company and their passwords: creation,     *)
(* changes, resets by the administrator and by link (accounts.js and its    *)
(* routes).  scrypt is awaited, so whatever creates an account or sets a    *)
(* password is a request in flight in between.  That the caller may do it   *)
(* is checked before and not modelled.                                      *)
(***************************************************************************)
EXTENDS Naturals, FiniteSets, Sequences, FiniteSetsExt

CONSTANTS
    Admin,          \* the account that was made with the company
    Colleagues,     \* the ids of the accounts the administrator may create
    Handlers,       \* requests that may be in flight at once
    MaxLinks        \* bound: reset links

Accounts == {Admin} \union Colleagues

ASSUME PasswordsAssumption ==
    /\ Admin \notin Colleagues
    /\ MaxLinks \in Nat

VARIABLES
    name,       \* recruiters.username of the rows there are: all are namesakes, told apart by a number
    gone,       \* ids that were used and deleted (AUTOINCREMENT)
    password,   \* recruiters.password_hash: who set it last
    links,      \* recruiter_password_resets of the administrator
    applied,    \* history: how often a link has set a password
    handler     \* what each request in flight goes on with

passwordVars == <<name, gone, password, links, applied, handler>>

Free == [kind |-> "free"]

Handling ==
    {Free}
    \union [kind : {"create"}, name : Nat]
    \union [kind : {"change", "reset"}, rec : Accounts]
    \union [kind : {"redeem"}, link : Nat]

Alive == DOMAIN name

PasswordTypeOK ==
    /\ Alive \subseteq Accounts /\ name \in [Alive -> Nat] /\ Admin \in Alive
    /\ gone \subseteq Colleagues /\ gone \intersect Alive = {}
    /\ password \in [Alive -> {"first", "own", "admin", "link"}]
    /\ links \in Seq({"open", "used", "expired"})
    /\ applied \in [1..MaxLinks -> Nat]
    /\ handler \in [Handlers -> Handling]

PasswordInit ==
    /\ name = [r \in {Admin} |-> 0] /\ gone = {}
    /\ password = [r \in {Admin} |-> "first"]
    /\ links = <<>> /\ applied = [l \in 1..MaxLinks |-> 0]
    /\ handler = [q \in Handlers |-> Free]

-----------------------------------------------------------------------------
Names == {name[r] : r \in Alive}

(* deriveUsername: the first number no namesake has. *)
DerivedName == Min((0..Cardinality(Alive)) \ Names)

(* POST /api/recruiter: createRecruiter awaits the hash of the first password. *)
RequestCreate(q) ==
    /\ handler[q] = Free
    /\ Colleagues \ (Alive \union gone) # {}
    /\ handler' = [handler EXCEPT ![q] = [kind |-> "create", name |-> DerivedName]]
    /\ UNCHANGED <<name, gone, password, links, applied>>

(* UNIQUE (company_id, username). *)
NameIsFree(n) == n \notin Names

With(f, r, v) == [x \in DOMAIN f \union {r} |-> IF x = r THEN v ELSE f[x]]
Without(f, r) == [x \in DOMAIN f \ {r} |-> f[x]]

(* The INSERT, which throws when the username was taken meanwhile. *)
FinishCreate(q) ==
    /\ handler[q].kind = "create"
    /\ IF NameIsFree(handler[q].name)
           THEN \E r \in Colleagues \ (Alive \union gone) :
                    /\ name' = With(name, r, handler[q].name)
                    /\ password' = With(password, r, "first")
           ELSE UNCHANGED <<name, password>>
    /\ handler' = [handler EXCEPT ![q] = Free]
    /\ UNCHANGED <<gone, links, applied>>

(* DELETE /api/recruiter/:id: deleteRecruiterCompletely; the administrator's
   own account is refused. *)
DeleteAccount(r) ==
    /\ r \in Alive \ {Admin}
    /\ name' = Without(name, r)
    /\ password' = Without(password, r)
    /\ gone' = gone \union {r}
    /\ UNCHANGED <<links, applied, handler>>

-----------------------------------------------------------------------------
(* Passwords.                                                              *)

(* PATCH /api/recruiter/me/password ("change": the current one was typed and
   compared) and PATCH /api/recruiter/:id/password ("reset", by the
   administrator), up to the await of the new hash. *)
RequestPassword(q, kind, r) ==
    /\ handler[q] = Free
    /\ r \in Alive
    /\ handler' = [handler EXCEPT ![q] = [kind |-> kind, rec |-> r]]
    /\ UNCHANGED <<name, gone, password, links, applied>>

(* setRecruiterPassword: an UPDATE that finds no row changes nothing. *)
WithPassword(r, by) == IF r \in Alive THEN [password EXCEPT ![r] = by] ELSE password

FinishPassword(q) ==
    /\ handler[q].kind \in {"change", "reset"}
    /\ password' = WithPassword(handler[q].rec, IF handler[q].kind = "change" THEN "own" ELSE "admin")
    /\ handler' = [handler EXCEPT ![q] = Free]
    /\ UNCHANGED <<name, gone, links, applied>>

(* The UPDATE of issuePasswordReset: earlier links are spent. *)
Spent == [l \in DOMAIN links |-> IF links[l] = "open" THEN "used" ELSE links[l]]

(* POST /api/recruiter/forgot-password: only an administrator's link is mailed;
   the two statements of issuePasswordReset are one transaction. *)
ForgotPassword ==
    /\ Len(links) < MaxLinks
    /\ links' = Append(Spent, "open")
    /\ UNCHANGED <<name, gone, password, applied, handler>>

LinkExpires(l) ==
    /\ links[l] = "open"
    /\ links' = [links EXCEPT ![l] = "expired"]
    /\ UNCHANGED <<name, gone, password, applied, handler>>

(* Faulty variant: the link is spent when the password is set, after the await. *)
LinkTakenLater(l) == links

(* The guarded UPDATE of redeemPasswordReset. *)
LinkTaken(l) == [links EXCEPT ![l] = "used"]

(* redeemPasswordReset up to the await in setRecruiterPassword: the link is
   spent first, and nothing ties that to the password. *)
RedeemLink(q, l) ==
    /\ handler[q] = Free
    /\ links[l] = "open"
    /\ links' = LinkTaken(l)
    /\ handler' = [handler EXCEPT ![q] = [kind |-> "redeem", link |-> l]]
    /\ UNCHANGED <<name, gone, password, applied>>

FinishLink(q) ==
    /\ handler[q].kind = "redeem"
    /\ LET l == handler[q].link
       IN  /\ password' = WithPassword(Admin, "link")
           /\ applied' = [applied EXCEPT ![l] = @ + 1]
    /\ handler' = [handler EXCEPT ![q] = Free]
    /\ UNCHANGED <<name, gone, links>>

(* The process dies: requests in flight are lost, the tables are not. *)
PasswordsRestart ==
    /\ \E q \in Handlers : handler[q] # Free
    /\ handler' = [q \in Handlers |-> Free]
    /\ UNCHANGED <<name, gone, password, links, applied>>

FinishHandler(q) == FinishCreate(q) \/ FinishPassword(q) \/ FinishLink(q)

PasswordNext ==
    \/ \E q \in Handlers :
        \/ RequestCreate(q)
        \/ \E k \in {"change", "reset"}, r \in Accounts : RequestPassword(q, k, r)
        \/ \E l \in DOMAIN links : RedeemLink(q, l)
        \/ FinishHandler(q)
    \/ \E r \in Colleagues : DeleteAccount(r)
    \/ ForgotPassword
    \/ \E l \in DOMAIN links : LinkExpires(l)
    \/ PasswordsRestart

PasswordSpec == PasswordInit /\ [][PasswordNext]_passwordVars

-----------------------------------------------------------------------------
(* A link sets a password once, however often it is opened while the first
   request is still hashing (redeemPasswordReset). *)
LinkWorksOnce == \A l \in DOMAIN applied : applied[l] <= 1

(* Usernames tell the accounts of a company apart, although two creations derive
   them before either is inserted (deriveUsername, UNIQUE). *)
NamesTellApart == \A r, s \in Alive : name[r] = name[s] => r = s

(* Links and names across the await of the hash: nothing two requests do between
   them uses a link twice or gives two accounts one username. *)
PasswordsAreSound == PasswordTypeOK /\ LinkWorksOnce /\ NamesTellApart
=============================================================================
