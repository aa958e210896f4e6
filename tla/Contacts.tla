------------------------------ MODULE Contacts ------------------------------
(* One mailbox and one number belong to one profile (db.js): the keys of a contact,
   the two partial unique indexes, and the contacts that are exempt, which every
   process that opens the database reads once and writes into the indexes.

   The routes look before they write, and an index refuses what slipped through.  The
   list in a process, the stored one and the one in an index may differ, and the
   indexes cannot be built while older profiles share a contact. *)
EXTENDS Naturals, FiniteSets, FiniteSetsExt

CONSTANTS
    Profiles,   \* ids of candidates, the order in which they were created
    Mailboxes, Numbers,     \* email_key, phone_key
    Aliased,    \* mailboxes of a provider where a dot more or less is the same address
    Lists,      \* values of DUPLICATE_EXEMPT_CONTACTS
    Server, Script,         \* processes
    Unset       \* no variable, no setting, no index

Channels == {"email", "phone"}
Keys(ch) == IF ch = "email" THEN Mailboxes ELSE Numbers
(* An address as it is typed.  A number is found by its key alone, however spelled. *)
Written(ch) == {[key |-> k, as |-> n] : k \in Keys(ch), n \in {1, 2}}
                  \ {[key |-> k, as |-> 2] : k \in Keys(ch) \ Aliased}
Details == {d \in [Channels -> Written("email") \union Written("phone")] :
                \A ch \in Channels : d[ch] \in Written(ch)}

ASSUME ContactsAssumption ==
    /\ IsFiniteSet(Profiles) /\ Profiles = 1..Cardinality(Profiles)
    /\ Mailboxes \intersect Numbers = {} /\ Aliased \subseteq Mailboxes
    /\ {} \in Lists /\ UNION Lists \subseteq Mailboxes \union Numbers /\ Server # Script
    /\ Unset \notin Profiles \union Mailboxes \union Numbers
    /\ \A keys \in SUBSET (Mailboxes \union Numbers) : keys # Unset

VARIABLES
    profiles,   \* candidates: email and phone, email_key and phone_key
    index,      \* idx_candidates_email_key, idx_candidates_phone_key: what they exempt
    setting,    \* app_settings
    process,    \* of each process: how far its start is, the list in its memory
    edit,       \* the profile form that is under way, past its guard
    \* history
    excused,    \* keys on no list, shared from before the indexes or by a crossing
    built,      \* columns that had their index
    puzzled     \* an index refused what a guard had let pass, and nobody can say why

contactsVars == <<profiles, index, setting, process, edit, excused, built, puzzled>>

Unborn == [is |-> "unborn"]
Erased == [is |-> "erased"]
Live == {a \in Profiles : profiles[a].is = "live"}
NoEdit == [of |-> Unset]
Down == [at |-> "down", exempt |-> {}]

Entered(d) == [is |-> "live", contact |-> d, key |-> [ch \in Channels |-> d[ch].key]]

Sharing(rows) ==
    {k \in Mailboxes \union Numbers :
        \E a, b \in Profiles, ch \in Channels :
            /\ a # b /\ rows[a].is = "live" /\ rows[b].is = "live"
            /\ rows[a].contact[ch].key = k /\ rows[b].contact[ch].key = k}

(* Shared, and on no list. *)
Unlisted(rows) == Sharing(rows) \ UNION Lists

ContactsTypeOK ==
    /\ \A a \in Live : profiles[a].contact \in Details
    /\ index \in [Channels -> SUBSET UNION Lists \union {Unset}]
    /\ setting \in Lists \union {Unset}
    /\ process \in [{Server, Script} -> [at : {"down", "email", "phone", "up"}, exempt : Lists]]
    /\ built \subseteq Channels /\ excused \subseteq Unlisted(profiles) /\ puzzled \in BOOLEAN

(* A database older than the keys, in which profiles may share a contact. *)
ContactsInit ==
    /\ \E older \in 0..Cardinality(Profiles), contact \in [Profiles -> Details] :
        profiles = [a \in Profiles |->
                      IF a > older THEN Unborn
                      ELSE [Entered(contact[a]) EXCEPT !.key = [ch \in Channels |-> Unset]]]
    /\ index = [ch \in Channels |-> Unset] /\ setting = Unset
    /\ process = [p \in {Server, Script} |-> Down]
    /\ edit = NoEdit /\ excused = Unlisted(profiles) /\ built = {} /\ puzzled = FALSE

-----------------------------------------------------------------------------
(* The keys, the guard and the index *)

Newest(set) == IF set = {} THEN Unset ELSE Max(set)

(* findCandidateByContact: as it is written, then the same mailbox, the newest of each.
   That an address with nine digits in it, found in neither way, is looked up as a
   number as well is left out. *)
FindCandidateByContact(ch, w) ==
    LET exactly == {a \in Live : profiles[a].contact[ch] = w}
        alike == {a \in Live : profiles[a].contact[ch].key = w.key}
    IN Newest(IF ch = "email" /\ exactly # {} THEN exactly ELSE alike)

(* Whether the index of a column refuses the row `new` as that of `a`. *)
Refuses(ch, a, new) ==
    /\ index[ch] # Unset /\ new.key[ch] \notin index[ch]
    /\ \E b \in Live \ {a} : profiles[b].key[ch] = new.key[ch]

(* A profile is written, or the statement fails.  `let` are the keys that this write *)
(* may share without anybody having been asked.                                       *)
WriteProfile(a, new, let) ==
    IF \E ch \in Channels : Refuses(ch, a, new)
    THEN UNCHANGED <<profiles, excused>>
    ELSE /\ profiles' = [profiles EXCEPT ![a] = new]
         /\ excused' = (excused \union let) \intersect Unlisted(profiles')

(* A process believes the column as exempt as the index does. *)
Agrees(p, ch) == index[ch] # Unset /\ index[ch] = process[p].exempt \intersect Keys(ch)

-----------------------------------------------------------------------------
(* Processes that open the database *)

(* The import of db.js: the list is declared or inherited, the rows get their keys. *)
OpenDatabase(p, declared) ==
    /\ process[p].at = "down"
    /\ LET list == IF declared # Unset THEN declared
                   ELSE IF setting # Unset THEN setting ELSE {}
       IN process' = [process EXCEPT ![p] = [at |-> "email", exempt |-> list]]
    /\ setting' = IF declared # Unset THEN declared ELSE setting
    /\ profiles' = [a \in Profiles |-> IF a \in Live THEN Entered(profiles[a].contact) ELSE profiles[a]]
    /\ UNCHANGED <<index, edit, excused, built, puzzled>>

(* Faulty variant: the old index is dropped before the new one is tried. *)
EnsureContactIndexDropping(p) ==
    LET ch == process[p].at
        wanted == process[p].exempt \intersect Keys(ch)
        clashes == \E a, b \in Live : a # b /\ profiles[a].key[ch] = profiles[b].key[ch]
                                      /\ profiles[a].key[ch] \notin wanted
    IN
    /\ ch \in Channels
    /\ index' = [index EXCEPT ![ch] = IF clashes THEN Unset ELSE wanted]
    /\ built' = IF clashes THEN built ELSE built \union {ch}
    /\ process' = [process EXCEPT ![p].at = IF ch = "email" THEN "phone" ELSE "up"]
    /\ UNCHANGED <<profiles, setting, edit, excused, puzzled>>

(* ensureContactIndexes, a column at a time: the old index stands if the new one *)
(* cannot be built.                                                               *)
EnsureContactIndex(p) ==
    LET ch == process[p].at
        wanted == process[p].exempt \intersect Keys(ch)
        clashes == \E a, b \in Live : a # b /\ profiles[a].key[ch] = profiles[b].key[ch]
                                      /\ profiles[a].key[ch] \notin wanted
    IN
    /\ ch \in Channels
    /\ index' = IF clashes THEN index ELSE [index EXCEPT ![ch] = wanted]
    /\ built' = IF clashes THEN built ELSE built \union {ch}
    /\ process' = [process EXCEPT ![p].at = IF ch = "email" THEN "phone" ELSE "up"]
    /\ UNCHANGED <<profiles, setting, edit, excused, puzzled>>

(* setExemptContacts, which the server never calls. *)
SetExemptContacts(list) ==
    /\ process[Script].at = "up"
    /\ setting' = list
    /\ process' = [process EXCEPT ![Script] = [at |-> "email", exempt |-> list]]
    /\ UNCHANGED <<profiles, index, edit, excused, built, puzzled>>

(* A script ends; the server dies, at any point of its start as well. *)
CloseDatabase(p) ==
    /\ process[p].at # "down"
    /\ process' = [process EXCEPT ![p] = Down]
    /\ edit' = IF p = Server THEN NoEdit ELSE edit
    /\ UNCHANGED <<profiles, index, setting, excused, built, puzzled>>

-----------------------------------------------------------------------------
(* Profiles *)

(* The form that is under way has passed its guard before `d` is written as that of `a`; *)
(* if it is a form of `a` itself, it takes contacts back that `a` no longer has.         *)
Crossing(a, d) ==
    edit' = IF edit = NoEdit THEN NoEdit
            ELSE [edit EXCEPT !.crossed = @ \union
                    {k \in {edit.details[ch].key : ch \in Channels} :
                        a = edit.of \/ k \in {d[ch].key : ch \in Channels}}]

(* POST /api/candidates: nothing comes between the guard and the insert. *)
Apply(a, d) ==
    /\ process[Server].at = "up"
    /\ profiles[a] = Unborn /\ \A b \in Profiles : b < a => profiles[b] # Unborn
    /\ \A ch \in Channels :
        d[ch].key \in process[Server].exempt \/ FindCandidateByContact(ch, d[ch]) = Unset
    /\ WriteProfile(a, Entered(d), {})
    /\ puzzled' = (puzzled \/ \E ch \in Channels : Refuses(ch, a, Entered(d)) /\ Agrees(Server, ch))
    /\ Crossing(a, d)
    /\ UNCHANGED <<index, setting, process, built>>

(* PATCH /api/candidate/me as far as the guard, which knows of no exemption; a CV is *)
(* read after it.  One form at a time is followed.                                    *)
BeginEdit(a, d) ==
    /\ process[Server].at = "up" /\ edit = NoEdit
    /\ a \in Live /\ profiles[a].contact # d
    /\ \A ch \in Channels :
        d[ch] = profiles[a].contact[ch] \/ FindCandidateByContact(ch, d[ch]) \in {a, Unset}
    /\ edit' = [of |-> a, details |-> d, crossed |-> {}]
    /\ UNCHANGED <<profiles, index, setting, process, excused, built, puzzled>>

(* updateCandidate moves the keys with the contacts. *)
FinishEdit ==
    LET a == edit.of IN
    /\ edit # NoEdit
    /\ edit' = NoEdit
    /\ IF a \notin Live THEN UNCHANGED <<profiles, excused, puzzled>>
       ELSE /\ WriteProfile(a, Entered(edit.details), edit.crossed)
            /\ puzzled' = (puzzled \/ \E ch \in Channels :
                               Refuses(ch, a, Entered(edit.details)) /\ edit.details[ch].key \notin edit.crossed)
    /\ UNCHANGED <<index, setting, process, built>>

(* candidates.mjs set: the index is its only guard. *)
OperatorSets(a, d) ==
    /\ process[Script].at = "up" /\ a \in Live /\ profiles[a].contact # d
    /\ WriteProfile(a, Entered(d), {d[ch].key : ch \in Channels})
    /\ Crossing(a, d)
    /\ UNCHANGED <<index, setting, process, built, puzzled>>

(* deleteCandidateCompletely *)
EraseProfile(a) ==
    /\ a \in Live
    /\ profiles' = [profiles EXCEPT ![a] = Erased]
    /\ excused' = excused \intersect Unlisted(profiles')
    /\ UNCHANGED <<index, setting, process, edit, built, puzzled>>

ContactsNext ==
    \/ \E p \in {Server, Script} :
        \/ EnsureContactIndex(p) \/ CloseDatabase(p)
        \/ \E declared \in Lists \union {Unset} : OpenDatabase(p, declared)
    \/ \E list \in Lists : SetExemptContacts(list)
    \/ FinishEdit
    \/ \E a \in Profiles :
        \/ EraseProfile(a)
        \/ \E d \in Details : Apply(a, d) \/ BeginEdit(a, d) \/ OperatorSets(a, d)

ContactsSpec == ContactsInit /\ [][ContactsNext]_contactsVars

-----------------------------------------------------------------------------
(* No two profiles share a contact that no list exempts, unless they did before the
   indexes or there is no index and a form had passed its guard, or an operator had
   no guard, when the contact was taken: a pair comes of nothing else, whatever lists
   processes believe in. *)
PairsAreAccountedFor == Unlisted(profiles) \subseteq excused

(* An index, once there is one, outlives every start, every change of the list and
   every profile that keeps its successor from being built. *)
IndexesStand == \A ch \in built : index[ch] # Unset

(* Whoever holds a contact alone is found by it, however it is spelled: nobody is sent
   to make a second profile, and nobody else is signed in. *)
HoldersAreFound ==
    process[Server].at = "up" =>
        \A a \in Live, ch \in Channels, w \in Written("email") \union Written("phone") :
            w.key = profiles[a].key[ch] /\ w.key \notin Sharing(profiles) =>
                FindCandidateByContact(ch, w) = a

(* The guard of a route and the index are two answers to one question: an application
   is refused by the index only if another list was written into it, a form only if
   its contact was taken while its CV was read. *)
GuardsForesee == ~puzzled

ContactsAreSound ==
    /\ ContactsTypeOK /\ PairsAreAccountedFor /\ IndexesStand /\ HoldersAreFound /\ GuardsForesee
=============================================================================
