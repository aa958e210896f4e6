----------------------------- MODULE Shortlists -----------------------------
(***************************************************************************)
(* The shortlists of one company (folders of workspace.js) and the saved      *)
(* searches of its recruiters (chats.js), with the routes over them.  Every    *)
(* request is one step: the driver is synchronous and none of them awaits.      *)
(* What they leave to each other is the subject: ids held in other tables,       *)
(* foreign keys that cascade, colleagues that leave.  Names, positions and        *)
(* scores are not modelled.                                                        *)
(***************************************************************************)
EXTENDS Naturals, Sequences, FiniteSets

CONSTANTS
    Team,           \* recruiters of the company
    Candidates,         \* candidates
    Applicants,     \* CVs of the company's Triage sessions
    Briefs,         \* job descriptions, as jobs tells them apart
    MaxFolders,     \* bound: folders ever created
    MaxChats        \* bound: searches ever recorded

ASSUME ShortlistAssumption == MaxFolders \in Nat /\ MaxChats \in Nat

VARIABLES
    staff,      \* recruiters with an account
    folders,    \* every folder ever made: by, there
    items,      \* folder_items: folder, person, pin (the stored status)
    filed,      \* folder_triage_items: <<folder, applicant>>
    jobs,       \* jobs: by, brief, chat (0 for none)
    chats,      \* search_chats: by, brief, folder, there
    ruledOut    \* search_dismissals: <<chat, person>>

shortlistVars == <<staff, folders, items, filed, jobs, chats, ruledOut>>

Pins == {"auto", "shortlisted"}

Shelves == {f \in DOMAIN folders : folders[f].there}
OwnChats(r) == {c \in DOMAIN chats : chats[c].there /\ chats[c].by = r}

ShortlistTypeOK ==
    /\ staff \subseteq Team
    /\ \A f \in DOMAIN folders : folders[f] \in [by : Team, there : BOOLEAN]
    /\ items \subseteq [folder : DOMAIN folders, person : Candidates, pin : Pins]
    /\ filed \subseteq (DOMAIN folders) \X Applicants
    /\ jobs \subseteq [by : Team, brief : Briefs, chat : 0..Len(chats)]
    /\ \A c \in DOMAIN chats :
        chats[c] \in [by : Team, brief : Briefs, folder : 0..Len(folders), there : BOOLEAN]
    /\ ruledOut \subseteq (DOMAIN chats) \X Candidates
    /\ Cardinality(jobs) = Cardinality({<<j.by, j.brief>> : j \in jobs})

ShortlistInit ==
    /\ staff = Team /\ folders = <<>> /\ items = {} /\ filed = {}
    /\ jobs = {} /\ chats = <<>> /\ ruledOut = {}

-----------------------------------------------------------------------------
(* Searches.                                                               *)

(* findOrCreateJob: one job per recruiter and text, with the chat of the first request. *)
JobsWith(r, b, c) ==
    IF \E j \in jobs : j.by = r /\ j.brief = b
    THEN jobs ELSE jobs \union {[by |-> r, brief |-> b, chat |-> c]}

(* POST /api/hr/search: a new search has no chat yet, a reopened or amended one names its own. *)
RunSearch(r, b, c) ==
    /\ c = 0 \/ c \in OwnChats(r)
    /\ jobs' = JobsWith(r, b, c)
    /\ UNCHANGED <<staff, folders, items, filed, chats, ruledOut>>

(* POST /api/hr/chats, after the results: the chat, and a folder of its own. *)
RecordSearch(r, b) ==
    /\ \E j \in jobs : j.by = r /\ j.brief = b
    /\ Len(chats) < MaxChats /\ Len(folders) < MaxFolders
    /\ folders' = Append(folders, [by |-> r, there |-> TRUE])
    /\ chats' = Append(chats, [by |-> r, brief |-> b, folder |-> Len(folders'), there |-> TRUE])
    /\ UNCHANGED <<staff, items, filed, jobs, ruledOut>>

(* POST and DELETE /api/hr/chats/:id/dismissed. *)
RuleOut(r, c, p) ==
    /\ c \in OwnChats(r)
    /\ ruledOut' = ruledOut \union {<<c, p>>}
    /\ UNCHANGED <<staff, folders, items, filed, jobs, chats>>

RuleIn(r, c, p) ==
    /\ c \in OwnChats(r)
    /\ ruledOut' = ruledOut \ {<<c, p>>}
    /\ UNCHANGED <<staff, folders, items, filed, jobs, chats>>

ChatsWithout(gone) == [c \in DOMAIN chats |-> [chats[c] EXCEPT !.there = @ /\ c \notin gone]]

(* deleteSearchChat: its turns, its dismissals, itself; its folder stays. *)
DeleteSearch(r, c) ==
    /\ c \in OwnChats(r)
    /\ chats' = ChatsWithout({c})
    /\ ruledOut' = {d \in ruledOut : d[1] # c}
    /\ UNCHANGED <<staff, folders, items, filed, jobs>>

-----------------------------------------------------------------------------
(* Folders.                                                                *)

CreateFolder(r) ==
    /\ Len(folders) < MaxFolders
    /\ folders' = Append(folders, [by |-> r, there |-> TRUE])
    /\ UNCHANGED <<staff, items, filed, jobs, chats, ruledOut>>

(* A folder that goes takes what is in it, by hand or through its foreign keys. *)
Cleared(gone) ==
    /\ folders' = [f \in DOMAIN folders |-> [folders[f] EXCEPT !.there = @ /\ f \notin gone]]
    /\ items' = {i \in items : i.folder \notin gone}
    /\ filed' = {a \in filed : a[1] \notin gone}

DeleteFolder(f) ==
    /\ f \in Shelves
    /\ Cleared({f})
    /\ UNCHANGED <<staff, jobs, chats, ruledOut>>

(* Faulty variant: filed where they are wanted, and left where they were. *)
PlacedToo(f, p) == items \union {[folder |-> f, person |-> p, pin |-> "auto"]}

(* placeCandidate: DELETE wherever the company has them, then INSERT, with no status. *)
Placed(f, p) ==
    {i \in items : i.person # p} \union {[folder |-> f, person |-> p, pin |-> "auto"]}

(* POST /api/hr/folders/:id/items, and a save that names a folder. *)
Place(f, p) ==
    /\ f \in Shelves
    /\ items' = Placed(f, p)
    /\ UNCHANGED <<staff, folders, filed, jobs, chats, ruledOut>>

(* The chat of a search as the save route finds it: through its job, not through the page. *)
ChatOf(j) == IF j.chat \in OwnChats(j.by) THEN j.chat ELSE 0

(* POST /api/hr/search/:sessionId/save, no folder named. *)
Save(r, p) ==
    \E j \in jobs :
        /\ j.by = r
        /\ LET c == ChatOf(j)
           IN  IF c # 0 /\ chats[c].folder \in Shelves
               THEN /\ items' = Placed(chats[c].folder, p)
                    /\ UNCHANGED <<folders, chats>>
               ELSE /\ Len(folders) < MaxFolders
                    /\ folders' = Append(folders, [by |-> r, there |-> TRUE])
                    /\ items' = Placed(Len(folders'), p)
                    /\ chats' = IF c = 0 THEN chats ELSE [chats EXCEPT ![c].folder = Len(folders')]
        /\ UNCHANGED <<staff, filed, jobs, ruledOut>>

SetStatus(p, pin) ==
    /\ \E i \in items : i.person = p
    /\ items' = {IF i.person = p THEN [i EXCEPT !.pin = pin] ELSE i : i \in items}
    /\ UNCHANGED <<staff, folders, filed, jobs, chats, ruledOut>>

(* DELETE /api/hr/folders/items/:candidateId. *)
TakeOut(p) ==
    /\ items' = {i \in items : i.person # p}
    /\ UNCHANGED <<staff, folders, filed, jobs, chats, ruledOut>>

(* placeTriageApplicant adds: an applicant may be in several folders at once. *)
FileApplicant(f, a) ==
    /\ f \in Shelves
    /\ filed' = filed \union {<<f, a>>}
    /\ UNCHANGED <<staff, folders, items, jobs, chats, ruledOut>>

(* removeTriageApplicant; and the cascade when the CV itself is removed. *)
UnfileApplicant(a) ==
    /\ filed' = {x \in filed : x[2] # a}
    /\ UNCHANGED <<staff, folders, items, jobs, chats, ruledOut>>

-----------------------------------------------------------------------------
(* Accounts.                                                               *)

(* Folders go to whoever is left; with nobody left they go, with what is in them. *)
Inherited(r, heir) ==
    IF heir = r
    THEN Cleared({f \in Shelves : folders[f].by = r})
    ELSE /\ folders' = [f \in DOMAIN folders |->
                IF folders[f].by = r THEN [folders[f] EXCEPT !.by = heir] ELSE folders[f]]
         /\ UNCHANGED <<items, filed>>

RulingsWithout(r) == {d \in ruledOut : d[1] \notin OwnChats(r)}

(* deleteRecruiterCompletely; any colleague may be the heir its ORDER BY picks, r itself if none. *)
Leave(r) ==
    /\ r \in staff
    /\ staff' = staff \ {r}
    /\ \E heir \in IF staff' = {} THEN {r} ELSE staff' : Inherited(r, heir)
    /\ ruledOut' = RulingsWithout(r)
    /\ chats' = ChatsWithout(OwnChats(r))
    /\ jobs' = {j \in jobs : j.by # r}

(* deleteCandidateCompletely, as far as it reaches here; another candidate may come after p. *)
EraseFromShelves(p) ==
    /\ items' = {i \in items : i.person # p}
    /\ ruledOut' = {d \in ruledOut : d[2] # p}
    /\ UNCHANGED <<staff, folders, filed, jobs, chats>>

ShortlistNext ==
    \/ \E r \in staff :
        \/ \E b \in Briefs :
            \/ \E c \in 0..Len(chats) : RunSearch(r, b, c)
            \/ RecordSearch(r, b)
        \/ \E c \in DOMAIN chats :
            \/ DeleteSearch(r, c)
            \/ \E p \in Candidates : RuleOut(r, c, p) \/ RuleIn(r, c, p)
        \/ \E p \in Candidates : Save(r, p)
        \/ CreateFolder(r)
        \/ \E f \in DOMAIN folders :
            \/ DeleteFolder(f)
            \/ \E p \in Candidates : Place(f, p)
            \/ \E a \in Applicants : FileApplicant(f, a)
        \/ \E p \in Candidates : TakeOut(p) \/ \E pin \in Pins : SetStatus(p, pin)
        \/ Leave(r)
    \/ \E a \in Applicants : UnfileApplicant(a)
    \/ \E p \in Candidates : EraseFromShelves(p)

ShortlistSpec == ShortlistInit /\ [][ShortlistNext]_shortlistVars

-----------------------------------------------------------------------------
(* "A candidate appears in at most one folder per company", whichever route and
   whichever colleague filed them (placeCandidate). *)
OneShelfEach == \A i, k \in items : i.person = k.person => i = k

(* Whatever order folders, searches and colleagues go in, nobody is filed in a
   folder that is gone and every folder has an author with an account
   (deleteFolder, deleteRecruiterCompletely, the foreign keys). *)
ShelvesAreTended ==
    /\ \A i \in items : i.folder \in Shelves
    /\ \A a \in filed : a[1] \in Shelves
    /\ \A f \in Shelves : folders[f].by \in staff

(* A dismissal belongs to a saved search that is there: none waits for the next
   chat that is given its id (deleteSearchChat, deleteRecruiterCompletely). *)
RulingsHaveASearch == \A d \in ruledOut : chats[d[1]].there /\ chats[d[1]].by \in staff

(* The team's shortlists outlive who started them: a colleague that leaves, while
   somebody stays, takes nobody off a folder (deleteRecruiterCompletely). *)
WorkOutlivesItsAuthor ==
    [][staff' # staff /\ staff' # {} => items' = items /\ filed' = filed]_shortlistVars

(* "Every search gets a folder of the same name, so saving a candidate from the
   results needs no decision" (index.js:6505-6506): a save that names no folder
   makes one only for a search that has none left (the save route). *)
SavedInItsFolder ==
    [][\A i \in items' \ items :
        i.folder \in DOMAIN folders' \ DOMAIN folders
        => \E j \in jobs : /\ j.by = folders'[i.folder].by
                           /\ {chats[c].folder : c \in {k \in OwnChats(j.by) : chats[k].brief = j.brief}}
                              \cap Shelves = {}]_shortlistVars

(* Folders, saved candidates and rulings refer to each other and to somebody who is
   still there, whoever saves, moves, deletes or leaves, and outlive who made them. *)
ShelvesAreSound ==
    /\ [](ShortlistTypeOK /\ OneShelfEach /\ ShelvesAreTended /\ RulingsHaveASearch)
    /\ WorkOutlivesItsAuthor
=============================================================================
