-------------------------- MODULE WorkspaceProofs --------------------------
(***************************************************************************)
(* Theorems about the recruiter's workspace: shortlists, conversations,     *)
(* searches and what they judge, for any number of people and requests.     *)
(***************************************************************************)
EXTENDS Profile, Search, Judging, Scoring, Keywords, Shortlists, Conversations, DataLemmas

-----------------------------------------------------------------------------
(* Shortlists.                                                               *)

ShelfRows == [by : Team, there : BOOLEAN]
ChatRows == [by : Team, brief : Briefs, folder : Nat, there : BOOLEAN]

(* The tables, and what refers to what. *)
ShelfTables ==
    /\ staff \subseteq Team
    /\ folders \in Seq(ShelfRows)
    /\ items \subseteq [folder : DOMAIN folders, person : Candidates, pin : Pins]
    /\ filed \subseteq (DOMAIN folders) \X Applicants
    /\ jobs \subseteq [by : Team, brief : Briefs, chat : 0..Len(chats)] /\ IsFiniteSet(jobs)
    /\ chats \in Seq(ChatRows)
    /\ \A c \in DOMAIN chats : chats[c].folder <= Len(folders)
    /\ ruledOut \subseteq (DOMAIN chats) \X Candidates

(* One job per recruiter and text. *)
OneJobEach == \A j, k \in jobs : j.by = k.by /\ j.brief = k.brief => j = k

(* A search that is there belongs to somebody who is. *)
SearchesAreOwned == \A c \in DOMAIN chats : chats[c].there => chats[c].by \in staff

ShelfInv ==
    /\ ShelfTables /\ OneJobEach /\ SearchesAreOwned
    /\ OneShelfEach /\ ShelvesAreTended /\ RulingsHaveASearch

(* A folder is made at the end of the table. *)
LEMMA FolderAppended ==
  ASSUME folders \in Seq(ShelfRows), NEW r \in Team, folders' = Append(folders, [by |-> r, there |-> TRUE])
  PROVE  /\ folders' \in Seq(ShelfRows) /\ Len(folders') = Len(folders) + 1 /\ Len(folders) \in Nat
         /\ DOMAIN folders' = DOMAIN folders \cup {Len(folders')}
         /\ Len(folders') \notin DOMAIN folders
         /\ \A f \in DOMAIN folders : folders'[f] = folders[f]
         /\ folders'[Len(folders')] = [by |-> r, there |-> TRUE]
         /\ Shelves' = Shelves \cup {Len(folders')}
<1> DEFINE made == [by |-> r, there |-> TRUE]
<1>1. made \in ShelfRows /\ made.there
  BY DEF ShelfRows
<1> HIDE DEF made
<1>2. /\ folders' \in Seq(ShelfRows) /\ Len(folders') = Len(folders) + 1 /\ Len(folders) \in Nat
      /\ DOMAIN folders' = DOMAIN folders \cup {Len(folders')}
      /\ Len(folders') \notin DOMAIN folders
      /\ \A f \in DOMAIN folders : folders'[f] = folders[f]
      /\ folders'[Len(folders')] = made
  BY <1>1 DEF made
<1>3. Shelves' = Shelves \cup {Len(folders')}
  BY <1>1, <1>2 DEF Shelves
<1> QED
  BY <1>2, <1>3 DEF made

(* Rows that are edited in place. *)
LEMMA ChatsEdited ==
  ASSUME chats \in Seq(ChatRows), NEW out
  PROVE  /\ ChatsWithout(out) \in Seq(ChatRows) /\ Len(ChatsWithout(out)) = Len(chats)
         /\ DOMAIN ChatsWithout(out) = DOMAIN chats
         /\ \A c \in DOMAIN chats :
              /\ ChatsWithout(out)[c].by = chats[c].by /\ ChatsWithout(out)[c].folder = chats[c].folder
              /\ ChatsWithout(out)[c].brief = chats[c].brief
              /\ ChatsWithout(out)[c].there <=> chats[c].there /\ c \notin out
<1> DEFINE edited(c) == [chats[c] EXCEPT !.there = chats[c].there /\ c \notin out]
<1>1. \A c \in DOMAIN chats : chats[c] \in ChatRows
  OBVIOUS
<1>2. \A c \in DOMAIN chats :
        /\ edited(c) \in ChatRows /\ edited(c).by = chats[c].by /\ edited(c).folder = chats[c].folder
        /\ edited(c).brief = chats[c].brief
        /\ edited(c).there <=> chats[c].there /\ c \notin out
  BY <1>1 DEF ChatRows
<1>3. ChatsWithout(out) = [c \in DOMAIN chats |-> edited(c)]
  BY DEF ChatsWithout
<1> HIDE DEF edited
<1>4. ChatsWithout(out) \in [1..Len(chats) -> ChatRows] /\ Len(chats) \in Nat
  BY <1>2, <1>3
<1>5. ChatsWithout(out) \in Seq(ChatRows) /\ Len(ChatsWithout(out)) = Len(chats)
  BY <1>4, FunctionIsSeq
<1> QED
  BY <1>2, <1>3, <1>5

LEMMA FoldersEdited ==
  ASSUME folders \in Seq(ShelfRows), NEW out, Cleared(out)
  PROVE  /\ folders' \in Seq(ShelfRows) /\ Len(folders') = Len(folders)
         /\ DOMAIN folders' = DOMAIN folders
         /\ \A f \in DOMAIN folders :
              /\ folders'[f].by = folders[f].by
              /\ folders'[f].there <=> folders[f].there /\ f \notin out
         /\ Shelves' = Shelves \ out
         /\ items' = {i \in items : i.folder \notin out}
         /\ filed' = {a \in filed : a[1] \notin out}
<1> DEFINE edited(f) == [folders[f] EXCEPT !.there = folders[f].there /\ f \notin out]
<1>1. \A f \in DOMAIN folders : folders[f] \in ShelfRows
  OBVIOUS
<1>2. \A f \in DOMAIN folders :
        /\ edited(f) \in ShelfRows /\ edited(f).by = folders[f].by
        /\ edited(f).there <=> folders[f].there /\ f \notin out
  BY <1>1 DEF ShelfRows
<1>3. folders' = [f \in DOMAIN folders |-> edited(f)]
  BY DEF Cleared
<1> HIDE DEF edited
<1>4. folders' \in [1..Len(folders) -> ShelfRows] /\ Len(folders) \in Nat
  BY <1>2, <1>3
<1>5. folders' \in Seq(ShelfRows) /\ Len(folders') = Len(folders)
  BY <1>4, FunctionIsSeq
<1>6. Shelves' = Shelves \ out
  BY <1>2, <1>3 DEF Shelves
<1> QED
  BY <1>2, <1>3, <1>5, <1>6 DEF Cleared

LEMMA FoldersInherited ==
  ASSUME folders \in Seq(ShelfRows), NEW r, NEW heir \in Team, heir # r, Inherited(r, heir)
  PROVE  /\ folders' \in Seq(ShelfRows) /\ Len(folders') = Len(folders)
         /\ DOMAIN folders' = DOMAIN folders /\ Shelves' = Shelves
         /\ \A f \in DOMAIN folders :
              folders'[f].by = IF folders[f].by = r THEN heir ELSE folders[f].by
         /\ UNCHANGED <<items, filed>>
<1> DEFINE edited(f) == IF folders[f].by = r THEN [folders[f] EXCEPT !.by = heir] ELSE folders[f]
<1>1. \A f \in DOMAIN folders : folders[f] \in ShelfRows
  OBVIOUS
<1>2. \A f \in DOMAIN folders :
        /\ edited(f) \in ShelfRows /\ edited(f).by = IF folders[f].by = r THEN heir ELSE folders[f].by
        /\ edited(f).there = folders[f].there
  BY <1>1 DEF ShelfRows
<1>3. folders' = [f \in DOMAIN folders |-> edited(f)] /\ UNCHANGED <<items, filed>>
  BY DEF Inherited
<1> HIDE DEF edited
<1>4. folders' \in [1..Len(folders) -> ShelfRows] /\ Len(folders) \in Nat
  BY <1>2, <1>3
<1>5. folders' \in Seq(ShelfRows) /\ Len(folders') = Len(folders)
  BY <1>4, FunctionIsSeq
<1>6. Shelves' = Shelves
  BY <1>2, <1>3 DEF Shelves
<1> QED
  BY <1>2, <1>3, <1>5, <1>6

(* Who is filed where is a matter of items alone. *)
LEMMA PlacedKeeps ==
  ASSUME items \subseteq [folder : DOMAIN folders, person : Candidates, pin : Pins],
         OneShelfEach, NEW p \in Candidates, NEW f
  PROVE  /\ \A i \in Placed(f, p) : i \in items \/ i.folder = f
         /\ \A i \in Placed(f, p) : i \in items \/ i = [folder |-> f, person |-> p, pin |-> "auto"]
         /\ \A i, k \in Placed(f, p) : i.person = k.person => i = k
<1> DEFINE new == [folder |-> f, person |-> p, pin |-> "auto"]
<1>1. new.person = p /\ new.folder = f
  OBVIOUS
<1>2. Placed(f, p) = {i \in items : i.person # p} \cup {new}
  BY DEF Placed
<1> HIDE DEF new
<1>3. \A i, k \in Placed(f, p) : i.person = k.person => i = k
  BY <1>1, <1>2 DEF OneShelfEach
<1>4. \A i \in Placed(f, p) : i \in items \/ i = new
  BY <1>2
<1> QED
  BY <1>1, <1>3, <1>4 DEF new

LEMMA ShelfSearches ==
  ASSUME ShelfInv, NEW r \in staff,
         \/ \E b \in Briefs : (\E c \in 0..Len(chats) : RunSearch(r, b, c)) \/ RecordSearch(r, b)
         \/ \E c \in DOMAIN chats : DeleteSearch(r, c)
                \/ \E p \in Candidates : RuleOut(r, c, p) \/ RuleIn(r, c, p)
  PROVE  ShelfInv'
<1> USE DEF ShelfInv, ShelfTables
<1>1. r \in Team /\ Len(chats) \in Nat /\ Len(folders) \in Nat
  OBVIOUS
<1>2. ASSUME NEW b \in Briefs, NEW c \in 0..Len(chats), RunSearch(r, b, c) PROVE ShelfInv'
  <2> DEFINE new == [by |-> r, brief |-> b, chat |-> c]
  <2>1. /\ jobs' = IF \E j \in jobs : j.by = r /\ j.brief = b THEN jobs ELSE jobs \cup {new}
        /\ UNCHANGED <<staff, folders, items, filed, chats, ruledOut>>
    BY <1>2 DEF RunSearch, JobsWith
  <2>2. new \in [by : Team, brief : Briefs, chat : 0..Len(chats)] /\ new.by = r /\ new.brief = b
    BY <1>1
  <2> HIDE DEF new
  <2>3. jobs' \subseteq [by : Team, brief : Briefs, chat : 0..Len(chats)] /\ IsFiniteSet(jobs')
    BY <2>1, <2>2, FS_AddElement
  <2>4. OneJobEach'
    BY <2>1, <2>2 DEF OneJobEach
  <2>5. ShelfTables'
    BY <2>1, <2>3
  <2>6. SearchesAreOwned' /\ OneShelfEach' /\ ShelvesAreTended' /\ RulingsHaveASearch'
    BY <2>1 DEF SearchesAreOwned, OneShelfEach, ShelvesAreTended, RulingsHaveASearch, Shelves
  <2> QED BY <2>4, <2>5, <2>6
<1>3. ASSUME NEW b \in Briefs, RecordSearch(r, b) PROVE ShelfInv'
  <2> DEFINE new == [by |-> r, brief |-> b, folder |-> Len(folders'), there |-> TRUE]
  <2>1. /\ folders' = Append(folders, [by |-> r, there |-> TRUE])
        /\ chats' = Append(chats, new) /\ UNCHANGED <<staff, items, filed, jobs, ruledOut>>
    BY <1>3 DEF RecordSearch
  <2> HIDE DEF new, ShelfInv, ShelfTables
  <2>a. folders \in Seq(ShelfRows) /\ folders' = Append(folders, [by |-> r, there |-> TRUE])
    BY <2>1 DEF ShelfInv, ShelfTables
  <2>b. /\ folders' \in Seq(ShelfRows) /\ Len(folders') = Len(folders) + 1
        /\ DOMAIN folders' = DOMAIN folders \cup {Len(folders')}
        /\ \A f \in DOMAIN folders : folders'[f] = folders[f]
        /\ folders'[Len(folders')] = [by |-> r, there |-> TRUE]
        /\ Shelves' = Shelves \cup {Len(folders')}
    BY <1>1, <2>a, FolderAppended
  <2> USE DEF ShelfInv, ShelfTables, new
  <2>2. /\ folders' \in Seq(ShelfRows) /\ Len(folders') = Len(folders) + 1
        /\ DOMAIN folders' = DOMAIN folders \cup {Len(folders')}
        /\ \A f \in DOMAIN folders : folders'[f] = folders[f]
        /\ folders'[Len(folders')].by = r
        /\ Shelves' = Shelves \cup {Len(folders')}
    BY <2>b
  <2>3. new \in ChatRows /\ new.there /\ new.by = r /\ new.folder <= Len(folders')
    BY <1>1, <2>2 DEF ChatRows
  <2> HIDE DEF new
  <2>4. /\ chats' \in Seq(ChatRows) /\ Len(chats') = Len(chats) + 1
        /\ DOMAIN chats' = DOMAIN chats \cup {Len(chats')}
        /\ \A c \in DOMAIN chats : chats'[c] = chats[c]
        /\ chats'[Len(chats')] = new
    BY <1>1, <2>1, <2>3
  <2>5. \A c \in DOMAIN chats : chats[c].folder <= Len(folders')
    <3>1. \A c \in DOMAIN chats : chats[c] \in ChatRows
      OBVIOUS
    <3> QED BY <1>1, <2>2, <3>1 DEF ChatRows
  <2>6. jobs' \subseteq [by : Team, brief : Briefs, chat : 0..Len(chats')]
    <3>1. 0..Len(chats) \subseteq 0..Len(chats')
      BY <1>1, <2>4
    <3> QED BY <2>1, <3>1
  <2>7. ruledOut' \subseteq (DOMAIN chats') \X Candidates
    BY <2>1, <2>4
  <2>8. items' \subseteq [folder : DOMAIN folders', person : Candidates, pin : Pins]
        /\ filed' \subseteq (DOMAIN folders') \X Applicants
    BY <2>1, <2>2
  <2>9. ShelfTables'
    BY <2>1, <2>2, <2>3, <2>4, <2>5, <2>6, <2>7, <2>8
  <2>10. SearchesAreOwned' /\ OneJobEach' /\ OneShelfEach'
    BY <2>1, <2>3, <2>4 DEF SearchesAreOwned, OneJobEach, OneShelfEach
  <2>11. ShelvesAreTended'
    BY <2>1, <2>2 DEF ShelvesAreTended, Shelves
  <2>12. RulingsHaveASearch'
    <3>1. \A d \in ruledOut : d[1] \in DOMAIN chats
      OBVIOUS
    <3> QED BY <2>1, <2>4, <3>1 DEF RulingsHaveASearch
  <2> QED BY <2>9, <2>10, <2>11, <2>12
<1>4. ASSUME NEW c \in DOMAIN chats, NEW p \in Candidates, RuleOut(r, c, p) \/ RuleIn(r, c, p) PROVE ShelfInv'
  <2>1. /\ c \in OwnChats(r)
        /\ ruledOut' \subseteq ruledOut \cup {<<c, p>>}
        /\ UNCHANGED <<staff, folders, items, filed, jobs, chats>>
    BY <1>4 DEF RuleOut, RuleIn
  <2>2. chats[c].there /\ chats[c].by = r
    BY <2>1 DEF OwnChats
  <2>3. ruledOut' \subseteq (DOMAIN chats) \X Candidates
    BY <2>1
  <2>4. RulingsHaveASearch'
    BY <2>1, <2>2 DEF RulingsHaveASearch
  <2>5. ShelfTables'
    BY <2>1, <2>3
  <2>6. SearchesAreOwned' /\ OneShelfEach' /\ ShelvesAreTended' /\ OneJobEach'
    BY <2>1 DEF SearchesAreOwned, OneShelfEach, ShelvesAreTended, OneJobEach, Shelves
  <2> QED BY <2>4, <2>5, <2>6
<1>5. ASSUME NEW c \in DOMAIN chats, DeleteSearch(r, c) PROVE ShelfInv'
  <2>1. /\ chats' = ChatsWithout({c}) /\ ruledOut' = {d \in ruledOut : d[1] # c}
        /\ UNCHANGED <<staff, folders, items, filed, jobs>>
    BY <1>5 DEF DeleteSearch
  <2>2. /\ chats' \in Seq(ChatRows) /\ Len(chats') = Len(chats) /\ DOMAIN chats' = DOMAIN chats
        /\ \A k \in DOMAIN chats :
              /\ chats'[k].by = chats[k].by /\ chats'[k].folder = chats[k].folder
              /\ chats'[k].there <=> chats[k].there /\ k \notin {c}
    BY <2>1, ChatsEdited
  <2>3. ShelfTables'
    BY <2>1, <2>2
  <2>4. RulingsHaveASearch'
    <3>1. \A d \in ruledOut : d[1] \in DOMAIN chats
      OBVIOUS
    <3> QED BY <2>1, <2>2, <3>1 DEF RulingsHaveASearch
  <2>5. SearchesAreOwned'
    BY <2>1, <2>2 DEF SearchesAreOwned
  <2>6. OneShelfEach' /\ ShelvesAreTended' /\ OneJobEach'
    BY <2>1 DEF OneShelfEach, ShelvesAreTended, OneJobEach, Shelves
  <2> QED BY <2>3, <2>4, <2>5, <2>6
<1> QED
  BY <1>2, <1>3, <1>4, <1>5

(* Folders that come, and what is filed in them. *)
LEMMA ShelfNewFolder ==
  ASSUME ShelfInv, NEW r \in staff, folders' = Append(folders, [by |-> r, there |-> TRUE]),
         UNCHANGED <<staff, filed, jobs, ruledOut>>
  PROVE  /\ Len(folders') = Len(folders) + 1 /\ Len(folders) \in Nat
         /\ DOMAIN folders' = DOMAIN folders \cup {Len(folders')} /\ Len(folders') \in DOMAIN folders'
         /\ folders' \in Seq(ShelfRows) /\ Shelves' = Shelves \cup {Len(folders')}
         /\ filed' \subseteq (DOMAIN folders') \X Applicants
         /\ \A a \in filed' : a[1] \in Shelves'
         /\ \A f \in Shelves' : folders'[f].by \in staff'
<1>1. r \in Team /\ folders \in Seq(ShelfRows) /\ folders' = Append(folders, [by |-> r, there |-> TRUE])
  BY DEF ShelfInv, ShelfTables
<1>2. /\ folders' \in Seq(ShelfRows) /\ Len(folders') = Len(folders) + 1 /\ Len(folders) \in Nat
      /\ DOMAIN folders' = DOMAIN folders \cup {Len(folders')}
      /\ \A f \in DOMAIN folders : folders'[f] = folders[f]
      /\ folders'[Len(folders')] = [by |-> r, there |-> TRUE]
      /\ Shelves' = Shelves \cup {Len(folders')}
  BY <1>1, FolderAppended
<1>3. folders'[Len(folders')].by = r
  BY <1>2
<1>4. filed' \subseteq (DOMAIN folders') \X Applicants
  BY <1>2 DEF ShelfInv, ShelfTables
<1>5. \A a \in filed' : a[1] \in Shelves'
  BY <1>2 DEF ShelfInv, ShelvesAreTended
<1>6. \A f \in Shelves : folders'[f].by \in staff /\ f \in DOMAIN folders
  BY <1>2 DEF ShelfInv, ShelvesAreTended, Shelves
<1>7. \A f \in Shelves' : folders'[f].by \in staff'
  BY <1>2, <1>3, <1>6
<1> QED
  BY <1>2, <1>4, <1>5, <1>7

(* The searches after a save: as they were, but for the folder of one of them. *)
ShelfChatsFit ==
    /\ chats' \in Seq(ChatRows) /\ Len(chats') = Len(chats) /\ DOMAIN chats' = DOMAIN chats
    /\ \A c \in DOMAIN chats :
         /\ chats'[c].by = chats[c].by /\ chats'[c].there = chats[c].there
         /\ chats'[c].folder <= Len(folders')

LEMMA ShelfRest ==
  ASSUME ShelfInv, ShelvesAreTended', OneShelfEach',
         UNCHANGED <<staff, jobs, ruledOut>>, folders' \in Seq(ShelfRows),
         Len(folders) <= Len(folders'), Len(folders) \in Nat,
         items' \subseteq [folder : DOMAIN folders', person : Candidates, pin : Pins],
         filed' \subseteq (DOMAIN folders') \X Applicants,
         chats' = chats \/ \E c \in DOMAIN chats : chats' = [chats EXCEPT ![c].folder = Len(folders')]
  PROVE  ShelfInv'
<1> USE DEF ShelfInv, ShelfTables
<1>0. Len(folders') \in Nat
  OBVIOUS
<1>1. \A c \in DOMAIN chats : chats[c] \in ChatRows /\ chats[c].folder \in Nat
  <2>1. \A c \in DOMAIN chats : chats[c] \in ChatRows
    OBVIOUS
  <2> QED BY <2>1 DEF ChatRows
<1> USE DEF ShelfChatsFit
<1>2. ShelfChatsFit
  <2>1. CASE chats' = chats
    <3>1. \A c \in DOMAIN chats : chats[c].folder <= Len(folders')
      BY <1>0, <1>1
    <3> QED BY <2>1, <3>1
  <2>2. ASSUME NEW c \in DOMAIN chats, chats' = [chats EXCEPT ![c].folder = Len(folders')]
        PROVE  ShelfChatsFit
    <3> DEFINE edited == [chats[c] EXCEPT !.folder = Len(folders')]
    <3>1. /\ edited \in ChatRows /\ edited.by = chats[c].by /\ edited.there = chats[c].there
          /\ edited.folder = Len(folders')
      BY <1>0, <1>1 DEF ChatRows
    <3>2. chats' = [chats EXCEPT ![c] = edited]
      BY <2>2
    <3> HIDE DEF edited
    <3>3. /\ chats' \in Seq(ChatRows) /\ Len(chats') = Len(chats) /\ DOMAIN chats' = DOMAIN chats
      BY <3>1, <3>2
    <3>4. \A k \in DOMAIN chats : chats'[k] = IF k = c THEN edited ELSE chats[k]
      BY <3>2
    <3> QED BY <1>0, <1>1, <3>1, <3>3, <3>4, SMTT(30)
  <2> QED BY <2>1, <2>2
<1>3. ShelfTables'
  BY <1>2
<1>4. OneJobEach' /\ SearchesAreOwned'
  BY <1>2 DEF OneJobEach, SearchesAreOwned
<1>5. RulingsHaveASearch'
  <2>1. \A d \in ruledOut : d[1] \in DOMAIN chats
    OBVIOUS
  <2> QED BY <1>2, <2>1 DEF RulingsHaveASearch
<1> QED
  BY <1>3, <1>4, <1>5

(* A row of folder_items that a request puts in place. *)
LEMMA ShelfPlaced ==
  ASSUME ShelfInv, NEW p \in Candidates, NEW f \in DOMAIN folders', DOMAIN folders \subseteq DOMAIN folders',
         Shelves \subseteq Shelves', f \in Shelves', items' = Placed(f, p)
  PROVE  /\ items' \subseteq [folder : DOMAIN folders', person : Candidates, pin : Pins]
         /\ OneShelfEach' /\ \A i \in items' : i.folder \in Shelves'
<1> DEFINE made == [folder |-> f, person |-> p, pin |-> "auto"]
<1>1. /\ \A i \in items' : i \in items \/ i.folder = f
      /\ \A i \in items' : i \in items \/ i = made
      /\ \A i, k \in items' : i.person = k.person => i = k
  BY PlacedKeeps DEF ShelfInv, ShelfTables
<1>2. made \in [folder : DOMAIN folders', person : Candidates, pin : Pins]
  BY DEF Pins
<1> HIDE DEF made
<1>3. \A i \in items : i \in [folder : DOMAIN folders', person : Candidates, pin : Pins]
  BY DEF ShelfInv, ShelfTables
<1>4. items' \subseteq [folder : DOMAIN folders', person : Candidates, pin : Pins]
  BY <1>1, <1>2, <1>3
<1>5. \A i \in items : i.folder \in Shelves
  BY DEF ShelfInv, ShelvesAreTended
<1>6. \A i \in items' : i.folder \in Shelves'
  BY <1>1, <1>5
<1> QED
  BY <1>1, <1>4, <1>6 DEF OneShelfEach

LEMMA ShelfSaves ==
  ASSUME ShelfInv, NEW r \in staff, NEW p \in Candidates, Save(r, p)
  PROVE  ShelfInv'
<1>1. PICK j \in jobs :
        /\ j.by = r /\ UNCHANGED <<staff, filed, jobs, ruledOut>>
        /\ LET c == ChatOf(j)
           IN  IF c # 0 /\ chats[c].folder \in Shelves
               THEN items' = Placed(chats[c].folder, p) /\ UNCHANGED <<folders, chats>>
               ELSE /\ folders' = Append(folders, [by |-> r, there |-> TRUE])
                    /\ items' = Placed(Len(folders'), p)
                    /\ chats' = IF c = 0 THEN chats ELSE [chats EXCEPT ![c].folder = Len(folders')]
  BY DEF Save
<1>2. PICK c \in {ChatOf(j)} : TRUE
  OBVIOUS
<1>3. c = 0 \/ c \in DOMAIN chats
  BY <1>2 DEF ChatOf, OwnChats
<1>4. folders \in Seq(ShelfRows) /\ Len(folders) \in Nat
  BY DEF ShelfInv, ShelfTables
<1>5. CASE c # 0 /\ chats[c].folder \in Shelves
  <2>1. items' = Placed(chats[c].folder, p) /\ UNCHANGED <<staff, folders, filed, jobs, chats, ruledOut>>
    BY <1>1, <1>2, <1>5
  <2>2. Shelves' = Shelves /\ Shelves \subseteq DOMAIN folders
    BY <2>1 DEF Shelves
  <2>3. /\ items' \subseteq [folder : DOMAIN folders', person : Candidates, pin : Pins]
        /\ OneShelfEach' /\ \A i \in items' : i.folder \in Shelves'
    BY <1>5, <2>1, <2>2, ShelfPlaced
  <2>4. ShelvesAreTended'
    BY <2>1, <2>2, <2>3 DEF ShelfInv, ShelvesAreTended
  <2>5. filed' \subseteq (DOMAIN folders') \X Applicants
    BY <2>1 DEF ShelfInv, ShelfTables
  <2> QED BY <1>4, <2>1, <2>3, <2>4, <2>5, ShelfRest
<1>6. CASE ~(c # 0 /\ chats[c].folder \in Shelves)
  <2>1. /\ folders' = Append(folders, [by |-> r, there |-> TRUE])
        /\ items' = Placed(Len(folders'), p) /\ UNCHANGED <<staff, filed, jobs, ruledOut>>
        /\ chats' = IF c = 0 THEN chats ELSE [chats EXCEPT ![c].folder = Len(folders')]
    BY <1>1, <1>2, <1>6
  <2>2. /\ Len(folders') = Len(folders) + 1
        /\ DOMAIN folders' = DOMAIN folders \cup {Len(folders')} /\ Len(folders') \in DOMAIN folders'
        /\ folders' \in Seq(ShelfRows) /\ Shelves' = Shelves \cup {Len(folders')}
        /\ filed' \subseteq (DOMAIN folders') \X Applicants
        /\ \A a \in filed' : a[1] \in Shelves'
        /\ \A f \in Shelves' : folders'[f].by \in staff'
    BY <2>1, ShelfNewFolder
  <2>3. /\ items' \subseteq [folder : DOMAIN folders', person : Candidates, pin : Pins]
        /\ OneShelfEach' /\ \A i \in items' : i.folder \in Shelves'
    BY <2>1, <2>2, ShelfPlaced
  <2>4. ShelvesAreTended'
    BY <2>2, <2>3 DEF ShelvesAreTended
  <2>5. chats' = chats \/ \E k \in DOMAIN chats : chats' = [chats EXCEPT ![k].folder = Len(folders')]
    BY <1>3, <2>1
  <2>6. Len(folders) <= Len(folders')
    BY <1>4, <2>2
  <2> QED BY <1>4, <2>1, <2>2, <2>3, <2>4, <2>5, <2>6, ShelfRest
<1> QED
  BY <1>5, <1>6

LEMMA ShelfFolders ==
  ASSUME ShelfInv, NEW r \in staff,
         \/ CreateFolder(r)
         \/ \E f \in DOMAIN folders :
              \/ DeleteFolder(f)
              \/ \E p \in Candidates : Place(f, p)
              \/ \E a \in Applicants : FileApplicant(f, a)
         \/ \E p \in Candidates : TakeOut(p) \/ \E pin \in Pins : SetStatus(p, pin)
  PROVE  ShelfInv'
<1>1. folders \in Seq(ShelfRows) /\ Len(folders) \in Nat /\ Len(folders) <= Len(folders)
  BY DEF ShelfInv, ShelfTables
<1>2. /\ items \subseteq [folder : DOMAIN folders, person : Candidates, pin : Pins]
      /\ filed \subseteq (DOMAIN folders) \X Applicants
      /\ OneShelfEach /\ ShelvesAreTended
  BY DEF ShelfInv, ShelfTables
<1>3. CASE CreateFolder(r)
  <2>1. folders' = Append(folders, [by |-> r, there |-> TRUE]) /\ UNCHANGED <<staff, items, filed, jobs, chats, ruledOut>>
    BY <1>3 DEF CreateFolder
  <2>2. /\ Len(folders') = Len(folders) + 1 /\ DOMAIN folders' = DOMAIN folders \cup {Len(folders')}
        /\ folders' \in Seq(ShelfRows) /\ Shelves' = Shelves \cup {Len(folders')}
        /\ filed' \subseteq (DOMAIN folders') \X Applicants
        /\ \A a \in filed' : a[1] \in Shelves'
        /\ \A f \in Shelves' : folders'[f].by \in staff'
    BY <2>1, ShelfNewFolder
  <2>3. /\ items' \subseteq [folder : DOMAIN folders', person : Candidates, pin : Pins]
        /\ OneShelfEach' /\ \A i \in items' : i.folder \in Shelves'
    BY <1>2, <2>1, <2>2 DEF OneShelfEach, ShelvesAreTended
  <2>4. ShelvesAreTended' /\ Len(folders) <= Len(folders')
    BY <1>1, <2>2, <2>3 DEF ShelvesAreTended
  <2> QED BY <1>1, <2>1, <2>2, <2>3, <2>4, ShelfRest
<1>4. ASSUME NEW f \in DOMAIN folders, DeleteFolder(f) PROVE ShelfInv'
  <2>1. Cleared({f}) /\ UNCHANGED <<staff, jobs, chats, ruledOut>>
    BY <1>4 DEF DeleteFolder
  <2>2. /\ folders' \in Seq(ShelfRows) /\ Len(folders') = Len(folders) /\ DOMAIN folders' = DOMAIN folders
        /\ \A k \in DOMAIN folders : folders'[k].by = folders[k].by
        /\ Shelves' = Shelves \ {f}
        /\ items' = {i \in items : i.folder \notin {f}}
        /\ filed' = {a \in filed : a[1] \notin {f}}
    BY <1>1, <2>1, FoldersEdited
  <2>3. \A k \in Shelves' : folders'[k].by \in staff
    BY <1>2, <2>2 DEF ShelvesAreTended, Shelves
  <2>4. ShelvesAreTended'
    BY <1>2, <2>1, <2>2, <2>3 DEF ShelvesAreTended
  <2>5. OneShelfEach'
    BY <1>2, <2>2 DEF OneShelfEach
  <2>6. /\ items' \subseteq [folder : DOMAIN folders', person : Candidates, pin : Pins]
        /\ filed' \subseteq (DOMAIN folders') \X Applicants
    BY <1>2, <2>2
  <2> QED BY <1>1, <2>1, <2>2, <2>4, <2>5, <2>6, ShelfRest
<1>5. ASSUME NEW f \in DOMAIN folders, NEW p \in Candidates, Place(f, p) PROVE ShelfInv'
  <2>1. f \in Shelves /\ items' = Placed(f, p) /\ UNCHANGED <<staff, folders, filed, jobs, chats, ruledOut>>
    BY <1>5 DEF Place
  <2>2. Shelves' = Shelves
    BY <2>1 DEF Shelves
  <2>3. /\ items' \subseteq [folder : DOMAIN folders', person : Candidates, pin : Pins]
        /\ OneShelfEach' /\ \A i \in items' : i.folder \in Shelves'
    BY <2>1, <2>2, ShelfPlaced
  <2>4. ShelvesAreTended'
    BY <1>2, <2>1, <2>2, <2>3 DEF ShelvesAreTended
  <2> QED BY <1>1, <1>2, <2>1, <2>3, <2>4, ShelfRest
<1>6. ASSUME UNCHANGED <<staff, folders, jobs, chats, ruledOut>>, OneShelfEach',
             items' \subseteq [folder : DOMAIN folders, person : Candidates, pin : Pins],
             filed' \subseteq (DOMAIN folders) \X Applicants,
             \A i \in items' : i.folder \in Shelves, \A a \in filed' : a[1] \in Shelves
      PROVE  ShelfInv'
  <2>1. Shelves' = Shelves
    BY <1>6 DEF Shelves
  <2>2. ShelvesAreTended'
    BY <1>2, <1>6, <2>1 DEF ShelvesAreTended
  <2> QED BY <1>1, <1>6, <2>2, ShelfRest
<1>7. ASSUME NEW f \in DOMAIN folders, NEW a \in Applicants, FileApplicant(f, a) PROVE ShelfInv'
  <2>1. f \in Shelves /\ filed' = filed \cup {<<f, a>>} /\ UNCHANGED <<staff, folders, items, jobs, chats, ruledOut>>
    BY <1>7 DEF FileApplicant
  <2>2. filed' \subseteq (DOMAIN folders) \X Applicants /\ OneShelfEach'
    BY <1>2, <2>1 DEF OneShelfEach
  <2>3. \A i \in items' : i.folder \in Shelves
    BY <1>2, <2>1 DEF ShelvesAreTended
  <2>4. \A x \in filed' : x[1] \in Shelves
    BY <1>2, <2>1 DEF ShelvesAreTended
  <2> QED BY <1>2, <1>6, <2>1, <2>2, <2>3, <2>4
<1>8. ASSUME NEW p \in Candidates, TakeOut(p) PROVE ShelfInv'
  <2>1. items' \subseteq items /\ UNCHANGED <<staff, folders, filed, jobs, chats, ruledOut>>
    BY <1>8 DEF TakeOut
  <2>2. OneShelfEach' /\ (\A i \in items' : i.folder \in Shelves) /\ \A a \in filed' : a[1] \in Shelves
    BY <1>2, <2>1 DEF OneShelfEach, ShelvesAreTended
  <2> QED BY <1>2, <1>6, <2>1, <2>2
<1>9. ASSUME NEW p \in Candidates, NEW pin \in Pins, SetStatus(p, pin) PROVE ShelfInv'
  <2> DEFINE pinned(i) == IF i.person = p THEN [i EXCEPT !.pin = pin] ELSE i
  <2>1. items' = {pinned(i) : i \in items} /\ UNCHANGED <<staff, folders, filed, jobs, chats, ruledOut>>
    BY <1>9 DEF SetStatus
  <2>2. \A i \in items : /\ pinned(i) \in [folder : DOMAIN folders, person : Candidates, pin : Pins]
                         /\ pinned(i).folder = i.folder /\ pinned(i).person = i.person
    BY <1>2
  <2> HIDE DEF pinned
  <2>3. items' \subseteq [folder : DOMAIN folders, person : Candidates, pin : Pins]
    BY <2>1, <2>2
  <2>4. OneShelfEach'
    BY <1>2, <2>1, <2>2 DEF OneShelfEach
  <2>5. (\A i \in items' : i.folder \in Shelves) /\ \A a \in filed' : a[1] \in Shelves
    BY <1>2, <2>1, <2>2 DEF ShelvesAreTended
  <2> QED BY <1>2, <1>6, <2>1, <2>3, <2>4, <2>5
<1> QED
  BY <1>3, <1>4, <1>5, <1>7, <1>8, <1>9

(* What is left when a CV is removed, or a candidate. *)
LEMMA ShelfErasures ==
  ASSUME ShelfInv,
         (\E a \in Applicants : UnfileApplicant(a)) \/ (\E p \in Candidates : EraseFromShelves(p))
  PROVE  ShelfInv'
<1>1. /\ UNCHANGED <<staff, folders, jobs, chats>>
      /\ items' \subseteq items /\ filed' \subseteq filed /\ ruledOut' \subseteq ruledOut
  BY DEF UnfileApplicant, EraseFromShelves
<1>2. ShelfTables'
  BY <1>1 DEF ShelfInv, ShelfTables
<1>3. OneJobEach' /\ SearchesAreOwned' /\ OneShelfEach'
  BY <1>1 DEF ShelfInv, OneJobEach, SearchesAreOwned, OneShelfEach
<1>4. Shelves' = Shelves
  BY <1>1 DEF Shelves
<1>5. ShelvesAreTended'
  BY <1>1, <1>4 DEF ShelfInv, ShelvesAreTended
<1>6. RulingsHaveASearch'
  BY <1>1 DEF ShelfInv, RulingsHaveASearch
<1> QED
  BY <1>2, <1>3, <1>5, <1>6 DEF ShelfInv

LEMMA ShelfLeaves ==
  ASSUME ShelfInv, NEW r \in staff, Leave(r)
  PROVE  ShelfInv' /\ (staff' # {} => items' = items /\ filed' = filed)
<1>1. /\ staff \subseteq Team /\ folders \in Seq(ShelfRows) /\ chats \in Seq(ChatRows) /\ Len(chats) \in Nat
      /\ items \subseteq [folder : DOMAIN folders, person : Candidates, pin : Pins]
      /\ filed \subseteq (DOMAIN folders) \X Applicants
      /\ jobs \subseteq [by : Team, brief : Briefs, chat : 0..Len(chats)] /\ IsFiniteSet(jobs)
      /\ \A c \in DOMAIN chats : chats[c].folder <= Len(folders)
      /\ ruledOut \subseteq (DOMAIN chats) \X Candidates
  BY DEF ShelfInv, ShelfTables
<1>2. /\ staff' = staff \ {r} /\ ruledOut' = RulingsWithout(r)
      /\ chats' = ChatsWithout(OwnChats(r)) /\ jobs' = {j \in jobs : j.by # r}
  BY DEF Leave
<1>3. PICK heir \in IF staff' = {} THEN {r} ELSE staff' : Inherited(r, heir)
  BY DEF Leave
<1>4. /\ chats' \in Seq(ChatRows) /\ Len(chats') = Len(chats) /\ DOMAIN chats' = DOMAIN chats
      /\ \A c \in DOMAIN chats :
           /\ chats'[c].by = chats[c].by /\ chats'[c].folder = chats[c].folder
           /\ chats'[c].there <=> chats[c].there /\ c \notin OwnChats(r)
  BY <1>1, <1>2, ChatsEdited
<1>5. jobs' \subseteq [by : Team, brief : Briefs, chat : 0..Len(chats')] /\ IsFiniteSet(jobs') /\ OneJobEach'
  <2>1. jobs' \subseteq jobs
    BY <1>2
  <2>2. IsFiniteSet(jobs')
    BY <1>1, <2>1, FS_Subset
  <2> QED BY <1>1, <1>4, <2>1, <2>2 DEF ShelfInv, OneJobEach
<1>6. SearchesAreOwned'
  BY <1>2, <1>4 DEF ShelfInv, SearchesAreOwned, OwnChats
<1>7. ruledOut' \subseteq (DOMAIN chats') \X Candidates /\ RulingsHaveASearch'
  <2>1. \A d \in ruledOut' : d \in ruledOut /\ d[1] \in DOMAIN chats /\ d[1] \notin OwnChats(r)
    BY <1>1, <1>2 DEF RulingsWithout
  <2>2. \A d \in ruledOut' : chats[d[1]].there /\ chats[d[1]].by \in staff
    BY <2>1 DEF ShelfInv, RulingsHaveASearch
  <2>3. RulingsHaveASearch'
    BY <1>2, <1>4, <2>1, <2>2 DEF RulingsHaveASearch, OwnChats
  <2> QED BY <1>1, <1>4, <2>1, <2>3
<1>8. /\ folders' \in Seq(ShelfRows) /\ Len(folders') = Len(folders) /\ DOMAIN folders' = DOMAIN folders
      /\ items' \subseteq items /\ filed' \subseteq filed /\ ShelvesAreTended'
      /\ staff' # {} => items' = items /\ filed' = filed
  <2>0. /\ \A i \in items : i.folder \in Shelves
        /\ \A a \in filed : a[1] \in Shelves
        /\ \A f \in Shelves : f \in DOMAIN folders /\ folders[f].by \in staff
    BY DEF ShelfInv, ShelvesAreTended, Shelves
  <2>1. CASE staff' = {}
    <3>1. heir = r /\ Cleared({f \in Shelves : folders[f].by = r})
      BY <1>3, <2>1 DEF Inherited
    <3> DEFINE left == {f \in Shelves : folders[f].by = r}
    <3>2. Cleared(left)
      BY <3>1
    <3> HIDE DEF left
    <3>3. /\ folders' \in Seq(ShelfRows) /\ Len(folders') = Len(folders) /\ DOMAIN folders' = DOMAIN folders
          /\ Shelves' = Shelves \ left
          /\ \A f \in DOMAIN folders : folders'[f].by = folders[f].by
          /\ items' = {i \in items : i.folder \notin left}
          /\ filed' = {a \in filed : a[1] \notin left}
      BY <1>1, <3>2, FoldersEdited
    <3>4. \A f \in Shelves' : f \in Shelves /\ folders[f].by # r
      BY <3>3 DEF left
    <3>5. ShelvesAreTended'
      BY <1>2, <2>0, <3>3, <3>4 DEF ShelvesAreTended
    <3> QED BY <2>1, <3>3, <3>5
  <2>2. CASE staff' # {}
    <3>1. heir \in staff' /\ heir \in Team /\ heir # r
      BY <1>1, <1>2, <1>3, <2>2
    <3>2. /\ folders' \in Seq(ShelfRows) /\ Len(folders') = Len(folders)
          /\ DOMAIN folders' = DOMAIN folders /\ Shelves' = Shelves
          /\ \A f \in DOMAIN folders :
               folders'[f].by = IF folders[f].by = r THEN heir ELSE folders[f].by
          /\ items' = items /\ filed' = filed
      BY <1>1, <1>3, <3>1, FoldersInherited
    <3>3. ShelvesAreTended'
      BY <1>2, <2>0, <3>1, <3>2 DEF ShelvesAreTended
    <3> QED BY <3>2, <3>3
  <2> QED BY <2>1, <2>2
<1>9. ShelfTables'
  BY <1>1, <1>2, <1>4, <1>5, <1>7, <1>8 DEF ShelfTables
<1>10. OneShelfEach'
  BY <1>8 DEF ShelfInv, OneShelfEach
<1> QED
  BY <1>5, <1>6, <1>7, <1>8, <1>9, <1>10 DEF ShelfInv

(* What the tables say, in the words of the module. *)
LEMMA ShelfTypes ==
  ASSUME ShelfInv
  PROVE  ShortlistTypeOK
<1>0. /\ staff \subseteq Team /\ folders \in Seq(ShelfRows) /\ chats \in Seq(ChatRows)
      /\ \A c \in DOMAIN chats : chats[c].folder <= Len(folders)
      /\ items \subseteq [folder : DOMAIN folders, person : Candidates, pin : Pins]
      /\ filed \subseteq (DOMAIN folders) \X Applicants
      /\ jobs \subseteq [by : Team, brief : Briefs, chat : 0..Len(chats)]
      /\ ruledOut \subseteq (DOMAIN chats) \X Candidates
  BY DEF ShelfInv, ShelfTables
<1>1. Len(folders) \in Nat /\ \A f \in DOMAIN folders : folders[f] \in [by : Team, there : BOOLEAN]
  <2>1. Len(folders) \in Nat /\ \A f \in DOMAIN folders : folders[f] \in ShelfRows
    BY <1>0
  <2> QED BY <2>1 DEF ShelfRows
<1>2. \A c \in DOMAIN chats : chats[c] \in [by : Team, brief : Briefs, folder : 0..Len(folders), there : BOOLEAN]
  <2>1. \A c \in DOMAIN chats : chats[c] \in [by : Team, brief : Briefs, folder : Nat, there : BOOLEAN]
    <3>1. \A c \in DOMAIN chats : chats[c] \in ChatRows
      BY <1>0
    <3> QED BY <3>1 DEF ChatRows
  <2>2. \A c \in DOMAIN chats : chats[c].folder \in 0..Len(folders)
    BY <1>0, <1>1, <2>1
  <2> QED BY <2>1, <2>2
<1>3. Cardinality(jobs) = Cardinality({<<j.by, j.brief>> : j \in jobs})
  <2> DEFINE asked == {<<j.by, j.brief>> : j \in jobs}
             askedBy == [j \in jobs |-> <<j.by, j.brief>>]
  <2>1. askedBy \in [jobs -> asked]
    OBVIOUS
  <2>2. \A j, k \in jobs : askedBy[j] = askedBy[k] => j = k
    BY DEF OneJobEach, ShelfInv
  <2>3. \A t \in asked : \E j \in jobs : askedBy[j] = t
    OBVIOUS
  <2> HIDE DEF askedBy, asked
  <2>4. askedBy \in Bijection(jobs, asked)
    BY <2>1, <2>2, <2>3 DEF Bijection, Injection, Surjection, IsInjective
  <2>5. ExistsBijection(jobs, asked)
    BY <2>4 DEF ExistsBijection
  <2>6. Cardinality(jobs) = Cardinality(asked)
    BY <1>0, <2>5, FS_Bijection DEF ShelfInv, ShelfTables
  <2> QED BY <2>6 DEF asked
<1> QED
  BY <1>0, <1>1, <1>2, <1>3 DEF ShortlistTypeOK

LEMMA ShelfInit ==
  ASSUME ShortlistInit
  PROVE  ShelfInv
<1>1. IsFiniteSet(jobs)
  BY FS_EmptySet DEF ShortlistInit
<1>2. ShelfTables
  BY <1>1 DEF ShortlistInit, ShelfTables, ShelfRows, ChatRows
<1> QED
  BY <1>2 DEF ShortlistInit, ShelfInv, OneJobEach, SearchesAreOwned, OneShelfEach, ShelvesAreTended,
              RulingsHaveASearch, Shelves

LEMMA ShelfStep ==
  ASSUME ShelfInv, [ShortlistNext]_shortlistVars
  PROVE  ShelfInv' /\ (staff' # staff /\ staff' # {} => items' = items /\ filed' = filed)
<1>1. CASE UNCHANGED shortlistVars
  <2>1. UNCHANGED <<staff, folders, items, filed, jobs, chats, ruledOut>>
    BY <1>1 DEF shortlistVars
  <2> QED BY <2>1 DEF ShelfInv, ShelfTables, OneJobEach, SearchesAreOwned, OneShelfEach, ShelvesAreTended,
                      RulingsHaveASearch, Shelves
<1>2. CASE (\E a \in Applicants : UnfileApplicant(a)) \/ (\E p \in Candidates : EraseFromShelves(p))
  <2>1. ShelfInv'
    BY <1>2, ShelfErasures
  <2>2. staff' = staff
    BY <1>2 DEF UnfileApplicant, EraseFromShelves
  <2> QED BY <2>1, <2>2
<1>3. ASSUME NEW r \in staff,
             \/ \E b \in Briefs : (\E c \in 0..Len(chats) : RunSearch(r, b, c)) \/ RecordSearch(r, b)
             \/ \E c \in DOMAIN chats : DeleteSearch(r, c)
                    \/ \E p \in Candidates : RuleOut(r, c, p) \/ RuleIn(r, c, p)
      PROVE  ShelfInv' /\ staff' = staff
  <2>1. ShelfInv'
    BY <1>3, ShelfSearches
  <2>2. staff' = staff
    BY <1>3 DEF RunSearch, RecordSearch, DeleteSearch, RuleOut, RuleIn
  <2> QED BY <2>1, <2>2
<1>4. ASSUME NEW r \in staff,
             \/ CreateFolder(r)
             \/ \E f \in DOMAIN folders :
                  \/ DeleteFolder(f)
                  \/ \E p \in Candidates : Place(f, p)
                  \/ \E a \in Applicants : FileApplicant(f, a)
             \/ \E p \in Candidates : TakeOut(p) \/ \E pin \in Pins : SetStatus(p, pin)
      PROVE  ShelfInv' /\ staff' = staff
  <2>1. ShelfInv'
    BY <1>4, ShelfFolders
  <2>2. staff' = staff
    BY <1>4 DEF CreateFolder, DeleteFolder, Place, FileApplicant, TakeOut, SetStatus
  <2> QED BY <2>1, <2>2
<1>5. ASSUME NEW r \in staff, NEW p \in Candidates, Save(r, p)
      PROVE  ShelfInv' /\ staff' = staff
  <2>1. ShelfInv'
    BY <1>5, ShelfSaves
  <2>2. staff' = staff
    BY <1>5 DEF Save
  <2> QED BY <2>1, <2>2
<1>6. ASSUME NEW r \in staff, Leave(r)
      PROVE  ShelfInv' /\ (staff' # {} => items' = items /\ filed' = filed)
  BY <1>6, ShelfLeaves
<1> QED
  BY <1>1, <1>2, <1>3, <1>4, <1>5, <1>6 DEF ShortlistNext

(* Folders, saved candidates, filed applicants and rulings refer to each other and
   to a recruiter with an account, nobody is in two folders, no recruiter has two
   jobs for one text, and while a colleague stays nobody's leaving empties a folder:
   for any team, any pool, and any order of requests and departures. *)
THEOREM ShelvesStaySound == ShortlistSpec => ShelvesAreSound
<1>1. ShortlistInit => ShelfInv
  BY ShelfInit
<1>2. ShelfInv /\ [ShortlistNext]_shortlistVars
        => ShelfInv' /\ [staff' # staff /\ staff' # {} => items' = items /\ filed' = filed]_shortlistVars
  BY ShelfStep
<1>3. ShelfInv => ShortlistTypeOK /\ OneShelfEach /\ ShelvesAreTended /\ RulingsHaveASearch
  BY ShelfTypes DEF ShelfInv
<1> QED
  BY <1>1, <1>2, <1>3, PTL DEF ShortlistSpec, ShelvesAreSound, WorkOutlivesItsAuthor

-----------------------------------------------------------------------------
(* Conversations.                                                            *)

MessageRows == [from : Parties, at : Nat, read : BOOLEAN, thread : Nat]

TalkTables ==
    /\ instant \in 1..MaxInstant /\ {there, hasPaid, blocks} \subseteq BOOLEAN
    /\ messages \in Seq(MessageRows) /\ Len(messages) <= MaxMessages
    /\ threads \in Seq({"open", "closed"})
    /\ \A i \in DOMAIN messages : messages[i].at \in 1..instant /\ messages[i].thread \in DOMAIN threads
    /\ \A n \in DOMAIN threads : threads[n] = "open" => n = Len(threads)
    /\ standing = marked /\ marked \subseteq Parties
    /\ cleared \in [Parties -> 0..MaxInstant] /\ \A p \in Parties : cleared[p] <= instant
    /\ clearedUpTo \in [Parties -> Nat] /\ openedUpTo \in [Parties -> Nat]
    /\ \A p \in Parties : clearedUpTo[p] <= Len(messages) /\ openedUpTo[p] <= Len(messages)

(* Messages are kept in the order of their instants ... *)
WrittenInOrder ==
    \A i, j \in DOMAIN messages : i <= j => messages[i].at <= messages[j].at

(* ... clearing an inbox cuts them in two there ... *)
ClearedCuts ==
    \A p \in Parties : \A i \in DOMAIN messages :
        IF i <= clearedUpTo[p] THEN messages[i].at <= cleared[p] ELSE messages[i].at >= cleared[p]

(* ... and opening the conversation does: what came since is unread, and of what
   came before at most the newest, for who has marked it so. *)
OpenedCuts ==
    \A p \in Parties : \A i \in From(Other(p)) :
        /\ i > openedUpTo[p] => ~messages[i].read
        /\ i <= openedUpTo[p] /\ ~messages[i].read
           => p \in marked /\ \A j \in From(Other(p)) : j <= openedUpTo[p] => j <= i

TalkInv == TalkTables /\ WrittenInOrder /\ ClearedCuts /\ OpenedCuts

(* Only the columns that say what was read change in place. *)
LEMMA MessagesEdited ==
  ASSUME messages \in Seq(MessageRows), NEW out, NEW v \in BOOLEAN,
         messages' = [i \in Indices |-> IF i \in out THEN [messages[i] EXCEPT !.read = v] ELSE messages[i]]
  PROVE  /\ messages' \in Seq(MessageRows) /\ Len(messages') = Len(messages)
         /\ DOMAIN messages' = DOMAIN messages
         /\ \A i \in DOMAIN messages :
              /\ messages'[i].from = messages[i].from /\ messages'[i].at = messages[i].at
              /\ messages'[i].thread = messages[i].thread
              /\ messages'[i].read = IF i \in out THEN v ELSE messages[i].read
<1> DEFINE edited(i) == IF i \in out THEN [messages[i] EXCEPT !.read = v] ELSE messages[i]
<1>1. \A i \in DOMAIN messages : messages[i] \in MessageRows
  OBVIOUS
<1>2. \A i \in DOMAIN messages :
        /\ edited(i) \in MessageRows /\ edited(i).from = messages[i].from /\ edited(i).at = messages[i].at
        /\ edited(i).thread = messages[i].thread
        /\ edited(i).read = IF i \in out THEN v ELSE messages[i].read
  BY <1>1 DEF MessageRows
<1>3. messages' = [i \in DOMAIN messages |-> edited(i)]
  BY DEF Indices
<1> HIDE DEF edited
<1>4. messages' \in [1..Len(messages) -> MessageRows] /\ Len(messages) \in Nat
  BY <1>2, <1>3
<1>5. messages' \in Seq(MessageRows) /\ Len(messages') = Len(messages)
  BY <1>4, FunctionIsSeq
<1> QED
  BY <1>2, <1>3, <1>5

(* A thread row is opened only behind closed ones. *)
LEMMA RowOpened ==
  ASSUME TalkTables, threads' = Opened
  PROVE  /\ threads' \in Seq({"open", "closed"}) /\ Len(threads) <= Len(threads')
         /\ DOMAIN threads \subseteq DOMAIN threads'
         /\ Len(threads') \in DOMAIN threads' /\ threads'[Len(threads')] = "open"
         /\ \A n \in DOMAIN threads' : threads'[n] = "open" => n = Len(threads')
         /\ \A n \in DOMAIN threads : threads[n] = "closed" => threads'[n] = "closed"
<1>1. threads \in Seq({"open", "closed"}) /\ Len(threads) \in Nat /\ DOMAIN threads = 1..Len(threads)
      /\ \A n \in DOMAIN threads : threads[n] = "open" => n = Len(threads)
  BY DEF TalkTables
<1>2. CASE RowIsOpen
  <2>1. threads' = threads /\ threads # <<>> /\ threads[Len(threads)] = "open"
    BY <1>2 DEF Opened, RowIsOpen, Last
  <2> QED BY <1>1, <2>1
<1>3. CASE ~RowIsOpen
  <2>1. threads' = Append(threads, "open")
    BY <1>3 DEF Opened
  <2>2. /\ threads' \in Seq({"open", "closed"}) /\ Len(threads') = Len(threads) + 1
        /\ \A n \in DOMAIN threads : threads'[n] = threads[n]
        /\ threads'[Len(threads')] = "open"
    BY <1>1, <2>1
  <2>3. \A n \in DOMAIN threads : threads[n] # "open"
    <3>1. Len(threads) > 0 => threads[Len(threads)] # "open"
      BY <1>1, <1>3 DEF RowIsOpen, Last
    <3> QED BY <1>1, <3>1
  <2>4. DOMAIN threads' = 1..(Len(threads) + 1)
    BY <2>2
  <2> QED BY <1>1, <2>2, <2>3, <2>4
<1> QED
  BY <1>2, <1>3

(* What a step never does to a row that is closed. *)
RowsRest ==
    \A n \in DOMAIN threads :
        threads[n] = "closed" /\ there' =>
            /\ threads'[n] = "closed"
            /\ {i \in DOMAIN messages' : messages'[i].thread = n} \subseteq Indices

LEMMA TalkFacts ==
  ASSUME TalkInv
  PROVE  /\ instant \in 1..MaxInstant /\ {there, hasPaid, blocks} \subseteq BOOLEAN
         /\ messages \in Seq(MessageRows) /\ Len(messages) <= MaxMessages /\ Len(messages) \in Nat
         /\ DOMAIN messages = 1..Len(messages)
         /\ threads \in Seq({"open", "closed"}) /\ Len(threads) \in Nat
         /\ \A i \in DOMAIN messages :
              /\ messages[i] \in MessageRows /\ messages[i].from \in Parties /\ messages[i].read \in BOOLEAN
              /\ messages[i].at \in 1..instant /\ messages[i].thread \in DOMAIN threads
         /\ \A n \in DOMAIN threads : threads[n] = "open" => n = Len(threads)
         /\ standing = marked /\ marked \subseteq Parties
         /\ cleared \in [Parties -> 0..MaxInstant] /\ \A p \in Parties : cleared[p] <= instant
         /\ clearedUpTo \in [Parties -> Nat] /\ openedUpTo \in [Parties -> Nat]
         /\ \A p \in Parties : clearedUpTo[p] <= Len(messages) /\ openedUpTo[p] <= Len(messages)
         /\ WrittenInOrder /\ ClearedCuts /\ OpenedCuts
<1>1. messages \in Seq(MessageRows)
  BY DEF TalkInv, TalkTables
<1>2. \A i \in DOMAIN messages : messages[i] \in MessageRows
  BY <1>1
<1>3. \A i \in DOMAIN messages : messages[i].from \in Parties /\ messages[i].read \in BOOLEAN
  BY <1>2 DEF MessageRows
<1> QED
  BY <1>1, <1>2, <1>3 DEF TalkInv, TalkTables

LEMMA TalkSend ==
  ASSUME TalkInv, NEW p \in Parties, Send(p)
  PROVE  TalkInv' /\ RowsRest
<1> DEFINE made == [from |-> p, at |-> instant, read |-> FALSE, thread |-> Len(threads')]
<1>1. /\ threads' = Opened /\ ~Closed /\ Len(messages) < MaxMessages
      /\ messages' = Append(messages, made)
      /\ UNCHANGED <<instant, there, hasPaid, blocks, standing, cleared, clearedUpTo, openedUpTo, marked>>
  BY DEF Send, pastVars
<1>2. /\ threads' \in Seq({"open", "closed"}) /\ Len(threads) <= Len(threads')
      /\ DOMAIN threads \subseteq DOMAIN threads'
      /\ Len(threads') \in DOMAIN threads' /\ threads'[Len(threads')] = "open"
      /\ \A n \in DOMAIN threads' : threads'[n] = "open" => n = Len(threads')
      /\ \A n \in DOMAIN threads : threads[n] = "closed" => threads'[n] = "closed"
  BY <1>1, RowOpened DEF TalkInv
<1>3. /\ instant \in 1..MaxInstant /\ instant \in Nat /\ messages \in Seq(MessageRows) /\ Len(messages) \in Nat
      /\ DOMAIN messages = 1..Len(messages) /\ MaxMessages \in Nat
      /\ \A i \in DOMAIN messages : messages[i].at \in 1..instant /\ messages[i].thread \in DOMAIN threads
      /\ cleared \in [Parties -> 0..MaxInstant] /\ \A q \in Parties : cleared[q] <= instant
      /\ clearedUpTo \in [Parties -> Nat] /\ openedUpTo \in [Parties -> Nat]
      /\ \A q \in Parties : clearedUpTo[q] <= Len(messages) /\ openedUpTo[q] <= Len(messages)
      /\ WrittenInOrder /\ ClearedCuts /\ OpenedCuts
  BY TalkFacts, ConversationAssumption
<1>4. /\ made \in MessageRows /\ made.from = p /\ made.at = instant /\ made.read = FALSE
      /\ made.thread = Len(threads')
  BY <1>2, <1>3 DEF MessageRows
<1> HIDE DEF made
<1>5. /\ messages' \in Seq(MessageRows) /\ Len(messages') = Len(messages) + 1
      /\ DOMAIN messages' = DOMAIN messages \cup {Len(messages) + 1}
      /\ \A i \in DOMAIN messages : messages'[i] = messages[i]
      /\ messages'[Len(messages) + 1] = made
  BY <1>1, <1>3, <1>4
<1>6. TalkTables'
  <2>1. \A i \in DOMAIN messages' : messages'[i].at \in 1..instant /\ messages'[i].thread \in DOMAIN threads'
    BY <1>2, <1>3, <1>4, <1>5
  <2>2. \A q \in Parties : clearedUpTo[q] <= Len(messages') /\ openedUpTo[q] <= Len(messages')
    BY <1>3, <1>5
  <2>3. Len(messages') <= MaxMessages
    BY <1>1, <1>3, <1>5
  <2> QED BY <1>1, <1>2, <1>3, <1>5, <2>1, <2>2, <2>3, TalkFacts DEF TalkTables
<1>7. WrittenInOrder'
  BY <1>3, <1>4, <1>5 DEF WrittenInOrder
<1>8. ClearedCuts'
  <2>1. ASSUME NEW q \in Parties, NEW i \in DOMAIN messages'
        PROVE  IF i <= clearedUpTo[q] THEN messages'[i].at <= cleared[q] ELSE messages'[i].at >= cleared[q]
    <3>1. CASE i \in DOMAIN messages
      BY <1>3, <1>5, <3>1 DEF ClearedCuts
    <3>2. CASE i = Len(messages) + 1
      <4>1. clearedUpTo[q] \in Nat /\ clearedUpTo[q] <= Len(messages) /\ cleared[q] <= instant
        BY <1>3
      <4>2. messages'[i].at = instant
        BY <1>4, <1>5, <3>2
      <4>3. cleared[q] \in Nat /\ ~ (i <= clearedUpTo[q])
        BY <1>3, <3>2, <4>1
      <4> QED BY <1>3, <4>1, <4>2, <4>3
    <3> QED BY <1>5, <3>1, <3>2
  <2> QED BY <1>1, <2>1 DEF ClearedCuts
<1>9. OpenedCuts'
  <2>1. ASSUME NEW q \in Parties, NEW i \in From(Other(q))'
        PROVE  /\ i > openedUpTo[q] => ~messages'[i].read
               /\ i <= openedUpTo[q] /\ ~messages'[i].read
                  => q \in marked /\ \A j \in From(Other(q))' : j <= openedUpTo[q] => j <= i
    <3>0. openedUpTo[q] \in Nat /\ openedUpTo[q] <= Len(messages)
      BY <1>3
    <3>1. \A j \in From(Other(q))' : j <= openedUpTo[q] => j \in From(Other(q))
      BY <1>3, <1>5, <3>0 DEF From, Indices
    <3>2. CASE i \in From(Other(q))
      <4>1. messages'[i] = messages[i]
        BY <1>5, <3>2 DEF From, Indices
      <4> QED BY <1>3, <3>1, <3>2, <4>1 DEF OpenedCuts
    <3>3. CASE i = Len(messages) + 1
      BY <1>3, <1>4, <1>5, <3>0, <3>3
    <3>4. i \in From(Other(q)) \/ i = Len(messages) + 1
      BY <1>5 DEF From, Indices
    <3> QED BY <3>2, <3>3, <3>4
  <2> QED BY <1>1, <2>1 DEF OpenedCuts
<1>10. RowsRest
  <2>1. ASSUME NEW n \in DOMAIN threads, threads[n] = "closed"
        PROVE  {i \in DOMAIN messages' : messages'[i].thread = n} \subseteq Indices
    <3>1. threads'[n] = "closed"
      BY <1>2, <2>1
    <3>2. n # Len(threads')
      BY <1>2, <3>1
    <3> QED BY <1>4, <1>5, <3>2 DEF Indices
  <2> QED BY <1>2, <2>1 DEF RowsRest
<1> QED
  BY <1>6, <1>7, <1>8, <1>9, <1>10 DEF TalkInv

(* Steps that write neither messages nor rows. *)
LEMMA TalkReads ==
  ASSUME TalkInv, NEW p \in Parties, OpenConversation(p) \/ MarkUnread(p)
  PROVE  TalkInv' /\ RowsRest
<1>1. /\ UNCHANGED <<instant, there, hasPaid, blocks, threads, cleared, clearedUpTo>>
      /\ \/ /\ messages' = [i \in Indices |-> IF i \in From(Other(p)) THEN [messages[i] EXCEPT !.read = TRUE]
                                                                     ELSE messages[i]]
            /\ standing' = standing \ {p} /\ marked' = marked \ {p}
            /\ openedUpTo' = [openedUpTo EXCEPT ![p] = Len(messages)]
         \/ /\ messages' = [i \in Indices |-> IF i \in NewestOf(From(Other(p)))
                                               THEN [messages[i] EXCEPT !.read = FALSE] ELSE messages[i]]
            /\ standing' = standing \cup {p} /\ marked' = marked \cup {p}
            /\ openedUpTo' = openedUpTo
  BY DEF OpenConversation, MarkUnread, Unmarked
<1>2. PICK out \in {From(Other(p)), NewestOf(From(Other(p)))}, v \in BOOLEAN :
        /\ messages' = [i \in Indices |-> IF i \in out THEN [messages[i] EXCEPT !.read = v] ELSE messages[i]]
        /\ \/ /\ out = From(Other(p)) /\ v = TRUE
              /\ standing' = standing \ {p} /\ marked' = marked \ {p}
              /\ openedUpTo' = [openedUpTo EXCEPT ![p] = Len(messages)]
           \/ /\ out = NewestOf(From(Other(p))) /\ v = FALSE
              /\ standing' = standing \cup {p} /\ marked' = marked \cup {p}
              /\ openedUpTo' = openedUpTo
  BY <1>1
<1>3. /\ messages \in Seq(MessageRows) /\ Len(messages) \in Nat /\ DOMAIN messages = 1..Len(messages)
      /\ \A i \in DOMAIN messages : messages[i].at \in 1..instant /\ messages[i].thread \in DOMAIN threads
      /\ \A i \in DOMAIN messages : messages[i].read \in BOOLEAN
      /\ standing = marked /\ marked \subseteq Parties /\ instant \in Nat
      /\ openedUpTo \in [Parties -> Nat]
      /\ \A q \in Parties : clearedUpTo[q] <= Len(messages) /\ openedUpTo[q] <= Len(messages)
      /\ WrittenInOrder /\ ClearedCuts /\ OpenedCuts
  BY TalkFacts, ConversationAssumption
<1>4. /\ messages' \in Seq(MessageRows) /\ Len(messages') = Len(messages)
      /\ DOMAIN messages' = DOMAIN messages
      /\ \A i \in DOMAIN messages :
           /\ messages'[i].from = messages[i].from /\ messages'[i].at = messages[i].at
           /\ messages'[i].thread = messages[i].thread
           /\ messages'[i].read = IF i \in out THEN v ELSE messages[i].read
  <2>1. messages' = [i \in Indices |-> IF i \in out THEN [messages[i] EXCEPT !.read = v] ELSE messages[i]]
    BY <1>2
  <2>2. messages \in Seq(MessageRows) /\ v \in BOOLEAN
    BY <1>2, <1>3
  <2>3. CASE v = TRUE
    <3>1. messages' = [i \in Indices |-> IF i \in out THEN [messages[i] EXCEPT !.read = TRUE] ELSE messages[i]]
      BY <2>1, <2>3
    <3>2. /\ messages' \in Seq(MessageRows) /\ Len(messages') = Len(messages)
          /\ DOMAIN messages' = DOMAIN messages
          /\ \A i \in DOMAIN messages :
               /\ messages'[i].from = messages[i].from /\ messages'[i].at = messages[i].at
               /\ messages'[i].thread = messages[i].thread
               /\ messages'[i].read = IF i \in out THEN TRUE ELSE messages[i].read
      BY <2>2, <3>1, MessagesEdited
    <3> QED BY <2>3, <3>2
  <2>4. CASE v = FALSE
    <3>1. messages' = [i \in Indices |-> IF i \in out THEN [messages[i] EXCEPT !.read = FALSE] ELSE messages[i]]
      BY <2>1, <2>4
    <3>2. /\ messages' \in Seq(MessageRows) /\ Len(messages') = Len(messages)
          /\ DOMAIN messages' = DOMAIN messages
          /\ \A i \in DOMAIN messages :
               /\ messages'[i].from = messages[i].from /\ messages'[i].at = messages[i].at
               /\ messages'[i].thread = messages[i].thread
               /\ messages'[i].read = IF i \in out THEN FALSE ELSE messages[i].read
      BY <2>2, <3>1, MessagesEdited
    <3> QED BY <2>4, <3>2
  <2> QED BY <2>2, <2>3, <2>4
<1>5. standing' = marked' /\ marked' \subseteq Parties /\ openedUpTo' \in [Parties -> Nat]
      /\ \A q \in Parties : openedUpTo'[q] <= Len(messages)
  <2>1. \/ marked' = marked \ {p} /\ standing' = standing \ {p}
        \/ marked' = marked \cup {p} /\ standing' = standing \cup {p}
    BY <1>2
  <2>2. openedUpTo' = [openedUpTo EXCEPT ![p] = Len(messages)] \/ openedUpTo' = openedUpTo
    BY <1>2
  <2>3. standing' = marked' /\ marked' \subseteq Parties
    BY <1>3, <2>1
  <2>4. openedUpTo' \in [Parties -> Nat] /\ \A q \in Parties : openedUpTo'[q] <= Len(messages)
    BY <1>3, <2>2, SMTT(30)
  <2> QED BY <2>3, <2>4
<1>6. TalkTables'
  BY <1>1, <1>3, <1>4, <1>5, TalkFacts DEF TalkTables
<1>7. WrittenInOrder' /\ ClearedCuts'
  BY <1>1, <1>3, <1>4, SMTT(30) DEF WrittenInOrder, ClearedCuts
<1>8. \A q \in Parties : From(q)' = From(q) /\ From(q) \subseteq 1..Len(messages)
  BY <1>3, <1>4 DEF From, Indices
<1>9. \A q \in Parties : q # p => From(Other(q)) \cap From(Other(p)) = {}
  BY DEF Other, From, Parties
<1>10. out \subseteq From(Other(p))
  BY <1>2 DEF NewestOf
<1>11. \A q \in Parties : Other(q) \in Parties
  BY DEF Other, Parties
<1>12. OpenedCuts'
  <2>1. ASSUME NEW q \in Parties, NEW i \in From(Other(q))
        PROVE  /\ i > openedUpTo'[q] => ~messages'[i].read
               /\ i <= openedUpTo'[q] /\ ~messages'[i].read
                  => q \in marked' /\ \A j \in From(Other(q)) : j <= openedUpTo'[q] => j <= i
    <3>0. i \in DOMAIN messages /\ i \in 1..Len(messages) /\ i \in Nat
      BY <1>3, <1>8, <1>11
    <3>1. CASE q # p
      <4>1. i \notin out /\ messages'[i].read = messages[i].read
        BY <1>4, <1>9, <1>10, <3>0, <3>1
      <4>2. openedUpTo'[q] = openedUpTo[q] /\ (q \in marked' <=> q \in marked)
        BY <1>2, <1>3, <3>1
      <4> QED BY <1>3, <4>1, <4>2 DEF OpenedCuts
    <3>2. CASE q = p /\ out = From(Other(p)) /\ v = TRUE /\ openedUpTo' = [openedUpTo EXCEPT ![p] = Len(messages)]
      <4>1. openedUpTo'[q] = Len(messages) /\ i <= Len(messages)
        BY <1>3, <3>0, <3>2
      <4>2. messages'[i].read = TRUE
        BY <1>4, <3>0, <3>2
      <4> QED BY <1>3, <3>0, <4>1, <4>2
    <3>3. CASE /\ q = p /\ out = NewestOf(From(Other(p))) /\ v = FALSE
               /\ marked' = marked \cup {p} /\ openedUpTo' = openedUpTo
      <4>1. CASE i \in out
        <5>1. \A j \in From(Other(p)) : j <= i
          <6>1. \A j \in From(Other(p)) : messages[j].at < messages[i].at \/ j <= i
            BY <3>3, <4>1 DEF NewestOf
          <6>2. ASSUME NEW j \in From(Other(p)), ~ (j <= i) PROVE FALSE
            <7>1. j \in DOMAIN messages /\ j \in Nat /\ i <= j
              BY <1>3, <1>8, <1>11, <3>0, <6>2
            <7>2. messages[i].at <= messages[j].at /\ messages[i].at \in Nat /\ messages[j].at \in Nat
              BY <1>3, <3>0, <7>1 DEF WrittenInOrder
            <7> QED BY <6>1, <6>2, <7>2
          <6> QED BY <6>2
        <5>2. ~messages'[i].read
          BY <1>4, <3>0, <3>3, <4>1
        <5> QED BY <3>3, <5>1, <5>2
      <4>2. CASE i \notin out
        <5>1. messages'[i].read = messages[i].read
          BY <1>4, <3>0, <4>2
        <5> QED BY <1>3, <3>3, <5>1 DEF OpenedCuts
      <4> QED BY <4>1, <4>2
    <3> QED BY <1>2, <3>1, <3>2, <3>3
  <2>2. \A q \in Parties : From(Other(q))' = From(Other(q))
    BY <1>8, <1>11
  <2> QED BY <2>1, <2>2 DEF OpenedCuts
<1>13. RowsRest
  BY <1>1, <1>4 DEF RowsRest, Indices
<1> QED
  BY <1>6, <1>7, <1>12, <1>13 DEF TalkInv

(* Clearing an inbox, the rows, the switches and the clock. *)
LEMMA TalkRests ==
  ASSUME TalkInv,
         \/ \E p \in Parties : Clear(p)
         \/ Close \/ Reopen \/ RevealFirst \/ ToggleBlock \/ Forget \/ Tick
  PROVE  TalkInv' /\ RowsRest
<1>1. /\ instant \in 1..MaxInstant /\ instant \in Nat /\ messages \in Seq(MessageRows) /\ Len(messages) \in Nat
      /\ {there, hasPaid, blocks} \subseteq BOOLEAN
      /\ DOMAIN messages = 1..Len(messages) /\ Len(messages) <= MaxMessages
      /\ threads \in Seq({"open", "closed"}) /\ Len(threads) \in Nat
      /\ \A n \in DOMAIN threads : threads[n] = "open" => n = Len(threads)
      /\ \A i \in DOMAIN messages : messages[i].at \in 1..instant /\ messages[i].thread \in DOMAIN threads
      /\ standing = marked /\ marked \subseteq Parties
      /\ cleared \in [Parties -> 0..MaxInstant] /\ \A p \in Parties : cleared[p] <= instant
      /\ clearedUpTo \in [Parties -> Nat] /\ openedUpTo \in [Parties -> Nat]
      /\ \A p \in Parties : clearedUpTo[p] <= Len(messages) /\ openedUpTo[p] <= Len(messages)
      /\ WrittenInOrder /\ ClearedCuts /\ OpenedCuts
  BY TalkFacts, ConversationAssumption
<1>2. MaxInstant \in Nat /\ MaxMessages \in Nat
  BY ConversationAssumption
<1>3. ASSUME NEW p \in Parties, Clear(p) PROVE TalkInv' /\ RowsRest
  <2>1. /\ cleared' = [cleared EXCEPT ![p] = instant] /\ clearedUpTo' = [clearedUpTo EXCEPT ![p] = Len(messages)]
        /\ UNCHANGED <<instant, there, hasPaid, blocks, messages, threads, standing, openedUpTo, marked>>
    BY <1>3 DEF Clear, ClearedAt
  <2>2. cleared' \in [Parties -> 0..MaxInstant] /\ clearedUpTo' \in [Parties -> Nat]
    BY <1>1, <1>2, <2>1
  <2>3. \A q \in Parties : cleared'[q] <= instant /\ clearedUpTo'[q] <= Len(messages)
    BY <1>1, <1>2, <2>1
  <2>4. TalkTables'
    BY <1>1, <2>1, <2>2, <2>3 DEF TalkTables
  <2>5. WrittenInOrder' /\ OpenedCuts' /\ RowsRest
    BY <1>1, <2>1 DEF WrittenInOrder, OpenedCuts, From, Indices, RowsRest
  <2>6. ClearedCuts'
    <3>1. ASSUME NEW q \in Parties, NEW i \in DOMAIN messages
          PROVE  IF i <= clearedUpTo'[q] THEN messages[i].at <= cleared'[q] ELSE messages[i].at >= cleared'[q]
      <4>1. CASE q = p
        BY <1>1, <2>1, <4>1
      <4>2. CASE q # p
        BY <1>1, <2>1, <4>2 DEF ClearedCuts
      <4> QED BY <4>1, <4>2
    <3> QED BY <2>1, <3>1 DEF ClearedCuts
  <2> QED BY <2>4, <2>5, <2>6 DEF TalkInv
<1>4. ASSUME UNCHANGED <<instant, there, hasPaid, blocks, messages, standing, cleared, clearedUpTo, openedUpTo, marked>>,
             threads' \in Seq({"open", "closed"}), DOMAIN threads \subseteq DOMAIN threads',
             \A n \in DOMAIN threads' : threads'[n] = "open" => n = Len(threads'),
             \A n \in DOMAIN threads : threads[n] = "closed" => threads'[n] = "closed"
      PROVE  TalkInv' /\ RowsRest
  <2>1. TalkTables'
    BY <1>1, <1>4 DEF TalkTables
  <2>2. WrittenInOrder' /\ OpenedCuts' /\ ClearedCuts' /\ RowsRest
    BY <1>1, <1>4 DEF WrittenInOrder, OpenedCuts, ClearedCuts, From, Indices, RowsRest
  <2> QED BY <2>1, <2>2 DEF TalkInv
<1>5. CASE Close
  <2>1. /\ threads' = [threads EXCEPT ![Len(threads)] = "closed"] /\ threads # <<>>
        /\ UNCHANGED <<instant, there, hasPaid, blocks, messages, standing, cleared, clearedUpTo, openedUpTo, marked>>
    BY <1>5 DEF Close, RowIsOpen, pastVars
  <2>2. /\ threads' \in Seq({"open", "closed"}) /\ DOMAIN threads' = DOMAIN threads /\ Len(threads') = Len(threads)
        /\ \A n \in DOMAIN threads : threads'[n] = IF n = Len(threads) THEN "closed" ELSE threads[n]
    BY <1>1, <2>1
  <2>3. \A n \in DOMAIN threads : threads'[n] # "open"
    BY <1>1, <2>2
  <2> QED BY <1>1, <1>4, <2>1, <2>2, <2>3
<1>6. CASE Reopen
  <2>1. /\ threads' = Opened
        /\ UNCHANGED <<instant, there, hasPaid, blocks, messages, standing, cleared, clearedUpTo, openedUpTo, marked>>
    BY <1>6 DEF Reopen, pastVars
  <2>2. TalkTables
    BY DEF TalkInv
  <2> QED BY <1>4, <2>1, <2>2, RowOpened
<1>7. CASE Forget
  <2>1. /\ there' = FALSE /\ messages' = <<>> /\ threads' = <<>> /\ standing' = {} /\ marked' = {}
        /\ cleared' = [p \in Parties |-> 0] /\ clearedUpTo' = [p \in Parties |-> 0]
        /\ openedUpTo' = [p \in Parties |-> 0] /\ UNCHANGED <<instant, hasPaid, blocks>>
    BY <1>7 DEF Forget
  <2>2. Len(messages') = 0 /\ DOMAIN messages' = {} /\ DOMAIN threads' = {}
        /\ messages' \in Seq(MessageRows) /\ threads' \in Seq({"open", "closed"})
    BY <2>1
  <2>3. {there', hasPaid', blocks'} \subseteq BOOLEAN
    BY <1>1, <2>1
  <2>4. TalkTables'
    BY <1>1, <1>2, <2>1, <2>2, <2>3 DEF TalkTables
  <2>5. WrittenInOrder' /\ OpenedCuts' /\ ClearedCuts' /\ RowsRest
    BY <2>1, <2>2 DEF WrittenInOrder, OpenedCuts, ClearedCuts, From, Indices, RowsRest
  <2> QED BY <2>4, <2>5 DEF TalkInv
<1>8. ASSUME UNCHANGED <<messages, threads, standing, cleared, clearedUpTo, openedUpTo, marked>>,
             instant' \in 1..MaxInstant, instant <= instant', {there', hasPaid', blocks'} \subseteq BOOLEAN
      PROVE  TalkInv' /\ RowsRest
  <2>1. \A i \in DOMAIN messages : messages[i].at \in 1..instant'
    BY <1>1, <1>2, <1>8
  <2>2. \A p \in Parties : cleared[p] <= instant'
    <3>1. \A p \in Parties : cleared[p] \in 0..MaxInstant
      BY <1>1
    <3> QED BY <1>1, <1>2, <1>8, <3>1
  <2>3. TalkTables'
    BY <1>1, <1>8, <2>1, <2>2 DEF TalkTables
  <2>4. WrittenInOrder' /\ OpenedCuts' /\ ClearedCuts' /\ RowsRest
    BY <1>1, <1>8 DEF WrittenInOrder, OpenedCuts, ClearedCuts, From, Indices, RowsRest
  <2> QED BY <2>3, <2>4 DEF TalkInv
<1>9. CASE RevealFirst \/ ToggleBlock
  <2>1. /\ UNCHANGED <<instant, messages, threads, standing, cleared, clearedUpTo, openedUpTo, marked>>
        /\ {there', hasPaid', blocks'} \subseteq BOOLEAN
    BY <1>1, <1>9 DEF RevealFirst, ToggleBlock, pastVars
  <2> QED BY <1>1, <1>8, <2>1
<1>10. CASE Tick
  <2>1. /\ UNCHANGED <<messages, threads, standing, cleared, clearedUpTo, openedUpTo, marked>>
        /\ instant' = instant + 1 /\ instant < MaxInstant
        /\ UNCHANGED <<there, hasPaid, blocks>>
    BY <1>10 DEF Tick, pastVars
  <2>2. {there', hasPaid', blocks'} \subseteq BOOLEAN
    BY <1>1, <2>1
  <2> QED BY <1>1, <1>2, <1>8, <2>1, <2>2
<1> QED
  BY <1>3, <1>5, <1>6, <1>7, <1>9, <1>10

(* What the cuts say of the inboxes and the badges. *)
LEMMA TalkIsSound ==
  ASSUME TalkInv
  PROVE  ConversationTypeOK /\ ClearedUntilNews /\ BadgeIsHonest
<1>1. /\ instant \in 1..MaxInstant /\ instant \in Nat /\ messages \in Seq(MessageRows) /\ Len(messages) \in Nat
      /\ {there, hasPaid, blocks} \subseteq BOOLEAN
      /\ DOMAIN messages = 1..Len(messages) /\ Len(messages) <= MaxMessages
      /\ \A i \in DOMAIN messages :
           /\ messages[i] \in MessageRows /\ messages[i].from \in Parties /\ messages[i].read \in BOOLEAN
           /\ messages[i].at \in 1..instant /\ messages[i].thread \in DOMAIN threads
      /\ \A n \in DOMAIN threads : threads[n] = "open" => n = Len(threads)
      /\ standing = marked /\ marked \subseteq Parties
      /\ cleared \in [Parties -> 0..MaxInstant]
      /\ clearedUpTo \in [Parties -> Nat] /\ openedUpTo \in [Parties -> Nat]
      /\ \A p \in Parties : clearedUpTo[p] <= Len(messages) /\ openedUpTo[p] <= Len(messages)
      /\ ClearedCuts /\ OpenedCuts
  BY TalkFacts, ConversationAssumption
<1>2. ConversationTypeOK
  <2>1. \A i \in Indices : messages[i] \in [from : Parties, at : 1..instant, read : BOOLEAN, thread : DOMAIN threads]
    BY <1>1 DEF Indices, MessageRows
  <2> QED BY <1>1, <2>1 DEF ConversationTypeOK
<1>3. IsFiniteSet(1..Len(messages))
  BY <1>1, FS_Interval
<1>4. ClearedUntilNews
  <2> SUFFICES ASSUME NEW p \in Parties, NewestAt # cleared[p], p = "recruiter" => ~blocks
               PROVE  ListedFor(p) = (Len(messages) > clearedUpTo[p])
    BY DEF ClearedUntilNews
  <2> DEFINE ats == {messages[i].at : i \in Indices} \cup {0}
             atOf == [i \in Indices |-> messages[i].at]
  <2>1. IsFiniteSet(ats) /\ ats \subseteq Int /\ ats # {}
    <3>1. IsFiniteSet({atOf[i] : i \in Indices})
      <4>1. DOMAIN atOf = Indices /\ atOf = [i \in Indices |-> atOf[i]] /\ IsFiniteSet(Indices)
        BY <1>1, <1>3 DEF Indices
      <4> HIDE DEF atOf
      <4> QED BY <4>1, ValuesAreFinite
    <3>2. IsFiniteSet({messages[i].at : i \in Indices})
      BY <3>1
    <3>3. IsFiniteSet(ats)
      BY <3>2, FS_AddElement
    <3> QED BY <1>1, <3>3 DEF Indices
  <2>2. NewestAt = Max(ats)
    BY DEF NewestAt
  <2>3. \A i \in Indices : messages[i].at \in ats
    OBVIOUS
  <2>4. \A m \in ats : m = 0 \/ \E i \in Indices : m = messages[i].at
    OBVIOUS
  <2> HIDE DEF ats
  <2>5. NewestAt \in ats /\ \A m \in ats : m <= NewestAt
    BY <2>1, <2>2, MaxIsGreatest
  <2>6. cleared[p] \in Nat /\ clearedUpTo[p] \in Nat /\ clearedUpTo[p] <= Len(messages) /\ NewestAt \in Int
    BY <1>1, <2>1, <2>5
  <2>7. CASE Len(messages) > clearedUpTo[p]
    <3>1. Len(messages) \in DOMAIN messages /\ ~ (Len(messages) <= clearedUpTo[p]) /\ messages # <<>>
      BY <1>1, <2>6, <2>7
    <3>2. messages[Len(messages)].at >= cleared[p] /\ messages[Len(messages)].at \in Nat
      BY <1>1, <3>1 DEF ClearedCuts
    <3>3. messages[Len(messages)].at <= NewestAt
      BY <2>3, <2>5, <3>1 DEF Indices
    <3>4. NewestAt > cleared[p]
      BY <2>6, <3>2, <3>3
    <3>5. ListedFor(p) = TRUE
      <4>1. messages # <<>> /\ NewestAt > cleared[p] /\ (p = "recruiter" => ~blocks)
        BY <3>1, <3>4
      <4> QED BY <4>1, Zenon DEF ListedFor
    <3>6. (Len(messages) > clearedUpTo[p]) = TRUE
      BY <1>1, <2>6, <2>7
    <3> QED BY <3>5, <3>6
  <2>8. CASE ~ (Len(messages) > clearedUpTo[p])
    <3>1. \A i \in Indices : messages[i].at <= cleared[p]
      BY <1>1, <2>6, <2>8 DEF ClearedCuts, Indices
    <3>2. NewestAt <= cleared[p]
      BY <2>4, <2>5, <2>6, <3>1
    <3>3. (NewestAt > cleared[p]) = FALSE
      BY <2>6, <3>2
    <3>4. ListedFor(p) = FALSE
      BY <3>3 DEF ListedFor
    <3>5. (Len(messages) > clearedUpTo[p]) = FALSE
      BY <1>1, <2>6, <2>8
    <3> QED BY <3>4, <3>5
  <2> QED BY <2>7, <2>8
<1>5. BadgeIsHonest
  <2> SUFFICES ASSUME NEW p \in Parties
               PROVE  LET news == Cardinality({i \in From(Other(p)) : i > openedUpTo[p]})
                      IN  IF p \in marked THEN Badge(p) \in {Max({news, 1}), news + 1} ELSE Badge(p) = news
    BY DEF BadgeIsHonest
  <2> DEFINE new == {i \in From(Other(p)) : i > openedUpTo[p]}
             old == {i \in From(Other(p)) : i <= openedUpTo[p] /\ ~messages[i].read}
             unread == UnreadFrom(Other(p))
  <2>1. From(Other(p)) \subseteq 1..Len(messages) /\ openedUpTo[p] \in Nat
    BY <1>1 DEF From, Indices
  <2>2. unread = new \cup old
    BY <1>1, <2>1 DEF OpenedCuts, UnreadFrom
  <2>3. IsFiniteSet(new) /\ IsFiniteSet(unread)
    <3>1. new \subseteq 1..Len(messages) /\ unread \subseteq 1..Len(messages)
      BY <2>1 DEF UnreadFrom
    <3> QED BY <1>3, <3>1, FS_Subset
  <2>4. \A i, j \in old : i = j
    BY <1>1, <2>1 DEF OpenedCuts
  <2>5. old # {} => p \in marked
    BY <1>1 DEF OpenedCuts
  <2>6. \A i \in old : i \notin new
    BY <2>1
  <2> HIDE DEF new, old, unread
  <2>7. Cardinality(new) \in Nat /\ Cardinality(unread) \in Nat
    BY <2>3, FS_CardinalityType
  <2>8. Cardinality(unread) = Cardinality(new) \/ (p \in marked /\ Cardinality(unread) = Cardinality(new) + 1)
    <3>1. CASE old = {}
      BY <2>2, <3>1
    <3>2. ASSUME NEW i \in old PROVE p \in marked /\ Cardinality(unread) = Cardinality(new) + 1
      <4>1. unread = new \cup {i} /\ i \notin new
        BY <2>2, <2>4, <2>6, <3>2
      <4>2. Cardinality(unread) = Cardinality(new) + 1
        BY <2>3, <4>1, FS_AddElement
      <4> QED BY <2>5, <3>2, <4>2
    <3> QED BY <3>1, <3>2
  <2>9. \A m \in Nat, n \in {0, 1} : Max({m, n}) = IF m < n THEN n ELSE m
    BY GreaterOfTwo
  <2>10. Badge(p) = Max({Cardinality(unread), IF p \in marked THEN 1 ELSE 0})
    BY <1>1 DEF Badge, unread
  <2>11. Badge(p) = IF p \in marked /\ Cardinality(unread) < 1 THEN 1 ELSE Cardinality(unread)
    <3>1. CASE p \in marked
      <4>1. Badge(p) = Max({Cardinality(unread), 1})
        BY <2>10, <3>1
      <4>2. Badge(p) = IF Cardinality(unread) < 1 THEN 1 ELSE Cardinality(unread)
        BY <2>7, <2>9, <4>1
      <4> QED BY <3>1, <4>2
    <3>2. CASE p \notin marked
      <4>1. Badge(p) = Max({Cardinality(unread), 0})
        BY <2>10, <3>2
      <4>2. Badge(p) = IF Cardinality(unread) < 0 THEN 0 ELSE Cardinality(unread)
        BY <2>7, <2>9, <4>1
      <4> QED BY <2>7, <3>2, <4>2
    <3> QED BY <3>1, <3>2
  <2>12. IF p \in marked THEN Badge(p) \in {Max({Cardinality(new), 1}), Cardinality(new) + 1}
                         ELSE Badge(p) = Cardinality(new)
    <3>1. Max({Cardinality(new), 1}) = IF Cardinality(new) < 1 THEN 1 ELSE Cardinality(new)
      BY <2>7, <2>9
    <3> QED BY <2>7, <2>8, <2>11, <3>1
  <2> QED BY <2>12 DEF new
<1> QED
  BY <1>2, <1>4, <1>5

LEMMA TalkStep ==
  ASSUME TalkInv, [ConversationNext]_conversationVars
  PROVE  TalkInv' /\ RowsRest
<1>1. CASE UNCHANGED conversationVars
  <2>1. UNCHANGED <<instant, there, hasPaid, blocks, messages, threads, standing, cleared,
                    clearedUpTo, openedUpTo, marked>>
    BY <1>1 DEF conversationVars
  <2> QED BY <2>1 DEF TalkInv, TalkTables, WrittenInOrder, ClearedCuts, OpenedCuts, From, Indices, RowsRest
<1>2. CASE ConversationNext
  BY <1>2, TalkSend, TalkReads, TalkRests DEF ConversationNext
<1> QED
  BY <1>1, <1>2

LEMMA TalkInit ==
  ASSUME ConversationInit
  PROVE  TalkInv
<1>1. messages = <<>> /\ threads = <<>> /\ Len(messages) = 0 /\ DOMAIN messages = {} /\ DOMAIN threads = {}
  BY DEF ConversationInit
<1>2. TalkTables
  <2>1. MaxInstant \in Nat \ {0} /\ MaxMessages \in Nat
    BY ConversationAssumption
  <2>2. {there, hasPaid, blocks} \subseteq BOOLEAN /\ instant \in 1..MaxInstant
    <3>1. {there, hasPaid, blocks} \subseteq {TRUE, FALSE}
      BY Zenon DEF ConversationInit
    <3>2. instant \in 1..MaxInstant
      BY <2>1 DEF ConversationInit
    <3> QED BY <3>1, <3>2
  <2>3. /\ cleared = [p \in Parties |-> 0] /\ clearedUpTo = [p \in Parties |-> 0]
        /\ openedUpTo = [p \in Parties |-> 0] /\ standing = {} /\ marked = {} /\ instant = 1
    BY DEF ConversationInit
  <2>4. cleared \in [Parties -> 0..MaxInstant] /\ clearedUpTo \in [Parties -> Nat] /\ openedUpTo \in [Parties -> Nat]
    BY <2>1, <2>3
  <2> QED BY <1>1, <2>1, <2>2, <2>3, <2>4 DEF TalkTables
<1> QED
  BY <1>1, <1>2 DEF TalkInv, WrittenInOrder, ClearedCuts, OpenedCuts, From, Indices

(* What a party cleared stays away until something new arrives, the badge counts
   what arrived since the conversation was opened and at most one mark besides, and
   a closed thread row takes nothing more: for any number of messages, rows and
   instants, and any order in which the two sides write, read, mark, clear and close. *)
THEOREM ConversationStaysSound == ConversationSpec => ConversationIsSound
<1>1. ConversationInit => TalkInv
  BY TalkInit
<1>2. TalkInv /\ [ConversationNext]_conversationVars => TalkInv' /\ [RowsRest]_conversationVars
  BY TalkStep
<1>3. TalkInv => ConversationTypeOK /\ ClearedUntilNews /\ BadgeIsHonest
  BY TalkIsSound
<1>4. ConversationSpec => [](ConversationTypeOK /\ ClearedUntilNews /\ BadgeIsHonest)
  BY <1>1, <1>2, <1>3, PTL DEF ConversationSpec
<1>5. [RowsRest]_conversationVars
        => [\A r \in DOMAIN threads :
              threads[r] = "closed" /\ there' =>
                /\ threads'[r] = "closed"
                /\ {i \in DOMAIN messages' : messages'[i].thread = r} \subseteq Indices]_conversationVars
  BY DEF RowsRest
<1>6. ConversationSpec => ClosedRowsRest
  BY <1>1, <1>2, <1>5, PTL DEF ConversationSpec, ClosedRowsRest
<1> QED
  BY <1>4, <1>6 DEF ConversationIsSound

-----------------------------------------------------------------------------
(* Searches.                                                                 *)

Lines == [ids : Seq(People), cursor : Nat]

SearchTables ==
    /\ text \in [People -> CvVersions] /\ version \in [People -> CvVersions]
    /\ \A c \in People : version[c] <= text[c] /\ (c \in saving => version[c] < text[c])
    /\ saving \subseteq People /\ crossed \subseteq People /\ withdrawn \subseteq People /\ gone \subseteq People
    /\ jobKnown \in BOOLEAN
    /\ IsFiniteSet(DOMAIN cache) /\ DOMAIN cache \subseteq People \X CvVersions
    /\ \A k \in DOMAIN cache : cache[k] \in CvVersions
    /\ spent \in Nat /\ page \subseteq People

(* A search's line names everybody once, and nobody who is erased. *)
IsLine(sess) ==
    /\ sess.cursor <= Len(sess.ids)
    /\ \A i, j \in DOMAIN sess.ids : sess.ids[i] = sess.ids[j] => i = j
    /\ \A i \in DOMAIN sess.ids : sess.ids[i] \notin gone

SearchLines ==
    /\ sessions \in Seq(Lines) /\ shown \in Seq(SUBSET People)
    /\ Len(shown) = Len(sessions) /\ Len(sessions) <= MaxSessions
    /\ \A n \in DOMAIN sessions : IsLine(sessions[n])

(* What a request in flight holds is of a search that is there, and of people. *)
SearchRequests ==
    /\ DOMAIN request = Requests
    /\ \A q \in Requests :
         /\ request[q].stage = "more" => request[q].session \in DOMAIN sessions
         /\ request[q].stage = "judge" =>
              /\ request[q].session \in DOMAIN sessions
              /\ DOMAIN request[q].reads \subseteq People
              /\ \A c \in DOMAIN request[q].reads : request[q].reads[c] \in CvVersions

(* What is in flight, besides what was spent, was below the ceiling when the last
   of them asked. *)
Pending == [q \in Requests |-> IF request[q].stage = "judge" THEN Cardinality(DOMAIN request[q].reads) ELSE 0]

CeilingKept ==
    spent + TotalOver(Pending, Requests) <= Cap + (Cardinality(Requests) - 1) * Cardinality(People)

(* Of who is not in the history of crossings: nothing is on record for a version to
   come, the current version is judged as it is, and who is being read is read as is. *)
JudgedFairly ==
    \A c \in People \ (gone \cup crossed) :
        /\ \A k \in DOMAIN cache : k[1] = c => k[2] <= version[c]
        /\ c \notin saving => JudgedAsItIs(c)
        /\ \A q \in Requests :
             request[q].stage = "judge" /\ c \in DOMAIN request[q].reads => request[q].reads[c] = text[c]

SearchInv ==
    /\ SearchTables /\ SearchLines /\ SearchRequests
    /\ CeilingKept /\ JudgedFairly /\ JudgementsAreBought /\ ShownMayBeSeen

LEMMA PeopleAreFew ==
  /\ IsFiniteSet(People) /\ IsFiniteSet(Requests) /\ Cardinality(People) \in Nat
  /\ Cardinality(Requests) \in Nat \ {0} /\ Cap \in Nat /\ PageSize \in Nat \ {0}
  /\ MaxVersion \in Nat \ {0} /\ MaxSessions \in Nat
<1>1. /\ IsFiniteSet(People) /\ IsFiniteSet(Requests) /\ Requests # {} /\ Cap \in Nat /\ PageSize \in Nat \ {0}
      /\ MaxVersion \in Nat \ {0} /\ MaxSessions \in Nat
  BY SearchAssumption
<1>2. Cardinality(People) \in Nat /\ Cardinality(Requests) \in Nat /\ Cardinality(Requests) # 0
  BY <1>1, FS_CardinalityType, FS_EmptySet
<1> QED
  BY <1>1, <1>2

LEMMA PendingType ==
  ASSUME SearchRequests
  PROVE  /\ Pending \in [Requests -> Int]
         /\ \A q \in Requests : Pending[q] \in Nat /\ Pending[q] <= Cardinality(People)
<1>1. \A q \in Requests : request[q].stage = "judge" => DOMAIN request[q].reads \subseteq People
  BY DEF SearchRequests
<1>2. \A q \in Requests : request[q].stage = "judge"
        => /\ Cardinality(DOMAIN request[q].reads) \in Nat
           /\ Cardinality(DOMAIN request[q].reads) <= Cardinality(People)
  BY <1>1, PeopleAreFew, FS_Subset, FS_CardinalityType
<1>3. \A q \in Requests : Pending[q] \in Nat /\ Pending[q] <= Cardinality(People)
  BY <1>2, PeopleAreFew DEF Pending
<1>4. Pending \in [Requests -> Int]
  BY <1>3 DEF Pending
<1> QED
  BY <1>3, <1>4

(* A request goes on with something that reads nobody. *)
LEMMA RequestGoesOn ==
  ASSUME SearchRequests, NEW q \in Requests, NEW r, r.stage # "judge",
         r.stage = "more" => r.session \in DOMAIN sessions,
         request' = [request EXCEPT ![q] = r], sessions' = sessions,
         request[q].stage # "judge"
  PROVE  SearchRequests' /\ Pending' = Pending
<1>1. /\ DOMAIN request' = Requests /\ request'[q] = r
      /\ \A p \in Requests : p # q => request'[p] = request[p]
  BY DEF SearchRequests
<1>2. SearchRequests'
  BY <1>1 DEF SearchRequests
<1>3. Pending' = Pending
  BY <1>1 DEF Pending
<1> QED
  BY <1>2, <1>3

(* analyseBatch up to the model. *)
LEMMA JudgingBegins ==
  ASSUME SearchTables, SearchRequests, CeilingKept, JudgedFairly,
         NEW q \in Requests, NEW n \in DOMAIN sessions', NEW ids \in SUBSET People, NEW resumed,
         request' = [request EXCEPT ![q] = Judging(n, ids, resumed)], request[q].stage # "judge",
         DOMAIN sessions \subseteq DOMAIN sessions',
         UNCHANGED <<peopleVars, cache, spent>>
  PROVE  SearchRequests' /\ CeilingKept' /\ JudgedFairly'
<1> DEFINE misses == {c \in ids \ gone : <<c, version[c]>> \notin DOMAIN cache}
           asked == IF WithinDailyCeiling(Cardinality(misses)) THEN misses ELSE {}
           reads == [c \in asked |-> text[c]]
           r == [stage |-> "judge", session |-> n, resumed |-> resumed, reads |-> reads]
<1>1. Judging(n, ids, resumed) = r
  BY DEF Judging
<1>2. asked \subseteq People /\ (spent + Cardinality(asked) <= Cap \/ asked = {})
  BY DEF WithinDailyCeiling
<1> HIDE DEF asked
<1>3. /\ DOMAIN reads = asked /\ \A c \in asked : reads[c] = text[c] /\ reads[c] \in CvVersions
  BY <1>2 DEF SearchTables
<1>4. r.stage = "judge" /\ r.session = n /\ r.reads = reads
  OBVIOUS
<1> HIDE DEF reads, r
<1>5. /\ DOMAIN request' = Requests /\ request'[q] = r
      /\ \A p \in Requests : p # q => request'[p] = request[p]
  BY <1>1 DEF SearchRequests
<1>6. UNCHANGED <<text, version, saving, crossed, withdrawn, gone, cache, spent>>
  BY DEF peopleVars
<1>7. SearchRequests'
  BY <1>2, <1>3, <1>4, <1>5 DEF SearchRequests
<1>8. JudgedFairly'
  <2> SUFFICES ASSUME NEW c \in People \ (gone \cup crossed)
               PROVE  /\ \A k \in DOMAIN cache : k[1] = c => k[2] <= version[c]
                      /\ c \notin saving => JudgedAsItIs(c)
                      /\ \A p \in Requests : request'[p].stage = "judge" /\ c \in DOMAIN request'[p].reads
                                             => request'[p].reads[c] = text[c]
    BY <1>6 DEF JudgedFairly, JudgedAsItIs
  <2> QED BY <1>3, <1>4, <1>5 DEF JudgedFairly
<1>9. CeilingKept'
  <2>1. /\ Pending \in [Requests -> Int]
        /\ \A p \in Requests : Pending[p] \in Nat /\ Pending[p] <= Cardinality(People)
    BY PendingType
  <2>2. Pending[q] = 0 /\ Pending'[q] = Cardinality(asked) /\ \A p \in Requests \ {q} : Pending[p] = Pending'[p]
    BY <1>3, <1>4, <1>5 DEF Pending
  <2>10. Cardinality(asked) \in Nat /\ (asked = {} => Cardinality(asked) = 0)
    BY <1>2, PeopleAreFew, FS_Subset, FS_CardinalityType, FS_EmptySet
  <2>11. Pending' \in [Requests -> Int]
    <3>1. \A p \in Requests : Pending'[p] \in Int
      BY <2>1, <2>2, <2>10
    <3>2. Pending' = [p \in Requests |-> Pending'[p]]
      BY DEF Pending
    <3> QED BY <3>1, <3>2
  <2>3. TotalOver(Pending', Requests) = TotalOver(Pending, Requests) + Cardinality(asked)
    BY <2>1, <2>2, <2>10, <2>11, PeopleAreFew, TotalOfOneChange
  <2>4. TotalOver(Pending, Requests) <= (Cardinality(Requests) - 1) * Cardinality(People)
    BY <2>1, <2>2, PeopleAreFew, TotalOfTheOthers
  <2>5. spent \in Nat /\ TotalOver(Pending, Requests) \in Int
    BY <2>1, PeopleAreFew, TotalType DEF SearchTables
  <2> DEFINE room == (Cardinality(Requests) - 1) * Cardinality(People)
  <2>6. room \in Int
    BY PeopleAreFew
  <2>7. spent + TotalOver(Pending', Requests) <= Cap + room
    <3> HIDE DEF room
    <3>1. TotalOver(Pending, Requests) <= room /\ spent + TotalOver(Pending, Requests) <= Cap + room
      BY <2>4 DEF room, CeilingKept
    <3> QED BY <1>2, <2>3, <2>5, <2>6, <2>10, <3>1, PeopleAreFew
  <2> QED BY <1>6, <2>7 DEF CeilingKept
<1> QED
  BY <1>7, <1>8, <1>9

(* The page a claim takes off a line. *)
LEMMA PageClaimed ==
  ASSUME NEW sess \in Lines, sess.cursor <= Len(sess.ids)
  PROVE  /\ sess.cursor \in Nat /\ sess.ids \in Seq(People) /\ Len(sess.ids) \in Nat /\ Claimed(sess) \in Nat
         /\ sess.cursor <= Claimed(sess) /\ Claimed(sess) <= Len(sess.ids)
         /\ Claimed(sess) = IF sess.cursor + PageSize < Len(sess.ids)
                            THEN sess.cursor + PageSize ELSE Len(sess.ids)
         /\ Batch(sess) = {sess.ids[i] : i \in (sess.cursor + 1)..Claimed(sess)}
         /\ Batch(sess) \subseteq People
<1>1. sess.cursor \in Nat /\ sess.ids \in Seq(People) /\ Len(sess.ids) \in Nat
      /\ DOMAIN sess.ids = 1..Len(sess.ids) /\ \A i \in DOMAIN sess.ids : sess.ids[i] \in People
  BY DEF Lines
<1>2. PageSize \in Nat \ {0} /\ sess.cursor + PageSize \in Nat
  BY <1>1, PeopleAreFew
<1>3. Claimed(sess) = IF sess.cursor + PageSize < Len(sess.ids) THEN sess.cursor + PageSize ELSE Len(sess.ids)
  BY <1>1, <1>2, LesserOfTwo DEF Claimed
<1>4. /\ Claimed(sess) \in Nat /\ sess.cursor <= Claimed(sess) /\ Claimed(sess) <= Len(sess.ids)
  BY <1>1, <1>2, <1>3
<1> DEFINE taken == SubSeq(sess.ids, sess.cursor + 1, Claimed(sess))
<1>5. /\ taken \in Seq(People) /\ Len(taken) = Claimed(sess) - sess.cursor
      /\ \A i \in 1..(Claimed(sess) - sess.cursor) : taken[i] = sess.ids[sess.cursor + i]
  BY <1>1, <1>4, SubSeqProperties, SMTT(30)
<1>6. Batch(sess) = ToSet(taken)
  BY DEF Batch, Claimed
<1> HIDE DEF taken
<1>7. DOMAIN taken = 1..(Claimed(sess) - sess.cursor)
  BY <1>5
<1>8. Batch(sess) = {taken[i] : i \in 1..(Claimed(sess) - sess.cursor)}
  BY <1>6, <1>7 DEF ToSet
<1>9. Batch(sess) = {sess.ids[i] : i \in (sess.cursor + 1)..Claimed(sess)}
  <2>1. \A i \in 1..(Claimed(sess) - sess.cursor) :
          sess.cursor + i \in (sess.cursor + 1)..Claimed(sess) /\ taken[i] = sess.ids[sess.cursor + i]
    BY <1>1, <1>4, <1>5
  <2>2. \A i \in (sess.cursor + 1)..Claimed(sess) :
          i - sess.cursor \in 1..(Claimed(sess) - sess.cursor) /\ taken[i - sess.cursor] = sess.ids[i]
    <3>1. \A i \in (sess.cursor + 1)..Claimed(sess) :
            i - sess.cursor \in 1..(Claimed(sess) - sess.cursor) /\ sess.cursor + (i - sess.cursor) = i
      BY <1>1, <1>4
    <3> QED BY <1>5, <3>1
  <2> QED BY <1>8, <2>1, <2>2
<1>10. (sess.cursor + 1)..Claimed(sess) \subseteq DOMAIN sess.ids
  BY <1>1, <1>4
<1> QED
  BY <1>1, <1>3, <1>4, <1>9, <1>10

(* A line after an erasure. *)
LEMMA LineClosesUp ==
  ASSUME NEW sess \in Lines, sess.cursor <= Len(sess.ids),
         \A i, j \in DOMAIN sess.ids : sess.ids[i] = sess.ids[j] => i = j, NEW c
  PROVE  /\ Without(sess, c) \in Lines /\ Without(sess, c).cursor <= Len(Without(sess, c).ids)
         /\ \A i, j \in DOMAIN Without(sess, c).ids : Without(sess, c).ids[i] = Without(sess, c).ids[j] => i = j
         /\ \A i \in DOMAIN Without(sess, c).ids :
              /\ Without(sess, c).ids[i] # c
              /\ \E j \in DOMAIN sess.ids : Without(sess, c).ids[i] = sess.ids[j]
<1>1. sess.cursor \in Nat /\ sess.ids \in Seq(People) /\ Len(sess.ids) \in Nat
      /\ DOMAIN sess.ids = 1..Len(sess.ids)
  BY DEF Lines
<1>2. c \in ToSet(sess.ids) <=> \E i \in DOMAIN sess.ids : sess.ids[i] = c
  BY DEF ToSet
<1>3. CASE c \notin ToSet(sess.ids)
  BY <1>2, <1>3 DEF Without
<1>4. CASE c \in ToSet(sess.ids)
  <2> DEFINE n == TurnOf(sess.ids, c)
             line == RemoveAt(sess.ids, n)
             mark == IF n <= sess.cursor THEN sess.cursor - 1 ELSE sess.cursor
  <2>1. n \in DOMAIN sess.ids /\ sess.ids[n] = c
    BY <1>2, <1>4 DEF TurnOf
  <2> HIDE DEF n
  <2>2. /\ line \in Seq(People) /\ Len(line) = Len(sess.ids) - 1 /\ DOMAIN line = 1..(Len(sess.ids) - 1)
        /\ \A j \in 1..(Len(sess.ids) - 1) : line[j] = IF j < n THEN sess.ids[j] ELSE sess.ids[j + 1]
    <3>1. sess.ids \in Seq(People) /\ n \in DOMAIN sess.ids
      BY <1>1, <2>1
    <3> QED BY <3>1, RemovedAt
  <2>3. mark \in Nat /\ mark <= Len(sess.ids) - 1
    BY <1>1, <2>1
  <2>4. Without(sess, c) = [ids |-> line, cursor |-> mark]
    BY <1>4 DEF Without, n
  <2> HIDE DEF line, mark
  <2>5. Without(sess, c) \in Lines /\ Without(sess, c).ids = line /\ Without(sess, c).cursor = mark
    BY <2>2, <2>3, <2>4 DEF Lines
  <2> DEFINE was(j) == IF j < n THEN j ELSE j + 1
  <2>6. \A j \in DOMAIN line : was(j) \in DOMAIN sess.ids /\ was(j) # n /\ line[j] = sess.ids[was(j)]
    BY <1>1, <2>1, <2>2
  <2>7. \A i, j \in DOMAIN line : was(i) = was(j) => i = j
    BY <1>1, <2>1, <2>2
  <2> HIDE DEF was
  <2>8. \A i, j \in DOMAIN line : line[i] = line[j] => i = j
    BY <2>6, <2>7
  <2>9. \A i \in DOMAIN line : line[i] # c /\ \E j \in DOMAIN sess.ids : line[i] = sess.ids[j]
    BY <2>1, <2>6
  <2> QED BY <2>2, <2>3, <2>5, <2>8, <2>9
<1> QED
  BY <1>3, <1>4

LEMMA SearchPeopleStep ==
  ASSUME SearchInv, NEW c \in People, SaveCv(c) \/ BumpVersion(c) \/ Withdraw(c) \/ Return(c)
  PROVE  SearchInv'
<1>1. /\ text \in [People -> CvVersions] /\ version \in [People -> CvVersions]
      /\ \A d \in People : version[d] <= text[d] /\ (d \in saving => version[d] < text[d])
      /\ saving \subseteq People /\ crossed \subseteq People /\ withdrawn \subseteq People /\ gone \subseteq People
      /\ DOMAIN cache \subseteq People \X CvVersions
  BY DEF SearchInv, SearchTables
<1>2. MaxVersion \in Nat /\ CvVersions = 1..MaxVersion
  BY PeopleAreFew DEF CvVersions
<1>3. /\ UNCHANGED <<gone, jobKnown, cache, sessions, shown, request, spent>> /\ page' = {}
      /\ crossed \subseteq crossed'
  BY DEF SaveCv, BumpVersion, Withdraw, Return
<1>4. SearchLines' /\ SearchRequests' /\ CeilingKept' /\ JudgementsAreBought' /\ ShownMayBeSeen'
  BY <1>3 DEF SearchInv, SearchLines, IsLine, SearchRequests, CeilingKept, Pending, JudgementsAreBought,
              ShownMayBeSeen
<1>5. CASE SaveCv(c)
  <2>1. /\ c \notin saving /\ text[c] < MaxVersion /\ text' = [text EXCEPT ![c] = text[c] + 1]
        /\ saving' = saving \cup {c} /\ UNCHANGED <<version, withdrawn>>
        /\ crossed' = crossed \cup {d \in {c} : \E q \in Requests :
                                      request[q].stage = "judge" /\ d \in DOMAIN request[q].reads}
    BY <1>5 DEF SaveCv
  <2>2. /\ text' \in [People -> CvVersions] /\ text'[c] = text[c] + 1
        /\ \A d \in People : d # c => text'[d] = text[d]
    BY <1>1, <1>2, <2>1
  <2>3. \A d \in People : version[d] <= text'[d] /\ (d \in saving' => version[d] < text'[d])
    BY <1>1, <1>2, <2>1, <2>2
  <2>4. SearchTables'
    BY <1>1, <1>3, <2>1, <2>2, <2>3 DEF SearchInv, SearchTables
  <2>5. JudgedFairly'
    <3> SUFFICES ASSUME NEW d \in People \ (gone \cup crossed')
                 PROVE  /\ \A k \in DOMAIN cache : k[1] = d => k[2] <= version[d]
                        /\ d \notin saving' => (<<d, version[d]>> \in DOMAIN cache => cache[<<d, version[d]>>] = text'[d])
                        /\ \A q \in Requests : request[q].stage = "judge" /\ d \in DOMAIN request[q].reads
                                               => request[q].reads[d] = text'[d]
      BY <1>3, <2>1 DEF JudgedFairly, JudgedAsItIs
    <3>1. CASE d = c
      BY <2>1, <3>1 DEF SearchInv, JudgedFairly
    <3>2. CASE d # c
      BY <1>3, <2>1, <2>2, <3>2 DEF SearchInv, JudgedFairly, JudgedAsItIs
    <3> QED BY <3>1, <3>2
  <2> QED BY <1>4, <2>4, <2>5 DEF SearchInv
<1>6. CASE BumpVersion(c)
  <2>1. /\ c \in saving \ gone /\ version' = [version EXCEPT ![c] = version[c] + 1]
        /\ saving' = saving \ {c} /\ UNCHANGED <<text, crossed, withdrawn>>
    BY <1>6 DEF BumpVersion
  <2>2. /\ version' \in [People -> CvVersions] /\ version'[c] = version[c] + 1
        /\ \A d \in People : d # c => version'[d] = version[d]
    BY <1>1, <1>2, <2>1
  <2>3. \A d \in People : version'[d] <= text[d] /\ (d \in saving' => version'[d] < text[d])
    BY <1>1, <1>2, <2>1, <2>2
  <2>4. SearchTables'
    BY <1>1, <1>3, <2>1, <2>2, <2>3 DEF SearchInv, SearchTables
  <2>5. JudgedFairly'
    <3> SUFFICES ASSUME NEW d \in People \ (gone \cup crossed)
                 PROVE  /\ \A k \in DOMAIN cache : k[1] = d => k[2] <= version'[d]
                        /\ d \notin saving' => (<<d, version'[d]>> \in DOMAIN cache => cache[<<d, version'[d]>>] = text[d])
                        /\ \A q \in Requests : request[q].stage = "judge" /\ d \in DOMAIN request[q].reads
                                               => request[q].reads[d] = text[d]
      BY <1>3, <2>1 DEF JudgedFairly, JudgedAsItIs
    <3>0. \A k \in DOMAIN cache : k[1] = d => k[2] <= version[d]
      BY DEF SearchInv, JudgedFairly
    <3>1. CASE d = c
      <4>1. \A k \in DOMAIN cache : k[1] = d => k[2] < version'[d]
        BY <1>1, <1>2, <2>2, <3>0, <3>1
      <4>2. <<d, version'[d]>> \notin DOMAIN cache
        <5> SUFFICES ASSUME <<d, version'[d]>> \in DOMAIN cache PROVE FALSE
          OBVIOUS
        <5>1. <<d, version'[d]>>[1] = d /\ <<d, version'[d]>>[2] = version'[d]
          OBVIOUS
        <5>2. version'[d] < version'[d] /\ version'[d] \in Int
          BY <1>1, <1>2, <2>2, <4>1, <5>1
        <5> QED BY <5>2
      <4>3. \A k \in DOMAIN cache : k[1] = d => k[2] <= version'[d]
        BY <1>1, <1>2, <2>2, <4>1
      <4> QED BY <4>2, <4>3 DEF SearchInv, JudgedFairly
    <3>2. CASE d # c
      BY <1>3, <2>1, <2>2, <3>0, <3>2 DEF SearchInv, JudgedFairly, JudgedAsItIs
    <3> QED BY <3>1, <3>2
  <2> QED BY <1>4, <2>4, <2>5 DEF SearchInv
<1>7. CASE Withdraw(c) \/ Return(c)
  <2>1. UNCHANGED <<text, version, saving, crossed>> /\ withdrawn' \subseteq People
    BY <1>1, <1>7 DEF Withdraw, Return
  <2>2. SearchTables'
    BY <1>3, <2>1 DEF SearchInv, SearchTables
  <2>3. JudgedFairly'
    BY <1>3, <2>1 DEF SearchInv, JudgedFairly, JudgedAsItIs
  <2> QED BY <1>4, <2>2, <2>3 DEF SearchInv
<1> QED
  BY <1>5, <1>6, <1>7

LEMMA SearchErase ==
  ASSUME SearchInv, NEW c \in People, Erase(c)
  PROVE  SearchInv'
<1>1. /\ gone' = gone \cup {c} /\ version' = [version EXCEPT ![c] = 1]
      /\ cache' = [k \in {k \in DOMAIN cache : k[1] # c} |-> cache[k]]
      /\ sessions' = [s \in DOMAIN sessions |-> Without(sessions[s], c)]
      /\ shown' = [s \in DOMAIN shown |-> shown[s] \ {c}] /\ page' = {}
      /\ UNCHANGED <<text, saving, crossed, withdrawn, jobKnown, request, spent>>
  BY DEF Erase
<1>2. /\ text \in [People -> CvVersions] /\ version \in [People -> CvVersions]
      /\ \A d \in People : version[d] <= text[d] /\ (d \in saving => version[d] < text[d])
      /\ IsFiniteSet(DOMAIN cache) /\ DOMAIN cache \subseteq People \X CvVersions
      /\ (\A k \in DOMAIN cache : cache[k] \in CvVersions) /\ spent \in Nat
      /\ Cardinality(DOMAIN cache) <= spent
  BY DEF SearchInv, SearchTables, JudgementsAreBought
<1>3. MaxVersion \in Nat \ {0} /\ CvVersions = 1..MaxVersion
  BY PeopleAreFew DEF CvVersions
<1>4. /\ DOMAIN cache' \subseteq DOMAIN cache /\ \A k \in DOMAIN cache' : cache'[k] = cache[k] /\ k[1] # c
  BY <1>1
<1>5. IsFiniteSet(DOMAIN cache') /\ Cardinality(DOMAIN cache') <= Cardinality(DOMAIN cache)
      /\ Cardinality(DOMAIN cache') \in Nat /\ Cardinality(DOMAIN cache) \in Nat
  BY <1>2, <1>4, FS_Subset, FS_CardinalityType
<1>6. /\ version' \in [People -> CvVersions]
      /\ \A d \in People : version'[d] = IF d = c THEN 1 ELSE version[d]
  BY <1>1, <1>2, <1>3
<1>7. \A d \in People : version'[d] <= text[d] /\ (d \in saving => version'[d] < text[d])
  BY <1>2, <1>3, <1>6
<1>8. SearchTables'
  BY <1>1, <1>2, <1>4, <1>5, <1>6, <1>7 DEF SearchInv, SearchTables
<1>9. SearchLines'
  <2>1. /\ sessions \in Seq(Lines) /\ Len(sessions) \in Nat /\ DOMAIN sessions = 1..Len(sessions)
        /\ shown \in Seq(SUBSET People) /\ Len(shown) = Len(sessions) /\ DOMAIN shown = 1..Len(shown)
        /\ Len(sessions) <= MaxSessions
        /\ \A n \in DOMAIN sessions : sessions[n] \in Lines /\ IsLine(sessions[n])
    BY DEF SearchInv, SearchLines
  <2> DEFINE closed == [n \in DOMAIN sessions |-> Without(sessions[n], c)]
             left == [n \in DOMAIN shown |-> shown[n] \ {c}]
  <2>2. \A n \in DOMAIN sessions :
          /\ Without(sessions[n], c) \in Lines /\ Without(sessions[n], c).cursor <= Len(Without(sessions[n], c).ids)
          /\ \A i, j \in DOMAIN Without(sessions[n], c).ids :
               Without(sessions[n], c).ids[i] = Without(sessions[n], c).ids[j] => i = j
          /\ \A i \in DOMAIN Without(sessions[n], c).ids :
               /\ Without(sessions[n], c).ids[i] # c
               /\ \E j \in DOMAIN sessions[n].ids : Without(sessions[n], c).ids[i] = sessions[n].ids[j]
    BY <2>1, LineClosesUp DEF IsLine
  <2>3. \A n \in DOMAIN sessions : closed[n] = Without(sessions[n], c)
    OBVIOUS
  <2>4. closed \in [1..Len(sessions) -> Lines]
    BY <2>1, <2>2
  <2>5. left \in [1..Len(shown) -> SUBSET People]
    BY <2>1
  <2>6. sessions' = closed /\ shown' = left
    BY <1>1
  <2> HIDE DEF closed, left
  <2>7. sessions' \in Seq(Lines) /\ Len(sessions') = Len(sessions) /\ DOMAIN sessions' = DOMAIN sessions
        /\ shown' \in Seq(SUBSET People) /\ Len(shown') = Len(sessions)
    BY <2>1, <2>4, <2>5, <2>6, FunctionIsSeq
  <2>8. ASSUME NEW n \in DOMAIN sessions
        PROVE  /\ sessions'[n].cursor <= Len(sessions'[n].ids)
               /\ \A i, j \in DOMAIN sessions'[n].ids : sessions'[n].ids[i] = sessions'[n].ids[j] => i = j
               /\ \A i \in DOMAIN sessions'[n].ids : sessions'[n].ids[i] \notin gone'
    <3>1. sessions'[n] = Without(sessions[n], c)
      BY <2>3, <2>6
    <3>2. \A j \in DOMAIN sessions[n].ids : sessions[n].ids[j] \notin gone
      BY <2>1 DEF IsLine
    <3> QED BY <1>1, <2>2, <3>1, <3>2
  <2> QED BY <2>1, <2>7, <2>8 DEF SearchLines, IsLine
<1>10. DOMAIN sessions' = DOMAIN sessions
  BY <1>1
<1>11. SearchRequests' /\ CeilingKept' /\ ShownMayBeSeen'
  BY <1>1, <1>10 DEF SearchInv, SearchRequests, CeilingKept, Pending, ShownMayBeSeen
<1>12. JudgementsAreBought'
  BY <1>1, <1>2, <1>5 DEF JudgementsAreBought
<1>13. JudgedFairly'
  <2> SUFFICES ASSUME NEW d \in People \ (gone' \cup crossed)
               PROVE  /\ \A k \in DOMAIN cache' : k[1] = d => k[2] <= version'[d]
                      /\ d \notin saving => (<<d, version'[d]>> \in DOMAIN cache' => cache'[<<d, version'[d]>>] = text[d])
                      /\ \A q \in Requests : request[q].stage = "judge" /\ d \in DOMAIN request[q].reads
                                             => request[q].reads[d] = text[d]
    BY <1>1 DEF JudgedFairly, JudgedAsItIs
  <2>1. d # c /\ d \in People \ (gone \cup crossed) /\ version'[d] = version[d]
    BY <1>1, <1>6
  <2> QED BY <1>4, <2>1 DEF SearchInv, JudgedFairly, JudgedAsItIs
<1> QED
  BY <1>8, <1>9, <1>11, <1>12, <1>13 DEF SearchInv

(* Requests up to the await of the job profile. *)
LEMMA SearchBegins ==
  ASSUME SearchInv, NEW q \in Requests,
         (\E refresh \in BOOLEAN : BeginSearch(q, refresh)) \/ (\E n \in DOMAIN sessions : BeginMore(q, n))
  PROVE  SearchInv'
<1>1. /\ request[q] = NoRequest /\ page' = {} /\ jobKnown' \in BOOLEAN
      /\ UNCHANGED <<peopleVars, cache, sessions, shown, spent>>
  BY DEF BeginSearch, BeginMore, SearchInv, SearchTables
<1>2. UNCHANGED <<text, version, saving, crossed, withdrawn, gone, cache, sessions, shown, spent>>
  BY <1>1 DEF peopleVars
<1>3. SearchRequests' /\ Pending' = Pending /\ \A p \in Requests : p # q => request'[p] = request[p]
  <2>0. request[q].stage # "judge" /\ SearchRequests /\ DOMAIN request = Requests /\ sessions' = sessions
    BY <1>1 DEF NoRequest, SearchInv, SearchRequests
  <2>1. ASSUME NEW refresh \in BOOLEAN, BeginSearch(q, refresh)
        PROVE  SearchRequests' /\ Pending' = Pending /\ \A p \in Requests : p # q => request'[p] = request[p]
    <3> DEFINE r == [stage |-> "retrieve", resume |-> jobKnown /\ ~refresh]
    <3>1. request' = [request EXCEPT ![q] = r] /\ r.stage = "retrieve"
      BY <2>1 DEF BeginSearch
    <3> HIDE DEF r
    <3>2. SearchRequests' /\ Pending' = Pending
      BY <2>0, <3>1, RequestGoesOn
    <3> QED BY <2>0, <3>1, <3>2
  <2>2. ASSUME NEW n \in DOMAIN sessions, BeginMore(q, n)
        PROVE  SearchRequests' /\ Pending' = Pending /\ \A p \in Requests : p # q => request'[p] = request[p]
    <3> DEFINE r == [stage |-> "more", session |-> n]
    <3>1. request' = [request EXCEPT ![q] = r] /\ r.stage = "more" /\ r.session = n
      BY <2>2 DEF BeginMore
    <3> HIDE DEF r
    <3>2. SearchRequests' /\ Pending' = Pending
      BY <2>0, <3>1, RequestGoesOn
    <3> QED BY <2>0, <3>1, <3>2
  <2> QED BY <2>1, <2>2
<1>4. request'[q].stage # "judge"
  BY <1>1 DEF BeginSearch, BeginMore, SearchInv, SearchRequests
<1>5. SearchTables' /\ SearchLines' /\ JudgementsAreBought' /\ ShownMayBeSeen'
  BY <1>1, <1>2 DEF SearchInv, SearchTables, SearchLines, IsLine, JudgementsAreBought, ShownMayBeSeen
<1>6. CeilingKept'
  BY <1>2, <1>3 DEF SearchInv, CeilingKept
<1>7. JudgedFairly'
  BY <1>2, <1>3, <1>4 DEF SearchInv, JudgedFairly, JudgedAsItIs
<1> QED
  BY <1>3, <1>5, <1>6, <1>7 DEF SearchInv

(* Everybody who may be found, in the order they rank. *)
LEMMA PoolIsALine ==
  ASSUME SearchTables, NEW pool \in SetToSeqs(Eligible)
  PROVE  /\ [ids |-> pool, cursor |-> 0] \in Lines /\ pool \in Seq(People) /\ Len(pool) \in Nat
         /\ \A i, j \in DOMAIN pool : pool[i] = pool[j] => i = j
         /\ \A i \in DOMAIN pool : pool[i] \notin gone
<1>1. Eligible \subseteq People /\ \A c \in Eligible : c \notin gone
  BY DEF Eligible
<1>2. Cardinality(Eligible) \in Nat
  BY <1>1, PeopleAreFew, FS_Subset, FS_CardinalityType
<1>3. /\ pool \in [1..Cardinality(Eligible) -> Eligible]
      /\ \A i, j \in 1..Cardinality(Eligible) : i # j => pool[i] # pool[j]
  BY DEF SetToSeqs
<1>4. pool \in [1..Cardinality(Eligible) -> People]
  BY <1>1, <1>3
<1>5. pool \in Seq(People) /\ Len(pool) = Cardinality(Eligible) /\ DOMAIN pool = 1..Cardinality(Eligible)
  BY <1>2, <1>4, FunctionIsSeq
<1> QED
  BY <1>1, <1>2, <1>3, <1>5 DEF Lines

(* Resuming, retrieving and showing more. *)
LEMMA SearchJudges ==
  ASSUME SearchInv, NEW q \in Requests, Resume(q) \/ Retrieve(q) \/ ShowMore(q)
  PROVE  SearchInv'
<1>1. /\ request[q].stage # "judge" /\ page' = {} /\ UNCHANGED <<peopleVars, jobKnown, cache, spent>>
  BY DEF Resume, Retrieve, ShowMore
<1>2. UNCHANGED <<text, version, saving, crossed, withdrawn, gone, jobKnown, cache, spent>>
  BY <1>1 DEF peopleVars
<1>3. SearchTables' /\ JudgementsAreBought' /\ ShownMayBeSeen'
  BY <1>1, <1>2 DEF SearchInv, SearchTables, JudgementsAreBought, ShownMayBeSeen
<1>4. /\ sessions \in Seq(Lines) /\ Len(sessions) \in Nat /\ DOMAIN sessions = 1..Len(sessions)
      /\ shown \in Seq(SUBSET People) /\ Len(shown) = Len(sessions) /\ DOMAIN shown = 1..Len(sessions)
      /\ Len(sessions) <= MaxSessions
      /\ \A n \in DOMAIN sessions : sessions[n] \in Lines /\ IsLine(sessions[n])
      /\ \A n \in DOMAIN sessions : shown[n] \subseteq People
  BY DEF SearchInv, SearchLines
<1>5. SearchTables /\ SearchRequests /\ CeilingKept /\ JudgedFairly
  BY DEF SearchInv
<1>6. ASSUME NEW n \in DOMAIN sessions', NEW ids \in SUBSET People, NEW resumed, SearchLines',
             request' = [request EXCEPT ![q] = Judging(n, ids, resumed)], DOMAIN sessions \subseteq DOMAIN sessions'
      PROVE  SearchInv'
  <2>1. SearchRequests' /\ CeilingKept' /\ JudgedFairly'
    BY <1>1, <1>5, <1>6, JudgingBegins
  <2> QED BY <1>3, <1>6, <2>1 DEF SearchInv
<1>7. CASE Resume(q)
  <2>1. /\ sessions # <<>> /\ UNCHANGED <<sessions, shown>>
        /\ request' = [request EXCEPT ![q] = Judging(Len(sessions), Last(shown), TRUE)]
    BY <1>7 DEF Resume
  <2>2. Len(sessions) \in DOMAIN sessions
    BY <1>4, <2>1
  <2>3. Last(shown) \in SUBSET People
    BY <1>4, <2>2 DEF Last
  <2>4. SearchLines'
    BY <1>2, <2>1 DEF SearchInv, SearchLines, IsLine
  <2> QED BY <1>6, <2>1, <2>2, <2>3, <2>4
<1>8. CASE Retrieve(q)
  <2>1. PICK pool \in SetToSeqs(Eligible) :
          LET new == [ids |-> pool, cursor |-> 0]
          IN  /\ sessions' = Append(sessions, [new EXCEPT !.cursor = Claimed(new)])
              /\ shown' = Append(shown, Batch(new))
              /\ request' = [request EXCEPT ![q] = Judging(Len(sessions'), Batch(new), FALSE)]
    BY <1>8 DEF Retrieve
  <2>2. Len(sessions) < MaxSessions
    BY <1>8 DEF Retrieve
  <2> DEFINE line == [ids |-> pool, cursor |-> 0]
             made == [line EXCEPT !.cursor = Claimed(line)]
  <2>3. /\ line \in Lines /\ line.ids = pool /\ line.cursor = 0 /\ Len(pool) \in Nat
        /\ \A i, j \in DOMAIN pool : pool[i] = pool[j] => i = j
        /\ \A i \in DOMAIN pool : pool[i] \notin gone
    BY <1>5, PoolIsALine
  <2> HIDE DEF line
  <2>4. Claimed(line) \in Nat /\ Claimed(line) <= Len(pool) /\ Batch(line) \subseteq People
    BY <2>3, PageClaimed
  <2>5. made \in Lines /\ made.ids = pool /\ made.cursor = Claimed(line)
    BY <2>3, <2>4 DEF Lines
  <2>6. sessions' = Append(sessions, made) /\ shown' = Append(shown, Batch(line))
        /\ request' = [request EXCEPT ![q] = Judging(Len(sessions'), Batch(line), FALSE)]
    BY <2>1 DEF line
  <2> HIDE DEF made
  <2>7. /\ sessions' \in Seq(Lines) /\ Len(sessions') = Len(sessions) + 1
        /\ DOMAIN sessions' = DOMAIN sessions \cup {Len(sessions')}
        /\ \A n \in DOMAIN sessions : sessions'[n] = sessions[n]
        /\ sessions'[Len(sessions')] = made
    BY <1>4, <2>5, <2>6
  <2>8. shown' \in Seq(SUBSET People) /\ Len(shown') = Len(sessions) + 1
    BY <1>4, <2>4, <2>6
  <2>9. \A n \in DOMAIN sessions' : IsLine(sessions'[n])
    <3>1. IsLine(made)
      BY <2>3, <2>4, <2>5 DEF IsLine
    <3> QED BY <1>4, <2>7, <3>1
  <2>10. MaxSessions \in Nat /\ Len(sessions') <= MaxSessions
    BY <1>4, <2>2, <2>7, PeopleAreFew
  <2>11. SearchLines'
    BY <1>2, <2>7, <2>8, <2>9, <2>10 DEF SearchLines, IsLine
  <2> QED BY <1>6, <2>4, <2>6, <2>7, <2>11
<1>9. CASE ShowMore(q)
  <2>1. PICK n \in {request[q].session} : TRUE
    OBVIOUS
  <2>2. n \in DOMAIN sessions
    BY <1>5, <1>9, <2>1 DEF ShowMore, SearchRequests
  <2>3. /\ sessions' = [sessions EXCEPT ![n].cursor = Claimed(sessions[n])]
        /\ shown' = [shown EXCEPT ![n] = shown[n] \cup Batch(sessions[n])]
        /\ request' = [request EXCEPT ![q] = Judging(n, Batch(sessions[n]), FALSE)]
    BY <1>9, <2>1 DEF ShowMore
  <2> DEFINE moved == [sessions[n] EXCEPT !.cursor = Claimed(sessions[n])]
  <2>4. sessions[n] \in Lines /\ IsLine(sessions[n])
    BY <1>4, <2>2
  <2>5. Claimed(sessions[n]) \in Nat /\ Claimed(sessions[n]) <= Len(sessions[n].ids) /\ Batch(sessions[n]) \subseteq People
    BY <2>4, PageClaimed DEF IsLine
  <2>6. moved \in Lines /\ moved.ids = sessions[n].ids /\ moved.cursor = Claimed(sessions[n])
    BY <2>4, <2>5 DEF Lines
  <2>7. sessions' = [sessions EXCEPT ![n] = moved]
    BY <2>3
  <2> HIDE DEF moved
  <2>8. /\ sessions' \in Seq(Lines) /\ Len(sessions') = Len(sessions) /\ DOMAIN sessions' = DOMAIN sessions
        /\ \A k \in DOMAIN sessions : sessions'[k] = IF k = n THEN moved ELSE sessions[k]
    BY <1>4, <2>2, <2>6, <2>7
  <2>9. shown' \in Seq(SUBSET People) /\ Len(shown') = Len(sessions)
    BY <1>4, <2>2, <2>3, <2>5
  <2>10. \A k \in DOMAIN sessions' : IsLine(sessions'[k])
    <3>1. IsLine(moved)
      BY <2>4, <2>5, <2>6 DEF IsLine
    <3> QED BY <1>4, <2>8, <3>1
  <2>11. SearchLines'
    BY <1>2, <1>4, <2>8, <2>9, <2>10 DEF SearchLines, IsLine
  <2> QED BY <1>6, <2>2, <2>3, <2>5, <2>8, <2>11
<1> QED
  BY <1>7, <1>8, <1>9

(* The answer comes back and what was bought is kept. *)
LEMMA SearchResponds ==
  ASSUME SearchInv, NEW q \in Requests, NEW answered \in SUBSET People, Respond(q, answered)
  PROVE  SearchInv'
<1>1. PICK reads \in {request[q].reads} : TRUE
  OBVIOUS
<1>2. PICK n \in {request[q].session} : TRUE
  OBVIOUS
<1>3. /\ request[q].stage = "judge" /\ answered \subseteq DOMAIN reads
      /\ cache' = Cached(reads, answered) /\ spent' = spent + Cardinality(answered)
      /\ \/ request' = [request EXCEPT ![q] = [stage |-> "retrieve", resume |-> FALSE]] /\ page' = {}
         \/ request' = [request EXCEPT ![q] = NoRequest] /\ page' = Visible(n)
      /\ UNCHANGED <<peopleVars, jobKnown, sessions, shown>>
  BY <1>1, <1>2 DEF Respond
<1>4. UNCHANGED <<text, version, saving, crossed, withdrawn, gone, jobKnown, sessions, shown>>
  BY <1>3 DEF peopleVars
<1>5. /\ DOMAIN request = Requests /\ n \in DOMAIN sessions /\ DOMAIN reads \subseteq People
      /\ \A c \in DOMAIN reads : reads[c] \in CvVersions
  BY <1>1, <1>2, <1>3 DEF SearchInv, SearchRequests
<1>6. /\ DOMAIN request' = Requests /\ request'[q].stage \in {"retrieve", "free"}
      /\ \A p \in Requests : p # q => request'[p] = request[p]
  BY <1>3, <1>5 DEF NoRequest
<1>7. SearchLines' /\ SearchRequests'
  <2>1. SearchLines'
    BY <1>4 DEF SearchInv, SearchLines, IsLine
  <2>2. SearchRequests'
    BY <1>4, <1>6 DEF SearchInv, SearchRequests
  <2> QED BY <2>1, <2>2
<1>8. /\ version \in [People -> CvVersions] /\ spent \in Nat /\ IsFiniteSet(DOMAIN cache)
      /\ DOMAIN cache \subseteq People \X CvVersions /\ \A k \in DOMAIN cache : cache[k] \in CvVersions
  BY DEF SearchInv, SearchTables
<1>9. /\ IsFiniteSet(answered) /\ IsFiniteSet(DOMAIN reads)
      /\ Cardinality(answered) \in Nat /\ Cardinality(DOMAIN reads) \in Nat
      /\ Cardinality(answered) <= Cardinality(DOMAIN reads)
  BY <1>3, <1>5, PeopleAreFew, FS_Subset, FS_CardinalityType
<1> DEFINE key == [c \in answered |-> <<c, version[c]>>]
           new == {key[c] : c \in answered}
<1>10. IsFiniteSet(new) /\ Cardinality(new) <= Cardinality(answered)
  BY <1>9, ValuesAreFinite
<1>11. new = {<<c, version[c]>> : c \in answered} /\ new \subseteq People \X CvVersions
  BY <1>8
<1>12. \A k \in new : k[1] \in answered /\ k = <<k[1], version[k[1]]>> /\ k[2] = version[k[1]]
  OBVIOUS
<1>13. \A c \in People : <<c, version[c]>> \in new => c \in answered
  OBVIOUS
<1>14. /\ DOMAIN cache' = new \cup DOMAIN cache
       /\ \A k \in DOMAIN cache' : cache'[k] = IF k \in new THEN reads[k[1]] ELSE cache[k]
  BY <1>3, <1>11 DEF Cached
<1> HIDE DEF key, new
<1>15. IsFiniteSet(DOMAIN cache') /\ DOMAIN cache' \subseteq People \X CvVersions
  <2>1. IsFiniteSet(new \cup DOMAIN cache)
    BY <1>8, <1>10, FS_Union
  <2> QED BY <1>8, <1>11, <1>14, <2>1
<1>16. \A k \in DOMAIN cache' : cache'[k] \in CvVersions
  BY <1>3, <1>5, <1>8, <1>12, <1>14
<1>17. page' \subseteq People /\ page' \cap (withdrawn \cup gone) = {}
  <2>1. shown[n] \subseteq People
    BY <1>5 DEF SearchInv, SearchLines
  <2> QED BY <1>3, <2>1 DEF Visible
<1>18. SearchTables' /\ ShownMayBeSeen'
  BY <1>3, <1>4, <1>8, <1>9, <1>15, <1>16, <1>17 DEF SearchInv, SearchTables, ShownMayBeSeen
<1>19. JudgementsAreBought'
  <2>1. Cardinality(DOMAIN cache) <= spent
    BY DEF SearchInv, JudgementsAreBought
  <2>2. Cardinality(DOMAIN cache') = Cardinality(new) + Cardinality(DOMAIN cache)
                                     - Cardinality(new \cap DOMAIN cache)
    BY <1>8, <1>10, <1>14, FS_Union
  <2>3. /\ Cardinality(new) \in Nat /\ Cardinality(DOMAIN cache) \in Nat
        /\ Cardinality(new \cap DOMAIN cache) \in Nat
    BY <1>8, <1>10, FS_Subset, FS_CardinalityType
  <2> QED BY <1>3, <1>8, <1>9, <1>10, <2>1, <2>2, <2>3 DEF JudgementsAreBought
<1>20. CeilingKept'
  <2>1. SearchRequests
    BY DEF SearchInv
  <2>2. Pending \in [Requests -> Int]
    BY <2>1, PendingType
  <2>3. Pending[q] = Cardinality(DOMAIN reads) /\ Pending'[q] = 0
        /\ \A p \in Requests \ {q} : Pending[p] = Pending'[p]
    BY <1>1, <1>3, <1>6 DEF Pending
  <2>4. Pending' \in [Requests -> Int]
    <3>1. \A p \in Requests : Pending'[p] \in Int
      BY <2>2, <2>3
    <3>2. Pending' = [p \in Requests |-> Pending'[p]]
      BY DEF Pending
    <3> QED BY <3>1, <3>2
  <2>5. TotalOver(Pending', Requests) = TotalOver(Pending, Requests) + (Pending'[q] - Pending[q])
    BY <2>2, <2>3, <2>4, PeopleAreFew, TotalOfOneChange
  <2>6. TotalOver(Pending, Requests) \in Int
    BY <2>2, PeopleAreFew, TotalType
  <2> DEFINE room == (Cardinality(Requests) - 1) * Cardinality(People)
  <2>7. room \in Int
    BY PeopleAreFew
  <2>8. spent + TotalOver(Pending, Requests) <= Cap + room
    BY DEF SearchInv, CeilingKept
  <2> HIDE DEF room
  <2>9. spent' + TotalOver(Pending', Requests) <= Cap + room
    BY <1>3, <1>8, <1>9, <2>3, <2>5, <2>6, <2>7, <2>8, PeopleAreFew
  <2> QED BY <2>9 DEF CeilingKept, room
<1>21. JudgedFairly'
  <2> SUFFICES ASSUME NEW c \in People \ (gone \cup crossed)
               PROVE  /\ \A k \in DOMAIN cache' : k[1] = c => k[2] <= version[c]
                      /\ c \notin saving => (<<c, version[c]>> \in DOMAIN cache' => cache'[<<c, version[c]>>] = text[c])
                      /\ \A p \in Requests : request'[p].stage = "judge" /\ c \in DOMAIN request'[p].reads
                                             => request'[p].reads[c] = text[c]
    BY <1>4 DEF JudgedFairly, JudgedAsItIs
  <2>1. /\ \A k \in DOMAIN cache : k[1] = c => k[2] <= version[c]
        /\ c \notin saving => (<<c, version[c]>> \in DOMAIN cache => cache[<<c, version[c]>>] = text[c])
        /\ \A p \in Requests : request[p].stage = "judge" /\ c \in DOMAIN request[p].reads
                               => request[p].reads[c] = text[c]
    BY DEF SearchInv, JudgedFairly, JudgedAsItIs
  <2>2. version[c] \in Int
    BY <1>8 DEF CvVersions
  <2>3. \A k \in DOMAIN cache' : k[1] = c => k[2] <= version[c]
    BY <1>12, <1>14, <2>1, <2>2
  <2>4. c \in DOMAIN reads => reads[c] = text[c]
    BY <1>1, <1>3, <2>1
  <2>5. ASSUME c \notin saving, <<c, version[c]>> \in DOMAIN cache'
        PROVE  cache'[<<c, version[c]>>] = text[c]
    <3>1. <<c, version[c]>>[1] = c
      OBVIOUS
    <3> QED BY <1>3, <1>13, <1>14, <2>1, <2>4, <2>5, <3>1
  <2>6. \A p \in Requests : request'[p].stage = "judge" /\ c \in DOMAIN request'[p].reads
                            => request'[p].reads[c] = text[c]
    BY <1>6, <2>1
  <2> QED BY <2>3, <2>5, <2>6
<1> QED
  BY <1>7, <1>18, <1>19, <1>20, <1>21 DEF SearchInv

(* The process dies. *)
LEMMA SearchRestarts ==
  ASSUME SearchInv, SearchRestart
  PROVE  SearchInv'
<1>1. /\ request' = [q \in Requests |-> NoRequest]
      /\ cache' = [k \in {k \in DOMAIN cache : k[1] \notin gone} |-> cache[k]]
      /\ saving' = {} /\ crossed' = crossed \cup saving /\ page' = {}
      /\ UNCHANGED <<text, version, withdrawn, gone, jobKnown, sessions, shown, spent>>
  BY DEF SearchRestart
<1>2. /\ version \in [People -> CvVersions] /\ text \in [People -> CvVersions]
      /\ spent \in Nat /\ IsFiniteSet(DOMAIN cache)
      /\ saving \subseteq People /\ crossed \subseteq People
      /\ Cardinality(DOMAIN cache) <= spent
  BY DEF SearchInv, SearchTables, JudgementsAreBought
<1>3. /\ DOMAIN cache' \subseteq DOMAIN cache /\ \A k \in DOMAIN cache' : cache'[k] = cache[k]
  BY <1>1
<1>4. IsFiniteSet(DOMAIN cache') /\ Cardinality(DOMAIN cache') <= Cardinality(DOMAIN cache)
      /\ Cardinality(DOMAIN cache') \in Nat /\ Cardinality(DOMAIN cache) \in Nat
  BY <1>2, <1>3, FS_Subset, FS_CardinalityType
<1>5. SearchTables' /\ ShownMayBeSeen' /\ JudgementsAreBought'
  <2>1. SearchTables'
    BY <1>1, <1>2, <1>3, <1>4 DEF SearchInv, SearchTables
  <2>2. JudgementsAreBought'
    BY <1>1, <1>2, <1>4 DEF JudgementsAreBought
  <2>3. ShownMayBeSeen'
    BY <1>1 DEF ShownMayBeSeen
  <2> QED BY <2>1, <2>2, <2>3
<1>6. \A q \in Requests : request'[q].stage = "free"
  BY <1>1 DEF NoRequest
<1>7. SearchLines' /\ SearchRequests'
  <2>1. SearchLines'
    BY <1>1 DEF SearchInv, SearchLines, IsLine
  <2>2. SearchRequests'
    BY <1>1, <1>6 DEF SearchRequests
  <2> QED BY <2>1, <2>2
<1>8. CeilingKept'
  <2>1. SearchRequests /\ CeilingKept
    BY DEF SearchInv
  <2>2. Pending \in [Requests -> Int] /\ \A q \in Requests : Pending[q] \in Nat
    BY <2>1, PendingType
  <2>3. Pending' \in [Requests -> Int] /\ \A q \in Requests : Pending'[q] = 0
    BY <1>6 DEF Pending
  <2>4. TotalOver(Pending', Requests) = 0
    BY <2>3, PeopleAreFew, TotalOfZeros
  <2>5. TotalOver(Pending', Requests) <= TotalOver(Pending, Requests)
    <3>1. \A q \in Requests : Pending'[q] <= Pending[q]
      BY <2>2, <2>3
    <3> QED BY <2>2, <2>3, <3>1, PeopleAreFew, TotalIsMonotone
  <2>6. TotalOver(Pending, Requests) \in Int
    BY <2>2, PeopleAreFew, TotalType
  <2> DEFINE room == (Cardinality(Requests) - 1) * Cardinality(People)
  <2>7. room \in Int
    BY PeopleAreFew
  <2>8. spent + TotalOver(Pending, Requests) <= Cap + room
    BY <2>1 DEF CeilingKept
  <2> HIDE DEF room
  <2>9. spent' + TotalOver(Pending', Requests) <= Cap + room
    BY <1>1, <1>2, <2>4, <2>5, <2>6, <2>7, <2>8, PeopleAreFew
  <2> QED BY <2>9 DEF CeilingKept, room
<1>9. JudgedFairly'
  <2> SUFFICES ASSUME NEW c \in People \ (gone \cup crossed')
               PROVE  /\ \A k \in DOMAIN cache' : k[1] = c => k[2] <= version[c]
                      /\ <<c, version[c]>> \in DOMAIN cache' => cache'[<<c, version[c]>>] = text[c]
    BY <1>1, <1>6 DEF JudgedFairly, JudgedAsItIs
  <2>1. c \in People \ (gone \cup crossed) /\ c \notin saving
    BY <1>1
  <2> QED BY <1>3, <2>1 DEF SearchInv, JudgedFairly, JudgedAsItIs
<1> QED
  BY <1>5, <1>7, <1>8, <1>9 DEF SearchInv

LEMMA SearchStarts ==
  ASSUME SearchInit
  PROVE  SearchInv
<1>1. /\ text = [c \in People |-> 1] /\ version = [c \in People |-> 1]
      /\ saving = {} /\ crossed = {} /\ withdrawn = {} /\ gone = {}
      /\ jobKnown = FALSE /\ cache = <<>> /\ sessions = <<>> /\ shown = <<>>
      /\ request = [q \in Requests |-> NoRequest] /\ spent = 0 /\ page = {}
  BY DEF SearchInit
<1>2. 1 \in CvVersions
  BY PeopleAreFew DEF CvVersions
<1>3. DOMAIN cache = {} /\ IsFiniteSet(DOMAIN cache) /\ Cardinality(DOMAIN cache) = 0
  BY <1>1, FS_EmptySet
<1>4. SearchTables /\ JudgementsAreBought /\ ShownMayBeSeen
  <2>1. \A c \in People : version[c] = 1 /\ text[c] = 1
    BY <1>1
  <2>2. text \in [People -> CvVersions] /\ version \in [People -> CvVersions]
    BY <1>1, <1>2
  <2>4. saving = {} /\ crossed \subseteq People /\ withdrawn \subseteq People /\ gone \subseteq People
        /\ page \subseteq People /\ jobKnown \in BOOLEAN /\ spent \in Nat
    BY <1>1
  <2>5. \A c \in People : version[c] <= text[c] /\ (c \in saving => version[c] < text[c])
    BY <2>1, <2>4
  <2>6. DOMAIN cache \subseteq People \X CvVersions /\ \A k \in DOMAIN cache : cache[k] \in CvVersions
    BY <1>3
  <2>3. SearchTables
    BY <1>3, <2>2, <2>4, <2>5, <2>6 DEF SearchTables
  <2> QED BY <1>1, <1>3, <2>3 DEF JudgementsAreBought, ShownMayBeSeen
<1>5. SearchLines /\ JudgedFairly
  <2>1. SearchLines
    BY <1>1, PeopleAreFew DEF SearchLines
  <2>2. JudgedFairly
    BY <1>1, <1>3 DEF JudgedFairly, JudgedAsItIs, NoRequest
  <2> QED BY <2>1, <2>2
<1>6. SearchRequests
  BY <1>1 DEF SearchRequests, NoRequest
<1>7. CeilingKept
  <2>1. Pending \in [Requests -> Int] /\ \A q \in Requests : Pending[q] = 0
    BY <1>1 DEF Pending, NoRequest
  <2>2. TotalOver(Pending, Requests) = 0
    BY <2>1, PeopleAreFew, TotalOfZeros
  <2>3. (Cardinality(Requests) - 1) * Cardinality(People) >= 0
    BY PeopleAreFew
  <2> DEFINE room == (Cardinality(Requests) - 1) * Cardinality(People)
  <2>4. room \in Int /\ room >= 0
    BY <2>3, PeopleAreFew
  <2> HIDE DEF room
  <2>5. spent + TotalOver(Pending, Requests) <= Cap + room
    BY <1>1, <2>2, <2>4, PeopleAreFew
  <2> QED BY <2>5 DEF CeilingKept, room
<1> QED
  BY <1>4, <1>5, <1>6, <1>7 DEF SearchInv

LEMMA SearchSteps ==
  ASSUME SearchInv, [SearchNext]_searchVars
  PROVE  SearchInv'
<1>0. Editors \subseteq People /\ Leavers \subseteq People
  BY SearchAssumption
<1>1. CASE UNCHANGED searchVars
  BY <1>1 DEF searchVars, peopleVars, SearchInv, SearchTables, SearchLines, IsLine, SearchRequests, CeilingKept,
              Pending, JudgedFairly, JudgedAsItIs, JudgementsAreBought, ShownMayBeSeen
<1>2. ASSUME NEW c \in Editors, SaveCv(c) \/ BumpVersion(c)
      PROVE  SearchInv'
  BY <1>0, <1>2, SearchPeopleStep
<1>3. ASSUME NEW c \in Leavers, Withdraw(c) \/ Return(c) \/ Erase(c)
      PROVE  SearchInv'
  BY <1>0, <1>3, SearchPeopleStep, SearchErase
<1>4. ASSUME NEW q \in Requests,
             \/ \E refresh \in BOOLEAN : BeginSearch(q, refresh)
             \/ \E s \in DOMAIN sessions : BeginMore(q, s)
             \/ Resume(q) \/ Retrieve(q) \/ ShowMore(q)
             \/ \E answered \in SUBSET People : Respond(q, answered)
      PROVE  SearchInv'
  BY <1>4, SearchBegins, SearchJudges, SearchResponds
<1>5. CASE SearchRestart
  BY <1>5, SearchRestarts
<1> QED
  BY <1>1, <1>2, <1>3, <1>4, <1>5 DEF SearchNext

(* The cache and the lines say as much as the type invariant asks. *)
LEMMA SearchInvIsSound ==
  ASSUME SearchInv
  PROVE  SearchIsSound
<1>1. ShownMayBeSeen /\ JudgementsAreBought
  BY DEF SearchInv
<1>2. CeilingBends
  <2>1. SearchRequests /\ CeilingKept /\ spent \in Nat
    BY DEF SearchInv, SearchTables
  <2>2. Pending \in [Requests -> Int] /\ \A q \in Requests : Pending[q] >= 0
    BY <2>1, PendingType
  <2> DEFINE none == [q \in Requests |-> 0]
  <2>3. none \in [Requests -> Int] /\ \A q \in Requests : none[q] = 0 /\ none[q] <= Pending[q]
    BY <2>2
  <2> HIDE DEF none
  <2>4. TotalOver(none, Requests) = 0 /\ TotalOver(none, Requests) <= TotalOver(Pending, Requests)
    BY <2>2, <2>3, PeopleAreFew, TotalOfZeros, TotalIsMonotone
  <2>5. TotalOver(Pending, Requests) \in Int
    BY <2>2, PeopleAreFew, TotalType
  <2> DEFINE room == (Cardinality(Requests) - 1) * Cardinality(People)
  <2>6. room \in Int
    BY PeopleAreFew
  <2>7. spent + TotalOver(Pending, Requests) <= Cap + room
    BY <2>1 DEF CeilingKept
  <2> HIDE DEF room
  <2>8. spent <= Cap + room
    BY <2>1, <2>4, <2>5, <2>6, <2>7, PeopleAreFew
  <2> QED BY <2>8 DEF CeilingBends, room
<1>3. CurrentUnlessCrossed
  BY DEF SearchInv, JudgedFairly, CurrentUnlessCrossed
<1>4. SearchTypeOK
  <2>1. Range(cache) \subseteq CvVersions
    BY DEF SearchInv, SearchTables, Range
  <2>2. ASSUME NEW n \in DOMAIN sessions
        PROVE  sessions[n].cursor \in 0..Len(sessions[n].ids) /\ ToSet(sessions[n].ids) \intersect gone = {}
    <3>1. sessions[n] \in Lines /\ IsLine(sessions[n])
      BY DEF SearchInv, SearchLines
    <3>2. sessions[n].cursor \in Nat /\ Len(sessions[n].ids) \in Nat
      BY <3>1 DEF Lines
    <3> QED BY <3>1, <3>2 DEF IsLine, ToSet
  <2> QED BY <2>1, <2>2 DEF SearchInv, SearchTables, SearchLines, SearchTypeOK
<1> QED
  BY <1>1, <1>2, <1>3, <1>4 DEF SearchIsSound

(* The pages shown and the judgements behind them: the ceiling bends by what is in
   flight and no more, a kept judgement was bought and is of the version it is kept
   under, nobody is shown who may not be (pipeline.js, analysis.js). *)
THEOREM SearchStaysSound == SearchSpec => []SearchIsSound
<1>1. SearchInit => SearchInv
  BY SearchStarts
<1>2. SearchInv /\ [SearchNext]_searchVars => SearchInv'
  BY SearchSteps
<1>3. SearchInv => SearchIsSound
  BY SearchInvIsSound
<1> QED
  BY <1>1, <1>2, <1>3, PTL DEF SearchSpec

-----------------------------------------------------------------------------
(* Searches hand their lines out page by page.                              *)

StillWaiting(sess) == SubSeq(sess.ids, sess.cursor + 1, Len(sess.ids))

LEMMA WaitingType ==
  ASSUME NEW sess \in Lines, sess.cursor <= Len(sess.ids)
  PROVE  /\ sess.cursor \in Nat /\ sess.ids \in Seq(People) /\ Len(sess.ids) \in Nat
         /\ DOMAIN sess.ids = 1..Len(sess.ids)
         /\ StillWaiting(sess) \in Seq(People) /\ Len(StillWaiting(sess)) = Len(sess.ids) - sess.cursor
         /\ DOMAIN StillWaiting(sess) = 1..(Len(sess.ids) - sess.cursor)
         /\ \A i \in 1..(Len(sess.ids) - sess.cursor) : StillWaiting(sess)[i] = sess.ids[sess.cursor + i]
<1>1. sess.cursor \in Nat /\ sess.ids \in Seq(People) /\ Len(sess.ids) \in Nat
      /\ DOMAIN sess.ids = 1..Len(sess.ids) /\ \A i \in DOMAIN sess.ids : sess.ids[i] \in People
  BY DEF Lines
<1> DEFINE rest == SubSeq(sess.ids, sess.cursor + 1, Len(sess.ids))
<1>2. /\ rest \in Seq(People) /\ Len(rest) = Len(sess.ids) - sess.cursor
      /\ \A i \in 1..(Len(sess.ids) - sess.cursor) : rest[i] = sess.ids[sess.cursor + i]
  <2>1. /\ \A i \in (sess.cursor + 1)..Len(sess.ids) : sess.ids[i] \in People
        /\ Len(sess.ids) \in Int /\ sess.cursor + 1 \in Int
    BY <1>1
  <2>2. /\ rest \in Seq(People)
        /\ Len(rest) = IF sess.cursor + 1 <= Len(sess.ids) THEN Len(sess.ids) - (sess.cursor + 1) + 1 ELSE 0
        /\ \A i \in 1..(Len(sess.ids) - (sess.cursor + 1) + 1) : rest[i] = sess.ids[(sess.cursor + 1) + i - 1]
    BY <2>1, SubSeqProperties
  <2> HIDE DEF rest
  <2>3. \A i \in 1..(Len(sess.ids) - sess.cursor) :
          i \in 1..(Len(sess.ids) - (sess.cursor + 1) + 1) /\ (sess.cursor + 1) + i - 1 = sess.cursor + i
    BY <1>1
  <2>4. \A i \in 1..(Len(sess.ids) - sess.cursor) : rest[i] = sess.ids[sess.cursor + i]
    BY <2>2, <2>3
  <2>5. Len(rest) = Len(sess.ids) - sess.cursor
    BY <1>1, <2>2
  <2> QED BY <2>2, <2>4, <2>5
<1> HIDE DEF rest
<1>3. DOMAIN rest = 1..(Len(sess.ids) - sess.cursor)
  BY <1>2
<1>4. StillWaiting(sess) = rest
  BY DEF StillWaiting, rest
<1> QED
  BY <1>1, <1>2, <1>3, <1>4

(* Who waits after a page is taken, and who is on it. *)
LEMMA PageIsNext ==
  ASSUME NEW sess \in Lines, sess.cursor <= Len(sess.ids),
         NEW moved \in Lines, moved.ids = sess.ids, moved.cursor = Claimed(sess)
  PROVE  /\ StillWaiting(moved) = Pages!AfterFirstPage(StillWaiting(sess))
         /\ Batch(sess) = Pages!FirstPage(StillWaiting(sess))
<1> DEFINE line == StillWaiting(sess)
           wait == StillWaiting(moved)
           n == Pages!Least(PageSize, Len(line))
<1>1. /\ sess.cursor \in Nat /\ sess.ids \in Seq(People) /\ Len(sess.ids) \in Nat
      /\ line \in Seq(People) /\ Len(line) = Len(sess.ids) - sess.cursor
      /\ \A i \in 1..(Len(sess.ids) - sess.cursor) : line[i] = sess.ids[sess.cursor + i]
  BY WaitingType
<1>2. /\ Claimed(sess) \in Nat /\ sess.cursor <= Claimed(sess) /\ Claimed(sess) <= Len(sess.ids)
      /\ Claimed(sess) = IF sess.cursor + PageSize < Len(sess.ids) THEN sess.cursor + PageSize ELSE Len(sess.ids)
      /\ Batch(sess) = {sess.ids[i] : i \in (sess.cursor + 1)..Claimed(sess)}
  BY PageClaimed
<1>3. /\ wait \in Seq(People) /\ Len(wait) = Len(sess.ids) - Claimed(sess)
      /\ \A i \in 1..(Len(sess.ids) - Claimed(sess)) : wait[i] = sess.ids[Claimed(sess) + i]
  <2>1. moved.cursor <= Len(moved.ids)
    BY <1>2
  <2> QED BY <2>1, WaitingType
<1>4. n \in Nat /\ n <= Len(line) /\ Claimed(sess) = sess.cursor + n
  BY <1>1, <1>2, PeopleAreFew DEF Pages!Least
<1> DEFINE after == SubSeq(line, n + 1, Len(line))
<1>5. /\ after \in Seq(People) /\ Len(after) = Len(line) - n
      /\ \A i \in 1..(Len(line) - n) : after[i] = line[n + i]
  <2>1. \A i \in (n + 1)..Len(line) : line[i] \in People
    BY <1>1, <1>4
  <2>2. Len(line) \in Nat /\ n + 1 \in Int /\ n \in Nat /\ n <= Len(line) /\ line \in Seq(People)
    BY <1>1, <1>4
  <2> HIDE DEF line, n
  <2>3. PICK m \in Int : m = n + 1
    BY <2>2
  <2>4. PICK S \in {SubSeq(line, m, Len(line))} : TRUE
    OBVIOUS
  <2>5. /\ S \in Seq(People)
        /\ Len(S) = IF m <= Len(line) THEN Len(line) - m + 1 ELSE 0
        /\ \A i \in 1..(Len(line) - m + 1) : S[i] = line[m + i - 1]
    <3>1. Len(line) \in Int /\ m \in Int /\ \A i \in m..Len(line) : line[i] \in People
      BY <2>1, <2>2, <2>3
    <3>2. /\ SubSeq(line, m, Len(line)) \in Seq(People)
          /\ Len(SubSeq(line, m, Len(line))) = IF m <= Len(line) THEN Len(line) - m + 1 ELSE 0
          /\ \A i \in 1..(Len(line) - m + 1) : SubSeq(line, m, Len(line))[i] = line[m + i - 1]
      BY <3>1, SubSeqProperties
    <3> QED BY <2>4, <3>2
  <2>6. Len(S) = Len(line) - n
    BY <2>2, <2>3, <2>5
  <2>7. \A i \in 1..(Len(line) - n) : S[i] = line[n + i]
    <3> SUFFICES ASSUME NEW i \in 1..(Len(line) - n)
                 PROVE  S[i] = line[n + i]
      OBVIOUS
    <3>1. m + i - 1 = n + i /\ i \in 1..(Len(line) - m + 1)
      BY <2>2, <2>3
    <3> QED BY <2>5, <3>1
  <2>8. S = after
    BY <2>3, <2>4
  <2> HIDE DEF after
  <2> QED BY <2>5, <2>6, <2>7, <2>8
<1>6. Pages!AfterFirstPage(line) = after /\ Pages!FirstPage(line) = {line[i] : i \in 1..n}
  BY DEF Pages!AfterFirstPage, Pages!FirstPage
<1> HIDE DEF line, wait, n, after
<1>7. wait = after
  <2>1. Len(wait) = Len(after)
    BY <1>1, <1>3, <1>4, <1>5
  <2>2. ASSUME NEW i \in 1..Len(wait) PROVE wait[i] = after[i]
    <3>1. i \in 1..(Len(sess.ids) - Claimed(sess))
      BY <1>3
    <3>2. PICK a \in Nat, b \in Nat, k \in Nat :
            a = Len(sess.ids) /\ b = sess.cursor /\ k = n /\ Claimed(sess) = b + k /\ Len(line) = a - b
      BY <1>1, <1>4
    <3>3. i \in 1..(a - (b + k))
      BY <3>1, <3>2
    <3>4. i \in 1..((a - b) - k) /\ k + i \in 1..(a - b) /\ b + (k + i) = (b + k) + i
      BY <3>3
    <3>5. i \in 1..(Len(line) - n) /\ n + i \in 1..(Len(sess.ids) - sess.cursor)
          /\ sess.cursor + (n + i) = Claimed(sess) + i
      BY <3>2, <3>4
    <3> QED BY <1>1, <1>3, <1>5, <3>1, <3>5
  <2> QED BY <1>3, <1>5, <2>1, <2>2, SeqEqual
<1>8. {line[i] : i \in 1..n} = {sess.ids[i] : i \in (sess.cursor + 1)..Claimed(sess)}
  <2>1. \A i \in 1..n : sess.cursor + i \in (sess.cursor + 1)..Claimed(sess) /\ line[i] = sess.ids[sess.cursor + i]
    BY <1>1, <1>4
  <2>2. \A i \in (sess.cursor + 1)..Claimed(sess) : i - sess.cursor \in 1..n /\ line[i - sess.cursor] = sess.ids[i]
    <3>1. \A i \in (sess.cursor + 1)..Claimed(sess) :
            i - sess.cursor \in 1..n /\ sess.cursor + (i - sess.cursor) = i
      BY <1>1, <1>4
    <3> QED BY <1>1, <1>4, <3>1, SMTT(30)
  <2> QED BY <2>1, <2>2
<1>9. Pages!AfterFirstPage(line) = wait /\ Pages!FirstPage(line) = Batch(sess)
  BY <1>2, <1>6, <1>7, <1>8
<1> QED
  BY <1>9 DEF line, wait

LEMMA ClosingUp ==
  ASSUME NEW w, NEW d
  PROVE  /\ d \notin ToSet(w) => Pages!ClosedUp(w, d) = w
         /\ \A i \in DOMAIN w :
              w[i] = d /\ (\A j \in DOMAIN w : w[j] = d => j = i)
              => Pages!ClosedUp(w, d) = RemoveAt(w, i)
<1>1. d \in ToSet(w) <=> \E i \in DOMAIN w : w[i] = d
  BY DEF ToSet
<1>2. d \notin ToSet(w) => Pages!ClosedUp(w, d) = w
  BY DEF Pages!ClosedUp, Pages!ToSet, ToSet
<1>3. ASSUME NEW i \in DOMAIN w, w[i] = d, \A j \in DOMAIN w : w[j] = d => j = i
      PROVE  Pages!ClosedUp(w, d) = RemoveAt(w, i)
  <2>1. (CHOOSE j \in DOMAIN w : w[j] = d) = i
    BY <1>3
  <2>2. d \in ToSet(w)
    BY <1>1, <1>3
  <2> QED BY <2>1, <2>2 DEF Pages!ClosedUp, Pages!ToSet, ToSet, Pages!RemoveAt, RemoveAt
<1> QED
  BY <1>2, <1>3

(* A place in what is left of a line, counted from its beginning. *)
LEMMA PlaceBehindTheMark ==
  ASSUME NEW long \in Nat, NEW mark \in Int, NEW turned \in Nat, mark = turned - 1, turned >= 1,
         NEW i \in Int, i >= 1, i <= long - turned
  PROVE  i \in 1..(long - 1 - mark) /\ i \in 1..(long - turned) /\ mark + i \in 1..(long - 1)
OBVIOUS

(* Who waits after somebody left the line. *)
LEMMA WaitingClosesUp ==
  ASSUME NEW sess \in Lines, sess.cursor <= Len(sess.ids),
         \A i, j \in DOMAIN sess.ids : sess.ids[i] = sess.ids[j] => i = j, NEW c
  PROVE  StillWaiting(Without(sess, c)) = Pages!ClosedUp(StillWaiting(sess), c)
<1> DEFINE line == StillWaiting(sess)
<1>1. /\ sess.cursor \in Nat /\ sess.ids \in Seq(People) /\ Len(sess.ids) \in Nat
      /\ DOMAIN sess.ids = 1..Len(sess.ids)
      /\ line \in Seq(People) /\ Len(line) = Len(sess.ids) - sess.cursor
      /\ DOMAIN line = 1..(Len(sess.ids) - sess.cursor)
      /\ \A i \in 1..(Len(sess.ids) - sess.cursor) : line[i] = sess.ids[sess.cursor + i]
  BY WaitingType
<1>2. c \in ToSet(sess.ids) <=> \E i \in DOMAIN sess.ids : sess.ids[i] = c
  BY DEF ToSet
<1>3. c \in ToSet(line) <=> \E i \in DOMAIN line : line[i] = c
  BY DEF ToSet
<1> HIDE DEF line
<1>5. \A i \in DOMAIN line : sess.cursor + i \in DOMAIN sess.ids
  BY <1>1
<1>6. CASE c \notin ToSet(sess.ids)
  <2>1. Without(sess, c) = sess
    BY <1>6 DEF Without
  <2>2. c \notin ToSet(line)
    BY <1>1, <1>2, <1>3, <1>5, <1>6
  <2>3. Pages!ClosedUp(line, c) = line
    BY <2>2, ClosingUp
  <2> QED BY <2>1, <2>3 DEF line
<1>7. CASE c \in ToSet(sess.ids)
  <2> DEFINE n == TurnOf(sess.ids, c)
             less == RemoveAt(sess.ids, n)
             mark == IF n <= sess.cursor THEN sess.cursor - 1 ELSE sess.cursor
             left == Without(sess, c)
  <2>1. n \in DOMAIN sess.ids /\ sess.ids[n] = c
    BY <1>2, <1>7 DEF TurnOf
  <2>2. left = [ids |-> less, cursor |-> mark]
    BY <1>7 DEF Without
  <2> HIDE DEF n
  <2>3. /\ Len(less) = Len(sess.ids) - 1
        /\ \A j \in 1..(Len(sess.ids) - 1) : less[j] = IF j < n THEN sess.ids[j] ELSE sess.ids[j + 1]
    <3>1. sess.ids \in Seq(People) /\ n \in DOMAIN sess.ids
      BY <1>1, <2>1
    <3> QED BY <3>1, RemovedAt
  <2>4. left \in Lines /\ left.cursor <= Len(left.ids)
    BY LineClosesUp
  <2> HIDE DEF less, mark
  <2>5. left.ids = less /\ left.cursor = mark
    BY <2>2
  <2> HIDE DEF left
  <2> DEFINE wait == StillWaiting(left)
  <2>6. /\ wait \in Seq(People) /\ Len(wait) = Len(sess.ids) - 1 - mark
        /\ \A i \in 1..(Len(sess.ids) - 1 - mark) : wait[i] = less[mark + i]
    BY <2>3, <2>4, <2>5, WaitingType
  <2> HIDE DEF wait
  <2>7. CASE n <= sess.cursor
    <3>1. c \notin ToSet(line)
      <4> SUFFICES ASSUME NEW i \in DOMAIN line, line[i] = c PROVE FALSE
        BY <1>3
      <4>1. sess.ids[sess.cursor + i] = c /\ sess.cursor + i \in DOMAIN sess.ids /\ i > 0
        BY <1>1, <1>5
      <4>2. sess.cursor + i = n
        BY <2>1, <4>1
      <4> QED BY <1>1, <2>1, <2>7, <4>1, <4>2
    <3>2. mark = sess.cursor - 1 /\ Len(wait) = Len(line)
      BY <1>1, <2>1, <2>6, <2>7 DEF mark
    <3>3. ASSUME NEW i \in 1..Len(wait) PROVE wait[i] = line[i]
      <4>1. /\ i \in 1..(Len(sess.ids) - 1 - mark) /\ i \in 1..(Len(sess.ids) - sess.cursor)
            /\ mark + i \in 1..(Len(sess.ids) - 1) /\ ~ (mark + i < n) /\ (mark + i) + 1 = sess.cursor + i
        <5>1. /\ sess.cursor \in Nat /\ n \in Nat /\ n >= 1 /\ n <= sess.cursor /\ Len(sess.ids) \in Nat
              /\ Len(wait) = Len(sess.ids) - sess.cursor /\ mark = sess.cursor - 1
          BY <1>1, <2>1, <2>7, <3>2
        <5>2. i \in Int /\ i >= 1 /\ i <= Len(sess.ids) - sess.cursor
          BY <5>1
        <5> HIDE DEF wait, mark, n
        <5>3. /\ i \in 1..(Len(sess.ids) - 1 - mark) /\ i \in 1..(Len(sess.ids) - sess.cursor)
              /\ mark + i \in 1..(Len(sess.ids) - 1)
          <6>1. mark \in Int /\ sess.cursor >= 1
            BY <5>1
          <6> QED BY <5>1, <5>2, <6>1, PlaceBehindTheMark
        <5> QED BY <5>1, <5>2, <5>3
      <4>2. wait[i] = less[mark + i] /\ line[i] = sess.ids[sess.cursor + i]
        BY <1>1, <2>6, <4>1
      <4>3. less[mark + i] = sess.ids[(mark + i) + 1]
        BY <2>3, <4>1
      <4> QED BY <4>1, <4>2, <4>3
    <3>4. wait = line
      BY <1>1, <2>6, <3>2, <3>3, SeqEqual
    <3>5. Pages!ClosedUp(line, c) = line
      BY <3>1, ClosingUp
    <3> QED BY <3>4, <3>5 DEF line, wait, left
  <2>8. CASE ~ (n <= sess.cursor)
    <3> DEFINE m == n - sess.cursor
    <3>1. m \in DOMAIN line /\ line[m] = c
      <4>1. m \in 1..(Len(sess.ids) - sess.cursor) /\ sess.cursor + m = n
        BY <1>1, <2>1, <2>8
      <4> QED BY <1>1, <2>1, <4>1
    <3>2. ASSUME NEW i \in DOMAIN line, line[i] = c PROVE i = m
      <4>1. sess.ids[sess.cursor + i] = c /\ sess.cursor + i \in DOMAIN sess.ids
        BY <1>1, <1>5, <3>2
      <4>2. sess.cursor + i = n
        BY <2>1, <4>1
      <4> QED BY <1>1, <2>1, <4>2
    <3> HIDE DEF m
    <3> DEFINE rest == RemoveAt(line, m)
    <3>5. Pages!ClosedUp(line, c) = rest
      BY <3>1, <3>2, ClosingUp
    <3>6. /\ rest \in Seq(People) /\ Len(rest) = Len(line) - 1
          /\ \A j \in 1..(Len(line) - 1) : rest[j] = IF j < m THEN line[j] ELSE line[j + 1]
      <4>1. line \in Seq(People) /\ m \in DOMAIN line
        BY <1>1, <3>1
      <4> QED BY <4>1, RemovedAt
    <3> HIDE DEF rest
    <3>7. mark = sess.cursor /\ Len(wait) = Len(rest)
      BY <1>1, <2>1, <2>6, <2>8, <3>6 DEF mark
    <3>8. ASSUME NEW i \in 1..Len(wait) PROVE wait[i] = rest[i]
      <4>0. n \in Nat /\ mark = sess.cursor /\ sess.cursor \in Nat /\ Len(sess.ids) \in Nat
        BY <1>1, <2>1, <3>7
      <4>1. i \in 1..(Len(sess.ids) - 1 - sess.cursor)
        BY <2>6, <4>0
      <4>2. /\ sess.cursor + i \in 1..(Len(sess.ids) - 1) /\ i \in 1..(Len(sess.ids) - sess.cursor)
            /\ i + 1 \in 1..(Len(sess.ids) - sess.cursor) /\ (sess.cursor + i) + 1 = sess.cursor + (i + 1)
        BY <4>0, <4>1, SMTT(30)
      <4>3. sess.cursor + i < n <=> i < m
        BY <4>0, <4>1 DEF m
      <4>4. wait[i] = less[sess.cursor + i]
        BY <2>6, <4>0, <4>1
      <4>5. less[sess.cursor + i] = IF i < m THEN sess.ids[sess.cursor + i] ELSE sess.ids[sess.cursor + (i + 1)]
        BY <2>3, <4>2, <4>3
      <4>6. line[i] = sess.ids[sess.cursor + i] /\ line[i + 1] = sess.ids[sess.cursor + (i + 1)]
        BY <1>1, <4>2
      <4>7. Len(line) - 1 = Len(sess.ids) - 1 - sess.cursor
        BY <1>1, <4>0
      <4>8. rest[i] = IF i < m THEN line[i] ELSE line[i + 1]
        BY <3>6, <4>1, <4>7
      <4> QED BY <4>4, <4>5, <4>6, <4>8
    <3>9. wait = rest
      BY <2>6, <3>6, <3>7, <3>8, SeqEqual
    <3> QED BY <3>5, <3>9 DEF line, wait, left
  <2> QED BY <2>7, <2>8
<1> QED
  BY <1>6, <1>7

LinesLeft == [s \in DOMAIN sessions |-> StillWaiting(sessions[s])]

LEMMA LinesLeftType ==
  ASSUME SearchLines
  PROVE  /\ sessions \in Seq(Lines) /\ Len(sessions) \in Nat /\ DOMAIN sessions = 1..Len(sessions)
         /\ shown \in Seq(SUBSET People) /\ DOMAIN shown = DOMAIN sessions
         /\ Len(shown) = Len(sessions)
         /\ LinesLeft \in Seq(Seq(People)) /\ Len(LinesLeft) = Len(sessions) /\ DOMAIN LinesLeft = DOMAIN sessions
         /\ \A n \in DOMAIN sessions :
              /\ sessions[n] \in Lines /\ sessions[n].cursor <= Len(sessions[n].ids)
              /\ \A i, j \in DOMAIN sessions[n].ids : sessions[n].ids[i] = sessions[n].ids[j] => i = j
              /\ LinesLeft[n] = StillWaiting(sessions[n])
<1>1. /\ sessions \in Seq(Lines) /\ Len(sessions) \in Nat /\ DOMAIN sessions = 1..Len(sessions)
      /\ shown \in Seq(SUBSET People) /\ DOMAIN shown = DOMAIN sessions /\ Len(shown) = Len(sessions)
  BY DEF SearchLines
<1>2. \A n \in DOMAIN sessions :
        /\ sessions[n] \in Lines /\ sessions[n].cursor <= Len(sessions[n].ids)
        /\ \A i, j \in DOMAIN sessions[n].ids : sessions[n].ids[i] = sessions[n].ids[j] => i = j
  BY <1>1 DEF SearchLines, IsLine
<1>3. \A n \in DOMAIN sessions : StillWaiting(sessions[n]) \in Seq(People)
  BY <1>2, WaitingType
<1>4. LinesLeft \in [1..Len(sessions) -> Seq(People)] /\ DOMAIN LinesLeft = DOMAIN sessions
      /\ \A n \in DOMAIN sessions : LinesLeft[n] = StillWaiting(sessions[n])
  BY <1>1, <1>3 DEF LinesLeft
<1>5. LinesLeft \in Seq(Seq(People)) /\ Len(LinesLeft) = Len(sessions)
  BY <1>1, <1>4, FunctionIsSeq
<1> QED
  BY <1>1, <1>2, <1>4, <1>5

(* Who is erased leaves the lines. *)
LEMMA ErasureLeaves ==
  ASSUME SearchInv, NEW c \in People, Erase(c)
  PROVE  Pages!Leave(c)
<1>1. /\ sessions' = [n \in DOMAIN sessions |-> Without(sessions[n], c)]
      /\ shown' = [n \in DOMAIN shown |-> shown[n] \ {c}]
  BY DEF Erase
<1>2. SearchLines
  BY DEF SearchInv
<1>3. /\ DOMAIN LinesLeft = DOMAIN sessions
      /\ \A n \in DOMAIN sessions :
           /\ sessions[n] \in Lines /\ sessions[n].cursor <= Len(sessions[n].ids)
           /\ \A i, j \in DOMAIN sessions[n].ids : sessions[n].ids[i] = sessions[n].ids[j] => i = j
           /\ LinesLeft[n] = StillWaiting(sessions[n])
  BY <1>2, LinesLeftType
<1>4. \A n \in DOMAIN sessions : StillWaiting(Without(sessions[n], c)) = Pages!ClosedUp(LinesLeft[n], c)
  BY <1>3, WaitingClosesUp
<1>5. [n \in DOMAIN sessions' |-> StillWaiting(sessions'[n])]
        = [n \in DOMAIN LinesLeft |-> Pages!ClosedUp(LinesLeft[n], c)]
  BY <1>1, <1>3, <1>4
<1> QED
  BY <1>1, <1>5 DEF Pages!Leave, LinesLeft, StillWaiting

(* A further page is the next one. *)
LEMMA MoreIsNextPage ==
  ASSUME SearchInv, NEW q \in Requests, ShowMore(q)
  PROVE  \E n \in DOMAIN sessions : Pages!NextPage(n)
<1>1. PICK n \in {request[q].session} : TRUE
  OBVIOUS
<1>2. n \in DOMAIN sessions
  BY <1>1 DEF ShowMore, SearchInv, SearchRequests
<1>3. /\ sessions' = [sessions EXCEPT ![n].cursor = Claimed(sessions[n])]
      /\ shown' = [shown EXCEPT ![n] = shown[n] \cup Batch(sessions[n])]
  BY <1>1 DEF ShowMore
<1>4. SearchLines
  BY DEF SearchInv
<1>5. /\ sessions \in Seq(Lines) /\ DOMAIN LinesLeft = DOMAIN sessions /\ DOMAIN sessions = 1..Len(sessions)
      /\ \A k \in DOMAIN sessions :
           /\ sessions[k] \in Lines /\ sessions[k].cursor <= Len(sessions[k].ids)
           /\ LinesLeft[k] = StillWaiting(sessions[k])
  BY <1>4, LinesLeftType
<1>6. Claimed(sessions[n]) \in Nat
  BY <1>2, <1>5, PageClaimed
<1> DEFINE moved == [sessions[n] EXCEPT !.cursor = Claimed(sessions[n])]
<1>7. moved \in Lines /\ moved.ids = sessions[n].ids /\ moved.cursor = Claimed(sessions[n])
  BY <1>2, <1>5, <1>6 DEF Lines
<1>8. sessions' = [sessions EXCEPT ![n] = moved]
  BY <1>3
<1> HIDE DEF moved
<1>9. /\ StillWaiting(moved) = Pages!AfterFirstPage(StillWaiting(sessions[n]))
      /\ Batch(sessions[n]) = Pages!FirstPage(StillWaiting(sessions[n]))
  <2>1. sessions[n] \in Lines /\ sessions[n].cursor <= Len(sessions[n].ids)
    BY <1>2, <1>5
  <2> QED BY <1>7, <2>1, PageIsNext
<1>10. DOMAIN sessions' = DOMAIN sessions /\ \A k \in DOMAIN sessions : sessions'[k] = IF k = n THEN moved ELSE sessions[k]
  BY <1>8
<1>11. [k \in DOMAIN sessions' |-> StillWaiting(sessions'[k])]
         = [LinesLeft EXCEPT ![n] = Pages!AfterFirstPage(LinesLeft[n])]
  <2>1. \A k \in DOMAIN sessions : StillWaiting(sessions'[k])
                                     = IF k = n THEN Pages!AfterFirstPage(LinesLeft[n]) ELSE LinesLeft[k]
    BY <1>2, <1>5, <1>9, <1>10
  <2>2. LinesLeft = [k \in DOMAIN sessions |-> LinesLeft[k]]
    BY <1>5 DEF LinesLeft
  <2> QED BY <1>2, <1>5, <1>10, <2>1, <2>2
<1>12. shown' = [shown EXCEPT ![n] = shown[n] \cup Pages!FirstPage(LinesLeft[n])]
  BY <1>2, <1>3, <1>5, <1>9
<1>13. Pages!NextPage(n)
  BY <1>11, <1>12 DEF Pages!NextPage, LinesLeft, StillWaiting
<1> QED
  BY <1>2, <1>13

(* Retrieval opens a line and hands out its first page. *)
LEMMA RetrievalOpens ==
  ASSUME SearchInv, NEW q \in Requests, Retrieve(q), SearchInv'
  PROVE  Pages!Open
<1>1. PICK pool \in SetToSeqs(Eligible) :
        LET new == [ids |-> pool, cursor |-> 0]
        IN  /\ sessions' = Append(sessions, [new EXCEPT !.cursor = Claimed(new)])
            /\ shown' = Append(shown, Batch(new))
            /\ request' = [request EXCEPT ![q] = Judging(Len(sessions'), Batch(new), FALSE)]
  BY DEF Retrieve
<1> DEFINE line == [ids |-> pool, cursor |-> 0]
           made == [line EXCEPT !.cursor = Claimed(line)]
           m == Claimed(line)
<1>2. SearchTables /\ SearchLines
  BY DEF SearchInv
<1>3. /\ line \in Lines /\ line.ids = pool /\ line.cursor = 0 /\ pool \in Seq(People) /\ Len(pool) \in Nat
      /\ \A i, j \in DOMAIN pool : pool[i] = pool[j] => i = j
  BY <1>2, PoolIsALine
<1>4. sessions' = Append(sessions, made) /\ shown' = Append(shown, Batch(line))
  BY <1>1
<1> HIDE DEF line
<1>5. /\ m \in Nat /\ m <= Len(pool)
      /\ m = IF PageSize < Len(pool) THEN PageSize ELSE Len(pool)
      /\ Batch(line) = {pool[i] : i \in 1..m} /\ Batch(line) \subseteq People
  <2>1. line.cursor <= Len(line.ids)
    BY <1>3
  <2>2. /\ m \in Nat /\ m <= Len(pool) /\ Batch(line) \subseteq People
        /\ m = IF 0 + PageSize < Len(pool) THEN 0 + PageSize ELSE Len(pool)
        /\ Batch(line) = {pool[i] : i \in (0 + 1)..m}
    BY <1>3, <2>1, PageClaimed
  <2>3. 0 + PageSize = PageSize /\ 0 + 1 = 1
    BY PeopleAreFew
  <2> QED BY <2>2, <2>3
<1>6. made \in Lines /\ made.ids = pool /\ made.cursor = m
  BY <1>3, <1>5 DEF Lines
<1> HIDE DEF made, m
<1> DEFINE rest == StillWaiting(made)
           first == Batch(line)
<1>7. /\ rest \in Seq(People) /\ Len(rest) = Len(pool) - m /\ DOMAIN rest = 1..(Len(pool) - m)
      /\ \A i \in 1..(Len(pool) - m) : rest[i] = pool[m + i]
  <2>1. made.cursor <= Len(made.ids)
    BY <1>5, <1>6
  <2> QED BY <1>6, <2>1, WaitingType
<1> HIDE DEF rest
<1>8. DOMAIN pool = 1..Len(pool)
  BY <1>3
<1>9. IsInjective(rest)
  <2> SUFFICES ASSUME NEW i \in DOMAIN rest, NEW j \in DOMAIN rest, rest[i] = rest[j] PROVE i = j
    BY DEF IsInjective
  <2>3. i \in 1..(Len(pool) - m) /\ j \in 1..(Len(pool) - m)
    BY <1>7
  <2>4. m + i \in 1..Len(pool) /\ m + j \in 1..Len(pool)
    BY <1>3, <1>5, <2>3
  <2>1. m + i \in DOMAIN pool /\ m + j \in DOMAIN pool /\ pool[m + i] = pool[m + j]
    BY <1>7, <1>8, <2>3, <2>4
  <2>2. m + i = m + j
    BY <1>3, <2>1
  <2> QED BY <1>5, <1>7, <2>2
<1>10. ToSet(rest) \cap first = {}
  <2> SUFFICES ASSUME NEW i \in DOMAIN rest, NEW j \in 1..m, rest[i] = pool[j] PROVE FALSE
    BY <1>5 DEF ToSet
  <2>3. i \in 1..(Len(pool) - m)
    BY <1>7
  <2>4. m + i \in 1..Len(pool) /\ j \in 1..Len(pool)
    BY <1>3, <1>5, <2>3
  <2>1. m + i \in DOMAIN pool /\ j \in DOMAIN pool /\ pool[m + i] = pool[j]
    BY <1>7, <1>8, <2>3, <2>4
  <2>2. m + i = j
    BY <1>3, <2>1
  <2> QED BY <1>5, <1>7, <2>2
<1>11. Cardinality(first) = m
  <2> DEFINE taken == [i \in 1..m |-> pool[i]]
  <2>0. 1 \in Int /\ m \in Int /\ m >= 0
    BY <1>5
  <2>1. IsFiniteSet(1..m) /\ Cardinality(1..m) = m
    <3>1. IsFiniteSet(1..m) /\ Cardinality(1..m) = IF 1 > m THEN 0 ELSE m - 1 + 1
      BY <2>0, FS_Interval
    <3> QED BY <2>0, <3>1
  <2>6. 1..m \subseteq DOMAIN pool
    <3>1. \A i \in 1..m : i \in 1..Len(pool)
      BY <1>3, <1>5
    <3> QED BY <1>8, <3>1
  <2>5. DOMAIN taken = 1..m /\ taken = [i \in 1..m |-> taken[i]]
    OBVIOUS
  <2>2. \A i, j \in 1..m : taken[i] = taken[j] => i = j
    BY <1>3, <2>6
  <2>3. {pool[i] : i \in 1..m} = {taken[i] : i \in 1..m}
    OBVIOUS
  <2> HIDE DEF taken
  <2>4. Cardinality({taken[i] : i \in 1..m}) = Cardinality(1..m)
    <3> DEFINE dom == 1..m
    <3>1. /\ IsFiniteSet(dom) /\ DOMAIN taken = dom /\ taken = [i \in dom |-> taken[i]]
          /\ \A i, j \in dom : taken[i] = taken[j] => i = j
      BY <2>1, <2>2, <2>5
    <3> HIDE DEF dom
    <3>2. Cardinality({taken[i] : i \in dom}) = Cardinality(dom)
      BY <3>1, ValuesDiffer
    <3> QED BY <3>2 DEF dom
  <2> QED BY <1>5, <2>1, <2>3, <2>4
<1>12. Cardinality(first) <= PageSize /\ (rest # <<>> => Cardinality(first) = PageSize)
  <2>1. rest # <<>> => Len(pool) - m # 0
    BY <1>7
  <2> QED BY <1>3, <1>5, <1>11, <2>1, PeopleAreFew
<1> HIDE DEF first
<1>13. /\ sessions \in Seq(Lines) /\ Len(sessions) \in Nat /\ shown \in Seq(SUBSET People)
       /\ DOMAIN sessions = 1..Len(sessions)
       /\ Len(shown) = Len(sessions) /\ LinesLeft \in Seq(Seq(People)) /\ Len(LinesLeft) = Len(sessions)
       /\ \A n \in DOMAIN sessions : LinesLeft[n] = StillWaiting(sessions[n])
  BY <1>2, LinesLeftType
<1>14. first \in SUBSET People
  BY <1>5 DEF first
<1> DEFINE now == Append(LinesLeft, rest)
<1>15. [n \in DOMAIN sessions' |-> StillWaiting(sessions'[n])] = now
  <2>1. /\ DOMAIN sessions' = 1..(Len(sessions) + 1)
        /\ \A n \in 1..(Len(sessions) + 1) : sessions'[n] = IF n = Len(sessions) + 1 THEN made ELSE sessions[n]
    BY <1>4, <1>6, <1>13
  <2>4. now \in Seq(Seq(People)) /\ Len(now) = Len(sessions) + 1
    BY <1>7, <1>13
  <2>5. DOMAIN now = 1..(Len(sessions) + 1)
    BY <1>13, <2>4
  <2>6. now = [n \in 1..(Len(sessions) + 1) |-> now[n]]
    <3>1. now \in [1..Len(now) -> Seq(People)]
      BY <2>4, LenProperties
    <3> QED BY <2>4, <3>1
  <2>2. \A n \in 1..(Len(sessions) + 1) : now[n] = IF n = Len(sessions) + 1 THEN rest ELSE LinesLeft[n]
    BY <1>7, <1>13
  <2> HIDE DEF now
  <2>3. \A n \in 1..(Len(sessions) + 1) : StillWaiting(sessions'[n]) = now[n]
    <3> SUFFICES ASSUME NEW n \in 1..(Len(sessions) + 1) PROVE StillWaiting(sessions'[n]) = now[n]
      OBVIOUS
    <3>1. CASE n = Len(sessions) + 1
      BY <2>1, <2>2, <3>1 DEF rest
    <3>2. CASE n # Len(sessions) + 1
      <4>1. n \in DOMAIN sessions
        BY <1>13, <3>2
      <4> QED BY <1>13, <2>1, <2>2, <3>2, <4>1
    <3> QED BY <3>1, <3>2
  <2> QED BY <2>1, <2>3, <2>6
<1>16. /\ Len(now) = Len(LinesLeft) + 1 /\ Front(now) = LinesLeft /\ Last(now) = rest
  BY <1>7, <1>13, FrontOfAppend
<1>17. /\ Len(shown') = Len(shown) + 1 /\ Front(shown') = shown /\ Last(shown') = first
  BY <1>4, <1>13, <1>14, FrontOfAppend DEF first
<1> HIDE DEF now
<1>18. LinesLeft' = now
  BY <1>15 DEF LinesLeft
<1>19. /\ Len(LinesLeft') = Len(LinesLeft) + 1 /\ Len(shown') = Len(LinesLeft')
       /\ Front(LinesLeft') = LinesLeft /\ Front(shown') = shown
       /\ Cardinality(Last(shown')) <= PageSize
       /\ Last(LinesLeft') # <<>> => Cardinality(Last(shown')) = PageSize
       /\ IsInjective(Last(LinesLeft')) /\ ToSet(Last(LinesLeft')) \cap Last(shown') = {}
  BY <1>9, <1>10, <1>12, <1>13, <1>16, <1>17, <1>18
<1>20. /\ Len(LinesLeft') = Len(LinesLeft) + 1 /\ Len(shown') = Len(LinesLeft')
       /\ Pages!Front(LinesLeft') = LinesLeft /\ Pages!Front(shown') = shown
       /\ Cardinality(Pages!Last(shown')) <= PageSize
       /\ Pages!Last(LinesLeft') # <<>> => Cardinality(Pages!Last(shown')) = PageSize
       /\ Pages!IsInjective(Pages!Last(LinesLeft'))
       /\ Pages!ToSet(Pages!Last(LinesLeft')) \cap Pages!Last(shown') = {}
  BY <1>19 DEF Pages!Front, Pages!Last, Pages!IsInjective, Pages!ToSet, Front, Last, IsInjective, ToSet
<1> QED
  BY <1>20 DEF Pages!Open, Pages!Cardinality, Cardinality, LinesLeft, StillWaiting

(* Show more hands out a search's line a page at a time, nobody twice and nobody
   skipped, whoever clicks twice and whoever is erased meanwhile (claimNextBatch,
   deleteCandidateCompletely): searches implement paging. *)
THEOREM SearchImplementsPaging == SearchSpec => IsPaging
<1>1. SearchInit => Pages!PagingInit
  BY DEF SearchInit, Pages!PagingInit
<1>2. SearchInit => SearchInv
  BY SearchStarts
<1>3. SearchInv /\ [SearchNext]_searchVars => SearchInv'
  BY SearchSteps
<1>4. SearchInv /\ SearchInv' /\ [SearchNext]_searchVars => [Pages!PagingNext]_(Pages!pagingVars)
  <2> SUFFICES ASSUME SearchInv, SearchInv', [SearchNext]_searchVars
               PROVE  Pages!PagingNext \/ UNCHANGED Pages!pagingVars
    OBVIOUS
  <2>0. Editors \subseteq People /\ Leavers \subseteq People
    BY SearchAssumption
  <2>1. ASSUME UNCHANGED <<sessions, shown>> PROVE UNCHANGED Pages!pagingVars
    BY <2>1 DEF Pages!pagingVars
  <2>2. CASE UNCHANGED searchVars
    BY <2>1, <2>2 DEF searchVars
  <2>3. CASE SearchRestart
    BY <2>1, <2>3 DEF SearchRestart
  <2>4. ASSUME NEW c \in Editors, SaveCv(c) \/ BumpVersion(c) PROVE UNCHANGED <<sessions, shown>>
    BY <2>4 DEF SaveCv, BumpVersion
  <2>5. ASSUME NEW c \in Leavers, Withdraw(c) \/ Return(c) PROVE UNCHANGED <<sessions, shown>>
    BY <2>5 DEF Withdraw, Return
  <2>6. ASSUME NEW c \in Leavers, Erase(c) PROVE Pages!PagingNext
    <3>1. c \in People
      BY <2>0
    <3>2. Pages!Leave(c)
      BY <2>6, <3>1, ErasureLeaves
    <3> QED BY <3>1, <3>2 DEF Pages!PagingNext
  <2>7. ASSUME NEW q \in Requests,
               \/ \E refresh \in BOOLEAN : BeginSearch(q, refresh)
               \/ \E n \in DOMAIN sessions : BeginMore(q, n)
               \/ Resume(q) \/ \E answered \in SUBSET People : Respond(q, answered)
        PROVE  UNCHANGED <<sessions, shown>>
    BY <2>7 DEF BeginSearch, BeginMore, Resume, Respond
  <2>8. ASSUME NEW q \in Requests, Retrieve(q) PROVE Pages!PagingNext
    <3>1. Pages!Open
      BY <2>8, RetrievalOpens
    <3> QED BY <3>1 DEF Pages!PagingNext
  <2>9. ASSUME NEW q \in Requests, ShowMore(q) PROVE Pages!PagingNext
    <3>1. PICK n \in DOMAIN sessions : Pages!NextPage(n)
      BY <2>9, MoreIsNextPage
    <3> QED BY <3>1 DEF Pages!PagingNext
  <2> QED BY <2>1, <2>2, <2>3, <2>4, <2>5, <2>6, <2>7, <2>8, <2>9 DEF SearchNext
<1> QED
  BY <1>1, <1>2, <1>3, <1>4, PTL DEF SearchSpec, IsPaging, Pages!PagingSpec

-----------------------------------------------------------------------------
(* Batches before the model.                                                 *)

Stages == {"queued", "asked", "again", "read", "unread"}

(* How often the provider has charged for who is where. *)
ChargedAsPlaced(c) ==
    /\ at[c] \in {"queued", "asked"} => billed[c] = 0
    /\ at[c] = "again" => billed[c] = 1
    /\ at[c] = "read" => usage[c] = billed[c]

(* The one that went ahead, and the workers. *)
PoolIsBounded ==
    /\ phase = "begin" => \A c \in Misses : at[c] = "queued"
    /\ phase # "begin" => at[Lead] # "queued"
    /\ phase = "lead" => \A c \in Misses \ {Lead} : at[c] = "queued"
    /\ Cardinality(InFlight \ {Lead}) <= Concurrency

Booked ==
    phase = "booked" =>
        /\ \A c \in Misses : at[c] \in {"read", "unread"}
        /\ ledger.attempts = TotalOver(billed, Read)

JudgingInv ==
    /\ phase \in {"begin", "lead", "pool", "booked"}
    /\ at \in [Misses -> Stages]
    /\ billed \in [Misses -> 0..2] /\ usage \in [Misses -> 0..2]
    /\ aborted \in BOOLEAN /\ kept \subseteq Misses
    /\ ledger.calls \in 0..Cardinality(Misses) /\ ledger.attempts \in 0..(2 * Cardinality(Misses))
    /\ \A c \in Misses : ChargedAsPlaced(c)
    /\ PoolIsBounded /\ Booked

LEMMA BatchIsFinite ==
  /\ IsFiniteSet(Misses) /\ Lead \in Misses /\ Concurrency \in Nat \ {0} /\ Cardinality(Misses) \in Nat
  /\ \A s \in SUBSET Misses : IsFiniteSet(s) /\ Cardinality(s) \in Nat /\ Cardinality(s) <= Cardinality(Misses)
<1>1. IsFiniteSet(Misses) /\ Misses # {} /\ Concurrency \in Nat \ {0}
  BY JudgingAssumption
<1>2. Lead \in Misses
  BY <1>1 DEF Lead
<1>3. \A s \in SUBSET Misses : IsFiniteSet(s) /\ Cardinality(s) \in Nat /\ Cardinality(s) <= Cardinality(Misses)
  BY <1>1, FS_Subset, FS_CardinalityType
<1> QED
  BY <1>1, <1>2, <1>3, FS_CardinalityType

(* Workers take some of those waiting, no more than are free. *)
LEMMA TakenFromQueue ==
  ASSUME NEW where \in [Misses -> Stages], NEW free \in Nat, NEW next \in Taken(where, free)
  PROVE  \E some \in SUBSET {c \in Misses : where[c] = "queued"} :
           /\ Cardinality(some) <= free
           /\ next = [c \in Misses |-> IF c \in some THEN "asked" ELSE where[c]]
<1> DEFINE queue == {c \in Misses : where[c] = "queued"}
           take == Min({free, Cardinality(queue)})
<1>1. PICK some \in kSubset(take, queue) :
        next = [c \in Misses |-> IF c \in some THEN "asked" ELSE where[c]]
  BY DEF Taken
<1>2. some \in SUBSET queue /\ Cardinality(some) = take
  BY DEF kSubset
<1>3. Cardinality(queue) \in Nat
  BY BatchIsFinite
<1> HIDE DEF queue
<1>4. take <= free
  BY <1>3, LesserOfTwo
<1> QED
  BY <1>1, <1>2, <1>4 DEF queue

(* The pool after somebody is done with, or when it opens. *)
LEMMA PoolStaysBounded ==
  ASSUME JudgingInv, NEW c \in InFlight, NEW outcome \in {"read", "unread"}, Settled(c, outcome)
  PROVE  /\ at' \in [Misses -> Stages] /\ phase' = "pool" /\ PoolIsBounded' /\ at'[c] = outcome
         /\ \A d \in Misses \ {c} : at'[d] = at[d] \/ (at[d] = "queued" /\ at'[d] = "asked")
<1> DEFINE where == [at EXCEPT ![c] = outcome]
           free == IF phase = "lead" THEN Concurrency ELSE IF c = Lead THEN 0 ELSE 1
<1>1. c \in Misses /\ at[c] \in {"asked", "again"} /\ at \in [Misses -> Stages]
  BY DEF InFlight, JudgingInv
<1>2. where \in [Misses -> Stages] /\ where[c] = outcome /\ \A d \in Misses \ {c} : where[d] = at[d]
  BY <1>1 DEF Stages
<1>3. phase' = "pool" /\ at' \in Taken(where, free) /\ free \in Nat
  BY BatchIsFinite DEF Settled
<1> HIDE DEF where, free
<1>4. PICK some \in SUBSET {d \in Misses : where[d] = "queued"} :
        Cardinality(some) <= free /\ at' = [d \in Misses |-> IF d \in some THEN "asked" ELSE where[d]]
  BY <1>2, <1>3, TakenFromQueue
<1>5. at' \in [Misses -> Stages] /\ \A d \in Misses : at'[d] = IF d \in some THEN "asked" ELSE where[d]
  BY <1>2, <1>4 DEF Stages
<1>6. c \notin some /\ some \subseteq Misses /\ \A d \in some : at[d] = "queued"
  BY <1>2, <1>4
<1>7. at'[c] = outcome
  BY <1>1, <1>2, <1>5, <1>6
<1>8. \A d \in Misses \ {c} : at'[d] = at[d] \/ (at[d] = "queued" /\ at'[d] = "asked")
  BY <1>2, <1>5, <1>6
<1>9. phase # "begin" /\ at[Lead] # "queued" /\ Lead \notin some
  BY <1>1, <1>6, BatchIsFinite DEF JudgingInv, PoolIsBounded
<1>10. at'[Lead] # "queued"
  BY <1>2, <1>5, <1>9, BatchIsFinite
<1>11. InFlight' = (InFlight \ {c}) \cup some
  BY <1>1, <1>2, <1>5, <1>6 DEF InFlight
<1>12. Cardinality(InFlight' \ {Lead}) <= Concurrency
  <2> DEFINE old == (InFlight \ {Lead}) \ {c}
  <2>1. InFlight' \ {Lead} = old \cup some
    BY <1>9, <1>11
  <2>2. old \subseteq Misses /\ InFlight \ {Lead} \subseteq Misses
    BY DEF InFlight
  <2>3. IsFiniteSet(old) /\ IsFiniteSet(some) /\ IsFiniteSet(InFlight \ {Lead})
        /\ Cardinality(old) \in Nat /\ Cardinality(some) \in Nat /\ Cardinality(InFlight \ {Lead}) \in Nat
    BY <1>6, <2>2, BatchIsFinite
  <2>4. Cardinality(InFlight \ {Lead}) <= Concurrency
    BY DEF JudgingInv, PoolIsBounded
  <2>6. (c = Lead => old = InFlight \ {Lead}) /\ (c # Lead => Cardinality(old) = Cardinality(InFlight \ {Lead}) - 1)
    <3>1. CASE c = Lead
      BY <3>1
    <3>2. CASE c # Lead
      <4>1. c \in InFlight \ {Lead}
        BY <3>2
      <4> QED BY <2>3, <3>2, <4>1, FS_RemoveElement
    <3> QED BY <3>1, <3>2
  <2>7. phase = "lead" => old = {} /\ c = Lead
    BY <1>1 DEF JudgingInv, PoolIsBounded, InFlight
  <2>8. Cardinality(old) + free <= Concurrency
    <3>1. CASE phase = "lead"
      <4>1. Cardinality(old) = 0 /\ free = Concurrency
        BY <2>7, <3>1, FS_EmptySet DEF free
      <4> QED BY <4>1, BatchIsFinite
    <3>2. CASE phase # "lead" /\ c = Lead
      <4>1. Cardinality(old) = Cardinality(InFlight \ {Lead}) /\ free = 0
        BY <2>6, <3>2 DEF free
      <4> QED BY <2>3, <2>4, <4>1
    <3>3. CASE phase # "lead" /\ c # Lead
      <4>1. Cardinality(old) = Cardinality(InFlight \ {Lead}) - 1 /\ free = 1
        BY <2>6, <3>3 DEF free
      <4> QED BY <2>3, <2>4, <4>1, BatchIsFinite
    <3> QED BY <3>1, <3>2, <3>3
  <2> HIDE DEF old
  <2>9. /\ Cardinality(old \cup some) = Cardinality(old) + Cardinality(some) - Cardinality(old \cap some)
        /\ Cardinality(old \cap some) \in Nat
    BY <2>3, FS_Union, FS_Subset, FS_CardinalityType
  <2>10. free \in Nat /\ Concurrency \in Nat /\ Cardinality(some) <= free
    BY <1>3, <1>4, BatchIsFinite
  <2>11. Cardinality(old \cup some) <= Concurrency
    BY <2>3, <2>8, <2>9, <2>10
  <2> QED BY <2>1, <2>11
<1>13. PoolIsBounded'
  BY <1>3, <1>10, <1>12 DEF PoolIsBounded, Lead
<1> QED
  BY <1>3, <1>5, <1>7, <1>8, <1>13

(* What a step that settles somebody does to the charges. *)
LEMMA ChargesFollow ==
  ASSUME JudgingInv, NEW c \in InFlight, NEW outcome \in {"read", "unread"}, Settled(c, outcome),
         billed' \in [Misses -> 0..2], usage' \in [Misses -> 0..2],
         \A d \in Misses \ {c} : billed'[d] = billed[d] /\ usage'[d] = usage[d],
         outcome = "read" => usage'[c] = billed'[c],
         UNCHANGED <<aborted, ledger, kept>>
  PROVE  JudgingInv'
<1>1. /\ at' \in [Misses -> Stages] /\ phase' = "pool" /\ PoolIsBounded' /\ at'[c] = outcome
      /\ \A d \in Misses \ {c} : at'[d] = at[d] \/ (at[d] = "queued" /\ at'[d] = "asked")
  BY PoolStaysBounded
<1>2. ASSUME NEW d \in Misses PROVE ChargedAsPlaced(d)'
  <2>0. ChargedAsPlaced(d)
    BY DEF JudgingInv
  <2>1. CASE d = c
    BY <1>1, <2>1 DEF ChargedAsPlaced
  <2>2. CASE d # c
    BY <1>1, <2>0, <2>2 DEF ChargedAsPlaced
  <2> QED BY <2>1, <2>2
<1>3. Booked'
  BY <1>1 DEF Booked
<1> QED
  BY <1>1, <1>2, <1>3 DEF JudgingInv

LEMMA JudgingStarts ==
  ASSUME JudgingInit
  PROVE  JudgingInv
<1>1. /\ phase = "begin" /\ at = [c \in Misses |-> "queued"]
      /\ billed = [c \in Misses |-> 0] /\ usage = [c \in Misses |-> 0] /\ aborted = FALSE
      /\ ledger = [calls |-> 0, attempts |-> 0] /\ kept = {}
  BY DEF JudgingInit
<1>2. InFlight \ {Lead} = {}
  BY <1>1 DEF InFlight
<1>3. Cardinality(InFlight \ {Lead}) <= Concurrency
  BY <1>2, FS_EmptySet, BatchIsFinite
<1>4. PoolIsBounded /\ Booked /\ \A c \in Misses : ChargedAsPlaced(c)
  BY <1>1, <1>3 DEF PoolIsBounded, Booked, ChargedAsPlaced
<1>5. /\ at \in [Misses -> Stages] /\ billed \in [Misses -> 0..2] /\ usage \in [Misses -> 0..2]
  BY <1>1 DEF Stages
<1>6. ledger.calls \in 0..Cardinality(Misses) /\ ledger.attempts \in 0..(2 * Cardinality(Misses))
  BY <1>1, BatchIsFinite
<1> QED
  BY <1>1, <1>4, <1>5, <1>6 DEF JudgingInv

LEMMA JudgingBegun ==
  ASSUME JudgingInv, NEW allowed \in BOOLEAN, Begin(allowed)
  PROVE  JudgingInv'
<1>1. phase = "begin" /\ (\A c \in Misses : at[c] = "queued") /\ at \in [Misses -> Stages]
  BY DEF Begin, JudgingInv, PoolIsBounded
<1>2. UNCHANGED <<billed, usage, aborted, ledger, kept>>
  BY DEF Begin
<1>3. CASE allowed
  <2>1. phase' = "lead" /\ at' = [at EXCEPT ![Lead] = "asked"]
    BY <1>3 DEF Begin
  <2>2. at' \in [Misses -> Stages] /\ at'[Lead] = "asked" /\ \A c \in Misses \ {Lead} : at'[c] = "queued"
    BY <1>1, <2>1, BatchIsFinite DEF Stages
  <2>3. InFlight' \ {Lead} = {}
    BY <2>2 DEF InFlight
  <2>4. Cardinality(InFlight' \ {Lead}) <= Concurrency
    BY <2>3, FS_EmptySet, BatchIsFinite
  <2>5. PoolIsBounded' /\ Booked'
    BY <2>1, <2>2, <2>4 DEF PoolIsBounded, Booked, Lead
  <2>6. ASSUME NEW c \in Misses PROVE ChargedAsPlaced(c)'
    <3>1. billed[c] = 0
      BY <1>1 DEF JudgingInv, ChargedAsPlaced
    <3>2. at'[c] \in {"queued", "asked"}
      BY <2>2
    <3> QED BY <1>2, <3>1, <3>2 DEF ChargedAsPlaced
  <2> QED BY <1>2, <2>1, <2>2, <2>5, <2>6 DEF JudgingInv
<1>4. CASE ~allowed
  <2>1. phase' = "pool" /\ at' = [c \in Misses |-> "unread"]
    BY <1>4 DEF Begin
  <2>2. at' \in [Misses -> Stages] /\ \A c \in Misses : at'[c] = "unread"
    BY <2>1 DEF Stages
  <2>3. InFlight' \ {Lead} = {}
    BY <2>2 DEF InFlight
  <2>4. Cardinality(InFlight' \ {Lead}) <= Concurrency
    BY <2>3, FS_EmptySet, BatchIsFinite
  <2>5. PoolIsBounded' /\ Booked' /\ \A c \in Misses : ChargedAsPlaced(c)'
    BY <2>1, <2>2, <2>4, BatchIsFinite DEF PoolIsBounded, Booked, ChargedAsPlaced, Lead
  <2> QED BY <1>2, <2>1, <2>2, <2>5 DEF JudgingInv
<1> QED
  BY <1>3, <1>4

LEMMA JudgingWarmed ==
  ASSUME JudgingInv, Warmed
  PROVE  JudgingInv'
<1>1. /\ phase = "lead" /\ phase' = "pool" /\ at' \in Taken(at, Concurrency)
      /\ UNCHANGED <<billed, usage, aborted, ledger, kept>>
  BY DEF Warmed
<1>2. at \in [Misses -> Stages] /\ (\A c \in Misses \ {Lead} : at[c] = "queued") /\ at[Lead] # "queued"
  BY <1>1 DEF JudgingInv, PoolIsBounded
<1>3. Concurrency \in Nat
  BY BatchIsFinite
<1>4. PICK some \in SUBSET {d \in Misses : at[d] = "queued"} :
        Cardinality(some) <= Concurrency /\ at' = [d \in Misses |-> IF d \in some THEN "asked" ELSE at[d]]
  BY <1>1, <1>2, <1>3, TakenFromQueue
<1>5. at' \in [Misses -> Stages] /\ \A d \in Misses : at'[d] = IF d \in some THEN "asked" ELSE at[d]
  BY <1>2, <1>4 DEF Stages
<1>6. Lead \notin some /\ some \subseteq Misses /\ \A d \in some : at[d] = "queued"
  BY <1>2, <1>4
<1>7. InFlight' \ {Lead} = some
  BY <1>2, <1>5, <1>6 DEF InFlight
<1>8. Cardinality(InFlight' \ {Lead}) <= Concurrency
  BY <1>4, <1>7
<1>9. at'[Lead] # "queued"
  BY <1>2, <1>5, <1>6, BatchIsFinite
<1>10. PoolIsBounded' /\ Booked'
  BY <1>1, <1>8, <1>9 DEF PoolIsBounded, Booked, Lead
<1>11. ASSUME NEW c \in Misses PROVE ChargedAsPlaced(c)'
  <2>1. ChargedAsPlaced(c)
    BY DEF JudgingInv
  <2> QED BY <1>1, <1>5, <1>6, <2>1 DEF ChargedAsPlaced
<1> QED
  BY <1>1, <1>5, <1>10, <1>11 DEF JudgingInv

(* The answers, failures and retries of one candidate. *)
LEMMA JudgingOfOne ==
  ASSUME JudgingInv, NEW c \in Misses, Answered(c) \/ Unusable(c) \/ Refused(c) \/ Failed(c)
  PROVE  JudgingInv'
<1>1. /\ c \in InFlight /\ at[c] \in {"asked", "again"} /\ at \in [Misses -> Stages]
      /\ billed \in [Misses -> 0..2] /\ usage \in [Misses -> 0..2]
      /\ billed[c] \in 0..1 /\ (at[c] = "asked" => billed[c] = 0)
  <2>1. c \in InFlight /\ ChargedAsPlaced(c)
    BY DEF Answered, Unusable, Refused, Failed, JudgingInv
  <2> QED BY <2>1 DEF InFlight, JudgingInv, ChargedAsPlaced
<1> DEFINE more == [billed EXCEPT ![c] = billed[c] + 1]
<1>2. /\ more \in [Misses -> 0..2] /\ more[c] = billed[c] + 1
      /\ \A d \in Misses \ {c} : more[d] = billed[d]
  BY <1>1
<1>3. CASE Answered(c)
  <2>1. billed' = more /\ usage' = [usage EXCEPT ![c] = billed'[c]] /\ Settled(c, "read")
        /\ UNCHANGED <<aborted, ledger, kept>>
    BY <1>3 DEF Answered, AddUsage
  <2> HIDE DEF more
  <2>2. /\ usage' \in [Misses -> 0..2] /\ usage'[c] = billed'[c]
        /\ \A d \in Misses \ {c} : usage'[d] = usage[d]
    BY <1>1, <1>2, <2>1
  <2> QED BY <1>1, <1>2, <2>1, <2>2, ChargesFollow
<1>4. CASE Refused(c)
  <2>1. billed' = more /\ usage' = usage /\ Settled(c, "unread") /\ UNCHANGED <<aborted, ledger, kept>>
    BY <1>4 DEF Refused
  <2> HIDE DEF more
  <2> QED BY <1>1, <1>2, <2>1, ChargesFollow
<1>5. CASE Failed(c)
  <2>1. billed' = billed /\ usage' = usage /\ Settled(c, "unread") /\ UNCHANGED <<aborted, ledger, kept>>
    BY <1>5 DEF Failed
  <2> QED BY <1>1, <2>1, ChargesFollow
<1>6. CASE Unusable(c)
  <2>1. /\ at[c] = "asked" /\ billed' = more /\ at' = [at EXCEPT ![c] = "again"]
        /\ UNCHANGED <<phase, usage, aborted, ledger, kept>>
    BY <1>6 DEF Unusable, AsksAgain
  <2>2. at' \in [Misses -> Stages] /\ at'[c] = "again" /\ \A d \in Misses \ {c} : at'[d] = at[d]
    BY <1>1, <2>1 DEF Stages
  <2>3. InFlight' = InFlight
    BY <1>1, <2>2 DEF InFlight
  <2> HIDE DEF more
  <2>4. PoolIsBounded'
    <3>1. \A d \in Misses : at'[d] = "queued" <=> at[d] = "queued"
      BY <2>1, <2>2
    <3> QED BY <2>1, <2>3, <3>1, BatchIsFinite DEF JudgingInv, PoolIsBounded, Lead
  <2>5. Booked'
    BY <1>1, <2>1 DEF JudgingInv, Booked
  <2>6. ASSUME NEW d \in Misses PROVE ChargedAsPlaced(d)'
    <3>1. CASE d = c
      BY <1>1, <1>2, <2>1, <2>2, <3>1 DEF ChargedAsPlaced
    <3>2. CASE d # c
      BY <1>2, <2>1, <2>2, <3>2 DEF JudgingInv, ChargedAsPlaced
    <3> QED BY <3>1, <3>2
  <2> QED BY <1>2, <2>1, <2>2, <2>4, <2>5, <2>6 DEF JudgingInv
<1> QED
  BY <1>3, <1>4, <1>5, <1>6

(* The usage of who was read adds up to what was charged for them. *)
LEMMA JudgingBooked ==
  ASSUME JudgingInv, Book
  PROVE  JudgingInv'
<1>1. /\ phase' = "booked" /\ InFlight = {} /\ Waiting = {}
      /\ ledger' = [calls |-> Cardinality(Read),
                    attempts |-> FoldSet(LAMBDA c, n : usage[c] + n, 0, Read)]
      /\ kept' = Read /\ UNCHANGED <<at, billed, usage, aborted>>
  BY DEF Book, AllEnded, Kept
<1>2. at \in [Misses -> Stages] /\ billed \in [Misses -> 0..2] /\ usage \in [Misses -> 0..2]
  BY DEF JudgingInv
<1>3. Read \subseteq Misses /\ Read' = Read /\ \A c \in Read : usage[c] = billed[c]
  BY <1>1 DEF Read, JudgingInv, ChargedAsPlaced
<1>4. IsFiniteSet(Read) /\ Cardinality(Read) \in 0..Cardinality(Misses)
  BY <1>3, BatchIsFinite
<1> DEFINE paid == [c \in Read |-> billed[c]]
           used == [c \in Read |-> usage[c]]
<1>5. paid \in [Read -> Int] /\ used \in [Read -> Int] /\ (\A c \in Read : used[c] = paid[c])
      /\ \A c \in Read : usage[c] \in Int /\ billed[c] \in Int
  BY <1>2, <1>3
<1>6. TotalOver(usage, Read) = TotalOver(used, Read) /\ TotalOver(billed, Read) = TotalOver(paid, Read)
  <2> HIDE DEF paid, used
  <2>1. TotalOver(usage, Read) = TotalOver([c \in Read |-> usage[c]], Read)
    BY <1>4, <1>5, TotalOfPart
  <2>2. TotalOver(billed, Read) = TotalOver([c \in Read |-> billed[c]], Read)
    BY <1>4, <1>5, TotalOfPart
  <2> QED BY <2>1, <2>2 DEF paid, used
<1>7. \A c \in Read : paid[c] <= 2 /\ paid[c] >= 0
  BY <1>2, <1>3
<1> DEFINE none == [c \in Read |-> 0]
<1>8. none \in [Read -> Int] /\ \A c \in Read : none[c] = 0 /\ none[c] <= paid[c]
  BY <1>7
<1> HIDE DEF paid, used, none
<1>9. TotalOver(used, Read) = TotalOver(paid, Read)
  BY <1>4, <1>5, TotalOfEquals
<1>10. TotalOver(paid, Read) \in 0..(2 * Cardinality(Misses))
  <2>1. TotalOver(paid, Read) \in Int /\ TotalOver(paid, Read) <= Cardinality(Read) * 2
    BY <1>4, <1>5, <1>7, TotalType, TotalIsBounded
  <2>2. TotalOver(none, Read) = 0
    BY <1>4, <1>8, TotalOfZeros
  <2>3. TotalOver(none, Read) <= TotalOver(paid, Read)
    BY <1>4, <1>5, <1>8, TotalIsMonotone
  <2> QED BY <1>4, <2>1, <2>2, <2>3, BatchIsFinite
<1>11. FoldSet(LAMBDA c, n : usage[c] + n, 0, Read) = TotalOver(usage, Read)
  BY FoldIsTotal
<1>12. ledger'.attempts = TotalOver(billed, Read) /\ ledger'.calls = Cardinality(Read)
  BY <1>1, <1>6, <1>9, <1>11
<1>13. \A c \in Misses : at[c] \in {"read", "unread"}
  <2>1. \A c \in Misses : at[c] \notin {"asked", "again"} /\ at[c] # "queued"
    BY <1>1 DEF InFlight, Waiting
  <2> QED BY <1>2, <2>1 DEF Stages
<1>14. Booked'
  BY <1>1, <1>3, <1>12, <1>13 DEF Booked
<1>15. PoolIsBounded'
  <2>1. InFlight' = InFlight
    BY <1>1 DEF InFlight
  <2>2. at[Lead] # "queued"
    BY <1>13, BatchIsFinite
  <2> QED BY <1>1, <2>1, <2>2 DEF JudgingInv, PoolIsBounded, Lead
<1>16. \A c \in Misses : ChargedAsPlaced(c)'
  BY <1>1 DEF JudgingInv, ChargedAsPlaced
<1>17. ledger'.calls \in 0..Cardinality(Misses) /\ ledger'.attempts \in 0..(2 * Cardinality(Misses))
  BY <1>4, <1>6, <1>10, <1>12
<1> QED
  BY <1>1, <1>2, <1>3, <1>14, <1>15, <1>16, <1>17 DEF JudgingInv

LEMMA JudgingSteps ==
  ASSUME JudgingInv, [JudgingNext]_judgingVars
  PROVE  JudgingInv'
<1>1. CASE UNCHANGED judgingVars
  BY <1>1 DEF judgingVars, JudgingInv, ChargedAsPlaced, PoolIsBounded, Booked, InFlight, Lead, Read
<1>2. CASE Abort
  BY <1>2 DEF Abort, JudgingInv, ChargedAsPlaced, PoolIsBounded, Booked, InFlight, Lead, Read
<1>3. ASSUME NEW allowed \in BOOLEAN, Begin(allowed) PROVE JudgingInv'
  BY <1>3, JudgingBegun
<1>4. CASE Warmed \/ Book
  BY <1>4, JudgingWarmed, JudgingBooked
<1>5. ASSUME NEW c \in Misses, Answered(c) \/ Unusable(c) \/ Refused(c) \/ Failed(c) PROVE JudgingInv'
  BY <1>5, JudgingOfOne
<1> QED
  BY <1>1, <1>2, <1>3, <1>4, <1>5 DEF JudgingNext

LEMMA JudgingInvIsSound ==
  ASSUME JudgingInv
  PROVE  JudgingIsSound
<1>1. JudgingTypeOK /\ NobodyIsLeftOut
  BY DEF JudgingInv, Stages, Booked, JudgingTypeOK, NobodyIsLeftOut
<1>2. CallsAreBounded
  <2>1. InFlight \subseteq Misses /\ InFlight \ {Lead} \subseteq Misses
    BY DEF InFlight
  <2>2. IsFiniteSet(InFlight) /\ Cardinality(InFlight) \in Nat /\ Cardinality(InFlight \ {Lead}) \in Nat
    BY <2>1, BatchIsFinite
  <2>3. Cardinality(InFlight \ {Lead}) <= Concurrency /\ Concurrency \in Nat
    BY BatchIsFinite DEF JudgingInv, PoolIsBounded
  <2>4. CASE Lead \in InFlight
    <3>1. Cardinality(InFlight \ {Lead}) = Cardinality(InFlight) - 1
      BY <2>2, <2>4, FS_RemoveElement
    <3> QED BY <2>2, <2>3, <3>1 DEF CallsAreBounded
  <2>5. CASE Lead \notin InFlight
    <3>1. InFlight \ {Lead} = InFlight
      BY <2>5
    <3> QED BY <2>2, <2>3, <3>1 DEF CallsAreBounded
  <2> QED BY <2>4, <2>5
<1>3. AttemptsAreBooked
  <2>1. FoldSet(LAMBDA c, n : billed[c] + n, 0, Read) = TotalOver(billed, Read)
    BY FoldIsTotal
  <2> QED BY <2>1 DEF AttemptsAreBooked, JudgingInv, Booked
<1> QED
  BY <1>1, <1>2, <1>3 DEF JudgingIsSound

(* Whatever the order the answers, failures and retries of a batch come in, and
   wherever the recruiter leaves: bounded calls, everybody settled before it is
   booked, every paid attempt on who was read in the books (analyseMatches). *)
THEOREM JudgingStaysSound == JudgingSpec => []JudgingIsSound
<1>1. JudgingInit => JudgingInv
  BY JudgingStarts
<1>2. JudgingInv /\ [JudgingNext]_judgingVars => JudgingInv'
  BY JudgingSteps
<1>3. JudgingInv => JudgingIsSound
  BY JudgingInvIsSound
<1> QED
  BY <1>1, <1>2, <1>3, PTL DEF JudgingSpec

-----------------------------------------------------------------------------
(* Profiles.                                                                 *)

Pinned == [stage : {"insert", "first", "save", "store"}, file : Files, before : 0..MaxFiles]
Unlinking == [stage : {"unlink"}, file : Files, old : SUBSET (0..MaxFiles)]
Erasing == [stage : {"erase"}, old : SUBSET (0..MaxFiles)]

Runs == [stage : {"extract"}, file : Files]
Screenings == [stage : {"summary"}, read : Notes, run : BOOLEAN]
Embeddings == [stage : {"embed"}, text : 0..MaxFiles, run : BOOLEAN]

(* The tables keyed by the candidate, each a row with its columns. *)
Shaped(d) ==
    /\ d = [document |-> d.document, extraction |-> d.extraction, vector |-> d.vector,
            labels |-> d.labels, corrected |-> d.corrected]
    /\ d.labels = [v \in DOMAIN d.labels |-> d.labels[v]]
    /\ \A v \in DOMAIN d.labels : d.labels[v] = [from |-> d.labels[v].from, corrected |-> d.labels[v].corrected]

ProfileTables ==
    /\ life \in {"none", "listed", "erased"}
    /\ row \in [cv : 0..MaxFiles, version : Nat, notes : Notes]
    /\ Shaped(derived)
    /\ derived.document \in 0..MaxFiles /\ derived.extraction \in 0..MaxFiles /\ derived.vector \in 0..MaxFiles
    /\ disk \subseteq Files /\ lastFile \in 0..MaxFiles
    /\ upload \in [Uploads -> Pinned \cup Unlinking \cup Erasing \cup {Free}]
    /\ tasks \subseteq Runs \cup Screenings \cup Embeddings
    /\ alone \in BOOLEAN /\ cut \in BOOLEAN /\ overtaken \in BOOLEAN

Holding == {q \in Uploads : upload[q].stage \in {"insert", "first", "save", "store", "unlink"}}
Editing == {q \in Uploads : upload[q].stage \in {"first", "save", "store", "unlink"}}
Adding == {n \in Files : \E q \in Uploads : upload[q].stage \in {"save", "store", "unlink"} /\ upload[q].file = n}

(* A name is used once: no two requests hold one file, and an application holds
   none that the tables name. *)
FilesInHand ==
    /\ row.cv <= lastFile /\ derived.document <= lastFile
    /\ \A q \in Holding : upload[q].file <= lastFile
    /\ \A p, q \in Holding : upload[p].file = upload[q].file => p = q
    /\ \A q \in Uploads : upload[q].stage = "insert" => upload[q].file # row.cv /\ upload[q].file # derived.document

(* Every version is of a file or of words. *)
VersionsCounted == row.version >= 1 /\ row.version + Cardinality(Adding) <= 1 + lastFile + row.notes.n

NotesMeanWell ==
    /\ (row.notes.by = "candidate") = (row.notes.n > 0)
    /\ row.notes.by # "candidate" => row.notes.clean

Unlisted ==
    /\ life # "listed" => row = NoRow
    /\ life = "none" => derived = Nothing /\ tasks = {} /\ Editing = {} /\ \A q \in Holding : upload[q].file \in disk
    /\ life = "erased" /\ ~overtaken => derived = Nothing /\ tasks = {} /\ Holding = {}

(* One edit at a time: its file is there, and the tables name it in turn. *)
EditsAlone ==
    life = "listed" /\ alone =>
        /\ (row.cv = 0 \/ row.cv \in disk) /\ (derived.document = 0 \/ derived.document \in disk)
        /\ \A p, q \in Editing : p = q
        /\ \A q \in Editing : upload[q].file \in disk
        /\ \A q \in Uploads : upload[q].stage \in {"store", "unlink"} => row.cv = upload[q].file
        /\ \A q \in Uploads : upload[q].stage = "unlink" => derived.document = upload[q].file

(* Labels are of versions there have been; those of the current one are there, or
   a run that ends by building them is under way. *)
LabelsFollow ==
    /\ DOMAIN derived.labels \subseteq Versions
    /\ life = "listed" =>
        /\ \A v \in DOMAIN derived.labels : v <= row.version
        /\ \/ row.version \in DOMAIN derived.labels
           \/ \E t \in tasks : t.stage = "extract" \/ t.run
           \/ \E q \in Uploads : upload[q].stage = "first"

ProfileInv ==
    /\ ProfileTables /\ FilesInHand /\ VersionsCounted /\ NotesMeanWell /\ Unlisted /\ EditsAlone
    /\ LabelsFollow /\ CorrectionsStay /\ ScreeningIsUnderWay

(* Files are erased of an account that is gone. *)
ErasingIsLate == life # "erased" => \A q \in Uploads : upload[q].stage # "erase"

LEMMA BuiltIs ==
  ASSUME NEW d, Shaped(d), NEW v
  PROVE  /\ Shaped(Built(d, v))
         /\ Built(d, v).document = d.document /\ Built(d, v).extraction = d.extraction
         /\ Built(d, v).vector = d.vector /\ Built(d, v).corrected = d.corrected
         /\ DOMAIN Built(d, v).labels = DOMAIN d.labels \cup {v}
         /\ Built(d, v).labels[v].corrected = d.corrected
<1> DEFINE lab == [w \in DOMAIN d.labels \cup {v} |->
                      IF w = v THEN [from |-> d.extraction, corrected |-> d.corrected] ELSE d.labels[w]]
<1>1. Built(d, v) = [d EXCEPT !.labels = lab]
  BY DEF Built
<1>2. /\ DOMAIN lab = DOMAIN d.labels \cup {v} /\ lab = [w \in DOMAIN lab |-> lab[w]]
      /\ lab[v] = [from |-> d.extraction, corrected |-> d.corrected]
      /\ \A w \in DOMAIN lab : lab[w] = [from |-> lab[w].from, corrected |-> lab[w].corrected]
  BY DEF Shaped
<1> HIDE DEF lab
<1>3. Built(d, v) = [document |-> d.document, extraction |-> d.extraction, vector |-> d.vector,
                     labels |-> lab, corrected |-> d.corrected]
  <2>1. d = [document |-> d.document, extraction |-> d.extraction, vector |-> d.vector,
             labels |-> d.labels, corrected |-> d.corrected]
    BY DEF Shaped
  <2> QED BY <1>1, <2>1
<1> DEFINE b == Built(d, v)
<1>4. /\ b.document = d.document /\ b.extraction = d.extraction /\ b.vector = d.vector /\ b.corrected = d.corrected
      /\ b.labels = lab
  BY <1>3
<1>5. b = [document |-> b.document, extraction |-> b.extraction, vector |-> b.vector,
           labels |-> b.labels, corrected |-> b.corrected]
  BY <1>3, <1>4
<1> HIDE DEF b
<1>6. Shaped(b)
  BY <1>2, <1>4, <1>5 DEF Shaped
<1> QED
  BY <1>2, <1>4, <1>6 DEF b

(* A new reading or vector beside the labels. *)
LEMMA ReadingIs ==
  ASSUME NEW d, Shaped(d), NEW n
  PROVE  /\ Shaped([d EXCEPT !.extraction = n]) /\ Shaped([d EXCEPT !.vector = n]) /\ Shaped([d EXCEPT !.document = n])
         /\ [d EXCEPT !.extraction = n] = [document |-> d.document, extraction |-> n, vector |-> d.vector,
                                           labels |-> d.labels, corrected |-> d.corrected]
         /\ [d EXCEPT !.vector = n] = [document |-> d.document, extraction |-> d.extraction, vector |-> n,
                                       labels |-> d.labels, corrected |-> d.corrected]
         /\ [d EXCEPT !.document = n] = [document |-> n, extraction |-> d.extraction, vector |-> d.vector,
                                         labels |-> d.labels, corrected |-> d.corrected]
<1>1. d = [document |-> d.document, extraction |-> d.extraction, vector |-> d.vector,
           labels |-> d.labels, corrected |-> d.corrected]
  BY DEF Shaped
<1>2. [d EXCEPT !.extraction = n] = [document |-> d.document, extraction |-> n, vector |-> d.vector,
                                     labels |-> d.labels, corrected |-> d.corrected]
  BY <1>1
<1>3. [d EXCEPT !.vector = n] = [document |-> d.document, extraction |-> d.extraction, vector |-> n,
                                 labels |-> d.labels, corrected |-> d.corrected]
  BY <1>1
<1>4. [d EXCEPT !.document = n] = [document |-> n, extraction |-> d.extraction, vector |-> d.vector,
                                   labels |-> d.labels, corrected |-> d.corrected]
  BY <1>1
<1>5. d.labels = [v \in DOMAIN d.labels |-> d.labels[v]]
      /\ \A v \in DOMAIN d.labels : d.labels[v] = [from |-> d.labels[v].from, corrected |-> d.labels[v].corrected]
  BY DEF Shaped
<1> QED
  BY <1>2, <1>3, <1>4, <1>5 DEF Shaped

LEMMA AddingIsFinite ==
  /\ MaxFiles \in Nat /\ MaxWords \in Nat
  /\ IsFiniteSet(Files) /\ IsFiniteSet(Adding) /\ Cardinality(Adding) \in Nat
  /\ \A S \in SUBSET Files : IsFiniteSet(S) /\ Cardinality(S) \in Nat
<1>1. MaxFiles \in Nat /\ MaxWords \in Nat
  BY ProfileAssumption
<1>2. IsFiniteSet(Files)
  BY <1>1, FS_Interval DEF Files
<1>3. \A S \in SUBSET Files : IsFiniteSet(S) /\ Cardinality(S) \in Nat
  BY <1>2, FS_Subset, FS_CardinalityType
<1>4. Adding \in SUBSET Files
  BY DEF Adding
<1> QED
  BY <1>1, <1>2, <1>3, <1>4

LEMMA NothingIsTyped ==
  /\ NoNotes \in Notes /\ NoNotes.n = 0 /\ NoNotes.by = "nobody" /\ NoNotes.clean = TRUE
  /\ NoRow \in [cv : 0..MaxFiles, version : Nat, notes : Notes]
  /\ NoRow.cv = 0 /\ NoRow.version = 1 /\ NoRow.notes = NoNotes
  /\ Shaped(Nothing) /\ DOMAIN Nothing.labels = {} /\ Nothing.document = 0 /\ Nothing.extraction = 0 /\ Nothing.vector = 0
<1>1. NoNotes \in Notes /\ NoNotes.n = 0 /\ NoNotes.by = "nobody" /\ NoNotes.clean = TRUE
  BY AddingIsFinite DEF NoNotes, Notes
<1>2. 0 \in 0..MaxFiles
  BY AddingIsFinite
<1>3. /\ NoRow \in [cv : 0..MaxFiles, version : Nat, notes : Notes]
      /\ NoRow.cv = 0 /\ NoRow.version = 1 /\ NoRow.notes = NoNotes
  BY <1>1, <1>2 DEF NoRow
<1>4. Shaped(Nothing) /\ DOMAIN Nothing.labels = {} /\ Nothing.document = 0 /\ Nothing.extraction = 0
      /\ Nothing.vector = 0
  BY DEF Nothing, Shaped
<1> QED
  BY <1>1, <1>3, <1>4

LEMMA ProfileStarts ==
  ASSUME ProfileInit
  PROVE  ProfileInv
<1>1. /\ life = "none" /\ row = NoRow /\ derived = Nothing /\ disk = {} /\ lastFile = 0
      /\ upload = [q \in Uploads |-> Free] /\ tasks = {}
      /\ alone = TRUE /\ cut = FALSE /\ overtaken = FALSE
  BY DEF ProfileInit
<1>2. MaxFiles \in Nat /\ MaxWords \in Nat
  BY AddingIsFinite
<1>3. \A q \in Uploads : upload[q].stage = "free"
  BY <1>1 DEF Free
<1>4. /\ Holding = {} /\ Editing = {} /\ Adding = {}
  BY <1>3 DEF Holding, Editing, Adding
<1>5. Cardinality(Adding) = 0
  BY <1>4, FS_EmptySet
<1>6. DOMAIN derived.labels = {} /\ Shaped(derived)
  BY <1>1 DEF Nothing, Shaped
<1>7. row.cv = 0 /\ row.version = 1 /\ row.notes = NoNotes /\ NoNotes.n = 0 /\ NoNotes.by = "nobody" /\ NoNotes.clean = TRUE
      /\ NoNotes \in Notes
  BY <1>1, <1>2 DEF NoRow, NoNotes, Notes
<1>8. ProfileTables
  <2>1. row \in [cv : 0..MaxFiles, version : Nat, notes : Notes]
    BY <1>1, <1>2, <1>7 DEF NoRow
  <2>2. upload \in [Uploads -> Pinned \cup Unlinking \cup Erasing \cup {Free}]
    BY <1>1
  <2>3. derived.document = 0 /\ derived.extraction = 0 /\ derived.vector = 0 /\ 0 \in 0..MaxFiles
    BY <1>1, <1>2 DEF Nothing
  <2> QED BY <1>1, <1>6, <2>1, <2>2, <2>3 DEF ProfileTables
<1>9. FilesInHand /\ VersionsCounted /\ NotesMeanWell /\ Unlisted
  <2>1. derived.document = 0
    BY <1>1 DEF Nothing
  <2>2. FilesInHand
    BY <1>1, <1>3, <1>4, <1>7, <2>1 DEF FilesInHand
  <2>3. VersionsCounted /\ NotesMeanWell
    BY <1>1, <1>5, <1>7 DEF VersionsCounted, NotesMeanWell
  <2> QED BY <1>1, <1>4, <2>2, <2>3 DEF Unlisted
<1>10. EditsAlone /\ LabelsFollow /\ CorrectionsStay /\ ScreeningIsUnderWay
  BY <1>1, <1>6, <1>7 DEF EditsAlone, LabelsFollow, CorrectionsStay, ScreeningIsUnderWay, Listed
<1> QED
  BY <1>8, <1>9, <1>10 DEF ProfileInv

(* A request goes on; the others are where they were. *)
LEMMA UploadGoesOn ==
  ASSUME ProfileInv, NEW q \in Uploads, NEW r \in Pinned \cup Unlinking \cup Erasing \cup {Free},
         upload' = [upload EXCEPT ![q] = r]
  PROVE  /\ upload' \in [Uploads -> Pinned \cup Unlinking \cup Erasing \cup {Free}]
         /\ upload'[q] = r /\ \A p \in Uploads : p # q => upload'[p] = upload[p]
  BY DEF ProfileInv, ProfileTables

(* A step that touches neither the words nor what is under way to screen them. *)
LEMMA ScreeningGoesOn ==
  ASSUME ScreeningIsUnderWay, row'.notes = row.notes, cut' = cut, tasks \subseteq tasks',
         \A p \in Uploads : upload[p].stage = "first" => upload'[p].stage = "first"
  PROVE  ScreeningIsUnderWay'
<1>1. CASE row.notes.clean \/ cut
  BY <1>1 DEF ScreeningIsUnderWay
<1>2. CASE \E t \in tasks : t.stage = "extract" \/ (t.stage = "summary" /\ t.read = row.notes)
  BY <1>2 DEF ScreeningIsUnderWay
<1>3. CASE \E p \in Uploads : upload[p].stage = "first"
  BY <1>3 DEF ScreeningIsUnderWay
<1> QED
  BY <1>1, <1>2, <1>3 DEF ScreeningIsUnderWay

LEMMA ProfileUploads ==
  ASSUME ProfileInv, NEW q \in Uploads, NEW stage \in {"insert", "save"}, BeginUpload(q, stage)
  PROVE  ProfileInv'
<1>1. /\ upload[q] = Free /\ lastFile < MaxFiles
      /\ life = (IF stage = "insert" THEN "none" ELSE "listed")
      /\ lastFile' = lastFile + 1 /\ disk' = disk \cup {lastFile'}
      /\ upload' = [upload EXCEPT ![q] = [stage |-> stage, file |-> lastFile', before |-> row.cv]]
      /\ alone' = (alone /\ ~EditInFlight)
      /\ UNCHANGED <<life, row, derived, tasks, cut, overtaken>>
  BY DEF BeginUpload
<1>2. MaxFiles \in Nat /\ lastFile \in 0..MaxFiles /\ row.cv \in 0..MaxFiles /\ disk \subseteq Files
      /\ row \in [cv : 0..MaxFiles, version : Nat, notes : Notes] /\ row.notes.n \in Nat /\ row.version \in Nat
  BY AddingIsFinite DEF ProfileInv, ProfileTables, Notes
<1>3. lastFile' \in Files /\ lastFile' \in 0..MaxFiles
  BY <1>1, <1>2 DEF Files
<1> DEFINE r == [stage |-> stage, file |-> lastFile', before |-> row.cv]
<1>4. r \in Pinned /\ r.stage = stage /\ r.file = lastFile'
  <2>1. stage \in {"insert", "first", "save", "store"}
    OBVIOUS
  <2> QED BY <1>2, <1>3, <2>1 DEF Pinned
<1>5. upload' = [upload EXCEPT ![q] = r]
  BY <1>1
<1> HIDE DEF r
<1>6. /\ upload' \in [Uploads -> Pinned \cup Unlinking \cup Erasing \cup {Free}]
      /\ upload'[q] = r /\ \A p \in Uploads : p # q => upload'[p] = upload[p]
  BY <1>4, <1>5, UploadGoesOn
<1>7. upload[q].stage = "free"
  BY <1>1 DEF Free
<1>8. ProfileTables'
  BY <1>1, <1>2, <1>3, <1>6 DEF ProfileInv, ProfileTables
<1>9. FilesInHand'
  <2>1. \A p \in Holding : upload[p].file <= lastFile
    BY DEF ProfileInv, FilesInHand
  <2>2. \A p \in Holding' : p = q \/ p \in Holding
    BY <1>6 DEF Holding
  <2>3. \A p \in Holding' : upload'[p].file <= lastFile' /\ (p # q => upload'[p].file # lastFile')
    <3> SUFFICES ASSUME NEW p \in Holding' PROVE upload'[p].file <= lastFile' /\ (p # q => upload'[p].file # lastFile')
      OBVIOUS
    <3>1. CASE p = q
      BY <1>1, <1>2, <1>4, <1>6, <3>1
    <3>2. CASE p # q
      <4>1. p \in Holding /\ upload'[p] = upload[p] /\ upload[p].file <= lastFile
        BY <1>6, <2>1, <2>2, <3>2 DEF Holding
      <4>2. upload[p].file \in Int
        <5>1. upload[p] \in Pinned \cup Unlinking \cup Erasing \cup {Free} /\ upload[p].stage # "erase" /\ upload[p].stage # "free"
          BY <4>1 DEF ProfileInv, ProfileTables, Holding
        <5> QED BY <5>1 DEF Pinned, Unlinking, Erasing, Free, Files
      <4> QED BY <1>1, <1>2, <4>1, <4>2
    <3> QED BY <3>1, <3>2
  <2>4. \A p, o \in Holding' : upload'[p].file = upload'[o].file => p = o
    <3> SUFFICES ASSUME NEW p \in Holding', NEW o \in Holding', upload'[p].file = upload'[o].file PROVE p = o
      OBVIOUS
    <3>1. CASE p = q \/ o = q
      BY <1>4, <1>6, <2>3, <3>1
    <3>2. CASE p # q /\ o # q
      <4>1. p \in Holding /\ o \in Holding /\ upload'[p] = upload[p] /\ upload'[o] = upload[o]
        BY <1>6, <2>2, <3>2 DEF Holding
      <4> QED BY <4>1 DEF ProfileInv, FilesInHand
    <3> QED BY <3>1, <3>2
  <2>5. row.cv <= lastFile /\ derived.document <= lastFile /\ derived.document \in 0..MaxFiles
    BY DEF ProfileInv, FilesInHand, ProfileTables
  <2>6. row.cv <= lastFile' /\ derived.document <= lastFile' /\ row.cv # lastFile' /\ derived.document # lastFile'
    BY <1>1, <1>2, <2>5
  <2>7. \A p \in Uploads : upload'[p].stage = "insert" => upload'[p].file # row.cv /\ upload'[p].file # derived.document
    BY <1>4, <1>6, <2>6 DEF ProfileInv, FilesInHand
  <2> QED BY <1>1, <2>3, <2>4, <2>6, <2>7 DEF FilesInHand
<1>10. VersionsCounted'
  <2>1. Adding' \subseteq Adding \cup {lastFile'}
    BY <1>4, <1>6 DEF Adding
  <2>2. IsFiniteSet(Adding) /\ Cardinality(Adding) \in Nat
    BY AddingIsFinite
  <2>3. /\ IsFiniteSet(Adding \cup {lastFile'}) /\ Cardinality(Adding \cup {lastFile'}) \in Nat
        /\ Cardinality(Adding \cup {lastFile'}) <= Cardinality(Adding) + 1
    BY <2>2, FS_AddElement, FS_CardinalityType
  <2>4. Cardinality(Adding') \in Nat /\ Cardinality(Adding') <= Cardinality(Adding \cup {lastFile'})
    BY <2>1, <2>3, FS_Subset, FS_CardinalityType
  <2>5. row.version >= 1 /\ row.version + Cardinality(Adding) <= 1 + lastFile + row.notes.n
    BY DEF ProfileInv, VersionsCounted
  <2>6. row.version + Cardinality(Adding') <= 1 + lastFile' + row.notes.n
    BY <1>1, <1>2, <2>2, <2>3, <2>4, <2>5
  <2> QED BY <1>1, <2>5, <2>6 DEF VersionsCounted
<1>11. Unlisted'
  <2>1. life # "erased" /\ (life = "none" => stage = "insert") /\ (life # "none" => life = "listed")
    BY <1>1
  <2>2. life = "none" => Editing' = {} /\ \A p \in Holding' : upload'[p].file \in disk'
    <3> SUFFICES ASSUME life = "none" PROVE Editing' = {} /\ \A p \in Holding' : upload'[p].file \in disk'
      OBVIOUS
    <3>1. Editing = {} /\ \A p \in Holding : upload[p].file \in disk
      BY DEF ProfileInv, Unlisted
    <3>2. Editing' = {}
      BY <1>4, <1>6, <2>1, <3>1 DEF Editing
    <3>3. \A p \in Holding' : upload'[p].file \in disk'
      BY <1>1, <1>4, <1>6, <3>1 DEF Holding
    <3> QED BY <3>2, <3>3
  <2> QED BY <1>1, <2>1, <2>2 DEF ProfileInv, Unlisted
<1>12. EditsAlone'
  <2> SUFFICES ASSUME life = "listed", alone'
               PROVE  /\ (row.cv = 0 \/ row.cv \in disk') /\ (derived.document = 0 \/ derived.document \in disk')
                      /\ \A p, o \in Editing' : p = o
                      /\ \A p \in Editing' : upload'[p].file \in disk'
                      /\ \A p \in Uploads : upload'[p].stage \in {"store", "unlink"} => row.cv = upload'[p].file
                      /\ \A p \in Uploads : upload'[p].stage = "unlink" => derived.document = upload'[p].file
    BY <1>1 DEF EditsAlone
  <2>1. alone /\ Editing = {} /\ stage = "save"
    BY <1>1 DEF EditInFlight, Editing
  <2>2. Editing' \subseteq {q} /\ \A p \in Uploads : upload'[p].stage \notin {"store", "unlink"}
    BY <1>4, <1>6, <2>1 DEF Editing
  <2> QED BY <1>1, <1>4, <1>6, <2>1, <2>2 DEF ProfileInv, EditsAlone
<1>13. LabelsFollow'
  BY <1>1, <1>6, <1>7 DEF ProfileInv, LabelsFollow
<1>14. CorrectionsStay' /\ ScreeningIsUnderWay' /\ NotesMeanWell'
  <2>1. \A p \in Uploads : upload[p].stage = "first" => upload'[p].stage = "first"
    BY <1>6, <1>7
  <2>2. ScreeningIsUnderWay'
    BY <1>1, <2>1, ScreeningGoesOn DEF ProfileInv
  <2> QED BY <1>1, <2>2 DEF ProfileInv, CorrectionsStay, Listed, NotesMeanWell
<1> QED
  BY <1>8, <1>9, <1>10, <1>11, <1>12, <1>13, <1>14 DEF ProfileInv

(* The application: the row and the upload go one way or another. *)
LEMMA ProfileInserts ==
  ASSUME ProfileInv, NEW q \in Uploads, NEW wrote \in BOOLEAN, InsertCandidate(q, wrote)
  PROVE  ProfileInv'
<1>1. /\ upload[q].stage = "insert"
      /\ disk' = (IF Listed THEN disk \ {upload[q].file} ELSE disk)
      /\ UNCHANGED <<derived, lastFile, tasks, alone, cut, overtaken>>
  BY DEF InsertCandidate
<1>2. /\ upload[q] \in Pinned /\ upload[q].file \in Files /\ MaxFiles \in Nat /\ lastFile \in 0..MaxFiles
      /\ row \in [cv : 0..MaxFiles, version : Nat, notes : Notes]
  BY <1>1, AddingIsFinite DEF ProfileInv, ProfileTables, Pinned, Unlinking, Erasing, Free
<1>3. Files \subseteq 0..MaxFiles
  BY <1>2 DEF Files
<1>4. q \in Holding
  BY <1>1 DEF Holding
<1>5. CASE life = "none"
  <2> DEFINE r == [upload[q] EXCEPT !.stage = "first"]
             notes == IF wrote THEN Words(1) ELSE NoNotes
  <2>1. life' = "listed" /\ row' = [NoRow EXCEPT !.cv = upload[q].file, !.notes = notes]
        /\ upload' = [upload EXCEPT ![q] = r] /\ disk' = disk
    BY <1>1, <1>5 DEF InsertCandidate, Listed
  <2>2. r \in Pinned /\ r.stage = "first" /\ r.file = upload[q].file
    BY <1>2 DEF Pinned
  <2> HIDE DEF r
  <2>3. /\ upload' \in [Uploads -> Pinned \cup Unlinking \cup Erasing \cup {Free}]
        /\ upload'[q] = r /\ \A p \in Uploads : p # q => upload'[p] = upload[p]
    BY <2>1, <2>2, UploadGoesOn
  <2>4. row = NoRow /\ derived = Nothing /\ tasks = {} /\ Editing = {} /\ upload[q].file \in disk
    BY <1>4, <1>5 DEF ProfileInv, Unlisted
  <2>5. /\ row' = [cv |-> upload[q].file, version |-> 1, notes |-> notes]
        /\ notes \in Notes /\ notes.n \in Nat
        /\ (notes.by = "candidate") = (notes.n > 0) /\ (notes.by # "candidate" => notes.clean)
    <3>1. row' = [cv |-> upload[q].file, version |-> 1, notes |-> notes]
      BY <2>1 DEF NoRow
    <3>2. wrote => row.notes.n < MaxWords /\ row.notes.n = 0
      BY <2>4, NothingIsTyped DEF InsertCandidate
    <3>3. CASE wrote
      <4>1. notes = [by |-> "candidate", n |-> 1, clean |-> FALSE]
        BY <3>3 DEF Words
      <4>2. 1 \in 0..MaxWords
        BY <3>2, <3>3, AddingIsFinite
      <4> HIDE DEF notes
      <4>3. notes \in Notes
        BY <4>1, <4>2 DEF Notes
      <4>4. notes.by = "candidate" /\ notes.n = 1
        BY <4>1
      <4>5. notes.n \in Nat /\ notes.n > 0
        BY <4>4
      <4> QED BY <3>1, <4>3, <4>4, <4>5
    <3>4. CASE ~wrote
      <4>1. notes = NoNotes
        BY <3>4
      <4> HIDE DEF notes
      <4> QED BY <3>1, <4>1, NothingIsTyped
    <3> QED BY <3>3, <3>4
  <2> HIDE DEF notes
  <2>6. ProfileTables'
    <3>1. row' \in [cv : 0..MaxFiles, version : Nat, notes : Notes]
      BY <1>2, <1>3, <2>5
    <3> QED BY <1>1, <2>1, <2>3, <3>1 DEF ProfileInv, ProfileTables
  <2>7. derived.document = 0 /\ DOMAIN derived.labels = {}
    BY <2>4 DEF Nothing
  <2>8. FilesInHand'
    <3>1. \A p \in Uploads : (p \in Holding' <=> p \in Holding) /\ upload'[p].file = upload[p].file
      BY <1>4, <2>2, <2>3 DEF Holding
    <3>2. \A p \in Holding : upload[p].file <= lastFile
      BY DEF ProfileInv, FilesInHand
    <3>3. \A p, o \in Holding : upload[p].file = upload[o].file => p = o
      BY DEF ProfileInv, FilesInHand
    <3>4. \A p \in Uploads : upload'[p].stage = "insert" => upload'[p].file # row'.cv /\ upload'[p].file # derived.document
      <4>1. \A p \in Uploads : upload'[p].stage = "insert" => p # q /\ upload[p].stage = "insert" /\ p \in Holding
        BY <2>2, <2>3 DEF Holding
      <4>2. row'.cv = upload[q].file
        BY <2>5
      <4>3. \A p \in Uploads : upload[p].stage = "insert" => upload[p].file # derived.document
        BY DEF ProfileInv, FilesInHand
      <4> QED BY <1>4, <3>1, <3>3, <4>1, <4>2, <4>3
    <3>5. Holding' \subseteq Uploads /\ Holding \subseteq Uploads
      BY DEF Holding
    <3>6. row'.cv = upload[q].file /\ row'.cv <= lastFile' /\ derived'.document <= lastFile'
      BY <1>1, <1>2, <1>4, <2>5, <2>7, <3>2
    <3> QED BY <1>1, <3>1, <3>2, <3>3, <3>4, <3>5, <3>6 DEF FilesInHand
  <2>9. VersionsCounted'
    <3>1. Adding' = {}
      BY <2>2, <2>3, <2>4 DEF Adding, Editing
    <3>2. Cardinality(Adding') = 0
      BY <3>1, FS_EmptySet
    <3>3. row'.version = 1 /\ row'.notes.n \in Nat
      BY <2>5
    <3> QED BY <1>1, <1>2, <3>2, <3>3 DEF VersionsCounted
  <2>10. NotesMeanWell' /\ Unlisted'
    <3>1. row'.notes = notes
      BY <2>5
    <3> QED BY <2>1, <2>5, <3>1 DEF NotesMeanWell, Unlisted
  <2>11. EditsAlone'
    <3>1. Editing' = {q}
      BY <2>2, <2>3, <2>4 DEF Editing
    <3>2. \A p \in Uploads : upload'[p].stage \notin {"store", "unlink"}
      BY <2>2, <2>3, <2>4 DEF Editing
    <3>3. row'.cv \in disk' /\ derived'.document = 0 /\ upload'[q].file \in disk'
      BY <1>1, <2>1, <2>2, <2>3, <2>4, <2>5, <2>7
    <3> QED BY <3>1, <3>2, <3>3 DEF EditsAlone
  <2>12. LabelsFollow' /\ CorrectionsStay' /\ ScreeningIsUnderWay'
    BY <1>1, <2>2, <2>3, <2>5, <2>7 DEF LabelsFollow, CorrectionsStay, ScreeningIsUnderWay
  <2> QED BY <2>6, <2>8, <2>9, <2>10, <2>11, <2>12 DEF ProfileInv
<1>6. CASE life # "none"
  <2>1. UNCHANGED <<life, row>> /\ upload' = [upload EXCEPT ![q] = Free]
    BY <1>6 DEF InsertCandidate
  <2>2. /\ upload' \in [Uploads -> Pinned \cup Unlinking \cup Erasing \cup {Free}]
        /\ upload'[q] = Free /\ \A p \in Uploads : p # q => upload'[p] = upload[p]
    BY <2>1, UploadGoesOn
  <2>3. Free.stage = "free"
    BY DEF Free
  <2>4. disk' \subseteq disk
    BY <1>1
  <2>5. ProfileTables'
    BY <1>1, <2>1, <2>2, <2>4 DEF ProfileInv, ProfileTables
  <2>6. Holding' \subseteq Holding /\ q \notin Holding' /\ Editing' = Editing /\ q \notin Editing /\ Adding' = Adding
    BY <1>1, <2>2, <2>3 DEF Holding, Editing, Adding
  <2>7. FilesInHand'
    <3>1. \A p \in Holding' : upload'[p] = upload[p] /\ p \in Holding
      BY <2>2, <2>6 DEF Holding
    <3>2. \A p \in Uploads : upload'[p].stage = "insert" => upload[p].stage = "insert" /\ upload'[p] = upload[p]
      BY <2>2, <2>3
    <3> QED BY <1>1, <2>1, <3>1, <3>2 DEF ProfileInv, FilesInHand
  <2>8. VersionsCounted' /\ NotesMeanWell'
    BY <1>1, <2>1, <2>6 DEF ProfileInv, VersionsCounted, NotesMeanWell
  <2>9. Unlisted'
    BY <1>1, <1>4, <1>6, <2>1, <2>6 DEF ProfileInv, Unlisted
  <2>10. EditsAlone'
    <3> SUFFICES ASSUME life = "listed", alone PROVE EditsAlone'
      BY <1>1, <2>1 DEF EditsAlone
    <3>1. /\ (row.cv = 0 \/ row.cv \in disk) /\ (derived.document = 0 \/ derived.document \in disk)
          /\ \A p, o \in Editing : p = o
          /\ \A p \in Editing : upload[p].file \in disk
          /\ \A p \in Uploads : upload[p].stage \in {"store", "unlink"} => row.cv = upload[p].file
          /\ \A p \in Uploads : upload[p].stage = "unlink" => derived.document = upload[p].file
      BY DEF ProfileInv, EditsAlone
    <3>2. disk' = disk \ {upload[q].file}
      BY <1>1 DEF Listed
    <3>3. row.cv # upload[q].file /\ derived.document # upload[q].file
      BY <1>1 DEF ProfileInv, FilesInHand
    <3>4. \A p \in Editing : p # q /\ upload'[p] = upload[p] /\ upload[p].file # upload[q].file
      <4>1. Editing \subseteq Holding
        BY DEF Editing, Holding
      <4> QED BY <1>4, <2>2, <2>6, <4>1 DEF ProfileInv, FilesInHand, Holding
    <3>5. \A p \in Uploads : upload'[p].stage \in {"store", "unlink"} => upload'[p] = upload[p]
      BY <2>2, <2>3
    <3>6. /\ (row.cv = 0 \/ row.cv \in disk') /\ (derived.document = 0 \/ derived.document \in disk')
          /\ (\A p, o \in Editing' : p = o) /\ (\A p \in Editing' : upload'[p].file \in disk')
      BY <2>6, <3>1, <3>2, <3>3, <3>4
    <3>7. /\ \A p \in Uploads : upload'[p].stage \in {"store", "unlink"} => row.cv = upload'[p].file
          /\ \A p \in Uploads : upload'[p].stage = "unlink" => derived.document = upload'[p].file
      BY <3>1, <3>5
    <3> QED BY <1>1, <2>1, <3>6, <3>7 DEF EditsAlone
  <2>11. LabelsFollow'
    BY <1>1, <2>1, <2>2 DEF ProfileInv, LabelsFollow
  <2>12. CorrectionsStay' /\ ScreeningIsUnderWay'
    <3>1. \A p \in Uploads : upload[p].stage = "first" => upload'[p].stage = "first"
      BY <1>1, <2>2
    <3>2. ScreeningIsUnderWay'
      BY <1>1, <2>1, <3>1, ScreeningGoesOn DEF ProfileInv
    <3> QED BY <1>1, <2>1, <3>2 DEF ProfileInv, CorrectionsStay, Listed
  <2> QED BY <2>5, <2>7, <2>8, <2>9, <2>10, <2>11, <2>12 DEF ProfileInv
<1> QED
  BY <1>5, <1>6

(* The rest of the application, whose run is now under way. *)
LEMMA ProfileFinishes ==
  ASSUME ProfileInv, NEW q \in Uploads, FinishApplication(q)
  PROVE  ProfileInv'
<1>1. /\ upload[q].stage = "first"
      /\ derived' = [derived EXCEPT !.document = upload[q].file]
      /\ tasks' = tasks \cup {Run(upload[q].file)} /\ upload' = [upload EXCEPT ![q] = Free]
      /\ UNCHANGED <<life, row, disk, lastFile, alone, cut, overtaken>>
  BY DEF FinishApplication
<1>2. /\ upload[q] \in Pinned /\ upload[q].file \in Files /\ MaxFiles \in Nat /\ Shaped(derived)
      /\ upload[q].file <= lastFile
  <2>1. q \in Holding
    BY <1>1 DEF Holding
  <2> QED BY <1>1, <2>1, AddingIsFinite DEF ProfileInv, ProfileTables, Pinned, Unlinking, Erasing, Free, FilesInHand
<1>3. /\ upload' \in [Uploads -> Pinned \cup Unlinking \cup Erasing \cup {Free}]
      /\ upload'[q] = Free /\ \A p \in Uploads : p # q => upload'[p] = upload[p]
  BY <1>1, UploadGoesOn
<1>4. Free.stage = "free"
  BY DEF Free
<1>5. /\ Shaped(derived') /\ derived'.document = upload[q].file /\ derived'.extraction = derived.extraction
      /\ derived'.vector = derived.vector /\ derived'.labels = derived.labels /\ derived'.corrected = derived.corrected
  <2>1. Shaped(derived)
    BY <1>2
  <2>2. Shaped([derived EXCEPT !.document = upload[q].file])
    BY <2>1, ReadingIs
  <2>3. [derived EXCEPT !.document = upload[q].file]
          = [document |-> upload[q].file, extraction |-> derived.extraction, vector |-> derived.vector,
             labels |-> derived.labels, corrected |-> derived.corrected]
    BY <2>1, ReadingIs
  <2>4. Shaped(derived')
    BY <1>1, <2>2
  <2>5. derived' = [document |-> upload[q].file, extraction |-> derived.extraction, vector |-> derived.vector,
                    labels |-> derived.labels, corrected |-> derived.corrected]
    BY <1>1, <2>3
  <2> QED BY <2>4, <2>5
<1>6. Run(upload[q].file) \in Runs /\ Run(upload[q].file).stage = "extract"
  BY <1>2 DEF Run, Runs
<1>7. ProfileTables'
  <2>1. derived'.document \in 0..MaxFiles
    BY <1>2, <1>5 DEF Files
  <2> QED BY <1>1, <1>3, <1>5, <1>6, <2>1 DEF ProfileInv, ProfileTables
<1>8. /\ Holding' \subseteq Holding /\ q \notin Holding' /\ Editing' \subseteq Editing /\ q \notin Editing' /\ Adding' = Adding
      /\ Editing \subseteq Holding /\ q \in Editing
  BY <1>1, <1>3, <1>4 DEF Holding, Editing, Adding
<1>9. FilesInHand'
  <2>1. \A p \in Holding' : upload'[p] = upload[p] /\ p \in Holding
    BY <1>3, <1>8 DEF Holding
  <2>2. \A p \in Uploads : upload'[p].stage = "insert"
          => upload[p].stage = "insert" /\ upload'[p] = upload[p] /\ p \in Holding /\ p # q
    BY <1>3, <1>4 DEF Holding
  <2>3. \A p \in Uploads : upload'[p].stage = "insert" => upload'[p].file # derived'.document
    BY <1>5, <1>8, <2>2 DEF ProfileInv, FilesInHand
  <2> QED BY <1>1, <1>2, <1>5, <2>1, <2>2, <2>3 DEF ProfileInv, FilesInHand
<1>10. VersionsCounted' /\ NotesMeanWell'
  BY <1>1, <1>8 DEF ProfileInv, VersionsCounted, NotesMeanWell
<1>11. Unlisted'
  BY <1>1, <1>8 DEF ProfileInv, Unlisted
<1>12. EditsAlone'
  <2>1. \A p \in Uploads : upload'[p].stage \in {"store", "unlink"} => upload'[p] = upload[p] /\ p \in Editing /\ p # q
    BY <1>3, <1>4 DEF Editing
  <2>2. \A p \in Editing' : upload'[p] = upload[p]
    BY <1>3, <1>8 DEF Editing
  <2> QED BY <1>1, <1>5, <1>8, <2>1, <2>2 DEF ProfileInv, EditsAlone
<1>13. LabelsFollow'
  BY <1>1, <1>5, <1>6 DEF ProfileInv, LabelsFollow
<1>14. CorrectionsStay' /\ ScreeningIsUnderWay'
  <2>1. ScreeningIsUnderWay'
    BY <1>1, <1>6 DEF ScreeningIsUnderWay
  <2> QED BY <1>1, <1>5, <2>1 DEF ProfileInv, CorrectionsStay, Listed
<1> QED
  BY <1>7, <1>9, <1>10, <1>11, <1>12, <1>13, <1>14 DEF ProfileInv

(* The CV of an edit, with or without new words; both go to the row in one UPDATE. *)
LEMMA ProfileSaves ==
  ASSUME ProfileInv, NEW q \in Uploads, NEW wrote \in BOOLEAN, SaveEdit(q, wrote)
  PROVE  ProfileInv'
<1> DEFINE notes == IF wrote THEN Words(row.notes.n + 1) ELSE row.notes
           r == [upload[q] EXCEPT !.stage = "store"]
<1>1. /\ upload[q].stage = "save" /\ (wrote => row.notes.n < MaxWords)
      /\ row' = Saved(upload[q].file, notes)
      /\ tasks' = (IF wrote /\ Listed THEN tasks \cup {ScreenedAfter(notes)} ELSE tasks)
      /\ upload' = [upload EXCEPT ![q] = r]
      /\ UNCHANGED <<life, derived, disk, lastFile, alone, cut, overtaken>>
  BY DEF SaveEdit
<1>2. /\ upload[q] \in Pinned /\ upload[q].file \in Files /\ MaxFiles \in Nat /\ MaxWords \in Nat
      /\ upload[q].file <= lastFile /\ q \in Holding /\ q \in Editing
      /\ row \in [cv : 0..MaxFiles, version : Nat, notes : Notes] /\ row.notes \in Notes
      /\ row.notes.n \in 0..MaxWords /\ row.version \in Nat
  <2>1. q \in Holding /\ q \in Editing
    BY <1>1 DEF Holding, Editing
  <2> QED BY <1>1, <2>1, AddingIsFinite DEF ProfileInv, ProfileTables, Pinned, Unlinking, Erasing, Free, FilesInHand, Notes
<1>3. r \in Pinned /\ r.stage = "store" /\ r.file = upload[q].file
  BY <1>2 DEF Pinned
<1> HIDE DEF r
<1>4. /\ upload' \in [Uploads -> Pinned \cup Unlinking \cup Erasing \cup {Free}]
      /\ upload'[q] = r /\ \A p \in Uploads : p # q => upload'[p] = upload[p]
  BY <1>1, <1>3, UploadGoesOn
<1>5. /\ notes \in Notes /\ (~wrote => notes = row.notes)
      /\ wrote => notes.by = "candidate" /\ notes.n = row.notes.n + 1
  BY <1>1, <1>2 DEF Words, Notes
<1> HIDE DEF notes
<1>6. ScreenedAfter(notes) \in Screenings /\ ScreenedAfter(notes).stage = "summary" /\ ScreenedAfter(notes).read = notes
  BY <1>5 DEF ScreenedAfter, Screening, Screenings
<1>7. /\ Listed => row' \in [cv : 0..MaxFiles, version : Nat, notes : Notes] /\ row'.version = row.version
                   /\ row'.cv = upload[q].file /\ row'.notes = notes
      /\ ~Listed => row' = row
  <2>1. Listed => row' = [row EXCEPT !.cv = upload[q].file, !.notes = notes]
    BY <1>1 DEF Saved
  <2>2. Files \subseteq 0..MaxFiles
    BY <1>2 DEF Files
  <2>3. ~Listed => row' = row
    BY <1>1 DEF Saved
  <2> QED BY <1>2, <1>5, <2>1, <2>2, <2>3
<1>8. ProfileTables'
  BY <1>1, <1>4, <1>6, <1>7 DEF ProfileInv, ProfileTables
<1>9. /\ Holding' = Holding /\ Editing' = Editing /\ Editing \subseteq Holding
      /\ \A p \in Uploads : upload'[p].file = upload[p].file
      /\ \A p \in Uploads : upload'[p].stage = "insert" => upload[p].stage = "insert" /\ p # q /\ p \in Holding
  BY <1>1, <1>3, <1>4 DEF Holding, Editing
<1>10. Adding' = Adding
  BY <1>1, <1>3, <1>4 DEF Adding
<1>11. FilesInHand'
  <2>1. \A p \in Uploads : upload'[p].stage = "insert" => upload'[p].file # upload[q].file /\ upload'[p].file # row.cv
    BY <1>2, <1>9 DEF ProfileInv, FilesInHand
  <2>2. row'.cv = upload[q].file \/ row'.cv = row.cv
    BY <1>7
  <2>3. Holding \subseteq Uploads
    BY DEF Holding
  <2> QED BY <1>1, <1>2, <1>9, <2>1, <2>2, <2>3 DEF ProfileInv, FilesInHand
<1>12. VersionsCounted'
  <2>1. Cardinality(Adding) \in Nat /\ lastFile \in Nat
    BY AddingIsFinite DEF ProfileInv, ProfileTables
  <2>2. row'.version = row.version /\ row'.notes.n \in Nat /\ row'.notes.n >= row.notes.n
    BY <1>2, <1>5, <1>7
  <2>3. row.version >= 1 /\ row.version + Cardinality(Adding) <= 1 + lastFile + row.notes.n
    BY DEF ProfileInv, VersionsCounted
  <2>4. row'.version + Cardinality(Adding) <= 1 + lastFile + row'.notes.n
    BY <1>2, <2>1, <2>2, <2>3
  <2> QED BY <1>1, <1>10, <2>2, <2>3, <2>4 DEF VersionsCounted
<1>13. NotesMeanWell'
  <2>0. NotesMeanWell
    BY DEF ProfileInv
  <2>1. CASE Listed /\ wrote
    BY <1>2, <1>5, <1>7, <2>1 DEF NotesMeanWell
  <2>2. CASE ~(Listed /\ wrote)
    <3>1. row'.notes = row.notes
      BY <1>5, <1>7, <2>2
    <3> QED BY <2>0, <3>1 DEF NotesMeanWell
  <2> QED BY <2>1, <2>2
<1>14. Unlisted'
  BY <1>1, <1>2, <1>7, <1>9 DEF ProfileInv, Unlisted, Listed
<1>15. EditsAlone'
  <2> SUFFICES ASSUME life = "listed", alone PROVE EditsAlone'
    BY <1>1 DEF EditsAlone
  <2>1. /\ (derived.document = 0 \/ derived.document \in disk)
        /\ \A p, o \in Editing : p = o
        /\ \A p \in Editing : upload[p].file \in disk
    BY DEF ProfileInv, EditsAlone
  <2>2. row'.cv = upload[q].file /\ row'.cv \in disk
    BY <1>2, <1>7, <2>1 DEF Listed
  <2>3. \A p \in Uploads : upload'[p].stage \in {"store", "unlink"} => p = q
    BY <1>2, <1>9, <2>1 DEF Editing
  <2>4. upload'[q].stage # "unlink" /\ upload'[q].file = upload[q].file
    BY <1>3, <1>4
  <2>5. \A p \in Editing' : upload'[p].file \in disk
    BY <1>9, <2>1 DEF Editing
  <2> QED BY <1>1, <1>9, <2>1, <2>2, <2>3, <2>4, <2>5 DEF EditsAlone
<1>16. LabelsFollow'
  <2>1. \A p \in Uploads : upload[p].stage = "first" => upload'[p].stage = "first"
    BY <1>1, <1>4
  <2>2. tasks \subseteq tasks' /\ row'.version = row.version
    BY <1>1, <1>7
  <2> QED BY <1>1, <2>1, <2>2 DEF ProfileInv, LabelsFollow
<1>17. CorrectionsStay'
  <2>1. row'.version = row.version
    BY <1>7
  <2> QED BY <1>1, <2>1 DEF ProfileInv, CorrectionsStay, Listed
<1>18. ScreeningIsUnderWay'
  <2>0. ScreeningIsUnderWay
    BY DEF ProfileInv
  <2>1. CASE Listed /\ wrote
    BY <1>1, <1>6, <1>7, <2>1 DEF ScreeningIsUnderWay
  <2>2. CASE ~(Listed /\ wrote)
    <3>1. row'.notes = row.notes /\ tasks' = tasks
      BY <1>1, <1>5, <1>7, <2>2
    <3>2. \A p \in Uploads : upload[p].stage = "first" => upload'[p].stage = "first"
      BY <1>1, <1>4
    <3> QED BY <1>1, <2>0, <3>1, <3>2, ScreeningGoesOn
  <2> QED BY <2>1, <2>2
<1> QED
  BY <1>8, <1>11, <1>12, <1>13, <1>14, <1>15, <1>16, <1>17, <1>18 DEF ProfileInv

(* The corrections do not parse. *)
LEMMA ProfileRejects ==
  ASSUME ProfileInv, NEW q \in Uploads, RejectEdit(q)
  PROVE  ProfileInv'
<1>1. /\ upload[q].stage = "save" /\ row' = Saved(upload[q].file, row.notes)
      /\ disk' = disk \ {upload[q].file} /\ upload' = [upload EXCEPT ![q] = Free] /\ alone' = FALSE
      /\ UNCHANGED <<life, derived, lastFile, tasks, cut, overtaken>>
  BY DEF RejectEdit
<1>2. /\ upload[q] \in Pinned /\ upload[q].file \in Files /\ MaxFiles \in Nat
      /\ upload[q].file <= lastFile /\ q \in Holding /\ q \in Editing
      /\ row \in [cv : 0..MaxFiles, version : Nat, notes : Notes] /\ row.notes.n \in Nat /\ row.version \in Nat
  <2>1. q \in Holding /\ q \in Editing
    BY <1>1 DEF Holding, Editing
  <2> QED BY <1>1, <2>1, AddingIsFinite DEF ProfileInv, ProfileTables, Pinned, Unlinking, Erasing, Free, FilesInHand, Notes
<1>3. /\ upload' \in [Uploads -> Pinned \cup Unlinking \cup Erasing \cup {Free}]
      /\ upload'[q] = Free /\ \A p \in Uploads : p # q => upload'[p] = upload[p]
  BY <1>1, UploadGoesOn
<1>4. Free.stage = "free"
  BY DEF Free
<1>5. /\ Listed => row' \in [cv : 0..MaxFiles, version : Nat, notes : Notes] /\ row'.cv = upload[q].file
      /\ ~Listed => row' = row
      /\ row'.version = row.version /\ row'.notes = row.notes
  <2>1. Listed => row' = [row EXCEPT !.cv = upload[q].file, !.notes = row.notes]
    BY <1>1 DEF Saved
  <2>2. Files \subseteq 0..MaxFiles
    BY <1>2 DEF Files
  <2>3. ~Listed => row' = row
    BY <1>1 DEF Saved
  <2> QED BY <1>2, <2>1, <2>2, <2>3
<1>6. ProfileTables'
  BY <1>1, <1>3, <1>5 DEF ProfileInv, ProfileTables
<1>7. /\ Holding' \subseteq Holding /\ q \notin Holding' /\ Editing' \subseteq Editing /\ Adding' \subseteq Adding
  BY <1>3, <1>4 DEF Holding, Editing, Adding
<1>8. FilesInHand'
  <2>1. \A p \in Holding' : upload'[p] = upload[p] /\ p \in Holding
    BY <1>3, <1>7 DEF Holding
  <2>2. \A p \in Uploads : upload'[p].stage = "insert"
          => upload[p].stage = "insert" /\ upload'[p] = upload[p] /\ p \in Holding /\ p # q
    BY <1>3, <1>4 DEF Holding
  <2>3. row'.cv = upload[q].file \/ row'.cv = row.cv
    BY <1>5
  <2>4. \A p \in Uploads : upload'[p].stage = "insert" => upload'[p].file # row'.cv
    BY <1>2, <2>2, <2>3 DEF ProfileInv, FilesInHand
  <2> QED BY <1>1, <1>2, <2>1, <2>2, <2>3, <2>4 DEF ProfileInv, FilesInHand
<1>9. VersionsCounted'
  <2>1. Cardinality(Adding) \in Nat /\ Cardinality(Adding') \in Nat /\ Cardinality(Adding') <= Cardinality(Adding)
        /\ lastFile \in Nat
    BY <1>7, AddingIsFinite, FS_Subset, FS_CardinalityType DEF ProfileInv, ProfileTables
  <2>2. row.version >= 1 /\ row.version + Cardinality(Adding) <= 1 + lastFile + row.notes.n
    BY DEF ProfileInv, VersionsCounted
  <2>3. row.version + Cardinality(Adding') <= 1 + lastFile + row.notes.n
    BY <1>2, <2>1, <2>2
  <2> QED BY <1>1, <1>5, <2>2, <2>3 DEF VersionsCounted
<1>10. NotesMeanWell' /\ EditsAlone'
  BY <1>1, <1>5 DEF ProfileInv, NotesMeanWell, EditsAlone
<1>11. Unlisted'
  BY <1>1, <1>2, <1>5, <1>7 DEF ProfileInv, Unlisted, Listed
<1>12. LabelsFollow'
  <2>1. \A p \in Uploads : upload[p].stage = "first" => upload'[p].stage = "first"
    BY <1>1, <1>3
  <2> QED BY <1>1, <1>5, <2>1 DEF ProfileInv, LabelsFollow
<1>13. CorrectionsStay' /\ ScreeningIsUnderWay'
  <2>1. \A p \in Uploads : upload[p].stage = "first" => upload'[p].stage = "first"
    BY <1>1, <1>3
  <2>2. ScreeningIsUnderWay'
    BY <1>1, <1>5, <2>1, ScreeningGoesOn DEF ProfileInv
  <2> QED BY <1>1, <1>5, <2>2 DEF ProfileInv, CorrectionsStay, Listed
<1> QED
  BY <1>6, <1>8, <1>9, <1>10, <1>11, <1>12, <1>13 DEF ProfileInv

(* The documents of an edit. *)
LEMMA ProfileStores ==
  ASSUME ProfileInv, NEW q \in Uploads, StoreDocument(q)
  PROVE  ProfileInv'
<1> DEFINE r == [stage |-> "unlink", file |-> upload[q].file, old |-> {derived.document, upload[q].before}]
<1>1. /\ upload[q].stage = "store" /\ derived' = [derived EXCEPT !.document = upload[q].file]
      /\ upload' = [upload EXCEPT ![q] = r]
      /\ UNCHANGED <<life, row, disk, lastFile, tasks, alone, cut, overtaken>>
  BY DEF StoreDocument
<1>2. /\ upload[q] \in Pinned /\ upload[q].file \in Files /\ MaxFiles \in Nat /\ upload[q].before \in 0..MaxFiles
      /\ upload[q].file <= lastFile /\ q \in Holding /\ q \in Editing
      /\ derived.document \in 0..MaxFiles /\ Shaped(derived)
  <2>1. q \in Holding /\ q \in Editing
    BY <1>1 DEF Holding, Editing
  <2> QED BY <1>1, <2>1, AddingIsFinite DEF ProfileInv, ProfileTables, Pinned, Unlinking, Erasing, Free, FilesInHand
<1>3. r \in Unlinking /\ r.stage = "unlink" /\ r.file = upload[q].file
  BY <1>2 DEF Unlinking
<1> HIDE DEF r
<1>4. /\ upload' \in [Uploads -> Pinned \cup Unlinking \cup Erasing \cup {Free}]
      /\ upload'[q] = r /\ \A p \in Uploads : p # q => upload'[p] = upload[p]
  BY <1>1, <1>3, UploadGoesOn
<1>5. /\ Shaped(derived') /\ derived'.document = upload[q].file /\ derived'.extraction = derived.extraction
      /\ derived'.vector = derived.vector /\ derived'.labels = derived.labels /\ derived'.corrected = derived.corrected
  <2>1. Shaped(derived)
    BY <1>2
  <2>2. Shaped([derived EXCEPT !.document = upload[q].file])
    BY <2>1, ReadingIs
  <2>3. [derived EXCEPT !.document = upload[q].file]
          = [document |-> upload[q].file, extraction |-> derived.extraction, vector |-> derived.vector,
             labels |-> derived.labels, corrected |-> derived.corrected]
    BY <2>1, ReadingIs
  <2>4. Shaped(derived')
    BY <1>1, <2>2
  <2>5. derived' = [document |-> upload[q].file, extraction |-> derived.extraction, vector |-> derived.vector,
                    labels |-> derived.labels, corrected |-> derived.corrected]
    BY <1>1, <2>3
  <2> QED BY <2>4, <2>5
<1>6. ProfileTables'
  <2>1. derived'.document \in 0..MaxFiles
    BY <1>2, <1>5 DEF Files
  <2> QED BY <1>1, <1>4, <1>5, <2>1 DEF ProfileInv, ProfileTables
<1>7. /\ Holding' = Holding /\ Editing' = Editing /\ Adding' = Adding /\ Editing \subseteq Holding
      /\ \A p \in Uploads : upload'[p].file = upload[p].file
      /\ \A p \in Uploads : upload'[p].stage = "insert" => upload[p].stage = "insert" /\ p # q /\ p \in Holding
  BY <1>1, <1>3, <1>4 DEF Holding, Editing, Adding
<1>8. FilesInHand'
  <2>1. \A p \in Uploads : upload'[p].stage = "insert" => upload'[p].file # derived'.document /\ upload'[p].file # row.cv
    BY <1>2, <1>5, <1>7 DEF ProfileInv, FilesInHand
  <2>2. Holding \subseteq Uploads
    BY DEF Holding
  <2> QED BY <1>1, <1>2, <1>5, <1>7, <2>1, <2>2 DEF ProfileInv, FilesInHand
<1>9. VersionsCounted' /\ NotesMeanWell'
  BY <1>1, <1>7 DEF ProfileInv, VersionsCounted, NotesMeanWell
<1>10. Unlisted'
  BY <1>1, <1>2, <1>7 DEF ProfileInv, Unlisted
<1>11. EditsAlone'
  <2> SUFFICES ASSUME life = "listed", alone PROVE EditsAlone'
    BY <1>1 DEF EditsAlone
  <2>1. /\ (row.cv = 0 \/ row.cv \in disk)
        /\ \A p, o \in Editing : p = o
        /\ \A p \in Editing : upload[p].file \in disk
        /\ row.cv = upload[q].file
    BY <1>1 DEF ProfileInv, EditsAlone
  <2>2. derived'.document \in disk /\ derived'.document = upload[q].file
    BY <1>2, <1>5, <2>1
  <2>3. \A p \in Uploads : upload'[p].stage \in {"store", "unlink"} => p = q
    BY <1>2, <1>7, <2>1 DEF Editing
  <2>4. \A p \in Editing' : upload'[p].file \in disk
    BY <1>7, <2>1 DEF Editing
  <2> QED BY <1>1, <1>3, <1>4, <1>7, <2>1, <2>2, <2>3, <2>4 DEF EditsAlone
<1>12. LabelsFollow'
  <2>1. \A p \in Uploads : upload[p].stage = "first" => upload'[p].stage = "first"
    BY <1>1, <1>4
  <2> QED BY <1>1, <1>5, <2>1 DEF ProfileInv, LabelsFollow
<1>13. CorrectionsStay' /\ ScreeningIsUnderWay'
  <2>1. \A p \in Uploads : upload[p].stage = "first" => upload'[p].stage = "first"
    BY <1>1, <1>4
  <2>2. ScreeningIsUnderWay'
    BY <1>1, <2>1, ScreeningGoesOn DEF ProfileInv
  <2> QED BY <1>1, <1>5, <2>2 DEF ProfileInv, CorrectionsStay, Listed
<1> QED
  BY <1>6, <1>8, <1>9, <1>10, <1>11, <1>12, <1>13 DEF ProfileInv

(* The old files go, the version goes up, and the run on the new CV is under way. *)
LEMMA ProfileUnlinks ==
  ASSUME ProfileInv, NEW q \in Uploads, FinishEdit(q)
  PROVE  ProfileInv'
<1>1. /\ upload[q].stage = "unlink" /\ disk' = disk \ OldFiles(q)
      /\ row' = (IF Listed THEN [row EXCEPT !.version = row.version + 1] ELSE row)
      /\ tasks' = tasks \cup {Run(upload[q].file)} /\ upload' = [upload EXCEPT ![q] = Free]
      /\ UNCHANGED <<life, derived, lastFile, alone, cut, overtaken>>
  BY DEF FinishEdit
<1>2. /\ upload[q] \in Unlinking /\ upload[q].file \in Files /\ MaxFiles \in Nat /\ MaxWords \in Nat
      /\ q \in Holding /\ q \in Editing /\ upload[q].file \in Adding
      /\ row \in [cv : 0..MaxFiles, version : Nat, notes : Notes] /\ row.notes.n \in 0..MaxWords /\ row.version \in Nat
      /\ lastFile \in 0..MaxFiles
  <2>1. q \in Holding /\ q \in Editing /\ upload[q] \in Unlinking
    BY <1>1 DEF Holding, Editing, ProfileInv, ProfileTables, Pinned, Unlinking, Erasing, Free
  <2>2. upload[q].file \in Files /\ upload[q].file \in Adding
    BY <1>1, <2>1 DEF Unlinking, Adding
  <2> QED BY <2>1, <2>2, AddingIsFinite DEF ProfileInv, ProfileTables, Notes
<1>3. /\ upload' \in [Uploads -> Pinned \cup Unlinking \cup Erasing \cup {Free}]
      /\ upload'[q] = Free /\ \A p \in Uploads : p # q => upload'[p] = upload[p]
  BY <1>1, UploadGoesOn
<1>4. Free.stage = "free"
  BY DEF Free
<1>5. /\ row' \in [cv : 0..MaxFiles, version : Nat, notes : Notes] /\ row'.cv = row.cv /\ row'.notes = row.notes
      /\ row'.version = (IF Listed THEN row.version + 1 ELSE row.version) /\ (~Listed => row' = row)
  BY <1>1, <1>2
<1>6. Run(upload[q].file) \in Runs /\ Run(upload[q].file).stage = "extract"
  BY <1>2 DEF Run, Runs
<1>7. ProfileTables'
  BY <1>1, <1>3, <1>5, <1>6 DEF ProfileInv, ProfileTables
<1>8. Holding' \subseteq Holding /\ q \notin Holding' /\ Editing' \subseteq Editing /\ q \notin Editing'
  BY <1>3, <1>4 DEF Holding, Editing
<1>9. Adding' \subseteq Adding \ {upload[q].file}
  <2> SUFFICES ASSUME NEW n \in Adding' PROVE n \in Adding /\ n # upload[q].file
    OBVIOUS
  <2>1. PICK p \in Uploads : upload'[p].stage \in {"save", "store", "unlink"} /\ upload'[p].file = n
    BY DEF Adding
  <2>2. p # q /\ upload'[p] = upload[p]
    BY <1>3, <1>4, <2>1
  <2>3. p \in Holding /\ n \in Files
    BY <2>1, <2>2 DEF Holding, Adding
  <2> QED BY <1>2, <2>1, <2>2, <2>3 DEF ProfileInv, FilesInHand, Adding
<1>10. FilesInHand'
  <2>1. \A p \in Holding' : upload'[p] = upload[p] /\ p \in Holding
    BY <1>3, <1>8 DEF Holding
  <2>2. \A p \in Uploads : upload'[p].stage = "insert" => upload[p].stage = "insert" /\ upload'[p] = upload[p]
    BY <1>3, <1>4
  <2> QED BY <1>1, <1>5, <2>1, <2>2 DEF ProfileInv, FilesInHand
<1>11. VersionsCounted'
  <2>1. /\ Cardinality(Adding) \in Nat /\ IsFiniteSet(Adding)
    BY AddingIsFinite
  <2>2. /\ IsFiniteSet(Adding \ {upload[q].file}) /\ Cardinality(Adding \ {upload[q].file}) = Cardinality(Adding) - 1
    BY <1>2, <2>1, FS_RemoveElement
  <2>3. Cardinality(Adding') \in Nat /\ Cardinality(Adding') <= Cardinality(Adding) - 1
    BY <1>9, <2>2, FS_Subset, FS_CardinalityType
  <2>4. row.version >= 1 /\ row.version + Cardinality(Adding) <= 1 + lastFile + row.notes.n
    BY DEF ProfileInv, VersionsCounted
  <2>5. row'.version <= row.version + 1 /\ row'.version >= 1 /\ row'.version \in Nat
    BY <1>2, <1>5, <2>4
  <2>6. row'.version + Cardinality(Adding') <= 1 + lastFile + row.notes.n
    BY <1>2, <2>1, <2>3, <2>4, <2>5
  <2> QED BY <1>1, <1>5, <2>5, <2>6 DEF VersionsCounted
<1>12. NotesMeanWell'
  BY <1>5 DEF ProfileInv, NotesMeanWell
<1>13. Unlisted'
  BY <1>1, <1>2, <1>5, <1>8 DEF ProfileInv, Unlisted, Listed
<1>14. EditsAlone'
  <2> SUFFICES ASSUME life = "listed", alone PROVE EditsAlone'
    BY <1>1 DEF EditsAlone
  <2>1. /\ (row.cv = 0 \/ row.cv \in disk) /\ (derived.document = 0 \/ derived.document \in disk)
        /\ (\A p, o \in Editing : p = o) /\ row.cv = upload[q].file /\ derived.document = upload[q].file
    BY <1>1 DEF ProfileInv, EditsAlone
  <2>2. upload[q].file \notin OldFiles(q)
    BY DEF OldFiles
  <2>3. Editing' = {}
    BY <1>2, <1>8, <2>1
  <2>4. \A p \in Uploads : upload'[p].stage \notin {"store", "unlink"}
    BY <2>3 DEF Editing
  <2> QED BY <1>1, <1>5, <2>1, <2>2, <2>3, <2>4 DEF EditsAlone
<1>15. LabelsFollow'
  <2>1. Run(upload[q].file) \in tasks'
    BY <1>1
  <2>2. life = "listed" => \A v \in DOMAIN derived.labels : v <= row.version
    BY DEF ProfileInv, LabelsFollow
  <2>3. DOMAIN derived.labels \subseteq Versions /\ Versions \subseteq Nat
    BY <1>2 DEF ProfileInv, LabelsFollow, Versions
  <2>4. life = "listed" => \A v \in DOMAIN derived.labels : v <= row'.version
    <3> SUFFICES ASSUME life = "listed", NEW v \in DOMAIN derived.labels PROVE v <= row'.version
      OBVIOUS
    <3>1. row'.version = row.version + 1 /\ row.version \in Nat /\ v \in Nat /\ v <= row.version
      BY <1>2, <1>5, <2>2, <2>3 DEF Listed
    <3> QED BY <3>1
  <2> QED BY <1>1, <1>6, <2>1, <2>3, <2>4 DEF LabelsFollow
<1>16. CorrectionsStay'
  <2>1. DOMAIN derived.labels \subseteq Versions /\ Versions \subseteq Nat
    BY <1>2 DEF ProfileInv, LabelsFollow, Versions
  <2>2. Listed => row'.version \notin DOMAIN derived.labels
    BY <1>2, <1>5, <2>1 DEF ProfileInv, LabelsFollow, Listed
  <2> QED BY <1>1, <2>2 DEF CorrectionsStay, Listed
<1>17. ScreeningIsUnderWay'
  BY <1>1, <1>6 DEF ScreeningIsUnderWay
<1> QED
  BY <1>7, <1>10, <1>11, <1>12, <1>13, <1>14, <1>15, <1>16, <1>17 DEF ProfileInv

(* The candidate's words: a version of their own, and labels with it. *)
LEMMA ProfileWords ==
  ASSUME ProfileInv, EditWords
  PROVE  ProfileInv'
<1> DEFINE notes == Words(row.notes.n + 1)
           ver == row.version + 1
           more == {ScreenedAfter(notes), Embedding(derived.extraction, FALSE)}
<1>1. /\ life = "listed" /\ row.notes.n < MaxWords
      /\ row' = [row EXCEPT !.notes = notes, !.version = ver]
      /\ tasks' = tasks \cup more
      /\ derived' = Built(derived, row'.version)
      /\ UNCHANGED <<life, disk, lastFile, upload, alone, cut, overtaken>>
  BY DEF EditWords, Listed
<1>2. /\ MaxFiles \in Nat /\ MaxWords \in Nat /\ lastFile \in 0..MaxFiles /\ Shaped(derived)
      /\ row \in [cv : 0..MaxFiles, version : Nat, notes : Notes] /\ row.notes.n \in Nat /\ row.version \in Nat
      /\ derived.extraction \in 0..MaxFiles
  BY AddingIsFinite DEF ProfileInv, ProfileTables, Notes
<1>3. notes \in Notes /\ notes.by = "candidate" /\ notes.n = row.notes.n + 1
  BY <1>1, <1>2 DEF Words, Notes
<1>4. more \subseteq Screenings \cup Embeddings /\ \E t \in more : t.stage = "summary" /\ t.read = notes
  <2>1. ScreenedAfter(notes) \in Screenings /\ ScreenedAfter(notes).stage = "summary" /\ ScreenedAfter(notes).read = notes
    BY <1>3 DEF ScreenedAfter, Screening, Screenings
  <2>2. Embedding(derived.extraction, FALSE) \in Embeddings
    BY <1>2 DEF Embedding, Embeddings
  <2> QED BY <2>1, <2>2
<1> HIDE DEF notes, more
<1>5. /\ row' \in [cv : 0..MaxFiles, version : Nat, notes : Notes] /\ row'.version = ver /\ row'.notes = notes
      /\ row'.cv = row.cv
  <2>1. ver \in Nat
    BY <1>2
  <2> HIDE DEF ver
  <2> QED BY <1>1, <1>2, <1>3, <2>1
<1>6. /\ Shaped(derived') /\ derived'.document = derived.document /\ derived'.extraction = derived.extraction
      /\ derived'.vector = derived.vector /\ derived'.corrected = derived.corrected
      /\ DOMAIN derived'.labels = DOMAIN derived.labels \cup {row'.version}
      /\ derived'.labels[row'.version].corrected = derived.corrected
  BY <1>1, <1>2, BuiltIs
<1>7. ProfileTables'
  BY <1>1, <1>4, <1>5, <1>6 DEF ProfileInv, ProfileTables
<1>8. /\ Holding' = Holding /\ Editing' = Editing /\ Adding' = Adding
  BY <1>1 DEF Holding, Editing, Adding
<1>9. FilesInHand' /\ EditsAlone'
  BY <1>1, <1>5, <1>6, <1>8 DEF ProfileInv, FilesInHand, EditsAlone
<1>10. VersionsCounted' /\ row'.version \in Versions
  <2>1. Cardinality(Adding) \in Nat /\ row.version >= 1 /\ row.version + Cardinality(Adding) <= 1 + lastFile + row.notes.n
    BY AddingIsFinite DEF ProfileInv, VersionsCounted
  <2>2. row'.version >= 1 /\ row'.version + Cardinality(Adding) <= 1 + lastFile + row'.notes.n
        /\ row'.version <= 1 + MaxFiles + MaxWords
    BY <1>1, <1>2, <1>3, <1>5, <2>1
  <2> QED BY <1>1, <1>2, <1>5, <1>8, <2>2 DEF VersionsCounted, Versions
<1>11. NotesMeanWell' /\ Unlisted'
  BY <1>1, <1>2, <1>3, <1>5 DEF NotesMeanWell, Unlisted
<1>12. LabelsFollow' /\ CorrectionsStay'
  <2>1. DOMAIN derived.labels \subseteq Versions /\ \A v \in DOMAIN derived.labels : v <= row.version
    BY <1>1 DEF ProfileInv, LabelsFollow
  <2>2. \A v \in DOMAIN derived'.labels : v <= row'.version
    <3> SUFFICES ASSUME NEW v \in DOMAIN derived'.labels PROVE v <= row'.version
      OBVIOUS
    <3>1. v = row'.version \/ (v \in Nat /\ v <= row.version)
      BY <1>2, <1>6, <2>1 DEF Versions
    <3> QED BY <1>2, <1>5, <3>1
  <2>3. DOMAIN derived'.labels \subseteq Versions /\ row'.version \in DOMAIN derived'.labels
    BY <1>6, <1>10, <2>1
  <2>4. derived'.labels[row'.version].corrected = derived'.corrected
    BY <1>6
  <2>5. LabelsFollow'
    BY <1>2, <2>2, <2>3 DEF LabelsFollow, Versions
  <2> QED BY <2>4, <2>5 DEF CorrectionsStay
<1>13. ScreeningIsUnderWay'
  BY <1>1, <1>4, <1>5 DEF ScreeningIsUnderWay
<1> QED
  BY <1>7, <1>9, <1>10, <1>11, <1>12, <1>13 DEF ProfileInv

(* What the candidate says of one label, in the labels of one version. *)
LEMMA LabelIs ==
  ASSUME NEW d, Shaped(d), NEW v \in DOMAIN d.labels, NEW c,
         NEW b, b = [d EXCEPT !.labels[v].corrected = c]
  PROVE  /\ Shaped(b) /\ b.document = d.document /\ b.extraction = d.extraction /\ b.vector = d.vector
         /\ b.corrected = d.corrected /\ DOMAIN b.labels = DOMAIN d.labels /\ b.labels[v].corrected = c
<1> DEFINE lab == [d.labels EXCEPT ![v] = [from |-> d.labels[v].from, corrected |-> c]]
<1>1. /\ d = [document |-> d.document, extraction |-> d.extraction, vector |-> d.vector,
              labels |-> d.labels, corrected |-> d.corrected]
      /\ d.labels = [w \in DOMAIN d.labels |-> d.labels[w]]
      /\ \A w \in DOMAIN d.labels : d.labels[w] = [from |-> d.labels[w].from, corrected |-> d.labels[w].corrected]
  BY DEF Shaped
<1>2. [d.labels[v] EXCEPT !.corrected = c] = [from |-> d.labels[v].from, corrected |-> c]
  <2>1. d.labels[v] = [from |-> d.labels[v].from, corrected |-> d.labels[v].corrected]
    BY <1>1
  <2> QED BY <2>1
<1>3. [d EXCEPT !.labels[v].corrected = c] = [d EXCEPT !.labels = lab]
  <2>1. [d EXCEPT !.labels[v].corrected = c]
          = [d EXCEPT !.labels = [d.labels EXCEPT ![v] = [d.labels[v] EXCEPT !.corrected = c]]]
    OBVIOUS
  <2> QED BY <1>2, <2>1
<1>4. /\ DOMAIN lab = DOMAIN d.labels /\ lab = [w \in DOMAIN lab |-> lab[w]]
      /\ lab[v] = [from |-> d.labels[v].from, corrected |-> c]
      /\ \A w \in DOMAIN d.labels : w # v => lab[w] = d.labels[w]
  BY <1>1
<1> HIDE DEF lab
<1>5. \A w \in DOMAIN lab : lab[w] = [from |-> lab[w].from, corrected |-> lab[w].corrected]
  BY <1>1, <1>4
<1>6. b = [document |-> d.document, extraction |-> d.extraction, vector |-> d.vector,
           labels |-> lab, corrected |-> d.corrected]
  BY <1>1, <1>3
<1>7. /\ b.document = d.document /\ b.extraction = d.extraction /\ b.vector = d.vector /\ b.corrected = d.corrected
      /\ b.labels = lab
  BY <1>6
<1>8. Shaped(b)
  <2>1. b = [document |-> b.document, extraction |-> b.extraction, vector |-> b.vector,
             labels |-> b.labels, corrected |-> b.corrected]
    <3>1. b.document = d.document /\ b.extraction = d.extraction /\ b.vector = d.vector
      BY <1>7
    <3>2. b.labels = lab /\ b.corrected = d.corrected
      BY <1>7
    <3> QED BY <1>6, <3>1, <3>2
  <2>2. b.labels = [w \in DOMAIN b.labels |-> b.labels[w]]
    BY <1>4, <1>7
  <2>3. \A w \in DOMAIN b.labels :
          b.labels[w] = [from |-> b.labels[w].from, corrected |-> b.labels[w].corrected]
    BY <1>5, <1>7
  <2> QED BY <2>1, <2>2, <2>3, Zenon DEF Shaped
<1> QED
  BY <1>4, <1>7, <1>8

(* The candidate's say on a label. *)
LEMMA ProfileLabels ==
  ASSUME ProfileInv, EditLabel
  PROVE  ProfileInv'
<1> DEFINE d == [derived EXCEPT !.corrected = ~derived.corrected]
           e == [d EXCEPT !.labels[row.version].corrected = d.corrected]
<1>1. /\ life = "listed" /\ derived' = (IF row.version \in DOMAIN d.labels THEN e ELSE d)
      /\ UNCHANGED <<life, row, disk, lastFile, upload, tasks, alone, cut, overtaken>>
  BY DEF EditLabel, Listed
<1>2. Shaped(d) /\ d.labels = derived.labels /\ d.document = derived.document /\ d.extraction = derived.extraction
      /\ d.vector = derived.vector
  <2>1. Shaped(derived)
    BY DEF ProfileInv, ProfileTables
  <2>2. d = [document |-> derived.document, extraction |-> derived.extraction, vector |-> derived.vector,
             labels |-> derived.labels, corrected |-> ~derived.corrected]
    BY <2>1 DEF Shaped
  <2>3. derived.labels = [v \in DOMAIN derived.labels |-> derived.labels[v]]
        /\ \A v \in DOMAIN derived.labels :
              derived.labels[v] = [from |-> derived.labels[v].from, corrected |-> derived.labels[v].corrected]
    BY <2>1 DEF Shaped
  <2>4. d = [document |-> d.document, extraction |-> d.extraction, vector |-> d.vector,
             labels |-> d.labels, corrected |-> d.corrected]
        /\ d.labels = derived.labels /\ d.document = derived.document /\ d.extraction = derived.extraction
        /\ d.vector = derived.vector
    BY <2>2
  <2> HIDE DEF d
  <2> QED BY <2>3, <2>4 DEF Shaped
<1> HIDE DEF d, e
<1>3. row.version \in DOMAIN d.labels =>
        /\ Shaped(e) /\ e.document = d.document /\ e.extraction = d.extraction /\ e.vector = d.vector
        /\ e.corrected = d.corrected /\ DOMAIN e.labels = DOMAIN d.labels
        /\ e.labels[row.version].corrected = d.corrected
  <2> SUFFICES ASSUME row.version \in DOMAIN d.labels
               PROVE  /\ Shaped(e) /\ e.document = d.document /\ e.extraction = d.extraction /\ e.vector = d.vector
                      /\ e.corrected = d.corrected /\ DOMAIN e.labels = DOMAIN d.labels
                      /\ e.labels[row.version].corrected = d.corrected
    OBVIOUS
  <2>1. Shaped(d) /\ row.version \in DOMAIN d.labels
    BY <1>2
  <2>2. e = [d EXCEPT !.labels[row.version].corrected = d.corrected]
    BY DEF e
  <2> DEFINE c == d.corrected
             v == row.version
  <2>3. v \in DOMAIN d.labels /\ e = [d EXCEPT !.labels[v].corrected = c]
    BY <2>1, <2>2
  <2> HIDE DEF c, v
  <2>4. /\ Shaped(e) /\ e.document = d.document /\ e.extraction = d.extraction /\ e.vector = d.vector
        /\ e.corrected = d.corrected /\ DOMAIN e.labels = DOMAIN d.labels /\ e.labels[v].corrected = c
    BY <2>1, <2>3, LabelIs
  <2> QED BY <2>4 DEF c, v
<1>4. /\ Shaped(derived') /\ derived'.document = derived.document /\ derived'.extraction = derived.extraction
      /\ derived'.vector = derived.vector /\ DOMAIN derived'.labels = DOMAIN derived.labels
      /\ row.version \in DOMAIN derived'.labels => derived'.labels[row.version].corrected = derived'.corrected
  <2>1. CASE row.version \in DOMAIN d.labels
    BY <1>1, <1>2, <1>3, <2>1
  <2>2. CASE row.version \notin DOMAIN d.labels
    BY <1>1, <1>2, <2>2
  <2> QED BY <2>1, <2>2
<1>5. ProfileTables' /\ FilesInHand' /\ VersionsCounted' /\ NotesMeanWell'
  <2>1. /\ Holding' = Holding /\ Adding' = Adding
    BY <1>1 DEF Holding, Adding
  <2> QED BY <1>1, <1>4, <2>1 DEF ProfileInv, ProfileTables, FilesInHand, VersionsCounted, NotesMeanWell
<1>6. Unlisted' /\ EditsAlone' /\ LabelsFollow' /\ CorrectionsStay' /\ ScreeningIsUnderWay'
  <2>1. /\ Editing' = Editing
    BY <1>1 DEF Editing
  <2> QED BY <1>1, <1>4, <2>1 DEF ProfileInv, Unlisted, EditsAlone, LabelsFollow, CorrectionsStay, ScreeningIsUnderWay
<1> QED
  BY <1>5, <1>6 DEF ProfileInv

(* The account goes, with every table; the files are in the hand of the request. *)
LEMMA ProfileGoes ==
  ASSUME ProfileInv, NEW q \in Uploads, DeleteCandidate(q)
  PROVE  ProfileInv'
<1> DEFINE r == [stage |-> "erase", old |-> {derived.document, row.cv}]
<1>1. /\ life = "listed" /\ upload[q] = Free
      /\ life' = "erased" /\ row' = NoRow /\ derived' = Nothing
      /\ upload' = [upload EXCEPT ![q] = r]
      /\ overtaken' = (tasks # {} \/ \E p \in Uploads : upload[p] # Free)
      /\ UNCHANGED <<disk, lastFile, tasks, alone, cut>>
  BY DEF DeleteCandidate, Listed, Erased
<1>2. r \in Erasing /\ r.stage = "erase"
  BY DEF ProfileInv, ProfileTables, Erasing
<1> HIDE DEF r
<1>3. /\ upload' \in [Uploads -> Pinned \cup Unlinking \cup Erasing \cup {Free}]
      /\ upload'[q] = r /\ \A p \in Uploads : p # q => upload'[p] = upload[p]
  BY <1>1, <1>2, UploadGoesOn
<1>4. upload[q].stage = "free"
  BY <1>1 DEF Free
<1>5. ProfileTables'
  <2>1. overtaken' \in BOOLEAN
    BY <1>1
  <2>2. 0 \in 0..MaxFiles
    BY AddingIsFinite
  <2> QED BY <1>1, <1>3, <2>1, <2>2, NothingIsTyped DEF ProfileInv, ProfileTables
<1>6. /\ Holding' = Holding /\ Editing' = Editing /\ Adding' = Adding
      /\ \A p \in Holding : upload'[p] = upload[p]
  BY <1>2, <1>3, <1>4 DEF Holding, Editing, Adding
<1>7. FilesInHand'
  <2>1. \A p \in Uploads : upload'[p].stage = "insert" => upload[p] = upload'[p] /\ p \in Holding
    BY <1>2, <1>3 DEF Holding
  <2>2. \A p \in Holding : upload[p].file # 0 /\ upload[p].file <= lastFile
    <3>1. \A p \in Holding : upload[p] \in Pinned \cup Unlinking
      BY DEF Holding, ProfileInv, ProfileTables, Pinned, Unlinking, Erasing, Free
    <3>2. \A p \in Holding : upload[p].file \in Files
      BY <3>1 DEF Pinned, Unlinking
    <3> QED BY <3>2, AddingIsFinite DEF Files, ProfileInv, FilesInHand
  <2>3. \A p, o \in Holding : upload[p].file = upload[o].file => p = o
    BY DEF ProfileInv, FilesInHand
  <2>4. lastFile >= 0
    BY AddingIsFinite DEF ProfileInv, ProfileTables
  <2> QED BY <1>1, <1>6, <2>1, <2>2, <2>3, <2>4, NothingIsTyped DEF FilesInHand
<1>8. VersionsCounted'
  <2>1. Cardinality(Adding) \in Nat /\ row.version >= 1 /\ row.version + Cardinality(Adding) <= 1 + lastFile + row.notes.n
        /\ row.version \in Nat /\ row.notes.n \in Nat /\ lastFile \in Nat
    BY AddingIsFinite DEF ProfileInv, ProfileTables, VersionsCounted, Notes
  <2>2. Cardinality(Adding) <= lastFile
    <3>1. Adding \subseteq 1..lastFile
      <4> SUFFICES ASSUME NEW n \in Adding PROVE n \in 1..lastFile
        OBVIOUS
      <4>1. PICK p \in Uploads : upload[p].stage \in {"save", "store", "unlink"} /\ upload[p].file = n
        BY DEF Adding
      <4>2. n <= lastFile /\ n \in Files
        BY <4>1 DEF Holding, Adding, ProfileInv, FilesInHand
      <4> QED BY <2>1, <4>2 DEF Files
    <3>2. IsFiniteSet(1..lastFile) /\ Cardinality(1..lastFile) = lastFile
      <4>1. lastFile \in Int /\ 1 \in Int /\ lastFile >= 0
        BY <2>1
      <4>2. /\ IsFiniteSet(1..lastFile)
            /\ Cardinality(1..lastFile) = IF 1 > lastFile THEN 0 ELSE lastFile - 1 + 1
        BY <4>1, FS_Interval
      <4> QED BY <4>1, <4>2
    <3> QED BY <3>1, <3>2, FS_Subset
  <2>3. row'.version = 1 /\ row'.notes.n = 0
    BY <1>1, NothingIsTyped
  <2>4. row'.version + Cardinality(Adding) <= 1 + lastFile + row'.notes.n
    BY <2>1, <2>2, <2>3
  <2> QED BY <1>1, <1>6, <2>3, <2>4 DEF VersionsCounted
<1>9. NotesMeanWell' /\ EditsAlone' /\ LabelsFollow' /\ CorrectionsStay' /\ ScreeningIsUnderWay'
  BY <1>1, NothingIsTyped
     DEF NotesMeanWell, EditsAlone, LabelsFollow, CorrectionsStay, ScreeningIsUnderWay, Listed
<1>10. Unlisted'
  <2>1. ~overtaken' => tasks = {} /\ Holding = {}
    <3>1. ~overtaken' => tasks = {} /\ \A p \in Uploads : upload[p] = Free
      BY <1>1
    <3>2. Free.stage = "free"
      BY DEF Free
    <3> QED BY <3>1, <3>2 DEF Holding
  <2> QED BY <1>1, <1>6, <2>1 DEF Unlisted
<1> QED
  BY <1>5, <1>7, <1>8, <1>9, <1>10 DEF ProfileInv

(* Its files go. *)
LEMMA ProfileErases ==
  ASSUME ProfileInv, ErasingIsLate, NEW q \in Uploads, EraseFiles(q)
  PROVE  ProfileInv'
<1>1. /\ upload[q].stage = "erase" /\ disk' = disk \ upload[q].old
      /\ upload' = [upload EXCEPT ![q] = Free]
      /\ UNCHANGED <<life, row, derived, lastFile, tasks, alone, cut, overtaken>>
  BY DEF EraseFiles
<1>2. Free.stage = "free"
  BY DEF Free
<1>3. /\ upload' \in [Uploads -> Pinned \cup Unlinking \cup Erasing \cup {Free}]
      /\ upload'[q] = Free /\ \A p \in Uploads : p # q => upload'[p] = upload[p]
  BY <1>1, UploadGoesOn
<1>4. /\ Holding' = Holding /\ Editing' = Editing /\ Adding' = Adding
      /\ \A p \in Holding : upload'[p] = upload[p]
  BY <1>1, <1>2, <1>3 DEF Holding, Editing, Adding
<1>5. ProfileTables'
  BY <1>1, <1>3 DEF ProfileInv, ProfileTables
<1>6. \A p \in Uploads : upload'[p].stage # "free" => p # q /\ upload'[p] = upload[p]
  BY <1>2, <1>3
<1>7. FilesInHand' /\ VersionsCounted' /\ NotesMeanWell'
  BY <1>1, <1>4, <1>6 DEF ProfileInv, FilesInHand, VersionsCounted, NotesMeanWell
<1>8. life # "listed" /\ life # "none"
  BY <1>1 DEF ErasingIsLate
<1>9. Unlisted' /\ EditsAlone' /\ LabelsFollow' /\ CorrectionsStay' /\ ScreeningIsUnderWay'
  <2>1. ScreeningIsUnderWay'
    <3>1. \A p \in Uploads : upload[p].stage = "first" => upload'[p].stage = "first"
      BY <1>1, <1>3
    <3> QED BY <1>1, <3>1, ScreeningGoesOn DEF ProfileInv
  <2> QED BY <1>1, <1>4, <1>8, <2>1
     DEF ProfileInv, Unlisted, EditsAlone, LabelsFollow, CorrectionsStay, Listed
<1> QED
  BY <1>5, <1>7, <1>9 DEF ProfileInv

LEMMA ErasingStaysLate ==
  ASSUME ProfileInv, ErasingIsLate, ProfileNext
  PROVE  ErasingIsLate'
<1> DEFINE late == \A p \in Uploads : upload'[p].stage = "erase" => upload[p].stage = "erase"
<1>1. upload \in [Uploads -> Pinned \cup Unlinking \cup Erasing \cup {Free}] /\ Free.stage = "free"
  BY DEF ProfileInv, ProfileTables, Free
<1>2. ASSUME NEW q \in Uploads, NEW stage \in {"insert", "save"}, BeginUpload(q, stage) PROVE late /\ life' = life
  BY <1>1, <1>2 DEF BeginUpload
<1>3. ASSUME NEW q \in Uploads, NEW wrote \in BOOLEAN, InsertCandidate(q, wrote) PROVE late /\ life \in {"erased"} => life' = "erased"
  BY <1>3 DEF InsertCandidate
<1>4. ASSUME NEW q \in Uploads, NEW wrote \in BOOLEAN, InsertCandidate(q, wrote) PROVE late
  BY <1>1, <1>4 DEF InsertCandidate, Pinned, Unlinking, Erasing
<1>5. ASSUME NEW q \in Uploads, FinishApplication(q) \/ RejectEdit(q) \/ FinishEdit(q) \/ EraseFiles(q)
      PROVE  late /\ life' = life
  <2>1. upload' = [upload EXCEPT ![q] = Free] /\ life' = life
    BY <1>5 DEF FinishApplication, RejectEdit, FinishEdit, EraseFiles
  <2> QED BY <1>1, <2>1
<1>6. ASSUME NEW q \in Uploads, NEW wrote \in BOOLEAN, SaveEdit(q, wrote) PROVE late /\ life' = life
  <2>1. upload' = [upload EXCEPT ![q].stage = "store"] /\ life' = life /\ upload[q].stage = "save"
    BY <1>6 DEF SaveEdit
  <2>2. upload[q] \in Pinned
    BY <1>1, <2>1 DEF Pinned, Unlinking, Erasing
  <2> QED BY <1>1, <2>1, <2>2 DEF Pinned
<1>7. ASSUME NEW q \in Uploads, StoreDocument(q) PROVE late /\ life' = life
  BY <1>1, <1>7 DEF StoreDocument
<1>8. ASSUME NEW q \in Uploads, DeleteCandidate(q) PROVE life' = "erased"
  BY <1>8 DEF DeleteCandidate
<1>9. ASSUME EditWords \/ EditLabel PROVE upload' = upload /\ life' = life
  BY <1>9 DEF EditWords, EditLabel
<1>10. ASSUME NEW t \in tasks, Background(t) PROVE upload' = upload /\ life' = life
  BY <1>10 DEF Background, Summarise, Extract, Embed
<1>11. ASSUME ProfileRestart PROVE late /\ life' = life
  BY <1>1, <1>11 DEF ProfileRestart
<1>12. late /\ life' = life => ErasingIsLate'
  BY DEF ErasingIsLate
<1>13. late /\ (life = "erased" => life' = "erased") => ErasingIsLate'
  BY DEF ErasingIsLate
<1>14. life' = "erased" => ErasingIsLate'
  BY DEF ErasingIsLate
<1>15. upload' = upload /\ life' = life => ErasingIsLate'
  BY DEF ErasingIsLate
<1> HIDE DEF late
<1>16. ASSUME NEW q \in Uploads, NEW wrote \in BOOLEAN, InsertCandidate(q, wrote) PROVE ErasingIsLate'
  BY <1>3, <1>4, <1>13, <1>16
<1>17. CASE \E q \in Uploads : (\E stage \in {"insert", "save"} : BeginUpload(q, stage))
              \/ (\E wrote \in BOOLEAN : InsertCandidate(q, wrote) \/ SaveEdit(q, wrote)) \/ FinishApplication(q)
              \/ RejectEdit(q) \/ StoreDocument(q) \/ FinishEdit(q) \/ DeleteCandidate(q) \/ EraseFiles(q)
  BY <1>2, <1>5, <1>6, <1>7, <1>8, <1>12, <1>14, <1>16, <1>17
<1>18. CASE EditWords \/ EditLabel
  BY <1>9, <1>15, <1>18
<1>19. CASE \E t \in tasks : Background(t)
  BY <1>10, <1>15, <1>19
<1>20. CASE ProfileRestart
  BY <1>11, <1>12, <1>20
<1> QED
  BY <1>17, <1>18, <1>19, <1>20 DEF ProfileNext

(* Work in the background leaves the files, the requests and the account. *)
LEMMA WorkGoesOn ==
  ASSUME ProfileInv, NEW t \in tasks, NEW next, Replace(t, next),
         next \subseteq Runs \cup Screenings \cup Embeddings,
         UNCHANGED <<life, disk, lastFile, upload, alone, cut, overtaken>>
  PROVE  /\ tasks' \subseteq Runs \cup Screenings \cup Embeddings
         /\ Holding' = Holding /\ Editing' = Editing /\ Adding' = Adding
         /\ life # "none" /\ tasks # {}
<1>1. tasks' = (tasks \ {t}) \cup next /\ tasks \subseteq Runs \cup Screenings \cup Embeddings
  BY DEF Replace, ProfileInv, ProfileTables
<1>2. Holding' = Holding /\ Editing' = Editing /\ Adding' = Adding
  BY DEF Holding, Editing, Adding
<1> QED
  BY <1>1, <1>2 DEF ProfileInv, Unlisted

(* A CV was read, or not. *)
LEMMA ProfileExtracts ==
  ASSUME ProfileInv, NEW t \in tasks, NEW answered \in BOOLEAN, Extract(t, answered)
  PROVE  ProfileInv'
<1> DEFINE d == IF answered THEN [derived EXCEPT !.extraction = t.file] ELSE derived
           next == IF Listed THEN {Screening(row.notes, TRUE)} ELSE {}
<1>1. /\ t.stage = "extract" /\ derived' = (IF Listed THEN d ELSE Built(d, Version))
      /\ Replace(t, next)
      /\ UNCHANGED <<life, row, disk, lastFile, upload, alone, cut, overtaken>>
  BY DEF Extract
<1>2. /\ t \in Runs /\ t.file \in 0..MaxFiles /\ Shaped(derived) /\ derived.extraction \in 0..MaxFiles
      /\ row.notes \in Notes
  <2>1. t \in Runs
    BY <1>1 DEF ProfileInv, ProfileTables, Runs, Screenings, Embeddings
  <2> QED BY <2>1, AddingIsFinite DEF Runs, Files, ProfileInv, ProfileTables
<1>3. /\ Shaped(d) /\ d.document = derived.document /\ d.extraction \in 0..MaxFiles /\ d.vector = derived.vector
      /\ d.labels = derived.labels /\ d.corrected = derived.corrected
  <2>1. CASE answered
    <3>1. /\ Shaped([derived EXCEPT !.extraction = t.file])
          /\ [derived EXCEPT !.extraction = t.file]
               = [document |-> derived.document, extraction |-> t.file, vector |-> derived.vector,
                  labels |-> derived.labels, corrected |-> derived.corrected]
      BY <1>2, ReadingIs
    <3> QED BY <1>2, <2>1, <3>1
  <2>2. CASE ~answered
    BY <1>2, <2>2
  <2> QED BY <2>1, <2>2
<1>4. next \subseteq Screenings /\ (Listed => \E o \in next : o.run /\ o.stage = "summary" /\ o.read = row.notes)
  <2>1. /\ Screening(row.notes, TRUE) \in Screenings /\ Screening(row.notes, TRUE).run = TRUE
        /\ Screening(row.notes, TRUE).stage = "summary" /\ Screening(row.notes, TRUE).read = row.notes
    BY <1>2 DEF Screening, Screenings
  <2>2. CASE Listed
    BY <2>1, <2>2
  <2>3. CASE ~Listed
    BY <2>3
  <2> QED BY <2>2, <2>3
<1> HIDE DEF d
<1>5. /\ Shaped(derived') /\ derived'.document = derived.document /\ derived'.extraction \in 0..MaxFiles
      /\ derived'.vector = derived.vector /\ derived'.corrected = derived.corrected
      /\ (Listed => derived'.labels = derived.labels)
      /\ (~Listed => DOMAIN derived'.labels = DOMAIN derived.labels \cup {1})
  <2>1. CASE Listed
    BY <1>1, <1>3, <2>1
  <2>2. CASE ~Listed
    <3>1. derived' = Built(d, 1)
      BY <1>1, <2>2 DEF Version
    <3> QED BY <1>3, <2>2, <3>1, BuiltIs
  <2> QED BY <2>1, <2>2
<1>6. /\ tasks' \subseteq Runs \cup Screenings \cup Embeddings
      /\ Holding' = Holding /\ Editing' = Editing /\ Adding' = Adding
      /\ life # "none" /\ tasks # {} /\ tasks' = (tasks \ {t}) \cup next
  <2> HIDE DEF next
  <2>1. next \subseteq Runs \cup Screenings \cup Embeddings
    BY <1>4
  <2>2. UNCHANGED <<life, disk, lastFile, upload, alone, cut, overtaken>>
    BY <1>1
  <2>3. tasks' = (tasks \ {t}) \cup next
    BY <1>1 DEF Replace
  <2> QED BY <1>1, <2>1, <2>2, <2>3, WorkGoesOn
<1> HIDE DEF next
<1>7. ProfileTables'
  BY <1>1, <1>5, <1>6 DEF ProfileInv, ProfileTables
<1>8. FilesInHand' /\ VersionsCounted' /\ NotesMeanWell'
  BY <1>1, <1>5, <1>6 DEF ProfileInv, FilesInHand, VersionsCounted, NotesMeanWell
<1>9. Unlisted' /\ EditsAlone'
  BY <1>1, <1>5, <1>6 DEF ProfileInv, Unlisted, EditsAlone
<1>10. LabelsFollow' /\ CorrectionsStay'
  <2>1. 1 \in Versions
    BY AddingIsFinite DEF Versions
  <2>2. Listed => \E o \in tasks' : o.stage = "extract" \/ o.run
    BY <1>4, <1>6
  <2> QED BY <1>1, <1>5, <2>1, <2>2 DEF ProfileInv, LabelsFollow, CorrectionsStay, Listed
<1>11. ScreeningIsUnderWay'
  <2>1. CASE Listed
    BY <1>1, <1>4, <1>6, <2>1 DEF ScreeningIsUnderWay
  <2>2. CASE ~Listed
    <3>1. row.notes.clean
      BY <2>2, NothingIsTyped DEF ProfileInv, Unlisted, Listed
    <3> QED BY <1>1, <3>1 DEF ScreeningIsUnderWay
  <2> QED BY <2>1, <2>2
<1> QED
  BY <1>7, <1>8, <1>9, <1>10, <1>11 DEF ProfileInv

(* The draft, or the words screened: what the answer stands for is still there. *)
LEMMA ScreenedIs ==
  ASSUME ProfileInv, NEW t \in Screenings
  PROVE  /\ Screened(t.read) \in Notes /\ Screened(t.read).n = row.notes.n
         /\ (row.notes # t.read => Screened(t.read) = row.notes)
         /\ (row.notes = t.read => Screened(t.read).clean)
         /\ (row.notes.by = "candidate" => Screened(t.read).by = "candidate")
         /\ (Screened(t.read).by = "candidate" => row.notes.by = "candidate")
         /\ (Screened(t.read).by # "candidate" => Screened(t.read).clean)
<1>1. row.notes \in Notes /\ t.read \in Notes /\ NotesMeanWell
  BY DEF ProfileInv, ProfileTables, Screenings
<1>2. CASE row.notes # t.read
  <2>1. Screened(t.read) = row.notes
    BY <1>2 DEF Screened
  <2> QED BY <1>1, <1>2, <2>1 DEF NotesMeanWell
<1>3. CASE row.notes = t.read /\ row.notes.by = "nobody"
  <2>1. Screened(t.read) = [row.notes EXCEPT !.by = "draft"]
    BY <1>3 DEF Screened
  <2>2. Screened(t.read) \in Notes /\ Screened(t.read).n = row.notes.n /\ Screened(t.read).by = "draft"
        /\ Screened(t.read).clean = row.notes.clean
    BY <1>1, <2>1 DEF Notes
  <2> QED BY <1>1, <1>3, <2>2 DEF NotesMeanWell
<1>4. CASE row.notes = t.read /\ row.notes.by # "nobody"
  <2>1. Screened(t.read) = [row.notes EXCEPT !.clean = TRUE]
    BY <1>4 DEF Screened
  <2>2. Screened(t.read) \in Notes /\ Screened(t.read).n = row.notes.n /\ Screened(t.read).by = row.notes.by
        /\ Screened(t.read).clean = TRUE
    BY <1>1, <2>1 DEF Notes
  <2> QED BY <1>1, <1>4, <2>2
<1> QED
  BY <1>2, <1>3, <1>4

(* An answer to a screening. *)
LEMMA ProfileSummarises ==
  ASSUME ProfileInv, NEW t \in tasks, Summarise(t)
  PROVE  ProfileInv'
<1> DEFINE next == IF t.run /\ Listed THEN {Embedding(derived.extraction, TRUE)} ELSE {}
<1>1. /\ t.stage = "summary" /\ row' = (IF Listed THEN [row EXCEPT !.notes = Screened(t.read)] ELSE row)
      /\ derived' = (IF t.run /\ ~Listed THEN Built(derived, Version) ELSE derived)
      /\ Replace(t, next)
      /\ UNCHANGED <<life, disk, lastFile, upload, alone, cut, overtaken>>
  BY DEF Summarise
<1>2. /\ t \in Screenings /\ t.run \in BOOLEAN /\ Shaped(derived) /\ derived.extraction \in 0..MaxFiles
      /\ row \in [cv : 0..MaxFiles, version : Nat, notes : Notes]
  <2>1. t \in Screenings
    BY <1>1 DEF ProfileInv, ProfileTables, Runs, Screenings, Embeddings
  <2> QED BY <2>1 DEF Screenings, ProfileInv, ProfileTables
<1>3. /\ row' \in [cv : 0..MaxFiles, version : Nat, notes : Notes] /\ row'.cv = row.cv /\ row'.version = row.version
      /\ (Listed => row'.notes = Screened(t.read)) /\ (~Listed => row' = row)
  <2>1. Screened(t.read) \in Notes
    BY <1>2, ScreenedIs
  <2>2. CASE Listed
    BY <1>1, <1>2, <2>1, <2>2
  <2>3. CASE ~Listed
    BY <1>1, <1>2, <2>3
  <2> QED BY <2>2, <2>3
<1>4. /\ Shaped(derived') /\ derived'.document = derived.document /\ derived'.extraction = derived.extraction
      /\ derived'.vector = derived.vector /\ derived'.corrected = derived.corrected
      /\ (Listed => derived' = derived)
      /\ (DOMAIN derived'.labels \subseteq DOMAIN derived.labels \cup {1})
  <2>1. CASE t.run /\ ~Listed
    <3>1. derived' = Built(derived, 1)
      BY <1>1, <2>1 DEF Version
    <3> QED BY <1>2, <2>1, <3>1, BuiltIs
  <2>2. CASE ~(t.run /\ ~Listed)
    BY <1>1, <1>2, <2>2
  <2> QED BY <2>1, <2>2
<1>5. next \subseteq Embeddings /\ (Listed /\ t.run => \E o \in next : o.run)
  <2>1. Embedding(derived.extraction, TRUE) \in Embeddings /\ Embedding(derived.extraction, TRUE).run = TRUE
    BY <1>2 DEF Embedding, Embeddings
  <2>2. CASE t.run /\ Listed
    BY <2>1, <2>2
  <2>3. CASE ~(t.run /\ Listed)
    BY <2>3
  <2> QED BY <2>2, <2>3
<1> HIDE DEF next
<1>6. /\ tasks' \subseteq Runs \cup Screenings \cup Embeddings
      /\ Holding' = Holding /\ Editing' = Editing /\ Adding' = Adding
      /\ life # "none" /\ tasks # {} /\ tasks' = (tasks \ {t}) \cup next
  <2>1. next \subseteq Runs \cup Screenings \cup Embeddings
    BY <1>5
  <2>2. UNCHANGED <<life, disk, lastFile, upload, alone, cut, overtaken>>
    BY <1>1
  <2>3. tasks' = (tasks \ {t}) \cup next
    BY <1>1 DEF Replace
  <2> QED BY <1>1, <2>1, <2>2, <2>3, WorkGoesOn
<1>7. ProfileTables'
  BY <1>1, <1>2, <1>3, <1>4, <1>6 DEF ProfileInv, ProfileTables
<1>8. FilesInHand' /\ EditsAlone'
  BY <1>1, <1>3, <1>4, <1>6 DEF ProfileInv, FilesInHand, EditsAlone
<1>9. VersionsCounted' /\ NotesMeanWell'
  <2>1. row'.notes.n = row.notes.n
    BY <1>2, <1>3, ScreenedIs
  <2>2. NotesMeanWell /\ VersionsCounted
    BY DEF ProfileInv
  <2>3. NotesMeanWell'
    <3>1. CASE Listed
      <4>1. row'.notes = Screened(t.read)
        BY <1>3, <3>1
      <4>2. (row'.notes.by = "candidate") = (row.notes.by = "candidate")
            /\ (row'.notes.by # "candidate" => row'.notes.clean)
        BY <1>2, <4>1, ScreenedIs
      <4> QED BY <2>1, <2>2, <4>2 DEF NotesMeanWell
    <3>2. CASE ~Listed
      BY <1>3, <2>2, <3>2 DEF NotesMeanWell
    <3> QED BY <3>1, <3>2
  <2> QED BY <1>1, <1>3, <1>6, <2>1, <2>2, <2>3 DEF VersionsCounted
<1>10. Unlisted'
  BY <1>1, <1>3, <1>4, <1>6 DEF ProfileInv, Unlisted, Listed
<1>11. LabelsFollow' /\ CorrectionsStay'
  <2>1. 1 \in Versions
    BY AddingIsFinite DEF Versions
  <2>2. Listed => \A o \in tasks : (o.stage = "extract" \/ o.run)
                   => \E k \in tasks' : k.stage = "extract" \/ k.run
    <3> SUFFICES ASSUME Listed, NEW o \in tasks, o.stage = "extract" \/ o.run
                 PROVE  \E k \in tasks' : k.stage = "extract" \/ k.run
      OBVIOUS
    <3>1. CASE o = t
      BY <1>1, <1>5, <1>6, <3>1
    <3>2. CASE o # t
      BY <1>6, <3>2
    <3> QED BY <3>1, <3>2
  <2>3. DOMAIN derived'.labels \subseteq Versions
    BY <1>4, <2>1 DEF ProfileInv, LabelsFollow
  <2>4. LabelsFollow'
    <3> SUFFICES ASSUME Listed PROVE LabelsFollow'
      BY <1>1, <2>3 DEF LabelsFollow, Listed
    <3> QED BY <1>1, <1>3, <1>4, <2>2, <2>3 DEF ProfileInv, LabelsFollow, Listed
  <2> QED BY <1>1, <1>3, <1>4, <2>4 DEF ProfileInv, CorrectionsStay, Listed
<1>12. ScreeningIsUnderWay'
  <2>1. CASE Listed /\ row.notes = t.read
    BY <1>2, <1>3, <2>1, ScreenedIs DEF ScreeningIsUnderWay
  <2>2. CASE ~Listed \/ row.notes # t.read
    <3>1. row'.notes = row.notes
      BY <1>2, <1>3, <2>2, ScreenedIs
    <3>2. ~Listed => row.notes.clean
      BY NothingIsTyped DEF ProfileInv, Unlisted, Listed
    <3> QED BY <1>1, <1>6, <2>2, <3>1, <3>2 DEF ProfileInv, ScreeningIsUnderWay
  <2> QED BY <2>1, <2>2
<1> QED
  BY <1>7, <1>8, <1>9, <1>10, <1>11, <1>12 DEF ProfileInv

(* A vector, and the labels at the end of the run. *)
LEMMA ProfileEmbeds ==
  ASSUME ProfileInv, NEW t \in tasks, NEW answered \in BOOLEAN, Embed(t, answered)
  PROVE  ProfileInv'
<1> DEFINE d == IF answered THEN [derived EXCEPT !.vector = t.text] ELSE derived
<1>1. /\ t.stage = "embed" /\ derived' = (IF t.run THEN Built(d, Version) ELSE d)
      /\ Replace(t, {})
      /\ UNCHANGED <<life, row, disk, lastFile, upload, alone, cut, overtaken>>
  BY DEF Embed, Embedded
<1>2. /\ t \in Embeddings /\ t.text \in 0..MaxFiles /\ t.run \in BOOLEAN /\ Shaped(derived) /\ derived.vector \in 0..MaxFiles
  <2>1. t \in Embeddings
    BY <1>1 DEF ProfileInv, ProfileTables, Runs, Screenings, Embeddings
  <2> QED BY <2>1 DEF Embeddings, ProfileInv, ProfileTables
<1>3. /\ Shaped(d) /\ d.document = derived.document /\ d.vector \in 0..MaxFiles /\ d.extraction = derived.extraction
      /\ d.labels = derived.labels /\ d.corrected = derived.corrected
  <2>1. CASE answered
    <3>1. /\ Shaped([derived EXCEPT !.vector = t.text])
          /\ [derived EXCEPT !.vector = t.text]
               = [document |-> derived.document, extraction |-> derived.extraction, vector |-> t.text,
                  labels |-> derived.labels, corrected |-> derived.corrected]
      BY <1>2, ReadingIs
    <3> QED BY <1>2, <2>1, <3>1
  <2>2. CASE ~answered
    BY <1>2, <2>2
  <2> QED BY <2>1, <2>2
<1> HIDE DEF d
<1>4. Listed => Version = row.version
  BY DEF Version
<1>5. ~Listed => Version = 1
  BY DEF Version
<1>6. /\ Shaped(derived') /\ derived'.document = derived.document /\ derived'.extraction = derived.extraction
      /\ derived'.vector \in 0..MaxFiles /\ derived'.corrected = derived.corrected
      /\ (t.run => DOMAIN derived'.labels = DOMAIN derived.labels \cup {Version}
                   /\ derived'.labels[Version].corrected = derived.corrected)
      /\ (~t.run => derived'.labels = derived.labels)
  <2>1. CASE t.run
    <3>1. derived' = Built(d, Version)
      BY <1>1, <2>1
    <3> QED BY <1>3, <2>1, <3>1, BuiltIs
  <2>2. CASE ~t.run
    BY <1>1, <1>3, <2>2
  <2> QED BY <2>1, <2>2
<1>7. /\ tasks' \subseteq Runs \cup Screenings \cup Embeddings
      /\ Holding' = Holding /\ Editing' = Editing /\ Adding' = Adding
      /\ life # "none" /\ tasks # {} /\ tasks' = tasks \ {t}
  <2>1. UNCHANGED <<life, disk, lastFile, upload, alone, cut, overtaken>>
    BY <1>1
  <2>2. tasks' = tasks \ {t}
    BY <1>1 DEF Replace
  <2>3. {} \subseteq Runs \cup Screenings \cup Embeddings
    OBVIOUS
  <2> QED BY <1>1, <2>1, <2>2, <2>3, WorkGoesOn
<1>8. ProfileTables'
  BY <1>1, <1>6, <1>7 DEF ProfileInv, ProfileTables
<1>9. FilesInHand' /\ EditsAlone' /\ VersionsCounted' /\ NotesMeanWell' /\ Unlisted' /\ ScreeningIsUnderWay'
  <2>1. FilesInHand' /\ EditsAlone'
    BY <1>1, <1>6, <1>7 DEF ProfileInv, FilesInHand, EditsAlone
  <2>2. VersionsCounted' /\ NotesMeanWell' /\ Unlisted'
    BY <1>1, <1>7 DEF ProfileInv, VersionsCounted, NotesMeanWell, Unlisted
  <2>3. ScreeningIsUnderWay'
    BY <1>1, <1>7 DEF ProfileInv, ScreeningIsUnderWay
  <2> QED BY <2>1, <2>2, <2>3
<1>10. LabelsFollow' /\ CorrectionsStay'
  <2>1. 1 \in Versions /\ (Listed => row.version \in Versions) /\ row.version \in Nat
    <3>1. Cardinality(Adding) \in Nat /\ row.version >= 1 /\ row.version + Cardinality(Adding) <= 1 + lastFile + row.notes.n
          /\ row.version \in Nat /\ row.notes.n \in 0..MaxWords /\ lastFile \in 0..MaxFiles
      BY AddingIsFinite DEF ProfileInv, ProfileTables, VersionsCounted, Notes
    <3> QED BY <3>1, AddingIsFinite DEF Versions
  <2>2. DOMAIN derived.labels \subseteq Versions
        /\ (Listed => \A v \in DOMAIN derived.labels : v <= row.version)
        /\ (Listed => row.version \in DOMAIN derived.labels \/ (\E o \in tasks : o.stage = "extract" \/ o.run)
                      \/ \E q \in Uploads : upload[q].stage = "first")
    BY DEF ProfileInv, LabelsFollow, Listed
  <2>3. CASE t.run
    <3>1. DOMAIN derived'.labels \subseteq Versions
      BY <1>4, <1>5, <1>6, <2>1, <2>2, <2>3
    <3>2. Listed => row.version \in DOMAIN derived'.labels /\ derived'.labels[row.version].corrected = derived'.corrected
      BY <1>4, <1>6, <2>3
    <3>3. Listed => \A v \in DOMAIN derived'.labels : v <= row.version
      BY <1>4, <1>6, <2>1, <2>2, <2>3
    <3> QED BY <1>1, <3>1, <3>2, <3>3 DEF LabelsFollow, CorrectionsStay, Listed
  <2>4. CASE ~t.run
    <3>1. \A o \in tasks : o.stage = "extract" \/ o.run => o \in tasks'
      BY <1>1, <1>7, <2>4
    <3>2. derived'.labels = derived.labels /\ derived'.corrected = derived.corrected
      BY <1>6, <2>4
    <3>3. LabelsFollow'
      BY <1>1, <2>2, <3>1, <3>2 DEF LabelsFollow, Listed
    <3> QED BY <1>1, <3>2, <3>3 DEF ProfileInv, CorrectionsStay, Listed
  <2> QED BY <2>3, <2>4
<1> QED
  BY <1>8, <1>9, <1>10 DEF ProfileInv

(* The process dies and starts again. *)
LEMMA ProfileStartsAgain ==
  ASSUME ProfileInv, ProfileRestart
  PROVE  ProfileInv'
<1>1. /\ upload' = [q \in Uploads |-> Free] /\ tasks' = {}
      /\ disk' = disk \cap {derived'.document, row.cv} /\ cut' = (cut \/ ~row.notes.clean)
      /\ overtaken' = FALSE /\ UNCHANGED <<life, lastFile, alone>>
  BY DEF ProfileRestart
<1>2. PICK clean \in {row.notes.clean, TRUE} : row' = [row EXCEPT !.notes.clean = clean]
  BY DEF ProfileRestart
<1>3. /\ row \in [cv : 0..MaxFiles, version : Nat, notes : Notes] /\ row.notes \in Notes /\ row.notes.clean \in BOOLEAN
      /\ Shaped(derived) /\ row.version \in Nat /\ row.notes.n \in 0..MaxWords /\ lastFile \in 0..MaxFiles
  BY DEF ProfileInv, ProfileTables, Notes
<1> DEFINE notes == [row.notes EXCEPT !.clean = clean]
<1>4. notes \in Notes /\ notes.by = row.notes.by /\ notes.n = row.notes.n /\ notes.clean = clean
  <2>1. clean \in BOOLEAN
    BY <1>3
  <2> QED BY <1>3, <2>1 DEF Notes
<1>5. /\ row' \in [cv : 0..MaxFiles, version : Nat, notes : Notes] /\ row'.cv = row.cv /\ row'.version = row.version
      /\ row'.notes = notes
  <2>1. row' = [row EXCEPT !.notes = notes]
    BY <1>2
  <2> HIDE DEF notes
  <2> QED BY <1>3, <1>4, <2>1
<1> HIDE DEF notes
<1>6. row.notes.clean = TRUE => clean = TRUE
  OBVIOUS
<1>7. ~Listed => derived' = Nothing /\ row' = NoRow
  <2> SUFFICES ASSUME ~Listed PROVE derived' = Nothing /\ row' = NoRow
    OBVIOUS
  <2>1. derived' = Nothing
    BY DEF ProfileRestart
  <2>2. row = NoRow
    BY DEF ProfileInv, Unlisted, Listed
  <2>3. clean = TRUE
    BY <1>6, <2>2, NothingIsTyped
  <2>4. row.notes.clean = TRUE
    BY <2>2, NothingIsTyped
  <2>5. row.notes = [by |-> row.notes.by, n |-> row.notes.n, clean |-> row.notes.clean]
    BY <1>3 DEF Notes
  <2>6. [row.notes EXCEPT !.clean = clean] = row.notes
    BY <2>3, <2>4, <2>5
  <2>7. row' = [row EXCEPT !.notes = row.notes]
    BY <1>2, <2>6
  <2>8. row' = NoRow
    BY <1>3, <2>2, <2>7
  <2> QED BY <2>1, <2>8
<1>8. Listed => /\ derived' = derived \/ derived' = Built(derived, row.version)
                /\ row.version \in DOMAIN derived.labels => derived' = derived
                /\ row.version \notin DOMAIN derived.labels => derived' = Built(derived, row.version)
  <2> SUFFICES ASSUME Listed
               PROVE  /\ row.version \in DOMAIN derived.labels => derived' = derived
                      /\ row.version \notin DOMAIN derived.labels => derived' = Built(derived, row.version)
    OBVIOUS
  <2>1. derived' = CASE ~Listed -> Nothing
                     [] Listed /\ row.version \in DOMAIN derived.labels -> derived
                     [] OTHER -> Built(derived, row.version)
    BY DEF ProfileRestart
  <2> QED BY <2>1
<1>9. /\ Shaped(derived') /\ derived'.document \in 0..MaxFiles /\ derived'.extraction \in 0..MaxFiles
      /\ derived'.vector \in 0..MaxFiles /\ derived'.document <= lastFile
      /\ Listed => /\ derived'.document = derived.document /\ derived'.corrected = derived.corrected
                   /\ DOMAIN derived'.labels = DOMAIN derived.labels \cup {row.version}
                   /\ (row.version \in DOMAIN derived.labels => derived'.labels = derived.labels)
                   /\ (row.version \notin DOMAIN derived.labels
                        => derived'.labels[row.version].corrected = derived.corrected)
      /\ ~Listed => DOMAIN derived'.labels = {}
  <2>1. CASE ~Listed
    <3>1. 0 <= lastFile /\ 0 \in 0..MaxFiles
      BY <1>3, AddingIsFinite
    <3> QED BY <1>7, <2>1, <3>1, NothingIsTyped
  <2>2. CASE Listed /\ row.version \in DOMAIN derived.labels
    BY <1>3, <1>8, <2>2 DEF ProfileInv, ProfileTables, FilesInHand
  <2>3. CASE Listed /\ row.version \notin DOMAIN derived.labels
    <3>1. derived' = Built(derived, row.version)
      BY <1>8, <2>3
    <3>2. /\ Shaped(derived') /\ derived'.document = derived.document /\ derived'.extraction = derived.extraction
          /\ derived'.vector = derived.vector /\ derived'.corrected = derived.corrected
          /\ DOMAIN derived'.labels = DOMAIN derived.labels \cup {row.version}
          /\ derived'.labels[row.version].corrected = derived.corrected
      BY <1>3, <3>1, BuiltIs
    <3> QED BY <2>3, <3>2 DEF ProfileInv, ProfileTables, FilesInHand
  <2> QED BY <2>1, <2>2, <2>3
<1>10. \A q \in Uploads : upload'[q].stage = "free"
  BY <1>1 DEF Free
<1>11. Holding' = {} /\ Editing' = {} /\ Adding' = {}
  BY <1>10 DEF Holding, Editing, Adding
<1>12. ProfileTables'
  <2>1. cut' \in BOOLEAN
    BY <1>1
  <2>2. disk' \subseteq Files /\ tasks' = {}
    BY <1>1 DEF ProfileInv, ProfileTables
  <2>3. upload' \in [Uploads -> Pinned \cup Unlinking \cup Erasing \cup {Free}]
    BY <1>1
  <2> QED BY <1>1, <1>5, <1>9, <2>1, <2>2, <2>3 DEF ProfileInv, ProfileTables
<1>13. FilesInHand'
  BY <1>1, <1>5, <1>9, <1>10, <1>11 DEF ProfileInv, FilesInHand
<1>14. VersionsCounted' /\ NotesMeanWell'
  <2>1. Cardinality(Adding') = 0
    BY <1>11, FS_EmptySet
  <2>2. row.version >= 1 /\ row.version + Cardinality(Adding) <= 1 + lastFile + row.notes.n /\ Cardinality(Adding) \in Nat
    BY AddingIsFinite DEF ProfileInv, VersionsCounted
  <2>3. row.version + 0 <= 1 + lastFile + row.notes.n
    BY <1>3, <2>2
  <2>4. row'.notes.n = row.notes.n /\ row'.version = row.version
    BY <1>4, <1>5
  <2>5. VersionsCounted'
    BY <1>1, <2>1, <2>2, <2>3, <2>4 DEF VersionsCounted
  <2>6. row'.notes.by = row.notes.by /\ (row.notes.clean => row'.notes.clean)
    BY <1>4, <1>5, <1>6
  <2> QED BY <2>4, <2>5, <2>6 DEF ProfileInv, NotesMeanWell
<1>15. Unlisted'
  BY <1>1, <1>7, <1>11 DEF Unlisted, Listed
<1>16. EditsAlone'
  <2> SUFFICES ASSUME life = "listed", alone PROVE EditsAlone'
    BY <1>1 DEF EditsAlone
  <2>1. (row.cv = 0 \/ row.cv \in disk) /\ (derived.document = 0 \/ derived.document \in disk)
    BY DEF ProfileInv, EditsAlone
  <2>2. derived'.document = derived.document
    BY <1>9 DEF Listed
  <2> QED BY <1>1, <1>5, <1>10, <1>11, <2>1, <2>2 DEF EditsAlone
<1>17. LabelsFollow' /\ CorrectionsStay'
  <2>1. Listed => row.version \in Versions
    <3>1. Cardinality(Adding) \in Nat /\ row.version >= 1 /\ row.version + Cardinality(Adding) <= 1 + lastFile + row.notes.n
      BY AddingIsFinite DEF ProfileInv, VersionsCounted
    <3> QED BY <1>3, <3>1, AddingIsFinite DEF Versions
  <2>2. DOMAIN derived.labels \subseteq Versions /\ (Listed => \A v \in DOMAIN derived.labels : v <= row.version)
    BY DEF ProfileInv, LabelsFollow, Listed
  <2>3. LabelsFollow'
    <3>1. DOMAIN derived'.labels \subseteq Versions
      BY <1>9, <2>1, <2>2
    <3>2. Listed => row.version \in DOMAIN derived'.labels /\ \A v \in DOMAIN derived'.labels : v <= row.version
      BY <1>3, <1>9, <2>2
    <3> QED BY <1>1, <1>5, <3>1, <3>2 DEF LabelsFollow, Listed
  <2>4. Listed => derived'.labels[row.version].corrected = derived'.corrected
    BY <1>9 DEF ProfileInv, CorrectionsStay
  <2> QED BY <1>1, <1>5, <2>3, <2>4 DEF CorrectionsStay, Listed
<1>18. ScreeningIsUnderWay'
  BY <1>1, <1>4, <1>5, <1>6 DEF ScreeningIsUnderWay
<1> QED
  BY <1>12, <1>13, <1>14, <1>15, <1>16, <1>17, <1>18 DEF ProfileInv

LEMMA ProfileSteps ==
  ASSUME ProfileInv, ErasingIsLate, [ProfileNext]_profileVars
  PROVE  ProfileInv' /\ ErasingIsLate'
<1>1. CASE UNCHANGED profileVars
  BY <1>1 DEF profileVars, ProfileInv, ErasingIsLate, ProfileTables, FilesInHand, VersionsCounted, NotesMeanWell,
     Unlisted, EditsAlone, LabelsFollow, CorrectionsStay, ScreeningIsUnderWay, Holding, Editing, Adding, Listed
<1>2. CASE ProfileNext
  <2>1. ErasingIsLate'
    BY <1>2, ErasingStaysLate
  <2>2. CASE \E q \in Uploads : (\E stage \in {"insert", "save"} : BeginUpload(q, stage))
               \/ (\E wrote \in BOOLEAN : InsertCandidate(q, wrote) \/ SaveEdit(q, wrote)) \/ FinishApplication(q)
               \/ RejectEdit(q) \/ StoreDocument(q) \/ FinishEdit(q) \/ DeleteCandidate(q) \/ EraseFiles(q)
    BY <2>1, <2>2, ProfileUploads, ProfileInserts, ProfileFinishes, ProfileSaves, ProfileRejects, ProfileStores,
       ProfileUnlinks, ProfileGoes, ProfileErases
  <2>3. CASE EditWords \/ EditLabel
    BY <2>1, <2>3, ProfileWords, ProfileLabels
  <2>4. CASE \E t \in tasks : Background(t)
    BY <2>1, <2>4, ProfileSummarises, ProfileExtracts, ProfileEmbeds DEF Background
  <2>5. CASE ProfileRestart
    BY <2>1, <2>5, ProfileStartsAgain
  <2> QED BY <1>2, <2>1, <2>2, <2>3, <2>4, <2>5 DEF ProfileNext
<1> QED
  BY <1>1, <1>2

LEMMA ProfileInvIsSound ==
  ASSUME ProfileInv
  PROVE  ProfileIsSound
<1>1. ProfileTypeOK
  <2>1. Cardinality(Adding) \in Nat /\ row.version >= 1 /\ row.version + Cardinality(Adding) <= 1 + lastFile + row.notes.n
        /\ row.version \in Nat /\ row.notes.n \in 0..MaxWords /\ lastFile \in 0..MaxFiles
    BY AddingIsFinite DEF ProfileInv, ProfileTables, VersionsCounted, Notes
  <2>2. row.version \in Versions
    BY <2>1, AddingIsFinite DEF Versions
  <2>3. row \in [cv : 0..MaxFiles, version : Versions, notes : Notes]
    BY <2>2 DEF ProfileInv, ProfileTables
  <2>4. \A t \in tasks : t.stage \in {"extract", "summary", "embed"}
    BY DEF ProfileInv, ProfileTables, Runs, Screenings, Embeddings
  <2> QED BY <2>3, <2>4 DEF ProfileTypeOK, ProfileInv, ProfileTables, NotesMeanWell, LabelsFollow
<1>2. FilesAreThere
  BY DEF ProfileInv, EditsAlone, FilesAreThere, Listed
<1>3. LabelsAreBuilt
  BY DEF ProfileInv, LabelsFollow, LabelsAreBuilt, Listed, Free
<1>4. ErasedUnlessOvertaken
  BY DEF ProfileInv, Unlisted, ErasedUnlessOvertaken
<1> QED
  BY <1>1, <1>2, <1>3, <1>4 DEF ProfileInv, ProfileIsSound

(* Whatever order edits, answers of models, an erasure and a restart come in: no
   file that the row names is unlinked, words are screened or being screened, and
   labels are built with the candidate's corrections (index.js, summary.js,
   matching/intelligence.js). *)
THEOREM ProfileStaysSound == ProfileSpec => []ProfileIsSound
<1>1. ProfileInit => ProfileInv /\ ErasingIsLate
  <2> SUFFICES ASSUME ProfileInit PROVE ProfileInv /\ ErasingIsLate
    OBVIOUS
  <2>1. ErasingIsLate
    BY DEF ProfileInit, ErasingIsLate, Free
  <2> QED BY <2>1, ProfileStarts
<1>2. (ProfileInv /\ ErasingIsLate) /\ [ProfileNext]_profileVars => (ProfileInv /\ ErasingIsLate)'
  BY ProfileSteps
<1>3. ProfileInv /\ ErasingIsLate => ProfileIsSound
  BY ProfileInvIsSound
<1> QED
  BY <1>1, <1>2, <1>3, PTL DEF ProfileSpec

(* What the candidate wrote: the step after which it reads otherwise. *)
WordsKept ==
    LET now == row.notes next == row'.notes
    IN  now.by = "candidate" /\ life' = "listed" /\ next # now
        => next.n = now.n + 1 \/ (next.n = now.n /\ next.clean)

LEMMA WordsAreKept ==
  ASSUME ProfileInv, ProfileNext
  PROVE  WordsKept
<1>1. row \in [cv : 0..MaxFiles, version : Nat, notes : Notes]
  BY DEF ProfileInv, ProfileTables
<1>2. row' = row => WordsKept
  BY DEF WordsKept
<1>3. row'.notes = row.notes => WordsKept
  BY DEF WordsKept
<1>4. row'.notes.n = row.notes.n + 1 => WordsKept
  BY DEF WordsKept
<1>5. ASSUME NEW q \in Uploads, NEW wrote \in BOOLEAN, InsertCandidate(q, wrote) PROVE WordsKept
  <2>1. CASE life = "none"
    <3>1. row.notes.by = "nobody"
      BY <2>1, NothingIsTyped DEF ProfileInv, Unlisted
    <3> QED BY <3>1 DEF WordsKept
  <2>2. CASE life # "none"
    BY <1>2, <1>5, <2>2 DEF InsertCandidate
  <2> QED BY <2>1, <2>2
<1>6. ASSUME NEW q \in Uploads, NEW wrote \in BOOLEAN, SaveEdit(q, wrote) PROVE WordsKept
  <2> DEFINE notes == IF wrote THEN Words(row.notes.n + 1) ELSE row.notes
  <2>1. row' = Saved(upload[q].file, notes)
    BY <1>6 DEF SaveEdit
  <2>2. notes = row.notes \/ notes.n = row.notes.n + 1
    BY DEF Words
  <2> HIDE DEF notes
  <2>3. row' = row \/ row'.notes = notes
    BY <1>1, <2>1 DEF Saved
  <2> QED BY <1>2, <1>3, <1>4, <2>2, <2>3
<1>7. ASSUME NEW q \in Uploads, RejectEdit(q) PROVE WordsKept
  <2>1. row' = row \/ row'.notes = row.notes
    BY <1>1, <1>7 DEF RejectEdit, Saved
  <2> QED BY <1>2, <1>3, <2>1
<1>8. ASSUME NEW q \in Uploads, FinishEdit(q) PROVE WordsKept
  <2>1. row' = row \/ row'.notes = row.notes
    BY <1>1, <1>8 DEF FinishEdit
  <2> QED BY <1>2, <1>3, <2>1
<1>9. ASSUME NEW q \in Uploads, DeleteCandidate(q) PROVE WordsKept
  BY <1>9 DEF DeleteCandidate, WordsKept
<1>10. ASSUME NEW q \in Uploads,
              (\E stage \in {"insert", "save"} : BeginUpload(q, stage)) \/ FinishApplication(q) \/ StoreDocument(q)
                \/ EraseFiles(q)
       PROVE  WordsKept
  BY <1>2, <1>10 DEF BeginUpload, FinishApplication, StoreDocument, EraseFiles
<1>11. ASSUME EditWords PROVE WordsKept
  <2> DEFINE notes == Words(row.notes.n + 1)
             ver == row.version + 1
  <2>1. row' = [row EXCEPT !.notes = notes, !.version = ver]
    BY <1>11 DEF EditWords
  <2>2. notes.n = row.notes.n + 1
    BY DEF Words
  <2> HIDE DEF notes, ver
  <2>3. row'.notes = notes
    BY <1>1, <2>1
  <2> QED BY <1>4, <2>2, <2>3
<1>12. ASSUME NEW t \in tasks, Background(t) PROVE WordsKept
  <2>1. CASE Summarise(t)
    <3>1. t \in Screenings
      BY <2>1 DEF Summarise, ProfileInv, ProfileTables, Runs, Screenings, Embeddings
    <3>2. row' = row \/ row'.notes = Screened(t.read)
      BY <1>1, <2>1 DEF Summarise
    <3>3. row'.notes = row.notes \/ (row'.notes.n = row.notes.n /\ row'.notes.clean)
      BY <3>1, <3>2, ScreenedIs
    <3> QED BY <1>3, <3>3 DEF WordsKept
  <2>2. CASE \E answered \in BOOLEAN : Extract(t, answered) \/ Embed(t, answered)
    BY <1>2, <2>2 DEF Extract, Embed
  <2> QED BY <1>12, <2>1, <2>2 DEF Background
<1>13. ASSUME ProfileRestart PROVE WordsKept
  <2>1. PICK clean \in {row.notes.clean, TRUE} : row' = [row EXCEPT !.notes.clean = clean]
    BY <1>13 DEF ProfileRestart
  <2> DEFINE notes == [row.notes EXCEPT !.clean = clean]
  <2>2. row.notes = [by |-> row.notes.by, n |-> row.notes.n, clean |-> row.notes.clean]
    BY <1>1 DEF Notes
  <2>3. /\ notes.n = row.notes.n /\ notes.clean = clean
        /\ clean = row.notes.clean => notes = row.notes
    BY <2>2
  <2>4. row' = [row EXCEPT !.notes = notes]
    BY <2>1
  <2> HIDE DEF notes
  <2>5. row'.notes = notes
    BY <1>1, <2>4
  <2>6. row'.notes = row.notes \/ (row'.notes.n = row.notes.n /\ row'.notes.clean)
    BY <2>3, <2>5
  <2> QED BY <1>3, <2>6 DEF WordsKept
<1>14. ASSUME EditLabel PROVE WordsKept
  BY <1>2, <1>14 DEF EditLabel
<1> QED
  BY <1>5, <1>6, <1>7, <1>8, <1>9, <1>10, <1>11, <1>12, <1>13, <1>14 DEF ProfileNext

(* What the candidate wrote gives way to what they write next or to its own
   screened form, however late the answer to a draft comes (ensureSummary). *)
THEOREM OwnWordsAreKept == ProfileSpec => OwnWordsStay
<1>1. ProfileInit => ProfileInv /\ ErasingIsLate
  <2> SUFFICES ASSUME ProfileInit PROVE ProfileInv /\ ErasingIsLate
    OBVIOUS
  <2>1. ErasingIsLate
    BY DEF ProfileInit, ErasingIsLate, Free
  <2> QED BY <2>1, ProfileStarts
<1>2. (ProfileInv /\ ErasingIsLate) /\ [ProfileNext]_profileVars
        => (ProfileInv /\ ErasingIsLate)' /\ [WordsKept]_profileVars
  BY ProfileSteps, WordsAreKept
<1>3. [WordsKept]_profileVars
        => [LET now == row.notes next == row'.notes
            IN  now.by = "candidate" /\ life' = "listed" /\ next # now
                => next.n = now.n + 1 \/ (next.n = now.n /\ next.clean)]_profileVars
  BY DEF WordsKept
<1> QED
  BY <1>1, <1>2, <1>3, PTL DEF ProfileSpec, OwnWordsStay

-----------------------------------------------------------------------------
(* Stored scores.                                                            *)

(* Sums of parts.                                                            *)

LEMMA TotalOfFewer ==
  ASSUME NEW S, IsFiniteSet(S), NEW g \in [S -> Nat], NEW T \in SUBSET S
  PROVE  TotalOver(g, T) \in Nat /\ TotalOver(g, T) <= TotalOver(g, S)
<1> DEFINE k == [x \in T |-> g[x]]
           h == [x \in S |-> IF x \in T THEN g[x] ELSE 0]
<1>1. IsFiniteSet(T) /\ g \in [S -> Int] /\ \A x \in T : g[x] \in Int
  BY FS_Subset
<1>2. k \in [T -> Int] /\ h \in [S -> Int] /\ (\A x \in T : h[x] = k[x]) /\ (\A x \in S \ T : h[x] = 0)
      /\ (\A x \in S : h[x] <= g[x]) /\ (\A x \in T : 0 <= k[x])
  OBVIOUS
<1>3. TotalOver(g, T) = TotalOver(k, T)
  BY <1>1, TotalOfPart
<1> HIDE DEF k, h
<1>4. TotalOver(h, S) = TotalOver(k, T)
  BY <1>2, TotalOfSome
<1>5. TotalOver(h, S) <= TotalOver(g, S)
  BY <1>1, <1>2, TotalIsMonotone
<1>6. 0 <= TotalOver(k, T) /\ TotalOver(k, T) \in Int
  BY <1>1, <1>2, TermIsWithin, TotalType
<1> QED
  BY <1>3, <1>4, <1>5, <1>6

LEMMA TotalOfHundreds ==
  ASSUME NEW S, IsFiniteSet(S), NEW g \in [S -> Int], NEW h \in [S -> Int],
         \A x \in S : h[x] <= 100 * g[x]
  PROVE  TotalOver(h, S) <= 100 * TotalOver(g, S)
<1>1. PICK F \in [SUBSET S -> Int] : IsTotal(F, g, S)
  BY TotalOfParts
<1>2. PICK H \in [SUBSET S -> Int] : IsTotal(H, h, S)
  BY TotalOfParts
<1> DEFINE Good == {s \in SUBSET S : H[s] <= 100 * F[s]}
<1>3. {} \in Good
  BY <1>1, <1>2 DEF IsTotal
<1>4. ASSUME NEW s \in SUBSET S, s # {}, \A x \in s : s \ {x} \in Good PROVE s \in Good
  <2>1. PICK x : x \in s
    BY <1>4
  <2>2. F[s] = g[x] + F[s \ {x}] /\ H[s] = h[x] + H[s \ {x}]
    BY <1>1, <1>2, <2>1 DEF IsTotal, TakesOut
  <2>3. F[s \ {x}] \in Int /\ H[s \ {x}] \in Int /\ g[x] \in Int /\ h[x] \in Int
    BY <2>1
  <2>4. H[s \ {x}] <= 100 * F[s \ {x}] /\ h[x] <= 100 * g[x]
    BY <1>4, <2>1
  <2> HIDE DEF Good
  <2>5. H[s] <= 100 * F[s]
    BY <2>2, <2>3, <2>4
  <2> QED BY <2>5 DEF Good
<1>5. SUBSET S \subseteq Good
  <2> HIDE DEF Good
  <2> QED BY <1>3, <1>4, SubsetsAreGood
<1>6. H[S] <= 100 * F[S]
  BY <1>5
<1> QED
  BY <1>1, <1>2, <1>6 DEF IsTotal

-----------------------------------------------------------------------------
(* Rounding.                                                                 *)

LEMMA Division ==
  ASSUME NEW n \in Int, NEW d \in Nat, d > 0
  PROVE  n \div d \in Int /\ d * (n \div d) <= n /\ n < d * (n \div d) + d
  OBVIOUS

LEMMA DivisionIsMonotone ==
  ASSUME NEW n \in Int, NEW m \in Int, NEW d \in Nat, d > 0, n <= m
  PROVE  n \div d <= m \div d
<1>1. PICK q \in Int : q = n \div d /\ d * q <= n
  BY Division
<1>2. PICK p \in Int : p = m \div d /\ m < d * p + d
  BY Division
<1>3. d * q < d * (p + 1)
  BY <1>1, <1>2
<1>4. q < p + 1
  BY <1>3
<1> QED
  BY <1>1, <1>2, <1>4

LEMMA DivisionIsAtLeast ==
  ASSUME NEW n \in Int, NEW d \in Nat, d > 0, NEW k \in Int, d * k <= n
  PROVE  k <= n \div d
<1>1. PICK q \in Int : q = n \div d /\ n < d * q + d
  BY Division
<1>2. d * k < d * (q + 1)
  BY <1>1
<1>3. k < q + 1
  BY <1>2
<1> QED
  BY <1>1, <1>3

LEMMA DivisionIsAtMost ==
  ASSUME NEW n \in Int, NEW d \in Nat, d > 0, NEW k \in Int, n < d * (k + 1)
  PROVE  n \div d <= k
<1>1. PICK q \in Int : q = n \div d /\ d * q <= n
  BY Division
<1>2. d * q < d * (k + 1)
  BY <1>1
<1>3. q < k + 1
  BY <1>2
<1> QED
  BY <1>1, <1>3

LEMMA RoundedIsMonotone ==
  ASSUME NEW a \in Int, NEW c \in Int, NEW b \in Nat, b > 0, a <= c
  PROVE  Rounded(a, b) <= Rounded(c, b)
<1>1. 2 * a + b \in Int /\ 2 * c + b \in Int /\ 2 * b \in Nat /\ 2 * b > 0 /\ 2 * a + b <= 2 * c + b
  OBVIOUS
<1> QED
  BY <1>1, DivisionIsMonotone DEF Rounded

LEMMA RoundedIsShare ==
  ASSUME NEW a \in Int, NEW b \in Nat, b > 0, 0 <= a, a <= 100 * b
  PROVE  Rounded(a, b) \in 0..100
<1>1. 2 * a + b \in Int /\ 2 * b \in Nat /\ 2 * b > 0
  OBVIOUS
<1>2. (2 * b) * 0 <= 2 * a + b /\ 2 * a + b < (2 * b) * (100 + 1)
  OBVIOUS
<1>3. Rounded(a, b) \in Int
  BY <1>1, Division DEF Rounded
<1>4. 0 <= Rounded(a, b)
  BY <1>1, <1>2, DivisionIsAtLeast DEF Rounded
<1>5. Rounded(a, b) <= 100
  BY <1>1, <1>2, DivisionIsAtMost DEF Rounded
<1> QED
  BY <1>3, <1>4, <1>5

LEMMA RoundedIsNotNothing ==
  ASSUME NEW a \in Int, NEW b \in Nat, b > 0, b <= 2 * a
  PROVE  Rounded(a, b) >= 1
<1>1. 2 * a + b \in Int /\ 2 * b \in Nat /\ 2 * b > 0 /\ (2 * b) * 1 <= 2 * a + b
  OBVIOUS
<1>2. Rounded(a, b) \in Int
  BY <1>1, Division DEF Rounded
<1>3. 1 <= Rounded(a, b)
  BY <1>1, DivisionIsAtLeast DEF Rounded
<1> QED
  BY <1>2, <1>3

LEMMA ClampIs ==
  ASSUME NEW n \in Int
  PROVE  Clamp(n) = IF n < 0 THEN 0 ELSE IF n > 100 THEN 100 ELSE n
<1> DEFINE m == Min({100, n})
<1>1. m = IF n < 100 THEN n ELSE 100
  <2>1. CASE n >= 0
    BY <2>1, LesserOfTwo
  <2>2. CASE n < 0
    <3>1. \A x \in {100, n} : n <= x
      BY <2>2
    <3>2. \A x \in {100, n} : (\A y \in {100, n} : x <= y) => x = n
      BY <2>2
    <3>3. m = n
      BY <3>1, <3>2 DEF Min
    <3> QED BY <2>2, <3>3
  <2> QED BY <2>1, <2>2
<1>2. m \in Int
  BY <1>1
<1>3. Clamp(n) = Max({0, m})
  BY DEF Clamp
<1> HIDE DEF m
<1>4. Max({0, m}) = IF 0 < m THEN m ELSE 0
  BY <1>2, GreaterOfTwo
<1> QED
  BY <1>1, <1>3, <1>4

-----------------------------------------------------------------------------
(* Rows and their sums.                                                      *)

RowSet == [tier : Tiers, weight : {30, 10, 5, Unknown}, status : Verdicts]
Rows == [Requirements -> RowSet]

LEMMA Known ==
  /\ IsFiniteSet(Requirements) /\ Unknown \notin Int /\ MaxNudge \in Nat
  /\ Cardinality(Requirements) \in Nat
  /\ \A n \in Nudges : n \in Int /\ -MaxNudge <= n /\ n <= MaxNudge
  /\ \A s \in Silences : s \in Int /\ 0 <= s /\ s <= 60
<1>1. IsFiniteSet(Requirements)
  <2>1. IsFiniteSet(1..Cardinality(Requirements))
    BY ScoringAssumption, FS_Interval
  <2> QED BY <2>1, ScoringAssumption
<1>2. \A n \in Bonuses \union Penalties : n \in Int /\ 0 <= n /\ n <= MaxNudge
  BY ScoringAssumption
<1>3. \A n \in Nudges : n \in Int /\ -MaxNudge <= n /\ n <= MaxNudge
  BY <1>2, ScoringAssumption DEF Nudges
<1>4. \A s \in Silences : s \in Int /\ 0 <= s /\ s <= 60
  BY ScoringAssumption
<1> QED
  BY <1>1, <1>3, <1>4, ScoringAssumption

LEMMA WeightIs ==
  ASSUME NEW judged \in RowSet
  PROVE  WeightOf(judged) \in {30, 10, 5}
  BY Known DEF RowSet, WeightOf, TierWeight, Tiers

LEMMA WorthIs ==
  ASSUME NEW st \in Verdicts, NEW s \in Int
  PROVE  Worth(st, s) = IF st = "meets" THEN 100 ELSE IF st = "partial" THEN 60
                        ELSE IF st = "contradicted" THEN 0 ELSE s
  BY DEF Verdicts, Worth

LEMMA SumsOfRows ==
  ASSUME NEW rows \in Rows, NEW s \in Int, 0 <= s, s <= 100
  PROVE  /\ Weighed(rows) \in [Requirements -> Nat] /\ Earned(rows, s) \in [Requirements -> Nat]
         /\ \A r \in Requirements : /\ Weighed(rows)[r] = WeightOf(rows[r])
                                    /\ Weighed(rows)[r] \in {30, 10, 5}
                                    /\ Earned(rows, s)[r] = Worth(rows[r].status, s) * WeightOf(rows[r])
                                    /\ Earned(rows, s)[r] <= 100 * Weighed(rows)[r]
<1>1. \A r \in Requirements : rows[r] \in RowSet /\ rows[r].status \in Verdicts
  BY DEF Rows, RowSet
<1>2. \A r \in Requirements : WeightOf(rows[r]) \in {30, 10, 5}
  BY <1>1, WeightIs
<1>3. ASSUME NEW r \in Requirements
      PROVE  Worth(rows[r].status, s) \in Int /\ 0 <= Worth(rows[r].status, s) /\ Worth(rows[r].status, s) <= 100
  <2>1. rows[r].status \in Verdicts
    BY <1>1
  <2> QED BY <2>1, WorthIs
<1>4. ASSUME NEW r \in Requirements
      PROVE  /\ Worth(rows[r].status, s) * WeightOf(rows[r]) \in Nat
             /\ Worth(rows[r].status, s) * WeightOf(rows[r]) <= 100 * WeightOf(rows[r])
  <2>1. PICK w \in {30, 10, 5} : w = WeightOf(rows[r])
    BY <1>2
  <2>2. PICK v \in Int : v = Worth(rows[r].status, s) /\ 0 <= v /\ v <= 100
    BY <1>3
  <2>3. v * w \in Nat /\ v * w <= 100 * w
    BY <2>1, <2>2
  <2> QED BY <2>1, <2>2, <2>3
<1> QED
  BY <1>2, <1>4 DEF Weighed, Earned

LEMMA TotalIs ==
  ASSUME NEW terms, NEW T
  PROVE  Total(terms, T) = TotalOver(terms, T)
  BY MapThenSumIsTotal DEF Total

(* A share of the weight of some requirements is a percentage. *)
LEMMA ShareIsPercentage ==
  ASSUME NEW rows \in Rows, NEW s \in Int, 0 <= s, s <= 100, NEW T \in SUBSET Requirements, T # {}
  PROVE  /\ Total(Weighed(rows), T) \in Nat /\ Total(Weighed(rows), T) > 0
         /\ Total(Earned(rows, s), T) \in Nat
         /\ Rounded(Total(Earned(rows, s), T), Total(Weighed(rows), T)) \in 0..100
<1> DEFINE w == [r \in T |-> Weighed(rows)[r]]
           e == [r \in T |-> Earned(rows, s)[r]]
<1>1. /\ Weighed(rows) \in [Requirements -> Nat] /\ Earned(rows, s) \in [Requirements -> Nat]
      /\ \A r \in Requirements : /\ Weighed(rows)[r] \in {30, 10, 5}
                                 /\ Earned(rows, s)[r] <= 100 * Weighed(rows)[r]
  BY SumsOfRows
<1>2. IsFiniteSet(T)
  BY Known, FS_Subset
<1>3. /\ Total(Weighed(rows), T) = TotalOver(w, T) /\ Total(Earned(rows, s), T) = TotalOver(e, T)
  <2>1. \A r \in T : Weighed(rows)[r] \in Int /\ Earned(rows, s)[r] \in Int
    BY <1>1
  <2>2. TotalOver(Weighed(rows), T) = TotalOver(w, T)
    BY <1>2, <2>1, TotalOfPart
  <2>3. TotalOver(Earned(rows, s), T) = TotalOver(e, T)
    BY <1>2, <2>1, TotalOfPart
  <2> QED BY <2>2, <2>3, TotalIs
<1>4. /\ w \in [T -> Int] /\ e \in [T -> Int]
      /\ \A r \in T : 0 <= w[r] /\ 0 <= e[r] /\ e[r] <= 100 * w[r] /\ 5 <= w[r]
  BY <1>1
<1> HIDE DEF w, e
<1>5. PICK r \in T : TRUE
  OBVIOUS
<1>6. TotalOver(w, T) \in Int /\ TotalOver(e, T) \in Int
  BY <1>2, <1>4, TotalType
<1>7. 0 <= TotalOver(e, T) /\ w[r] <= TotalOver(w, T) /\ w[r] \in Int /\ 5 <= w[r]
  BY <1>2, <1>4, <1>5, TermIsWithin
<1>8. TotalOver(e, T) <= 100 * TotalOver(w, T)
  BY <1>2, <1>4, TotalOfHundreds
<1>9. TotalOver(w, T) \in Nat /\ TotalOver(w, T) > 0 /\ TotalOver(e, T) \in Nat
  BY <1>6, <1>7
<1>10. Rounded(TotalOver(e, T), TotalOver(w, T)) \in 0..100
  BY <1>8, <1>9, RoundedIsShare, SMTT(30)
<1> QED
  BY <1>3, <1>9, <1>10

LEMMA FitIs ==
  ASSUME NEW rows \in Rows, NEW s \in Silences
  PROVE  /\ Mentioned(rows) = {} => Fit(rows, s) = Unknown /\ OldFit(rows) = Unknown
         /\ Mentioned(rows) # {} => /\ Fit(rows, s) \in 0..100 /\ Fit(rows, s) # Unknown
                                    /\ OldFit(rows) \in 0..100
<1>1. Mentioned(rows) \in SUBSET Requirements
  BY DEF Mentioned
<1>2. ASSUME Mentioned(rows) # {}
      PROVE  Fit(rows, s) \in 0..100 /\ OldFit(rows) \in 0..100 /\ Fit(rows, s) # Unknown
  <2>1. Requirements # {} /\ Requirements \in SUBSET Requirements
    BY <1>1, <1>2
  <2>2. s \in Int /\ 0 <= s /\ s <= 100
    BY Known
  <2>3. Rounded(Total(Earned(rows, s), Requirements), Total(Weighed(rows), Requirements)) \in 0..100
    BY <2>1, <2>2, ShareIsPercentage
  <2>4. Rounded(Total(Earned(rows, 0), Mentioned(rows)), Total(Weighed(rows), Mentioned(rows))) \in 0..100
    BY <1>1, <1>2, ShareIsPercentage
  <2>5. Fit(rows, s) \in 0..100
    BY <1>2, <2>3 DEF Fit
  <2>6. OldFit(rows) \in 0..100
    BY <1>2, <2>4 DEF OldFit
  <2>7. Fit(rows, s) # Unknown
    BY <2>5, Known
  <2> QED BY <2>5, <2>6, <2>7
<1>3. Mentioned(rows) = {} => Fit(rows, s) = Unknown /\ OldFit(rows) = Unknown
  BY DEF Fit, OldFit
<1> QED
  BY <1>2, <1>3

LEMMA CoverageIs ==
  ASSUME NEW rows \in Rows, Mentioned(rows) # {}
  PROVE  Coverage(rows) \in 0..100 /\ (FewRequirements => Coverage(rows) # 0)
<1> DEFINE w == Weighed(rows)
           few == Total(w, Mentioned(rows))
           all == Total(w, Requirements)
<1>1. Mentioned(rows) \in SUBSET Requirements /\ Requirements \in SUBSET Requirements /\ Requirements # {}
  BY DEF Mentioned
<1>2. w \in [Requirements -> Nat] /\ \A r \in Requirements : w[r] \in {30, 10, 5}
  BY SumsOfRows
<1>3. few \in Nat /\ few > 0 /\ all \in Nat /\ all > 0
  BY <1>1, ShareIsPercentage
<1> HIDE DEF w
<1>4. few <= all
  BY <1>1, <1>2, TotalOfFewer, TotalIs, Known
<1>5. PICK r \in Requirements : r \in Mentioned(rows)
  BY <1>1
<1>6. w[r] <= few
  <2> DEFINE k == [q \in Mentioned(rows) |-> w[q]]
  <2>1. IsFiniteSet(Mentioned(rows))
    BY <1>1, Known, FS_Subset
  <2>2. /\ k \in [Mentioned(rows) -> Int] /\ (\A q \in Mentioned(rows) : 0 <= k[q] /\ w[q] \in Int)
        /\ k[r] = w[r]
    BY <1>1, <1>2, <1>5
  <2>3. TotalOver(w, Mentioned(rows)) = TotalOver(k, Mentioned(rows))
    BY <2>1, <2>2, TotalOfPart
  <2> HIDE DEF k
  <2>4. k[r] <= TotalOver(k, Mentioned(rows))
    BY <1>5, <2>1, <2>2, TermIsWithin
  <2> QED BY <2>2, <2>3, <2>4, TotalIs
<1>7. all <= (Cardinality(Requirements) - 1) * 30 + w[r]
  <2> DEFINE h == [q \in Requirements |-> IF q = r THEN 0 ELSE w[q]]
  <2>1. /\ h \in [Requirements -> Int] /\ w \in [Requirements -> Int] /\ h[r] = 0 /\ 30 \in Nat
        /\ (\A q \in Requirements : h[q] <= 30) /\ (\A q \in Requirements \ {r} : h[q] = w[q])
    BY <1>2
  <2> HIDE DEF h
  <2>2. TotalOver(h, Requirements) <= (Cardinality(Requirements) - 1) * 30
    BY <2>1, Known, TotalOfTheOthers
  <2>3. TotalOver(w, Requirements) = TotalOver(h, Requirements) + (w[r] - h[r])
    BY <2>1, Known, TotalOfOneChange
  <2>4. TotalOver(h, Requirements) \in Int /\ w[r] \in Int /\ Cardinality(Requirements) \in Nat
    BY <2>1, Known, TotalType
  <2> QED BY <2>1, <2>2, <2>3, <2>4, TotalIs
<1>8. Coverage(rows) = Rounded(100 * few, all)
  BY DEF Coverage, w
<1> HIDE DEF few, all
<1>9. Coverage(rows) \in 0..100
  <2>1. 100 * few \in Int /\ 0 <= 100 * few /\ 100 * few <= 100 * all
    BY <1>3, <1>4
  <2> QED BY <1>3, <1>8, <2>1, RoundedIsShare
<1>10. ASSUME FewRequirements PROVE Coverage(rows) # 0
  <2>1. Cardinality(Requirements) <= 34 /\ Cardinality(Requirements) \in Nat
    BY <1>10, Known DEF FewRequirements
  <2>2. w[r] \in {30, 10, 5}
    BY <1>2
  <2>3. all <= 2 * (100 * few)
    BY <1>3, <1>6, <1>7, <2>1, <2>2
  <2>4. Rounded(100 * few, all) >= 1
    BY <1>3, <2>3, RoundedIsNotNothing
  <2> QED BY <1>8, <2>4
<1> QED
  BY <1>9, <1>10

(* Rows that say the same are worth the same. *)
LEMMA RetellingsAgree ==
  ASSUME NEW rows \in Rows, NEW others \in Rows, NEW s,
         \A r \in Requirements : rows[r].status = others[r].status /\ WeightOf(rows[r]) = WeightOf(others[r])
  PROVE  /\ Mentioned(rows) = Mentioned(others)
         /\ OldFit(rows) = OldFit(others) /\ Fit(rows, s) = Fit(others, s)
<1>1. Mentioned(rows) = Mentioned(others)
  BY DEF Mentioned
<1>2. Weighed(rows) = Weighed(others)
  BY DEF Weighed
<1>3. ASSUME NEW z PROVE Earned(rows, z) = Earned(others, z)
  BY DEF Earned
<1>4. OldFit(rows) = OldFit(others)
  BY <1>1, <1>2, <1>3 DEF OldFit
<1>5. Fit(rows, s) = Fit(others, s)
  BY <1>1, <1>2, <1>3 DEF Fit
<1> QED
  BY <1>1, <1>4, <1>5

LEMMA HeardIs ==
  ASSUME NEW a \in Answers
  PROVE  Heard(a) \in Verdicts
  BY DEF Heard, Verdicts, Answers

(* What is stored of an answer, with its weights or without. *)
Bare(job, said) == [r \in Requirements |-> [Breakdown(job, said)[r] EXCEPT !.weight = Unknown]]

LEMMA BreakdownIs ==
  ASSUME NEW job \in Jobs, NEW said \in [Requirements -> Answers]
  PROVE  /\ Breakdown(job, said) \in Rows /\ Bare(job, said) \in Rows
         /\ \A r \in Requirements :
               /\ Breakdown(job, said)[r].status = Heard(said[r])
               /\ WeightOf(Breakdown(job, said)[r]) = TierWeight[job[r]]
               /\ Bare(job, said)[r].status = Heard(said[r])
               /\ WeightOf(Bare(job, said)[r]) = TierWeight[job[r]]
<1>1. job \in [Requirements -> Tiers]
  BY DEF Jobs
<1>2. ASSUME NEW r \in Requirements
      PROVE  /\ job[r] \in Tiers /\ TierWeight[job[r]] \in {30, 10, 5} /\ Heard(said[r]) \in Verdicts
             /\ TierWeight[job[r]] # Unknown
  <2>1. said[r] \in Answers /\ job[r] \in Tiers
    BY <1>1
  <2>2. Heard(said[r]) \in Verdicts
    BY <2>1, HeardIs
  <2>3. TierWeight[job[r]] \in {30, 10, 5}
    BY <2>1 DEF Tiers, TierWeight
  <2> QED BY <2>1, <2>2, <2>3, Known
<1>3. Breakdown(job, said) \in Rows
  BY <1>2 DEF Breakdown, Rows, RowSet
<1>4. ASSUME NEW r \in Requirements
      PROVE  /\ Breakdown(job, said)[r] = [tier |-> job[r], weight |-> TierWeight[job[r]], status |-> Heard(said[r])]
             /\ Bare(job, said)[r] = [tier |-> job[r], weight |-> Unknown, status |-> Heard(said[r])]
  BY DEF Breakdown, Bare
<1>5. ASSUME NEW r \in Requirements
      PROVE  /\ Bare(job, said)[r] \in RowSet
             /\ Breakdown(job, said)[r].status = Heard(said[r])
             /\ WeightOf(Breakdown(job, said)[r]) = TierWeight[job[r]]
             /\ Bare(job, said)[r].status = Heard(said[r])
             /\ WeightOf(Bare(job, said)[r]) = TierWeight[job[r]]
  <2>1. PICK t, w, h : t = job[r] /\ w = TierWeight[t] /\ h = Heard(said[r])
    OBVIOUS
  <2>2. t \in Tiers /\ w \in {30, 10, 5} /\ h \in Verdicts /\ w # Unknown
    BY <1>2, <2>1
  <2>3. PICK judged, bare : judged = [tier |-> t, weight |-> w, status |-> h] /\ bare = [tier |-> t, weight |-> Unknown, status |-> h]
    OBVIOUS
  <2>4. bare \in RowSet
    BY <2>2, <2>3 DEF RowSet
  <2>5. judged.status = h /\ bare.status = h /\ WeightOf(judged) = w /\ WeightOf(bare) = w
    BY <2>1, <2>2, <2>3 DEF WeightOf
  <2>6. Breakdown(job, said)[r] = judged /\ Bare(job, said)[r] = bare
    BY <1>4, <2>1, <2>3
  <2> QED BY <2>1, <2>4, <2>5, <2>6
<1>6. Bare(job, said) \in Rows
  BY <1>5 DEF Bare, Rows
<1> QED
  BY <1>3, <1>5, <1>6

Changed(rows, r, st) == [rows EXCEPT ![r].status = st]

LEMMA ChangedIs ==
  ASSUME NEW rows \in Rows, NEW r \in Requirements, NEW st \in Verdicts
  PROVE  /\ Changed(rows, r, st) \in Rows /\ Changed(rows, r, st)[r].status = st
         /\ WeightOf(Changed(rows, r, st)[r]) = WeightOf(rows[r])
         /\ \A q \in Requirements \ {r} : Changed(rows, r, st)[q] = rows[q]
<1>1. rows[r] \in RowSet /\ rows \in [Requirements -> RowSet]
  BY DEF Rows
<1>2. [rows[r] EXCEPT !.status = st] \in RowSet
  BY <1>1 DEF RowSet
<1>3. Changed(rows, r, st)[r] = [rows[r] EXCEPT !.status = st]
  BY <1>1 DEF Changed
<1>4. \A q \in Requirements \ {r} : Changed(rows, r, st)[q] = rows[q]
  BY <1>1 DEF Changed
<1>5. Changed(rows, r, st) \in Rows
  BY <1>1, <1>2 DEF Changed, Rows
<1>6. [rows[r] EXCEPT !.status = st].status = st /\ WeightOf([rows[r] EXCEPT !.status = st]) = WeightOf(rows[r])
  BY <1>1 DEF RowSet, WeightOf
<1> QED
  BY <1>3, <1>4, <1>5, <1>6

LEMMA MoreIsWorthMore ==
  ASSUME NEW rows \in Rows, NEW r \in Requirements, NEW less \in Verdicts, NEW more \in Verdicts,
         NEW s \in Silences, Worth(less, s) <= Worth(more, s),
         Mentioned(Changed(rows, r, less)) # {}, Mentioned(Changed(rows, r, more)) # {}
  PROVE  Fit(Changed(rows, r, more), s) >= Fit(Changed(rows, r, less), s)
<1> DEFINE lo == Changed(rows, r, less)
           hi == Changed(rows, r, more)
<1>1. lo \in Rows /\ hi \in Rows /\ lo[r].status = less /\ hi[r].status = more
      /\ WeightOf(lo[r]) = WeightOf(rows[r]) /\ WeightOf(hi[r]) = WeightOf(rows[r])
      /\ (\A q \in Requirements \ {r} : lo[q] = rows[q] /\ hi[q] = rows[q])
  BY ChangedIs
<1>2. s \in Int /\ 0 <= s /\ s <= 60
  BY Known
<1> HIDE DEF lo, hi
<1>3. Weighed(lo) = Weighed(hi)
  BY <1>1 DEF Weighed
<1>4. /\ Earned(lo, s) \in [Requirements -> Int] /\ Earned(hi, s) \in [Requirements -> Int]
      /\ \A q \in Requirements : /\ Earned(lo, s)[q] = Worth(lo[q].status, s) * WeightOf(lo[q])
                                 /\ Earned(hi, s)[q] = Worth(hi[q].status, s) * WeightOf(hi[q])
                                 /\ Weighed(rows)[q] = WeightOf(rows[q]) /\ Weighed(rows)[q] \in {30, 10, 5}
  <2>1. 0 <= s /\ s <= 100 /\ s \in Int
    BY <1>2
  <2>2. /\ Earned(lo, s) \in [Requirements -> Nat]
        /\ \A q \in Requirements : Earned(lo, s)[q] = Worth(lo[q].status, s) * WeightOf(lo[q])
    BY <1>1, <2>1, SumsOfRows
  <2>3. /\ Earned(hi, s) \in [Requirements -> Nat]
        /\ \A q \in Requirements : Earned(hi, s)[q] = Worth(hi[q].status, s) * WeightOf(hi[q])
    BY <1>1, <2>1, SumsOfRows
  <2>4. \A q \in Requirements : Weighed(rows)[q] = WeightOf(rows[q]) /\ Weighed(rows)[q] \in {30, 10, 5}
    BY <2>1, SumsOfRows
  <2> QED BY <2>2, <2>3, <2>4
<1>5. Earned(lo, s)[r] <= Earned(hi, s)[r]
  <2>1. PICK v \in {30, 10, 5} : v = WeightOf(rows[r])
    BY <1>4
  <2>2. Worth(less, s) \in Int /\ Worth(more, s) \in Int
    BY <1>2, WorthIs
  <2>3. Worth(less, s) * v <= Worth(more, s) * v
    BY <2>1, <2>2
  <2> QED BY <1>1, <1>4, <2>1, <2>3
<1>6. \A q \in Requirements : Earned(lo, s)[q] <= Earned(hi, s)[q]
  <2> SUFFICES ASSUME NEW q \in Requirements PROVE Earned(lo, s)[q] <= Earned(hi, s)[q]
    OBVIOUS
  <2>1. CASE q = r
    BY <1>5, <2>1
  <2>2. CASE q # r
    <3>1. Earned(lo, s)[q] = Earned(hi, s)[q] /\ Earned(lo, s)[q] \in Int
      BY <1>1, <1>4, <2>2
    <3> QED BY <3>1
  <2> QED BY <2>1, <2>2
<1>7. Total(Earned(lo, s), Requirements) <= Total(Earned(hi, s), Requirements)
  BY <1>4, <1>6, Known, TotalIsMonotone, TotalIs
<1>8. Requirements # {} /\ Requirements \in SUBSET Requirements
  OBVIOUS
<1>9. /\ Total(Weighed(lo), Requirements) \in Nat /\ Total(Weighed(lo), Requirements) > 0
      /\ Total(Earned(lo, s), Requirements) \in Int /\ Total(Earned(hi, s), Requirements) \in Int
  <2>1. 0 <= s /\ s <= 100 /\ s \in Int
    BY <1>2
  <2>2. /\ Total(Weighed(lo), Requirements) \in Nat /\ Total(Weighed(lo), Requirements) > 0
        /\ Total(Earned(lo, s), Requirements) \in Nat
    BY <1>1, <1>8, <2>1, ShareIsPercentage
  <2>3. Total(Earned(hi, s), Requirements) \in Nat
    BY <1>1, <1>8, <2>1, ShareIsPercentage
  <2> QED BY <2>2, <2>3
<1>10. /\ Fit(lo, s) = Rounded(Total(Earned(lo, s), Requirements), Total(Weighed(lo), Requirements))
       /\ Fit(hi, s) = Rounded(Total(Earned(hi, s), Requirements), Total(Weighed(lo), Requirements))
  BY <1>3 DEF Fit, lo, hi
<1>11. Rounded(Total(Earned(lo, s), Requirements), Total(Weighed(lo), Requirements))
       <= Rounded(Total(Earned(hi, s), Requirements), Total(Weighed(lo), Requirements))
  BY <1>7, <1>9, RoundedIsMonotone
<1>12. Fit(lo, s) \in Int /\ Fit(hi, s) \in Int
  <2>1. Fit(lo, s) \in 0..100
    BY <1>1, FitIs DEF lo
  <2>2. Fit(hi, s) \in 0..100
    BY <1>1, FitIs DEF hi
  <2> QED BY <2>1, <2>2
<1> QED
  BY <1>10, <1>11, <1>12 DEF lo, hi

LEMMA SayingLess ==
  ASSUME NEW rows \in Rows, NEW r \in Requirements, NEW s \in Silences
  PROVE  LET with(status) == [rows EXCEPT ![r].status = status]
             fit(status) == Fit(with(status), s)
         IN /\ fit("meets") >= fit("partial") /\ fit("partial") >= fit("contradicted")
            /\ fit("no_evidence") # Unknown =>
                 fit("partial") >= fit("no_evidence") /\ fit("no_evidence") >= fit("contradicted")
<1>1. s \in Int /\ 0 <= s /\ s <= 60
  BY Known
<1>2. /\ "meets" \in Verdicts /\ "partial" \in Verdicts /\ "contradicted" \in Verdicts /\ "no_evidence" \in Verdicts
  BY DEF Verdicts
<1>3. /\ Worth("meets", s) = 100 /\ Worth("partial", s) = 60 /\ Worth("contradicted", s) = 0
      /\ Worth("no_evidence", s) = s
  BY DEF Worth
<1>4. ASSUME NEW st \in Verdicts, st # "no_evidence" PROVE Mentioned(Changed(rows, r, st)) # {}
  <2>1. Changed(rows, r, st)[r].status = st
    BY ChangedIs
  <2> QED BY <1>4, <2>1 DEF Mentioned
<1>5. Fit(Changed(rows, r, "meets"), s) >= Fit(Changed(rows, r, "partial"), s)
  <2>1. Worth("partial", s) <= Worth("meets", s)
    BY <1>3
  <2> QED BY <1>2, <1>4, <2>1, MoreIsWorthMore
<1>6. Fit(Changed(rows, r, "partial"), s) >= Fit(Changed(rows, r, "contradicted"), s)
  <2>1. Worth("contradicted", s) <= Worth("partial", s)
    BY <1>3
  <2> QED BY <1>2, <1>4, <2>1, MoreIsWorthMore
<1>7. ASSUME Fit(Changed(rows, r, "no_evidence"), s) # Unknown
      PROVE  /\ Fit(Changed(rows, r, "partial"), s) >= Fit(Changed(rows, r, "no_evidence"), s)
             /\ Fit(Changed(rows, r, "no_evidence"), s) >= Fit(Changed(rows, r, "contradicted"), s)
  <2>1. Mentioned(Changed(rows, r, "no_evidence")) # {}
    BY <1>7 DEF Fit
  <2>2. Worth("contradicted", s) <= Worth("no_evidence", s) /\ Worth("no_evidence", s) <= Worth("partial", s)
    BY <1>1, <1>3
  <2>3. Fit(Changed(rows, r, "partial"), s) >= Fit(Changed(rows, r, "no_evidence"), s)
    BY <1>2, <1>4, <2>1, <2>2, MoreIsWorthMore
  <2>4. Fit(Changed(rows, r, "no_evidence"), s) >= Fit(Changed(rows, r, "contradicted"), s)
    BY <1>2, <1>4, <2>1, <2>2, MoreIsWorthMore
  <2> QED BY <2>3, <2>4
<1> QED
  BY <1>5, <1>6, <1>7 DEF Changed

-----------------------------------------------------------------------------
(* The life of a stored judgement.                                           *)

Retells(rows) ==
    \A r \in Requirements : /\ rows[r].status = Heard(answer.said[r])
                            /\ WeightOf(rows[r]) = TierWeight[answer.job[r]]

OldRowOf(rows) == ModelRow("old", Clamp(OldFit(rows) + friction), rows, Unknown)
NewRowOf(rows, n) == ModelRow("new", Priced(rows, n, pricedAt), rows, n)

ScoringInv ==
    /\ silence \in Silences /\ friction \in Nudges
    /\ answer \in [job : Jobs, said : [Requirements -> Answers]]
    /\ \/ stored = Unknown \/ stored = KeywordRow(0)
       \/ \E rows \in Rows : /\ Retells(rows) /\ Mentioned(rows) # {}
                             /\ stored = OldRowOf(rows)
       \/ \E rows \in Rows, n \in Int : /\ Retells(rows) /\ Mentioned(rows) # {}
                                        /\ pricedAt \in Silences /\ (clamped \/ n = friction)
                                        /\ stored = NewRowOf(rows, n)

(* Rows that retell an answer are worth what the answer is. *)
LEMMA RetellingIs ==
  ASSUME ScoringInv, NEW rows \in Rows, Retells(rows), NEW s
  PROVE  /\ Breakdown(answer.job, answer.said) \in Rows /\ Retells(Breakdown(answer.job, answer.said))
         /\ Mentioned(rows) = Mentioned(Breakdown(answer.job, answer.said))
         /\ OldFit(rows) = OldFit(Breakdown(answer.job, answer.said))
         /\ Fit(rows, s) = Fit(Breakdown(answer.job, answer.said), s)
<1>1. answer.job \in Jobs /\ answer.said \in [Requirements -> Answers]
  BY DEF ScoringInv
<1>2. PICK b : b = Breakdown(answer.job, answer.said)
  OBVIOUS
<1>3. b \in Rows /\ \A r \in Requirements : b[r].status = Heard(answer.said[r])
                                          /\ WeightOf(b[r]) = TierWeight[answer.job[r]]
  BY <1>1, <1>2, BreakdownIs
<1>4. \A r \in Requirements : rows[r].status = b[r].status /\ WeightOf(rows[r]) = WeightOf(b[r])
  BY <1>3 DEF Retells
<1>5. Mentioned(rows) = Mentioned(b) /\ OldFit(rows) = OldFit(b) /\ Fit(rows, s) = Fit(b, s)
  BY <1>3, <1>4, RetellingsAgree
<1> QED
  BY <1>2, <1>3, <1>5 DEF Retells

LEMMA ClampIsPercentage ==
  ASSUME NEW n \in Int
  PROVE  Clamp(n) \in 0..100
  BY ClampIs

LEMMA ScoringIsSoundThen ==
  ASSUME ScoringInv
  PROVE  ScoringIsSound
<1>1. silence \in Silences /\ friction \in Int
  BY Known DEF ScoringInv
<1>2. CASE stored = Unknown
  BY <1>1, <1>2 DEF ScoringIsSound, ScoringTypeOK, StoredIsJudgedAnew, SayingLessNeverPays
<1>3. CASE stored = KeywordRow(0)
  <2>1. stored.fit = 0 /\ stored.scale = "new" /\ stored.by = "keywords"
    BY <1>3 DEF KeywordRow
  <2> QED BY <1>1, <2>1 DEF ScoringIsSound, ScoringTypeOK, StoredIsJudgedAnew, SayingLessNeverPays
<1>4. ASSUME NEW rows \in Rows, stored.verdicts = rows
      PROVE  SayingLessNeverPays
  <2>1. \A r \in Requirements :
            LET with(status) == [rows EXCEPT ![r].status = status]
                fit(status) == Fit(with(status), silence)
            IN /\ fit("meets") >= fit("partial") /\ fit("partial") >= fit("contradicted")
               /\ fit("no_evidence") # Unknown =>
                    fit("partial") >= fit("no_evidence") /\ fit("no_evidence") >= fit("contradicted")
    BY <1>1, SayingLess
  <2> QED BY <1>4, <2>1 DEF SayingLessNeverPays
<1>5. ASSUME NEW rows \in Rows, Retells(rows), Mentioned(rows) # {}, stored = OldRowOf(rows)
      PROVE  ScoringIsSound
  <2>1. /\ stored.fit = Clamp(OldFit(rows) + friction) /\ stored.scale = "old" /\ stored.by = "model"
        /\ stored.verdicts = rows /\ stored.coverage = Coverage(rows)
    BY <1>5 DEF OldRowOf, ModelRow
  <2>2. OldFit(rows) \in Int
    BY <1>1, <1>5, FitIs
  <2>3. stored.fit \in 0..100
    BY <1>1, <2>1, <2>2, ClampIsPercentage
  <2>4. stored.coverage \in 0..100 /\ (FewRequirements => stored.coverage # 0)
    BY <1>5, <2>1, CoverageIs
  <2>5. SayingLessNeverPays
    BY <1>4, <2>1
  <2> QED BY <1>1, <2>1, <2>3, <2>4, <2>5 DEF ScoringIsSound, ScoringTypeOK, StoredIsJudgedAnew
<1>6. ASSUME NEW rows \in Rows, NEW n \in Int, Retells(rows), Mentioned(rows) # {}, pricedAt \in Silences,
             clamped \/ n = friction, stored = NewRowOf(rows, n)
      PROVE  ScoringIsSound
  <2>1. /\ stored.fit = Clamp(Fit(rows, pricedAt) + n) /\ stored.scale = "new" /\ stored.by = "model"
        /\ stored.verdicts = rows /\ stored.coverage = Coverage(rows) /\ stored.nudge = n
    BY <1>6 DEF NewRowOf, ModelRow, Priced
  <2>2. Fit(rows, pricedAt) \in Int
    BY <1>6, FitIs
  <2>3. stored.fit \in 0..100
    BY <1>6, <2>1, <2>2, ClampIsPercentage
  <2>4. stored.coverage \in 0..100 /\ (FewRequirements => stored.coverage # 0)
    BY <1>6, <2>1, CoverageIs
  <2>5. SayingLessNeverPays
    BY <1>4, <2>1
  <2>6. stored.nudge # Unknown
    BY <1>6, <2>1, Known
  <2>7. Fit(rows, pricedAt) = Fit(Breakdown(answer.job, answer.said), pricedAt)
    BY <1>6, RetellingIs
  <2>8. ASSUME ~clamped
        PROVE  stored.nudge = friction /\ stored.fit = Priced(Breakdown(answer.job, answer.said), friction, pricedAt)
    BY <1>6, <2>1, <2>7, <2>8 DEF Priced
  <2>9. StoredIsJudgedAnew
    BY <2>8 DEF StoredIsJudgedAnew
  <2>10. ScoringTypeOK
    BY <1>1, <2>1, <2>3, <2>4, <2>6 DEF ScoringTypeOK
  <2> QED BY <2>5, <2>9, <2>10 DEF ScoringIsSound
<1> QED
  BY <1>2, <1>3, <1>5, <1>6 DEF ScoringInv

LEMMA ScoringStarts ==
  ASSUME ScoringInit
  PROVE  ScoringInv
<1>1. silence \in Silences /\ friction \in Nudges /\ answer \in [job : Jobs, said : [Requirements -> Answers]]
  BY DEF ScoringInit
<1>2. answer.job \in Jobs /\ answer.said \in [Requirements -> Answers]
  BY <1>1
<1>3. CASE stored = Unknown
  BY <1>1, <1>3 DEF ScoringInv
<1>4. ASSUME stored # Unknown PROVE ScoringInv
  <2>1. /\ ~ \A r \in Requirements : Heard(answer.said[r]) = "no_evidence"
        /\ stored \in OlderRows(answer.job, answer.said, friction)
    BY <1>4 DEF ScoringInit
  <2>2. PICK b, bare : b = Breakdown(answer.job, answer.said) /\ bare = Bare(answer.job, answer.said)
    OBVIOUS
  <2>3. PICK rows : rows \in {b, bare} /\ stored = ModelRow("old", Clamp(OldFit(b) + friction), rows, Unknown)
    BY <2>1, <2>2 DEF OlderRows, Bare
  <2>4. /\ b \in Rows /\ bare \in Rows
        /\ \A r \in Requirements : /\ b[r].status = Heard(answer.said[r])
                                   /\ WeightOf(b[r]) = TierWeight[answer.job[r]]
                                   /\ bare[r].status = Heard(answer.said[r])
                                   /\ WeightOf(bare[r]) = TierWeight[answer.job[r]]
    BY <1>2, <2>2, BreakdownIs
  <2>5. rows \in Rows /\ \A r \in Requirements : rows[r].status = b[r].status /\ WeightOf(rows[r]) = WeightOf(b[r])
    BY <2>3, <2>4
  <2>6. Retells(rows)
    BY <2>4, <2>5 DEF Retells
  <2>7. OldFit(rows) = OldFit(b)
    BY <2>4, <2>5, RetellingsAgree
  <2>8. Mentioned(rows) # {}
    BY <2>1, <2>6 DEF Mentioned, Retells
  <2>9. stored = OldRowOf(rows)
    BY <2>3, <2>7 DEF OldRowOf
  <2> QED BY <1>1, <2>5, <2>6, <2>8, <2>9 DEF ScoringInv
<1> QED
  BY <1>3, <1>4

LEMMA JudgeStays ==
  ASSUME ScoringInv, Judge
  PROVE  ScoringInv'
<1>1. /\ silence \in Silences /\ friction \in Nudges
      /\ answer \in [job : Jobs, said : [Requirements -> Answers]] /\ answer.job \in Jobs
      /\ answer.said \in [Requirements -> Answers]
  BY DEF ScoringInv
<1>2. PICK b : b = Breakdown(answer.job, answer.said)
  OBVIOUS
<1>3. b \in Rows /\ Retells(b)
  BY <1>1, <1>2, BreakdownIs DEF Retells
<1>4. /\ stored' = IF Fit(b, silence) = Unknown THEN KeywordRow(0)
                   ELSE ModelRow("new", Priced(b, friction, silence), b, friction)
      /\ pricedAt' = silence /\ silence' = silence /\ answer' = answer /\ friction' = friction /\ clamped' = clamped
  BY <1>2 DEF Judge
<1>5. CASE Fit(b, silence) = Unknown
  <2>1. stored' = KeywordRow(0)
    BY <1>4, <1>5
  <2> QED BY <1>1, <1>4, <2>1 DEF ScoringInv
<1>6. CASE Fit(b, silence) # Unknown
  <2>1. stored' = NewRowOf(b, friction)'
    BY <1>4, <1>6 DEF NewRowOf
  <2>2. Mentioned(b) # {}
    BY <1>1, <1>3, <1>6, FitIs
  <2>3. Retells(b)'
    BY <1>3, <1>4 DEF Retells
  <2>4. friction \in Int
    BY <1>1, Known
  <2>5. NewRowOf(b, friction)' = ModelRow("new", Priced(b, friction, silence), b, friction)
    BY <1>4 DEF NewRowOf
  <2> QED BY <1>1, <1>3, <1>4, <2>1, <2>2, <2>3, <2>4 DEF ScoringInv
<1> QED
  BY <1>5, <1>6

(* The subtraction finds the nudge again, or the row is reported. *)
LEMMA NudgeIsFound ==
  ASSUME NEW old \in 0..100, NEW n \in Int, NEW m \in Nat, -m <= n, n <= m, NEW f, f = Clamp(old + n),
         ~ (f >= 100 /\ old + m > 100), ~ (f <= 0 /\ old - m < 0)
  PROVE  f - old = n
  BY ClampIs

LEMMA MigrateRowStays ==
  ASSUME ScoringInv, MigrateRow
  PROVE  ScoringInv'
<1>1. /\ silence \in Silences /\ friction \in Nudges /\ friction \in Int /\ -MaxNudge <= friction /\ friction <= MaxNudge
      /\ answer \in [job : Jobs, said : [Requirements -> Answers]]
  BY Known DEF ScoringInv
<1>2. /\ stored # Unknown /\ stored.scale = "old" /\ clamped' = MayBeClamped /\ pricedAt' = silence
      /\ stored' = ModelRow("new", Priced(stored.verdicts, Recovered, silence), stored.verdicts, Recovered)
      /\ silence' = silence /\ answer' = answer /\ friction' = friction
  BY DEF MigrateRow
<1>3. PICK rows \in Rows : Retells(rows) /\ Mentioned(rows) # {} /\ stored = OldRowOf(rows)
  <2>1. KeywordRow(0).scale = "new" /\ \A rows, n : NewRowOf(rows, n).scale = "new"
    BY DEF KeywordRow, NewRowOf, ModelRow
  <2> QED BY <1>2, <2>1 DEF ScoringInv
<1>4. stored.verdicts = rows /\ stored.fit = Clamp(OldFit(rows) + friction)
  BY <1>3 DEF OldRowOf, ModelRow
<1>5. OldFit(rows) \in 0..100 /\ OldFit(rows) + friction \in Int
  <2>1. OldFit(rows) \in 0..100
    BY <1>1, <1>3, FitIs
  <2> QED BY <1>1, <2>1
<1>6. PICK n : n = stored.fit - OldFit(rows)
  OBVIOUS
<1>7. n \in Int /\ Recovered = n
  <2>1. stored.fit \in 0..100
    BY <1>4, <1>5, ClampIsPercentage
  <2> QED BY <1>4, <1>5, <1>6, <2>1 DEF Recovered
<1>8. ASSUME ~ MayBeClamped PROVE n = friction
  <2>1. /\ ~ (stored.fit >= 100 /\ OldFit(rows) + MaxNudge > 100)
        /\ ~ (stored.fit <= 0 /\ OldFit(rows) - MaxNudge < 0)
    BY <1>4, <1>8 DEF MayBeClamped
  <2> QED BY <1>1, <1>4, <1>5, <1>6, <2>1, Known, NudgeIsFound
<1>9. stored' = NewRowOf(rows, n)'
  BY <1>2, <1>4, <1>7 DEF NewRowOf
<1>10. Retells(rows)'
  BY <1>2, <1>3 DEF Retells
<1>11. clamped' \/ n = friction
  BY <1>2, <1>8
<1> QED
  BY <1>1, <1>2, <1>3, <1>7, <1>9, <1>10, <1>11 DEF ScoringInv

LEMMA RefreshRowStays ==
  ASSUME ScoringInv, RefreshRow
  PROVE  ScoringInv'
<1>1. /\ silence \in Silences /\ friction \in Nudges
      /\ answer \in [job : Jobs, said : [Requirements -> Answers]]
  BY DEF ScoringInv
<1>2. /\ stored # Unknown /\ stored.scale = "new" /\ stored.by = "model" /\ pricedAt' = silence
      /\ stored' = [stored EXCEPT !.fit = Priced(stored.verdicts, stored.nudge, silence),
                                  !.coverage = Coverage(stored.verdicts)]
      /\ silence' = silence /\ answer' = answer /\ friction' = friction /\ clamped' = clamped
  BY DEF RefreshRow
<1>3. PICK rows \in Rows, n \in Int : /\ Retells(rows) /\ Mentioned(rows) # {} /\ (clamped \/ n = friction)
                                      /\ stored = NewRowOf(rows, n)
  <2>1. KeywordRow(0).by = "keywords" /\ \A rows : OldRowOf(rows).scale = "old"
    BY DEF KeywordRow, OldRowOf, ModelRow
  <2> QED BY <1>2, <2>1 DEF ScoringInv
<1>4. stored = ModelRow("new", Priced(rows, n, pricedAt), rows, n)
  BY <1>3 DEF NewRowOf
<1>5. stored' = ModelRow("new", Priced(rows, n, silence), rows, n)
  BY <1>2, <1>4 DEF ModelRow
<1>6. stored' = NewRowOf(rows, n)'
  BY <1>2, <1>5 DEF NewRowOf
<1>7. Retells(rows)'
  BY <1>2, <1>3 DEF Retells
<1> QED
  BY <1>1, <1>2, <1>3, <1>6, <1>7 DEF ScoringInv

LEMMA SetSilenceStays ==
  ASSUME ScoringInv, NEW s \in Silences, SetSilence(s)
  PROVE  ScoringInv'
<1>1. /\ silence' \in Silences /\ answer' = answer /\ friction' = friction /\ stored' = stored
      /\ pricedAt' = pricedAt /\ clamped' = clamped
  BY DEF SetSilence
<1> QED
  BY <1>1 DEF ScoringInv, Retells, OldRowOf, NewRowOf

(* A stored judgement is what judging anew would give: at every fraction, for every job
   and every answer, through migrations and refreshes (rescoreOne, rescoreStored). *)
THEOREM ScoringStaysSound == ScoringSpec => []ScoringIsSound
<1>1. ScoringInit => ScoringInv
  BY ScoringStarts
<1>2. ScoringInv /\ [ScoringNext]_scoringVars => ScoringInv'
  <2> SUFFICES ASSUME ScoringInv, [ScoringNext]_scoringVars PROVE ScoringInv'
    OBVIOUS
  <2>1. CASE Judge
    BY <2>1, JudgeStays
  <2>2. CASE MigrateRow
    BY <2>2, MigrateRowStays
  <2>3. CASE RefreshRow
    BY <2>3, RefreshRowStays
  <2>4. ASSUME NEW s \in Silences, SetSilence(s) PROVE ScoringInv'
    BY <2>4, SetSilenceStays
  <2>5. CASE UNCHANGED scoringVars
    BY <2>5 DEF scoringVars, ScoringInv, Retells, OldRowOf, NewRowOf
  <2> QED BY <2>1, <2>2, <2>3, <2>4, <2>5 DEF ScoringNext
<1>3. ScoringInv => ScoringIsSound
  BY ScoringIsSoundThen
<1> QED
  BY <1>1, <1>2, <1>3, PTL DEF ScoringSpec

-----------------------------------------------------------------------------
(* Keyword scores.                                                           *)

(* The parts of a keyword score.                                             *)

LEMMA RoundedIsClose ==
  ASSUME NEW a \in Int, NEW b \in Nat, b > 0
  PROVE  /\ Rounded(a, b) \in Int
         /\ (2 * b) * Rounded(a, b) <= 2 * a + b /\ 2 * a + b < (2 * b) * Rounded(a, b) + 2 * b
<1>1. 2 * a + b \in Int /\ 2 * b \in Nat /\ 2 * b > 0
  OBVIOUS
<1> QED
  BY <1>1, Division DEF Rounded

LEMMA RoundedOfMore ==
  ASSUME NEW a \in Nat, NEW b \in Nat, b > 0, NEW c \in Nat, b <= c
  PROVE  0 <= Rounded(a, c) /\ Rounded(a, c) <= Rounded(a, b)
<1>0. c > 0 /\ a \in Int
  OBVIOUS
<1>1. PICK q \in Int : q = Rounded(a, c) /\ (2 * c) * q <= 2 * a + c
  BY <1>0, RoundedIsClose
<1>2. 2 * a + c \in Int /\ 2 * c \in Nat /\ 2 * c > 0 /\ (2 * c) * 0 <= 2 * a + c
  OBVIOUS
<1>3. 0 <= q
  BY <1>1, <1>2, DivisionIsAtLeast DEF Rounded
<1>4. (2 * b) * q <= 2 * a + b
  <2>1. CASE q = 0
    BY <2>1
  <2>2. CASE q # 0
    <3>1. PICK z \in Nat : z = 2 * q - 1
      BY <1>3, <2>2
    <3>2. z * b <= z * c
      BY <3>1
    <3>3. z * c = (2 * c) * q - c /\ z * b = (2 * b) * q - b
      BY <3>1
    <3>4. z * b \in Int /\ z * c \in Int
      BY <3>1
    <3>5. (2 * c) * q - c <= 2 * a
      BY <1>1
    <3>6. (2 * b) * q - b <= 2 * a
      BY <3>2, <3>3, <3>4, <3>5
    <3>7. (2 * b) * q \in Int
      BY <1>1
    <3> QED BY <3>6, <3>7
  <2> QED BY <2>1, <2>2
<1>5. 2 * a + b \in Int /\ 2 * b \in Nat /\ 2 * b > 0
  OBVIOUS
<1>6. q <= Rounded(a, b)
  BY <1>1, <1>4, <1>5, DivisionIsAtLeast DEF Rounded
<1> QED
  BY <1>1, <1>3, <1>6

LEMMA SumOverComponents ==
  ASSUME NEW g \in [Components -> Int]
  PROVE  TotalOver(g, Components) = g["required"] + g["preferred"] + g["title"] + g["keywords"]
<1>1. IsFiniteSet(Components)
  <2>1. IsFiniteSet({"required"}) /\ IsFiniteSet({"preferred"}) /\ IsFiniteSet({"title"}) /\ IsFiniteSet({"keywords"})
    BY FS_Singleton
  <2>2. IsFiniteSet({"required"} \union {"preferred"}) /\ IsFiniteSet({"title"} \union {"keywords"})
    BY <2>1, FS_Union
  <2>3. IsFiniteSet(({"required"} \union {"preferred"}) \union ({"title"} \union {"keywords"}))
    BY <2>2, FS_Union
  <2>4. Components = ({"required"} \union {"preferred"}) \union ({"title"} \union {"keywords"})
    BY DEF Components
  <2> QED BY <2>3, <2>4
<1>2. PICK F \in [SUBSET Components -> Int] : IsTotal(F, g, Components)
  BY <1>1, TotalOfParts
<1>3. F[{"keywords"}] = g["keywords"] + F[{}]
  <2>1. {"keywords"} \in SUBSET Components /\ {"keywords"} \ {"keywords"} = {}
    BY DEF Components
  <2> QED BY <1>2, <2>1 DEF IsTotal, TakesOut
<1>4. F[{"title", "keywords"}] = g["title"] + F[{"keywords"}]
  <2>1. {"title", "keywords"} \in SUBSET Components /\ {"title", "keywords"} \ {"title"} = {"keywords"}
    BY DEF Components
  <2> QED BY <1>2, <2>1 DEF IsTotal, TakesOut
<1>5. F[{"preferred", "title", "keywords"}] = g["preferred"] + F[{"title", "keywords"}]
  <2>1. /\ {"preferred", "title", "keywords"} \in SUBSET Components
        /\ {"preferred", "title", "keywords"} \ {"preferred"} = {"title", "keywords"}
    BY DEF Components
  <2> QED BY <1>2, <2>1 DEF IsTotal, TakesOut
<1>6. F[Components] = g["required"] + F[{"preferred", "title", "keywords"}]
  <2>1. Components \ {"required"} = {"preferred", "title", "keywords"} /\ "required" \in Components
    BY DEF Components
  <2> QED BY <1>2, <2>1, ZenonT(60) DEF IsTotal, TakesOut
<1>7. F[{}] = 0 /\ F[Components] = TotalOver(g, Components)
  BY <1>2 DEF IsTotal
<1>8. /\ g["required"] \in Int /\ g["preferred"] \in Int /\ g["title"] \in Int /\ g["keywords"] \in Int
  BY DEF Components
<1> QED
  BY <1>3, <1>4, <1>5, <1>6, <1>7, <1>8

Held(g, S, k) == IF k \in S THEN g[k] ELSE 0

LEMMA SumOfComponents ==
  ASSUME NEW S \in SUBSET Components, NEW g, \A k \in S : g[k] \in Int
  PROVE  /\ TotalOver(g, S) = Held(g, S, "required") + Held(g, S, "preferred")
                              + Held(g, S, "title") + Held(g, S, "keywords")
         /\ \A k \in Components : Held(g, S, k) \in Int
<1> DEFINE part == [k \in S |-> g[k]]
           h == [k \in Components |-> Held(g, S, k)]
<1>1. IsFiniteSet(Components) /\ IsFiniteSet(S)
  <2>1. IsFiniteSet({"required"}) /\ IsFiniteSet({"preferred"}) /\ IsFiniteSet({"title"}) /\ IsFiniteSet({"keywords"})
    BY FS_Singleton
  <2>2. IsFiniteSet({"required"} \union {"preferred"}) /\ IsFiniteSet({"title"} \union {"keywords"})
    BY <2>1, FS_Union
  <2>3. IsFiniteSet(({"required"} \union {"preferred"}) \union ({"title"} \union {"keywords"}))
    BY <2>2, FS_Union
  <2>4. Components = ({"required"} \union {"preferred"}) \union ({"title"} \union {"keywords"})
    BY DEF Components
  <2>5. IsFiniteSet(Components)
    BY <2>3, <2>4
  <2> QED BY <2>5, FS_Subset
<1>2. TotalOver(g, S) = TotalOver(part, S)
  BY <1>1, TotalOfPart
<1>3. part \in [S -> Int] /\ h \in [Components -> Int] /\ (\A k \in S : h[k] = part[k])
      /\ (\A k \in Components \ S : h[k] = 0) /\ \A k \in Components : h[k] = Held(g, S, k)
  BY DEF Held
<1> HIDE DEF part, h
<1>4. TotalOver(h, Components) = TotalOver(part, S)
  BY <1>1, <1>3, TotalOfSome
<1>5. TotalOver(h, Components) = h["required"] + h["preferred"] + h["title"] + h["keywords"]
  BY <1>3, SumOverComponents
<1>6. "required" \in Components /\ "preferred" \in Components /\ "title" \in Components /\ "keywords" \in Components
  BY DEF Components
<1>7. \A k \in Components : Held(g, S, k) \in Int
  BY <1>3
<1>8. /\ h["required"] = Held(g, S, "required") /\ h["preferred"] = Held(g, S, "preferred")
      /\ h["title"] = Held(g, S, "title") /\ h["keywords"] = Held(g, S, "keywords")
  BY <1>3, <1>6
<1> QED
  BY <1>2, <1>4, <1>5, <1>7, <1>8

Reads == [Components -> Shares]
Whole(S) == MapThenSumSet(LAMBDA j : Weights[j], S)

LEMMA WeightsAre ==
  \A k \in Components : Weights[k] \in Nat /\ Weights[k] > 0
  BY DEF Components, Weights

LEMMA WholeIs ==
  ASSUME NEW S \in SUBSET Components
  PROVE  /\ Whole(S) = Held(Weights, S, "required") + Held(Weights, S, "preferred")
                       + Held(Weights, S, "title") + Held(Weights, S, "keywords")
         /\ \A k \in Components : Held(Weights, S, k) \in Nat
         /\ Whole(S) \in Nat /\ (S # {} => Whole(S) > 0)
<1>1. Whole(S) = TotalOver(Weights, S)
  BY MapThenSumIsTotal DEF Whole
<1>2. \A k \in S : Weights[k] \in Int
  BY WeightsAre
<1>3. TotalOver(Weights, S) = Held(Weights, S, "required") + Held(Weights, S, "preferred")
                              + Held(Weights, S, "title") + Held(Weights, S, "keywords")
  BY <1>2, SumOfComponents
<1>4. \A k \in Components : Held(Weights, S, k) \in Nat /\ (k \in S => Held(Weights, S, k) > 0)
  BY WeightsAre DEF Held
<1>5. PICK a, b, c, d : /\ a = Held(Weights, S, "required") /\ b = Held(Weights, S, "preferred")
                        /\ c = Held(Weights, S, "title") /\ d = Held(Weights, S, "keywords")
  OBVIOUS
<1>6. a \in Nat /\ b \in Nat /\ c \in Nat /\ d \in Nat
  BY <1>4, <1>5 DEF Components
<1>7. S # {} => a > 0 \/ b > 0 \/ c > 0 \/ d > 0
  BY <1>4, <1>5 DEF Components
<1>8. Whole(S) = a + b + c + d
  BY <1>1, <1>3, <1>5
<1> QED
  BY <1>3, <1>1, <1>4, <1>6, <1>7, <1>8

LEMMA WholeIsMore ==
  ASSUME NEW S \in SUBSET Components, NEW T \in SUBSET Components, S \subseteq T
  PROVE  Whole(S) <= Whole(T)
<1>1. \A k \in Components : /\ Held(Weights, S, k) \in Nat /\ Held(Weights, T, k) \in Nat
                            /\ Held(Weights, S, k) <= Held(Weights, T, k)
  BY WeightsAre DEF Held
<1>2. PICK a, b, c, d : /\ a = Held(Weights, S, "required") /\ b = Held(Weights, S, "preferred")
                        /\ c = Held(Weights, S, "title") /\ d = Held(Weights, S, "keywords")
  OBVIOUS
<1>3. PICK e, f, g, h : /\ e = Held(Weights, T, "required") /\ f = Held(Weights, T, "preferred")
                        /\ g = Held(Weights, T, "title") /\ h = Held(Weights, T, "keywords")
  OBVIOUS
<1>4. /\ a \in Nat /\ b \in Nat /\ c \in Nat /\ d \in Nat /\ e \in Nat /\ f \in Nat /\ g \in Nat /\ h \in Nat
      /\ a <= e /\ b <= f /\ c <= g /\ d <= h
  BY <1>1, <1>2, <1>3 DEF Components
<1>5. Whole(S) = a + b + c + d /\ Whole(T) = e + f + g + h
  BY <1>2, <1>3, WholeIs
<1> QED
  BY <1>4, <1>5

-----------------------------------------------------------------------------
(* The score of one CV.                                                      *)

PointsOf(read) == [k \in Applies(read) |-> Points(read, k)]
Gives(read, k) == Held(PointsOf(read), Applies(read), k)

LEMMA AppliesIs ==
  ASSUME NEW read \in Reads
  PROVE  /\ Applies(read) \in SUBSET Components
         /\ \A k \in Applies(read) : read[k] \in Nat /\ read[k] <= Parts
  BY KeywordsAssumption DEF Applies, Reads, Shares

LEMMA PointsAre ==
  ASSUME NEW read \in Reads, NEW k \in Applies(read)
  PROVE  /\ Weights[k] \in Nat /\ read[k] \in Nat /\ 1000 * Weights[k] * read[k] \in Nat
         /\ Parts * Whole(Applies(read)) \in Nat /\ Parts * Whole(Applies(read)) > 0
         /\ Points(read, k) = Rounded(1000 * Weights[k] * read[k], Parts * Whole(Applies(read)))
         /\ Points(read, k) \in Nat
<1>1. Weights[k] \in Nat /\ read[k] \in Nat
  BY AppliesIs, WeightsAre
<1>2. PICK w \in Nat, x \in Nat : w = Weights[k] /\ x = read[k]
  BY <1>1
<1>3. 1000 * w * x \in Nat
  <2>1. 1000 * w \in Nat
    OBVIOUS
  <2> QED BY <2>1
<1>4. PICK n \in Nat : n = Whole(Applies(read)) /\ n > 0
  BY AppliesIs, WholeIs
<1>5. Parts \in Nat /\ Parts > 0
  BY KeywordsAssumption
<1>6. Parts * n \in Nat /\ Parts * n > 0
  BY <1>4, <1>5
<1>7. Points(read, k) = Rounded(1000 * w * x, Parts * n)
  BY <1>2, <1>4 DEF Points, Nearest, Rounded, Whole
<1>8. Rounded(1000 * w * x, Parts * n) \in Nat
  <2>1. PICK a \in Nat, b \in Nat : a = 1000 * w * x /\ b = Parts * n /\ b > 0
    BY <1>3, <1>6, ZenonT(60)
  <2>2. Rounded(a, b) \in Int
    BY <2>1, RoundedIsClose
  <2>3. 0 <= Rounded(a, b)
    BY <2>1, RoundedOfMore
  <2> QED BY <2>1, <2>2, <2>3
<1> QED
  BY <1>1, <1>2, <1>3, <1>4, <1>6, <1>7, <1>8

LEMMA PointsIn ==
  ASSUME NEW read \in Reads, NEW S, S = Applies(read), NEW k \in S
  PROVE  /\ Parts * Whole(S) \in Nat /\ Parts * Whole(S) > 0
         /\ Points(read, k) = Rounded(1000 * Weights[k] * read[k], Parts * Whole(S))
  BY PointsAre

(* What applies not gives nothing, so that the score is a sum of four. *)
LEMMA ScoreIs ==
  ASSUME NEW read \in Reads
  PROVE  /\ \A k \in Components : Gives(read, k) \in Nat
         /\ \A k \in Applies(read) : Gives(read, k) = Points(read, k)
         /\ \A k \in Components \ Applies(read) : Gives(read, k) = 0
         /\ KeywordScore(read) = Rounded(Gives(read, "required") + Gives(read, "preferred")
                                         + Gives(read, "title") + Gives(read, "keywords"), 10)
<1>1. \A k \in Applies(read) : PointsOf(read)[k] = Points(read, k) /\ PointsOf(read)[k] \in Nat
  BY PointsAre DEF PointsOf
<1>2. Applies(read) \in SUBSET Components
  BY AppliesIs
<1>3. \A k \in Components : Gives(read, k) \in Nat
  BY <1>1 DEF Gives, Held
<1>4. \A k \in Applies(read) : Gives(read, k) = Points(read, k)
  BY <1>1 DEF Gives, Held
<1>5. \A k \in Components \ Applies(read) : Gives(read, k) = 0
  BY DEF Gives, Held
<1>6. CASE Applies(read) = {}
  <2>1. /\ Gives(read, "required") = 0 /\ Gives(read, "preferred") = 0
        /\ Gives(read, "title") = 0 /\ Gives(read, "keywords") = 0
    BY <1>5, <1>6 DEF Components
  <2>2. Rounded(0 + 0 + 0 + 0, 10) = 0
    BY DEF Rounded
  <2>3. KeywordScore(read) = 0
    BY <1>6 DEF KeywordScore
  <2> QED BY <1>3, <1>4, <1>5, <2>1, <2>2, <2>3
<1>7. CASE Applies(read) # {}
  <2>1. PICK points : points = PointsOf(read)
    OBVIOUS
  <2>2. KeywordScore(read) = Nearest(MapThenSumSet(LAMBDA k : points[k], Applies(read)), 10)
    BY <1>7, <2>1 DEF KeywordScore, PointsOf
  <2>3. MapThenSumSet(LAMBDA k : points[k], Applies(read)) = TotalOver(points, Applies(read))
    BY MapThenSumIsTotal
  <2>4. \A k \in Applies(read) : points[k] \in Int
    BY <1>1, <2>1
  <2>5. TotalOver(points, Applies(read)) = Gives(read, "required") + Gives(read, "preferred")
                                           + Gives(read, "title") + Gives(read, "keywords")
    BY <1>2, <2>1, <2>4, SumOfComponents DEF Gives
  <2>6. KeywordScore(read) = Nearest(TotalOver(points, Applies(read)), 10)
    BY <2>2, <2>3
  <2> QED BY <1>3, <1>4, <1>5, <2>5, <2>6 DEF Nearest, Rounded
<1> QED
  BY <1>6, <1>7

LEMMA ScoreOfMore ==
  ASSUME NEW read \in Reads, NEW more \in Reads,
         \A k \in Components : Gives(read, k) <= Gives(more, k)
  PROVE  KeywordScore(read) <= KeywordScore(more) /\ 0 <= KeywordScore(read) /\ KeywordScore(read) \in Int
<1>1. PICK a, b, c, d : /\ a = Gives(read, "required") /\ b = Gives(read, "preferred")
                        /\ c = Gives(read, "title") /\ d = Gives(read, "keywords")
  OBVIOUS
<1>2. PICK e, f, g, h : /\ e = Gives(more, "required") /\ f = Gives(more, "preferred")
                        /\ g = Gives(more, "title") /\ h = Gives(more, "keywords")
  OBVIOUS
<1>3. \A k \in Components : Gives(read, k) \in Nat /\ Gives(more, k) \in Nat
  BY ScoreIs
<1>4. /\ a \in Nat /\ b \in Nat /\ c \in Nat /\ d \in Nat /\ e \in Nat /\ f \in Nat /\ g \in Nat /\ h \in Nat
      /\ a <= e /\ b <= f /\ c <= g /\ d <= h
  BY <1>1, <1>2, <1>3 DEF Components
<1>5. KeywordScore(read) = Rounded(a + b + c + d, 10) /\ KeywordScore(more) = Rounded(e + f + g + h, 10)
  BY <1>1, <1>2, ScoreIs
<1>6. PICK s \in Nat, t \in Nat : s = a + b + c + d /\ t = e + f + g + h /\ s <= t
  BY <1>4
<1>7. Rounded(s, 10) <= Rounded(t, 10) /\ 0 <= Rounded(s, 10) /\ Rounded(s, 10) \in Int
  <2>1. Rounded(s, 10) <= Rounded(t, 10)
    BY <1>6, RoundedIsMonotone
  <2>2. 0 <= Rounded(s, 10)
    BY <1>6, RoundedOfMore
  <2>3. Rounded(s, 10) \in Int
    BY <1>6, RoundedIsClose
  <2> QED BY <2>1, <2>2, <2>3
<1> QED
  BY <1>5, <1>6, <1>7

(* Where the same applies, more evidence gives more. *)
LEMMA GivesMore ==
  ASSUME NEW read \in Reads, NEW more \in Reads, Applies(more) = Applies(read),
         \A k \in Applies(read) : read[k] <= more[k]
  PROVE  \A k \in Components : Gives(read, k) <= Gives(more, k)
<1> SUFFICES ASSUME NEW k \in Components PROVE Gives(read, k) <= Gives(more, k)
  OBVIOUS
<1>1. CASE k \notin Applies(read)
  <2>1. Gives(read, k) = 0 /\ Gives(more, k) = 0
    BY <1>1, ScoreIs
  <2> QED BY <2>1
<1>2. CASE k \in Applies(read)
  <2>1. PICK w \in Nat, x \in Nat, y \in Nat : w = Weights[k] /\ x = read[k] /\ y = more[k] /\ x <= y
    BY <1>2, PointsAre
  <2>2. PICK b \in Nat : b = Parts * Whole(Applies(read)) /\ b > 0
    BY <1>2, PointsAre
  <2>3. Gives(read, k) = Rounded(1000 * w * x, b) /\ Gives(more, k) = Rounded(1000 * w * y, b)
    <3>1. Gives(read, k) = Points(read, k) /\ Gives(more, k) = Points(more, k)
      BY <1>2, ScoreIs
    <3>2. Points(read, k) = Rounded(1000 * w * x, b)
      BY <1>2, <2>1, <2>2, PointsAre
    <3>3. Points(more, k) = Rounded(1000 * w * y, b)
      BY <1>2, <2>1, <2>2, PointsAre
    <3> QED BY <3>1, <3>2, <3>3
  <2>4. 1000 * w * x \in Int /\ 1000 * w * y \in Int /\ 1000 * w * x <= 1000 * w * y
    <3>1. PICK v \in Nat : v = 1000 * w
      OBVIOUS
    <3>2. v * x <= v * y /\ v * x \in Int /\ v * y \in Int
      BY <2>1
    <3> QED BY <3>1, <3>2
  <2> QED BY <2>2, <2>3, <2>4, RoundedIsMonotone
<1> QED
  BY <1>1, <1>2

LEMMA Percent ==
  ASSUME NEW n \in Int, 999 <= n, n <= 1002
  PROVE  Rounded(n, 10) = 100
<1>1. 2 * n + 10 \in Int /\ 20 \in Nat /\ 20 > 0 /\ 20 * 100 <= 2 * n + 10 /\ 2 * n + 10 < 20 * (100 + 1)
      /\ 2 * 10 = 20
  OBVIOUS
<1>2. 100 <= (2 * n + 10) \div 20 /\ (2 * n + 10) \div 20 <= 100 /\ (2 * n + 10) \div 20 \in Int
  <2>1. 100 <= (2 * n + 10) \div 20
    BY <1>1, DivisionIsAtLeast
  <2>2. (2 * n + 10) \div 20 <= 100
    BY <1>1, DivisionIsAtMost
  <2>3. (2 * n + 10) \div 20 \in Int
    BY <1>1, Division
  <2> QED BY <2>1, <2>2, <2>3
<1> QED
  BY <1>1, <1>2 DEF Rounded

IsClose(q, w, n) == (2 * n) * q <= 2000 * w + n /\ 2000 * w + n < (2 * n) * q + 2 * n
IsFullShare(q, w, p, n) == q = Rounded(1000 * w * p, p * n)

(* A share of p parts out of p weighs what its component weighs. *)
LEMMA ShareOfAll ==
  ASSUME NEW w \in Nat, NEW p \in Nat, p > 0, NEW n \in Nat, n > 0, NEW q \in Int,
         IsFullShare(q, w, p, n)
  PROVE  IsClose(q, w, n)
<1>1. PICK v \in Nat, b \in Nat : v = 1000 * w /\ b = p * n
  OBVIOUS
<1>2. b > 0 /\ v * p \in Int
  BY <1>1
<1>3. (2 * b) * q <= 2 * (v * p) + b /\ 2 * (v * p) + b < (2 * b) * q + 2 * b
  BY <1>1, <1>2, RoundedIsClose DEF IsFullShare
<1>4. PICK k \in Int : k = (2 * n) * q
  OBVIOUS
<1>5. (2 * b) * q = p * k
  BY <1>1, <1>4
<1>6. p * k <= p * (2 * v + n) /\ p * (2 * v + n) < p * (k + 2 * n)
  <2>1. 2 * (v * p) + b = p * (2 * v + n)
    BY <1>1
  <2>2. p * k + 2 * b = p * (k + 2 * n)
    BY <1>1
  <2> QED BY <1>3, <1>5, <2>1, <2>2
<1>7. k <= 2 * v + n /\ 2 * v + n < k + 2 * n
  BY <1>6
<1> QED
  BY <1>1, <1>4, <1>7 DEF IsClose

LEMMA SumsClose ==
  ASSUME NEW n \in Nat, n > 0,
         NEW a \in Int, NEW b \in Int, NEW c \in Int, NEW d \in Int,
         NEW e \in Int, NEW f \in Int, NEW g \in Int, NEW h \in Int,
         n = e + f + g + h,
         (2 * n) * a <= 2000 * e + n, 2000 * e + n < (2 * n) * a + 2 * n,
         (2 * n) * b <= 2000 * f + n, 2000 * f + n < (2 * n) * b + 2 * n,
         (2 * n) * c <= 2000 * g + n, 2000 * g + n < (2 * n) * c + 2 * n,
         (2 * n) * d <= 2000 * h + n, 2000 * h + n < (2 * n) * d + 2 * n
  PROVE  999 <= a + b + c + d /\ a + b + c + d <= 1002
<1>1. PICK q \in Int, m \in Nat : q = a + b + c + d /\ m = 2 * n /\ m > 0
  OBVIOUS
<1>2. PICK ka \in Int, kb \in Int, kc \in Int, kd \in Int :
        ka = m * a /\ kb = m * b /\ kc = m * c /\ kd = m * d
  OBVIOUS
<1>3. /\ ka <= 2000 * e + n /\ 2000 * e + n < ka + 2 * n
      /\ kb <= 2000 * f + n /\ 2000 * f + n < kb + 2 * n
      /\ kc <= 2000 * g + n /\ 2000 * g + n < kc + 2 * n
      /\ kd <= 2000 * h + n /\ 2000 * h + n < kd + 2 * n
  BY <1>1, <1>2
<1>4. PICK kq \in Int : kq = m * q
  BY <1>1
<1>5. kq = ka + kb + kc + kd
  BY <1>1, <1>2, <1>4
<1>6. kq <= 1002 * m /\ 998 * m < kq
  BY <1>1, <1>3, <1>5
<1>7. m * q <= m * 1002 /\ m * 998 < m * q
  BY <1>1, <1>4, <1>6
<1>8. q <= 1002 /\ 998 < q
  BY <1>1, <1>7
<1> QED
  BY <1>1, <1>8

LEMMA FullScore ==
  ASSUME NEW read \in Reads, Applies(read) # {}, \A k \in Applies(read) : read[k] = Parts
  PROVE  KeywordScore(read) = 100
<1> DEFINE n == Whole(Applies(read))
           W(k) == Held(Weights, Applies(read), k)
<1>1. Applies(read) \in SUBSET Components
  BY AppliesIs
<1>2. /\ n = W("required") + W("preferred") + W("title") + W("keywords")
      /\ (\A k \in Components : W(k) \in Nat) /\ n \in Nat /\ n > 0
  BY <1>1, WholeIs
<1> HIDE DEF n
<1>3. ASSUME NEW k \in Components
      PROVE  /\ Gives(read, k) \in Int
             /\ (2 * n) * Gives(read, k) <= 2000 * W(k) + n
             /\ 2000 * W(k) + n < (2 * n) * Gives(read, k) + 2 * n
  <2>1. CASE k \in Applies(read)
    <3>1. Weights[k] \in Nat /\ Points(read, k) \in Int
          /\ Points(read, k) = Rounded(1000 * Weights[k] * Parts, Parts * n)
      BY <2>1, PointsAre DEF n
    <3>2. Parts \in Nat /\ Parts > 0
      BY KeywordsAssumption
    <3>3. PICK w \in Nat, q \in Int, p \in Nat : w = Weights[k] /\ q = Points(read, k) /\ p = Parts
      BY <3>1, <3>2
    <3>4. p > 0 /\ IsFullShare(q, w, p, n) /\ n \in Nat /\ n > 0
      BY <1>2, <3>1, <3>2, <3>3 DEF IsFullShare
    <3>5. IsClose(q, w, n)
      BY <3>4, ShareOfAll
    <3>6. W(k) = Weights[k] /\ Gives(read, k) = Points(read, k)
      BY <2>1, ScoreIs DEF Held
    <3> QED BY <3>3, <3>5, <3>6 DEF IsClose
  <2>2. CASE k \notin Applies(read)
    <3>1. W(k) = 0 /\ Gives(read, k) = 0
      BY <2>2, ScoreIs DEF Held
    <3>2. (2 * n) * 0 <= 2000 * 0 + n /\ 2000 * 0 + n < (2 * n) * 0 + 2 * n
      BY <1>2
    <3> QED BY <3>1, <3>2
  <2> QED BY <2>1, <2>2
<1>4. PICK a, b, c, d : /\ a = Gives(read, "required") /\ b = Gives(read, "preferred")
                        /\ c = Gives(read, "title") /\ d = Gives(read, "keywords")
  OBVIOUS
<1>5. PICK e, f, g, h : /\ e = W("required") /\ f = W("preferred") /\ g = W("title") /\ h = W("keywords")
  OBVIOUS
<1>6. "required" \in Components /\ "preferred" \in Components /\ "title" \in Components /\ "keywords" \in Components
  BY DEF Components
<1> HIDE DEF W
<1>7. /\ a \in Int /\ (2 * n) * a <= 2000 * e + n /\ 2000 * e + n < (2 * n) * a + 2 * n
      /\ b \in Int /\ (2 * n) * b <= 2000 * f + n /\ 2000 * f + n < (2 * n) * b + 2 * n
      /\ c \in Int /\ (2 * n) * c <= 2000 * g + n /\ 2000 * g + n < (2 * n) * c + 2 * n
      /\ d \in Int /\ (2 * n) * d <= 2000 * h + n /\ 2000 * h + n < (2 * n) * d + 2 * n
  <2>1. a \in Int /\ (2 * n) * a <= 2000 * e + n /\ 2000 * e + n < (2 * n) * a + 2 * n
    <3>1. a = Gives(read, "required") /\ e = W("required") /\ "required" \in Components
      BY <1>4, <1>5, <1>6
    <3> QED BY <1>3, <3>1
  <2>2. b \in Int /\ (2 * n) * b <= 2000 * f + n /\ 2000 * f + n < (2 * n) * b + 2 * n
    <3>1. b = Gives(read, "preferred") /\ f = W("preferred") /\ "preferred" \in Components
      BY <1>4, <1>5, <1>6
    <3> QED BY <1>3, <3>1
  <2>3. c \in Int /\ (2 * n) * c <= 2000 * g + n /\ 2000 * g + n < (2 * n) * c + 2 * n
    <3>1. c = Gives(read, "title") /\ g = W("title") /\ "title" \in Components
      BY <1>4, <1>5, <1>6
    <3> QED BY <1>3, <3>1
  <2>4. d \in Int /\ (2 * n) * d <= 2000 * h + n /\ 2000 * h + n < (2 * n) * d + 2 * n
    <3>1. d = Gives(read, "keywords") /\ h = W("keywords") /\ "keywords" \in Components
      BY <1>4, <1>5, <1>6
    <3> QED BY <1>3, <3>1
  <2> QED BY <2>1, <2>2, <2>3, <2>4, SMTT(30)
<1>8. n \in Nat /\ n > 0 /\ n = e + f + g + h /\ e \in Int /\ f \in Int /\ g \in Int /\ h \in Int
  BY <1>2, <1>5, <1>6
<1>9. 999 <= a + b + c + d /\ a + b + c + d <= 1002
  BY <1>7, <1>8, SumsClose
<1>10. Rounded(a + b + c + d, 10) = 100
  <2>1. PICK q \in Int : q = a + b + c + d
    BY <1>7
  <2> QED BY <1>9, <2>1, Percent
<1> QED
  BY <1>4, <1>10, ScoreIs

LEMMA ScoreIsPercentage ==
  ASSUME NEW read \in Reads
  PROVE  KeywordScore(read) \in 0..100
<1> DEFINE full == [k \in Components |-> IF k \in Applies(read) THEN Parts ELSE Absent]
<1>1. full \in Reads
  BY KeywordsAssumption DEF Reads, Shares
<1>2. Applies(full) = Applies(read) /\ \A k \in Applies(read) : full[k] = Parts
  BY KeywordsAssumption DEF Applies
<1>3. \A k \in Applies(read) : read[k] <= full[k]
  BY <1>2, AppliesIs
<1> HIDE DEF full
<1>4. \A k \in Components : Gives(read, k) <= Gives(full, k)
  BY <1>1, <1>2, <1>3, GivesMore
<1>5. KeywordScore(read) <= KeywordScore(full) /\ 0 <= KeywordScore(read) /\ KeywordScore(read) \in Int
  BY <1>1, <1>4, ScoreOfMore
<1>6. CASE Applies(read) = {}
  <2>1. KeywordScore(read) = 0
    BY <1>6 DEF KeywordScore
  <2> QED BY <2>1
<1>7. CASE Applies(read) # {}
  <2>1. KeywordScore(full) = 100
    BY <1>1, <1>2, <1>7, FullScore
  <2> QED BY <1>5, <2>1
<1> QED
  BY <1>6, <1>7

(* A component that nothing was found for weighs on the others only. *)
LeavesOut(more, read, z) ==
    /\ z \in Applies(read) /\ read[z] = 0
    /\ Applies(more) = Applies(read) \ {z} /\ \A k \in Applies(more) : more[k] = read[k]

LEMMA GivesMoreWithout ==
  ASSUME NEW read \in Reads, NEW more \in Reads, NEW z, LeavesOut(more, read, z)
  PROVE  \A k \in Components : Gives(read, k) <= Gives(more, k)
<1> SUFFICES ASSUME NEW k \in Components PROVE Gives(read, k) <= Gives(more, k)
  OBVIOUS
<1>1. Gives(more, k) \in Nat
  BY ScoreIs
<1>2. CASE k \notin Applies(read)
  <2>1. Gives(read, k) = 0
    BY <1>2, ScoreIs
  <2> QED BY <1>1, <2>1
<1>3. CASE k = z
  <2>a. z \in Applies(read) /\ read[z] = 0
    BY DEF LeavesOut
  <2>1. PICK w \in Nat, b \in Nat : w = Weights[z] /\ b = Parts * Whole(Applies(read)) /\ b > 0
    BY <2>a, PointsAre
  <2>2. Gives(read, z) = Rounded(1000 * w * 0, b)
    <3>1. Gives(read, z) = Points(read, z)
      BY <2>a, ScoreIs
    <3>2. Points(read, z) = Rounded(1000 * w * 0, b)
      BY <2>a, <2>1, PointsAre
    <3> QED BY <3>1, <3>2
  <2>3. Rounded(0, b) = 0
    <3>1. 2 * b \in Nat /\ 2 * b > 0 /\ b \in Int /\ (2 * b) * 0 <= b /\ b < (2 * b) * (0 + 1) /\ 2 * 0 + b = b
      BY <2>1
    <3>2. 0 <= b \div (2 * b)
      BY <3>1, DivisionIsAtLeast
    <3>3. b \div (2 * b) <= 0
      BY <3>1, DivisionIsAtMost
    <3>4. b \div (2 * b) \in Int
      BY <3>1, Division
    <3> QED BY <3>1, <3>2, <3>3, <3>4 DEF Rounded
  <2>4. 1000 * w * 0 = 0
    BY <2>1
  <2> QED BY <1>1, <1>3, <2>2, <2>3, <2>4
<1>4. CASE k \in Applies(read) /\ k # z
  <2>1. k \in Applies(more) /\ more \in Reads /\ Applies(more) \subseteq Applies(read)
    BY <1>4 DEF LeavesOut
  <2>a. /\ Parts * Whole(Applies(more)) \in Nat /\ Parts * Whole(Applies(more)) > 0
        /\ Points(more, k) = Rounded(1000 * Weights[k] * more[k], Parts * Whole(Applies(more)))
    <3>1. PICK u : u = Applies(more)
      OBVIOUS
    <3>2. k \in u
      BY <2>1, <3>1
    <3>3. /\ Parts * Whole(u) \in Nat /\ Parts * Whole(u) > 0
          /\ Points(more, k) = Rounded(1000 * Weights[k] * more[k], Parts * Whole(u))
      BY <2>1, <3>1, <3>2, PointsIn
    <3> QED BY <3>1, <3>3, ZenonT(60)
  <2>2. PICK a \in Nat : a = 1000 * Weights[k] * read[k]
    BY <1>4, PointsAre
  <2>3. PICK b \in Nat, n \in Nat : b = Parts * n /\ n = Whole(Applies(read)) /\ b > 0
    BY <1>4, PointsAre, AppliesIs, WholeIs
  <2>4. PICK c \in Nat, m \in Nat : c = Parts * m /\ m = Whole(Applies(more)) /\ c > 0
    <3> DEFINE u == Applies(more)
    <3>1. u \in SUBSET Components
      BY AppliesIs
    <3>2. Whole(u) \in Nat
      <4> HIDE DEF u
      <4> QED BY <3>1, WholeIs
    <3>3. Parts * Whole(u) \in Nat /\ Parts * Whole(u) > 0
      BY <2>a
    <3> QED BY <3>2, <3>3
  <2>5. m <= n
    BY <2>1, <2>3, <2>4, AppliesIs, WholeIsMore
  <2>6. c <= b
    BY <2>3, <2>4, <2>5, KeywordsAssumption
  <2>7. Rounded(a, b) <= Rounded(a, c)
    BY <2>3, <2>4, <2>6, RoundedOfMore
  <2>8. Gives(read, k) = Rounded(a, b)
    BY <1>4, <2>2, <2>3, ScoreIs, PointsAre
  <2>9. more[k] = read[k]
    BY <2>1 DEF LeavesOut
  <2>10. Points(more, k) = Rounded(1000 * Weights[k] * more[k], Parts * Whole(Applies(more)))
    BY <2>a
  <2>11. Points(more, k) = Rounded(a, c)
    BY <2>2, <2>4, <2>9, <2>10
  <2>12. Gives(more, k) = Rounded(a, c)
    BY <2>1, <2>11, ScoreIs
  <2> QED BY <2>7, <2>8, <2>12
<1> QED
  BY <1>2, <1>3, <1>4

LEMMA ScoreIsFair ==
  ASSUME NEW read \in Reads
  PROVE  /\ KeywordScore(read) \in 0..100
         /\ Applies(read) # {} /\ (\A k \in Applies(read) : read[k] = Parts) => KeywordScore(read) = 100
         /\ \A k \in Applies(read) :
            /\ read[k] < Parts => KeywordScore([read EXCEPT ![k] = @ + 1]) >= KeywordScore(read)
            /\ read[k] = 0 => KeywordScore([read EXCEPT ![k] = Absent]) >= KeywordScore(read)
<1>1. ASSUME NEW k \in Applies(read), read[k] < Parts
      PROVE  KeywordScore([read EXCEPT ![k] = @ + 1]) >= KeywordScore(read)
  <2> DEFINE more == [read EXCEPT ![k] = read[k] + 1]
  <2>1. read[k] \in Nat /\ k \in Components /\ read[k] + 1 \in 0..Parts /\ Parts \in Nat /\ Absent \notin Nat
    BY <1>1, AppliesIs, KeywordsAssumption
  <2>2. more \in Reads
    BY <2>1 DEF Reads, Shares
  <2>3. more[k] = read[k] + 1 /\ (\A j \in Components \ {k} : more[j] = read[j])
    BY <2>1 DEF Reads
  <2> HIDE DEF more
  <2>4. Applies(more) = Applies(read)
    BY <2>1, <2>3 DEF Applies
  <2>5. \A j \in Applies(read) : read[j] <= more[j]
    BY <2>1, <2>3, AppliesIs
  <2>6. KeywordScore(read) <= KeywordScore(more)
    BY <2>2, <2>4, <2>5, GivesMore, ScoreOfMore
  <2>7. KeywordScore(read) \in Int /\ KeywordScore(more) \in Int
    BY <2>2, ScoreIsPercentage
  <2>8. KeywordScore(more) >= KeywordScore(read)
    BY <2>6, <2>7
  <2> QED BY <2>8 DEF more
<1>2. ASSUME NEW k \in Applies(read), read[k] = 0
      PROVE  KeywordScore([read EXCEPT ![k] = Absent]) >= KeywordScore(read)
  <2> DEFINE more == [read EXCEPT ![k] = Absent]
  <2>1. k \in Components /\ more \in Reads
    BY AppliesIs DEF Reads, Shares
  <2>2. more[k] = Absent /\ (\A j \in Components \ {k} : more[j] = read[j])
    BY <2>1 DEF Reads
  <2> HIDE DEF more
  <2>3. Applies(more) = Applies(read) \ {k} /\ \A j \in Applies(more) : more[j] = read[j]
    BY <2>1, <2>2 DEF Applies
  <2>4. KeywordScore(read) <= KeywordScore(more)
    <3>1. LeavesOut(more, read, k)
      BY <1>2, <2>3 DEF LeavesOut
    <3> QED BY <2>1, <3>1, GivesMoreWithout, ScoreOfMore
  <2>5. KeywordScore(read) \in Int /\ KeywordScore(more) \in Int
    BY <2>1, ScoreIsPercentage
  <2>6. KeywordScore(more) >= KeywordScore(read)
    BY <2>4, <2>5
  <2> QED BY <2>6 DEF more
<1>3. KeywordScore(read) \in 0..100
  BY ScoreIsPercentage
<1>4. Applies(read) # {} /\ (\A k \in Applies(read) : read[k] = Parts) => KeywordScore(read) = 100
  BY FullScore
<1> QED
  BY <1>1, <1>2, <1>3, <1>4

-----------------------------------------------------------------------------
(* The pool.                                                                 *)

TopOf(raws) == Max({raws[d] : d \in DOMAIN raws})
CeilingOf(top) == IF top >= CredibleTopRaw THEN 100 ELSE Nearest(100 * top, CredibleTopRaw)
ShownAt(raw, top) ==
    IF top <= 0 THEN 0
    ELSE IF raw >= top - TopBand THEN CeilingOf(top)
    ELSE Nearest(raw * CeilingOf(top), top)

LEMMA ShownIs ==
  ASSUME NEW raws, NEW c
  PROVE  Shown(raws, c) = ShownAt(raws[c], TopOf(raws))
  BY DEF Shown, ShownAt, TopOf, CeilingOf

LEMMA TopIs ==
  ASSUME NEW D, IsFiniteSet(D), D # {}, NEW raws \in [D -> 0..100]
  PROVE  /\ TopOf(raws) \in 0..100 /\ \A d \in D : raws[d] <= TopOf(raws)
         /\ \E d \in D : raws[d] = TopOf(raws)
<1>1. DOMAIN raws = D /\ raws = [d \in D |-> raws[d]] /\ \A d \in D : raws[d] \in 0..100
  OBVIOUS
<1> DEFINE all == {raws[d] : d \in D}
<1>2. IsFiniteSet(all)
  BY <1>1, ValuesAreFinite
<1>3. all \subseteq Int /\ all # {} /\ all \subseteq 0..100
  BY <1>1
<1>4. Max(all) \in all /\ \A n \in all : n <= Max(all)
  BY <1>2, <1>3, MaxIsGreatest
<1>5. TopOf(raws) = Max(all)
  BY <1>1 DEF TopOf
<1> QED
  BY <1>3, <1>4, <1>5

LEMMA CeilingIs ==
  ASSUME NEW top \in 0..100
  PROVE  CeilingOf(top) \in 0..100 /\ (top < CredibleTopRaw => CeilingOf(top) < 100)
<1>1. CASE top >= CredibleTopRaw
  BY <1>1 DEF CeilingOf, CredibleTopRaw
<1>2. CASE top < CredibleTopRaw
  <2>1. CredibleTopRaw = 55 /\ top \in Int /\ 0 <= top /\ top <= 54
    BY <1>2 DEF CredibleTopRaw
  <2>2. CeilingOf(top) = (200 * top + 55) \div 110
    BY <2>1 DEF CeilingOf, Nearest
  <2>3. /\ 200 * top + 55 \in Int /\ 110 \in Nat /\ 110 > 0 /\ 110 * 0 <= 200 * top + 55
        /\ 200 * top + 55 < 110 * (99 + 1)
    BY <2>1
  <2>4. (200 * top + 55) \div 110 \in Int
    BY <2>3, Division
  <2>5. 0 <= (200 * top + 55) \div 110
    BY <2>3, DivisionIsAtLeast
  <2>6. (200 * top + 55) \div 110 <= 99
    BY <2>3, DivisionIsAtMost
  <2> QED BY <2>2, <2>4, <2>5, <2>6
<1> QED
  BY <1>1, <1>2 DEF CredibleTopRaw

(* A part of the top is shown as that part of the ceiling. *)
LEMMA RoundedPart ==
  ASSUME NEW r \in Nat, NEW t \in Nat, t > 0, r <= t, NEW c \in Nat
  PROVE  Rounded(r * c, t) \in Int /\ 0 <= Rounded(r * c, t) /\ Rounded(r * c, t) <= c
<1>1. PICK a \in Nat : a = r * c
  OBVIOUS
<1>2. a <= t * c
  BY <1>1
<1>3. 2 * a + t \in Int /\ 2 * t \in Nat /\ 2 * t > 0 /\ a \in Int
  BY <1>1
<1>4. 2 * a + t < (2 * t) * (c + 1)
  <2>1. PICK k \in Nat : k = t * c
    OBVIOUS
  <2>2. (2 * t) * (c + 1) = 2 * k + 2 * t
    BY <2>1
  <2> QED BY <1>1, <1>2, <2>1, <2>2
<1>5. Rounded(a, t) \in Int
  BY <1>3, Division DEF Rounded
<1>6. Rounded(a, t) <= c
  BY <1>3, <1>4, DivisionIsAtMost DEF Rounded
<1>7. 0 <= Rounded(a, t)
  <2>1. (2 * t) * 0 <= 2 * a + t
    BY <1>1
  <2> QED BY <1>3, <2>1, DivisionIsAtLeast DEF Rounded
<1> QED
  BY <1>1, <1>5, <1>6, <1>7

LEMMA ShownAtIs ==
  ASSUME NEW raw \in 0..100, NEW top \in 0..100, raw <= top
  PROVE  ShownAt(raw, top) \in Int /\ 0 <= ShownAt(raw, top) /\ ShownAt(raw, top) <= CeilingOf(top)
<1>1. PICK c \in Nat : c = CeilingOf(top)
  BY CeilingIs
<1>2. CASE top <= 0
  BY <1>1, <1>2 DEF ShownAt
<1>3. CASE top > 0 /\ raw >= top - TopBand
  BY <1>1, <1>3 DEF ShownAt, TopBand
<1>4. CASE top > 0 /\ ~ (raw >= top - TopBand)
  <2>1. ShownAt(raw, top) = Rounded(raw * c, top)
    BY <1>1, <1>4 DEF ShownAt, Nearest, Rounded
  <2>2. raw \in Nat /\ top \in Nat
    OBVIOUS
  <2>3. Rounded(raw * c, top) \in Int /\ 0 <= Rounded(raw * c, top) /\ Rounded(raw * c, top) <= c
    BY <1>4, <2>2, RoundedPart
  <2> QED BY <1>1, <2>1, <2>3
<1> QED
  BY <1>2, <1>3, <1>4 DEF TopBand

LEMMA ShownAtIsMonotone ==
  ASSUME NEW less \in 0..100, NEW raw \in 0..100, NEW top \in 0..100, less <= raw, raw <= top
  PROVE  ShownAt(less, top) <= ShownAt(raw, top)
<1>1. PICK c \in Nat : c = CeilingOf(top)
  BY CeilingIs
<1>2. ShownAt(less, top) <= c /\ ShownAt(less, top) \in Int
  <2>1. less <= top
    OBVIOUS
  <2> QED BY <1>1, <2>1, ShownAtIs
<1>3. CASE top <= 0
  BY <1>3 DEF ShownAt
<1>4. CASE top > 0 /\ raw >= top - TopBand
  <2>1. ShownAt(raw, top) = c
    BY <1>1, <1>4 DEF ShownAt, TopBand
  <2> QED BY <1>2, <2>1
<1>5. CASE top > 0 /\ ~ (raw >= top - TopBand)
  <2>1. ShownAt(raw, top) = Rounded(raw * c, top)
    BY <1>1, <1>5 DEF ShownAt, Nearest, Rounded
  <2>2. ~ (less >= top - TopBand)
    BY <1>5 DEF TopBand
  <2>3. ShownAt(less, top) = Rounded(less * c, top)
    BY <1>1, <1>5, <2>2 DEF ShownAt, Nearest, Rounded
  <2>4. PICK a \in Int, b \in Int : a = less * c /\ b = raw * c /\ a <= b
    <3>1. less * c \in Int /\ raw * c \in Int /\ less * c <= raw * c
      OBVIOUS
    <3> QED BY <3>1
  <2>5. top \in Nat
    OBVIOUS
  <2>6. Rounded(a, top) <= Rounded(b, top)
    BY <1>5, <2>4, <2>5, RoundedIsMonotone
  <2> QED BY <2>1, <2>3, <2>4, <2>6
<1> QED
  BY <1>3, <1>4, <1>5 DEF TopBand

LEMMA PoolIsFairThen ==
  ASSUME KeywordsTypeOK
  PROVE  PoolIsFair
<1>1. PICK raws : raws = Raw
  OBVIOUS
<1>2. raws \in [Pooled -> 0..100]
  BY <1>1, ScoreIsPercentage DEF Raw, KeywordsTypeOK, Reads
<1>3. IsFiniteSet(Pooled) /\ Pooled # {}
  BY KeywordsAssumption
<1>4. PICK top : top = TopOf(raws)
  OBVIOUS
<1>5. /\ top \in 0..100 /\ (\A d \in Pooled : raws[d] \in 0..100 /\ raws[d] <= top)
      /\ \E d \in Pooled : raws[d] = top
  BY <1>2, <1>3, <1>4, TopIs
<1>6. ASSUME NEW c \in Pooled, NEW d \in Pooled
      PROVE  /\ Shown(raws, c) \in 0..100
             /\ raws[c] >= raws[d] => Shown(raws, c) >= Shown(raws, d)
             /\ Shown(raws, c) = 100 => \E e \in Pooled : raws[e] >= CredibleTopRaw
             /\ raws[d] < raws[c] => Shown([e \in Pooled \ {d} |-> raws[e]], c) = Shown(raws, c)
  <2>1. PICK r \in 0..100, q \in 0..100 : r = raws[c] /\ q = raws[d] /\ r <= top /\ q <= top
    BY <1>5
  <2>2. Shown(raws, c) = ShownAt(r, top) /\ Shown(raws, d) = ShownAt(q, top)
    BY <1>4, <2>1, ShownIs
  <2>3. ShownAt(r, top) \in Int /\ 0 <= ShownAt(r, top) /\ ShownAt(r, top) <= CeilingOf(top)
    BY <1>5, <2>1, ShownAtIs
  <2>4. ShownAt(q, top) \in Int
    BY <1>5, <2>1, ShownAtIs
  <2>5. CeilingOf(top) \in 0..100 /\ (top < CredibleTopRaw => CeilingOf(top) < 100)
    BY <1>5, CeilingIs
  <2>6. Shown(raws, c) \in 0..100
    BY <2>2, <2>3, <2>5
  <2>7. ASSUME raws[c] >= raws[d] PROVE Shown(raws, c) >= Shown(raws, d)
    <3>1. q <= r
      BY <2>1, <2>7
    <3>2. ShownAt(q, top) <= ShownAt(r, top)
      BY <1>5, <2>1, <3>1, ShownAtIsMonotone
    <3> QED BY <2>2, <2>3, <2>4, <3>2
  <2>8. ASSUME Shown(raws, c) = 100 PROVE \E e \in Pooled : raws[e] >= CredibleTopRaw
    <3>1. top >= CredibleTopRaw
      BY <1>5, <2>2, <2>3, <2>5, <2>8 DEF CredibleTopRaw
    <3> QED BY <1>5, <3>1
  <2>9. ASSUME raws[d] < raws[c] PROVE Shown([e \in Pooled \ {d} |-> raws[e]], c) = Shown(raws, c)
    <3>1. PICK D, rest : D = Pooled \ {d} /\ rest = [e \in D |-> raws[e]]
      OBVIOUS
    <3>2. c \in D /\ IsFiniteSet(D)
      BY <1>3, <2>1, <2>9, <3>1, FS_Subset
    <3>3. rest \in [D -> 0..100] /\ \A e \in D : rest[e] = raws[e]
      BY <1>5, <3>1
    <3>4. PICK other : other = TopOf(rest)
      OBVIOUS
    <3>5. other \in 0..100 /\ (\A e \in D : rest[e] <= other) /\ (\E e \in D : rest[e] = other)
      BY <3>2, <3>3, <3>4, TopIs
    <3>6. other = top
      <4>1. PICK e \in Pooled : raws[e] = top
        BY <1>5
      <4>2. e # d
        BY <1>5, <2>1, <2>9, <4>1
      <4>3. top <= other
        BY <3>1, <3>3, <3>5, <4>1, <4>2
      <4>4. other <= top
        BY <1>5, <3>1, <3>3, <3>5
      <4> QED BY <1>5, <3>5, <4>3, <4>4
    <3>7. Shown(rest, c) = ShownAt(rest[c], other)
      BY <3>4, ShownIs
    <3> QED BY <2>1, <2>2, <3>1, <3>2, <3>3, <3>6, <3>7
  <2> QED BY <2>6, <2>7, <2>8, <2>9
<1> QED
  BY <1>1, <1>6 DEF PoolIsFair

(* Whatever was asked and wherever it was found: the score of a CV fills a hundred and
   no more, more evidence never lowers it, what cannot be judged is not failed, and a
   pool keeps the order (scoreCandidate, normalizeAgainstPool). *)
THEOREM KeywordsStaySound == KeywordsSpec => []KeywordsAreSound
<1>1. KeywordsInit => KeywordsTypeOK
  BY DEF KeywordsInit, KeywordsTypeOK, Shares
<1>2. KeywordsTypeOK /\ [KeywordsNext]_reading => KeywordsTypeOK'
  <2> SUFFICES ASSUME KeywordsTypeOK, [KeywordsNext]_reading PROVE KeywordsTypeOK'
    OBVIOUS
  <2>1. ASSUME NEW c \in Pooled, NEW k \in Components, NEW share \in Shares, ReadAgain(c, k, share)
        PROVE  KeywordsTypeOK'
    BY <2>1 DEF KeywordsTypeOK, ReadAgain
  <2>2. CASE UNCHANGED reading
    BY <2>2 DEF KeywordsTypeOK
  <2> QED BY <2>1, <2>2 DEF KeywordsNext
<1>3. KeywordsTypeOK => KeywordsAreSound
  <2> SUFFICES ASSUME KeywordsTypeOK PROVE KeywordsAreSound
    OBVIOUS
  <2>1. ASSUME NEW c \in Pooled
        PROVE  /\ KeywordScore(reading[c]) \in 0..100
               /\ Applies(reading[c]) # {} /\ (\A k \in Applies(reading[c]) : reading[c][k] = Parts)
                    => KeywordScore(reading[c]) = 100
               /\ \A k \in Applies(reading[c]) :
                  /\ reading[c][k] < Parts => KeywordScore([reading[c] EXCEPT ![k] = @ + 1]) >= KeywordScore(reading[c])
                  /\ reading[c][k] = 0 => KeywordScore([reading[c] EXCEPT ![k] = Absent]) >= KeywordScore(reading[c])
    <3>1. PICK read : read = reading[c]
      OBVIOUS
    <3>2. read \in Reads
      BY <3>1 DEF KeywordsTypeOK, Reads
    <3>3. /\ KeywordScore(read) \in 0..100
          /\ Applies(read) # {} /\ (\A k \in Applies(read) : read[k] = Parts) => KeywordScore(read) = 100
          /\ \A k \in Applies(read) :
             /\ read[k] < Parts => KeywordScore([read EXCEPT ![k] = @ + 1]) >= KeywordScore(read)
             /\ read[k] = 0 => KeywordScore([read EXCEPT ![k] = Absent]) >= KeywordScore(read)
      BY <3>2, ScoreIsFair
    <3> QED BY <3>1, <3>3, Zenon
  <2>2. KeywordsAreFair
    BY <2>1, Zenon DEF KeywordsAreFair
  <2>3. PoolIsFair
    BY PoolIsFairThen
  <2> QED BY <2>2, <2>3 DEF KeywordsAreSound
<1> QED
  BY <1>1, <1>2, <1>3, PTL DEF KeywordsSpec

=============================================================================
