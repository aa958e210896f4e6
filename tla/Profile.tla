------------------------------ MODULE Profile ------------------------------
(***************************************************************************)
(* A candidate's profile: application, edits, erasure, and what is read      *)
(* out of the CV in the background - extraction, summary, search vector and   *)
(* labels (index.js, profiles.js, summary.js, matching/intelligence.js).      *)
(* Reading a file, every model call and every unlink is awaited.  One          *)
(* candidate; a CV is the number of its upload, 0 is none.  Photographs and    *)
(* other documents take the same way and are left out.                        *)
(***************************************************************************)
EXTENDS Naturals, FiniteSets

CONSTANTS
    Uploads,    \* requests that may be in flight at once
    MaxFiles,   \* bound: CVs uploaded
    MaxWords    \* bound: summaries the candidate writes

ASSUME ProfileAssumption == MaxFiles \in Nat /\ MaxWords \in Nat

VARIABLES
    life,       \* whether there is a row in candidates
    row,        \* that row: stored_name with cv_text, profile_version, notes
    derived,    \* the tables keyed by the candidate
    disk,       \* UPLOAD_DIR
    lastFile,   \* uploads so far: a name is never used again
    upload,     \* what each request in flight goes on with
    tasks,      \* background work nobody awaits
    alone,      \* history: no edit overlapped another or failed half way
    cut,        \* history: a restart lost a screening
    overtaken   \* history: the erasure overtook work in flight

profileVars == <<life, row, derived, disk, lastFile, upload, tasks, alone, cut, overtaken>>

Free == [stage |-> "free"]
NoNotes == [by |-> "nobody", n |-> 0, clean |-> TRUE]
Words(n) == [by |-> "candidate", n |-> n, clean |-> FALSE]

Notes == [by : {"nobody", "draft", "candidate"}, n : 0..MaxWords, clean : BOOLEAN]
Files == 1..MaxFiles
Versions == 1..(1 + MaxFiles + MaxWords)

(* Nothing in any of the tables keyed by the candidate: documents,
   extracted_profiles, embeddings, the labels of each version, and
   candidate_label_overrides (one label, taken away or not). *)
Nothing == [document |-> 0, extraction |-> 0, vector |-> 0, labels |-> <<>>, corrected |-> FALSE]
NoRow == [cv |-> 0, version |-> 1, notes |-> NoNotes]

ProfileTypeOK ==
    /\ life \in {"none", "listed", "erased"}
    /\ row \in [cv : 0..MaxFiles, version : Versions, notes : Notes]
    /\ (row.notes.by = "candidate") = (row.notes.n > 0)
    /\ {derived.document, derived.extraction, derived.vector} \subseteq 0..MaxFiles
    /\ DOMAIN derived.labels \subseteq Versions
    /\ disk \subseteq Files /\ lastFile \in 0..MaxFiles
    /\ \A t \in tasks : t.stage \in {"extract", "summary", "embed"}
    /\ {alone, cut, overtaken} \subseteq BOOLEAN

ProfileInit ==
    /\ life = "none" /\ row = NoRow /\ derived = Nothing
    /\ disk = {} /\ lastFile = 0
    /\ upload = [q \in Uploads |-> Free] /\ tasks = {}
    /\ alone = TRUE /\ cut = FALSE /\ overtaken = FALSE

Listed == life = "listed"

(* profileVersion: of a row that is gone it is 1. *)
Version == IF Listed THEN row.version ELSE 1

(* runExtraction up to its first await. *)
Run(f) == [stage |-> "extract", file |-> f]

(* ensureSummary and refreshEmbedding up to theirs; "run" if it is part of one. *)
Screening(notes, run) == [stage |-> "summary", read |-> notes, run |-> run]
Embedding(text, run) == [stage |-> "embed", text |-> text, run |-> run]

-----------------------------------------------------------------------------
(* Labels.                                                                 *)

(* buildIntelligence: one transaction, the candidate's edits replayed in it. *)
Built(d, v) ==
    [d EXCEPT !.labels = [w \in DOMAIN d.labels \union {v} |->
        IF w = v THEN [from |-> d.extraction, corrected |-> d.corrected] ELSE d.labels[w]]]

(* PATCH /api/candidate/me/labels: the instruction, and the label of the current version. *)
EditLabel ==
    /\ Listed
    /\ LET d == [derived EXCEPT !.corrected = ~@]
       IN  derived' = IF row.version \in DOMAIN d.labels
                          THEN [d EXCEPT !.labels[row.version].corrected = d.corrected]
                          ELSE d
    /\ UNCHANGED <<life, row, disk, lastFile, upload, tasks, alone, cut, overtaken>>

-----------------------------------------------------------------------------
(* Requests.                                                               *)

EditInFlight == \E q \in Uploads : upload[q].stage \in {"first", "save", "store", "unlink"}

(* The form is on disk before the handler runs; POST /api/candidates reads the
   CV, PATCH /api/candidate/me reads the row and then the CV. *)
BeginUpload(q, stage) ==
    /\ upload[q] = Free
    /\ lastFile < MaxFiles
    /\ life = IF stage = "insert" THEN "none" ELSE "listed"
    /\ lastFile' = lastFile + 1
    /\ disk' = disk \union {lastFile'}
    /\ upload' = [upload EXCEPT ![q] = [stage |-> stage, file |-> lastFile', before |-> row.cv]]
    /\ alone' = (alone /\ ~EditInFlight)
    /\ UNCHANGED <<life, row, derived, tasks, cut, overtaken>>

(* The duplicate check and the INSERT, with no await between.  A second
   application is refused and its file discarded; one that comes after the
   erasure makes an account of its own, which is not followed here.  A summary
   that was sent along is stored as it came. *)
InsertCandidate(q, wrote) ==
    /\ upload[q].stage = "insert"
    /\ wrote => row.notes.n < MaxWords
    /\ IF life = "none"
           THEN /\ life' = "listed"
                /\ row' = [NoRow EXCEPT !.cv = upload[q].file,
                                        !.notes = IF wrote THEN Words(1) ELSE NoNotes]
                /\ upload' = [upload EXCEPT ![q].stage = "first"]
           ELSE /\ upload' = [upload EXCEPT ![q] = Free]
                /\ UNCHANGED <<life, row>>
    /\ disk' = IF Listed THEN disk \ {upload[q].file} ELSE disk
    /\ UNCHANGED <<derived, lastFile, tasks, alone, cut, overtaken>>

(* The rest of the application: storeDocuments, then runExtraction in the background,
   which screens the summary too. *)
FinishApplication(q) ==
    /\ upload[q].stage = "first"
    /\ derived' = [derived EXCEPT !.document = upload[q].file]
    /\ tasks' = tasks \union {Run(upload[q].file)}
    /\ upload' = [upload EXCEPT ![q] = Free]
    /\ UNCHANGED <<life, row, disk, lastFile, alone, cut, overtaken>>

(* "void ensureSummary" of the edit, which reads the row after updateCandidate. *)
ScreenedAfter(notes) == Screening(notes, FALSE)

(* updateCandidate; an UPDATE that finds no row changes nothing. *)
Saved(cv, notes) == IF Listed THEN [row EXCEPT !.cv = cv, !.notes = notes] ELSE row

(* The edit of a CV up to the await in storeDocuments, with or without a new summary. *)
SaveEdit(q, wrote) ==
    /\ upload[q].stage = "save"
    /\ wrote => row.notes.n < MaxWords
    /\ LET notes == IF wrote THEN Words(row.notes.n + 1) ELSE row.notes
       IN  /\ row' = Saved(upload[q].file, notes)
           /\ tasks' = IF wrote /\ Listed THEN tasks \union {ScreenedAfter(notes)} ELSE tasks
    /\ upload' = [upload EXCEPT ![q].stage = "store"]
    /\ UNCHANGED <<life, derived, disk, lastFile, alone, cut, overtaken>>

(* The corrections sent along do not parse: the catch discards every file of the
   request, the one the row names by now too. *)
RejectEdit(q) ==
    /\ upload[q].stage = "save"
    /\ row' = Saved(upload[q].file, row.notes)
    /\ disk' = disk \ {upload[q].file}
    /\ upload' = [upload EXCEPT ![q] = Free]
    /\ alone' = FALSE
    /\ UNCHANGED <<life, derived, lastFile, tasks, cut, overtaken>>

(* saveDocument, which hands back the name it replaced. *)
StoreDocument(q) ==
    /\ upload[q].stage = "store"
    /\ derived' = [derived EXCEPT !.document = upload[q].file]
    /\ upload' = [upload EXCEPT ![q] = [stage |-> "unlink", file |-> upload[q].file,
                                        old |-> {derived.document, upload[q].before}]]
    /\ UNCHANGED <<life, row, disk, lastFile, tasks, alone, cut, overtaken>>

(* Faulty variant: the row is read again, when it names the new file. *)
OldFilesOfTheRow(q) == upload[q].old \union {row.cv}

(* The names to unlink: the replaced document and the CV read at the start. *)
OldFiles(q) == upload[q].old \ {upload[q].file}

(* The unlinks, then bumpProfileVersion and the run on the new CV. *)
FinishEdit(q) ==
    /\ upload[q].stage = "unlink"
    /\ disk' = disk \ OldFiles(q)
    /\ row' = IF Listed THEN [row EXCEPT !.version = @ + 1] ELSE row
    /\ tasks' = tasks \union {Run(upload[q].file)}
    /\ upload' = [upload EXCEPT ![q] = Free]
    /\ UNCHANGED <<life, derived, lastFile, alone, cut, overtaken>>

(* PATCH /api/candidate/me with a summary and no file: one step, for nothing in it waits. *)
EditWords ==
    /\ Listed
    /\ row.notes.n < MaxWords
    /\ LET notes == Words(row.notes.n + 1)
       IN  /\ row' = [row EXCEPT !.notes = notes, !.version = @ + 1]
           /\ tasks' = tasks \union {ScreenedAfter(notes), Embedding(derived.extraction, FALSE)}
    /\ derived' = Built(derived, row'.version)
    /\ UNCHANGED <<life, disk, lastFile, upload, alone, cut, overtaken>>

(* deleteCandidateCompletely, whatever the tables held. *)
Erased == Nothing

(* DELETE /api/candidate/me; the files are unlinked after the transaction. *)
DeleteCandidate(q) ==
    /\ Listed
    /\ upload[q] = Free
    /\ life' = "erased" /\ row' = NoRow /\ derived' = Erased
    /\ upload' = [upload EXCEPT ![q] = [stage |-> "erase", old |-> {derived.document, row.cv}]]
    /\ overtaken' = (tasks # {} \/ \E p \in Uploads : upload[p] # Free)
    /\ UNCHANGED <<disk, lastFile, tasks, alone, cut>>

EraseFiles(q) ==
    /\ upload[q].stage = "erase"
    /\ disk' = disk \ upload[q].old
    /\ upload' = [upload EXCEPT ![q] = Free]
    /\ UNCHANGED <<life, row, derived, lastFile, tasks, alone, cut, overtaken>>

-----------------------------------------------------------------------------
(* Background work.                                                        *)

Replace(t, next) == tasks' = (tasks \ {t}) \union next

(* extractProfileFields answers, or fails and is logged.  saveExtraction does
   not ask whether the row is there or has a newer CV; without the row the rest
   of the run falls through to runIntelligence. *)
Extract(t, answered) ==
    /\ t.stage = "extract"
    /\ LET d == IF answered THEN [derived EXCEPT !.extraction = t.file] ELSE derived
       IN  derived' = IF Listed THEN d ELSE Built(d, Version)
    /\ Replace(t, IF Listed THEN {Screening(row.notes, TRUE)} ELSE {})
    /\ UNCHANGED <<life, row, disk, lastFile, upload, alone, cut, overtaken>>

(* Faulty variant: the draft is written without looking again. *)
ScreenedOver(read) ==
    IF read.by = "nobody" THEN [read EXCEPT !.by = "draft"] ELSE [read EXCEPT !.clean = TRUE]

(* The compare-and-swap at the end of ensureSummary: a draft, or the same words screened. *)
Screened(read) ==
    CASE row.notes # read -> row.notes
      [] row.notes = read /\ read.by = "nobody" -> [read EXCEPT !.by = "draft"]
      [] OTHER -> [read EXCEPT !.clean = TRUE]

Summarise(t) ==
    /\ t.stage = "summary"
    /\ row' = IF Listed THEN [row EXCEPT !.notes = Screened(t.read)] ELSE row
    /\ derived' = IF t.run /\ ~Listed THEN Built(derived, Version) ELSE derived
    /\ Replace(t, IF t.run /\ Listed THEN {Embedding(derived.extraction, TRUE)} ELSE {})
    /\ UNCHANGED <<life, disk, lastFile, upload, alone, cut, overtaken>>

(* storeEmbedding, when there is an answer; the labels do not depend on it. *)
Embedded(t, answered) ==
    LET d == IF answered THEN [derived EXCEPT !.vector = t.text] ELSE derived
    IN  IF t.run THEN Built(d, Version) ELSE d

Embed(t, answered) ==
    /\ t.stage = "embed"
    /\ derived' = Embedded(t, answered)
    /\ Replace(t, {})
    /\ UNCHANGED <<life, row, disk, lastFile, upload, alone, cut, overtaken>>

(* The process dies and starts: rows of nobody are swept (db.js), unnamed files
   moved aside, missing labels built; repairSummaries screens what it can. *)
ProfileRestart ==
    /\ tasks # {} \/ \E q \in Uploads : upload[q] # Free
    /\ upload' = [q \in Uploads |-> Free] /\ tasks' = {}
    /\ derived' = CASE ~Listed -> Nothing
                    [] Listed /\ row.version \in DOMAIN derived.labels -> derived
                    [] OTHER -> Built(derived, row.version)
    /\ \E clean \in {row.notes.clean, TRUE} : row' = [row EXCEPT !.notes.clean = clean]
    /\ disk' = disk \intersect {derived'.document, row.cv}
    /\ cut' = (cut \/ ~row.notes.clean)
    /\ overtaken' = FALSE
    /\ UNCHANGED <<life, lastFile, alone>>

Background(t) ==
    \/ Summarise(t)
    \/ \E answered \in BOOLEAN : Extract(t, answered) \/ Embed(t, answered)

ProfileNext ==
    \/ \E q \in Uploads :
        \/ \E stage \in {"insert", "save"} : BeginUpload(q, stage)
        \/ \E wrote \in BOOLEAN : InsertCandidate(q, wrote) \/ SaveEdit(q, wrote)
        \/ FinishApplication(q) \/ RejectEdit(q) \/ StoreDocument(q) \/ FinishEdit(q)
        \/ DeleteCandidate(q) \/ EraseFiles(q)
    \/ EditWords \/ EditLabel
    \/ \E t \in tasks : Background(t)
    \/ ProfileRestart

ProfileSpec == ProfileInit /\ [][ProfileNext]_profileVars

-----------------------------------------------------------------------------
(* While one edit follows the other, both rows name a file that is there: the
   old ones are unlinked only once nothing points at them (PATCH
   /api/candidate/me), whatever is erased, refused or cut short in between. *)
FilesAreThere == Listed /\ alone => {row.cv, derived.document} \ {0} \subseteq disk

(* What the candidate wrote is replaced by nothing but what they write next or
   its own screened form, however long a draft was in the making (ensureSummary). *)
OwnWordsStay ==
    [][LET now == row.notes next == row'.notes
       IN  now.by = "candidate" /\ life' = "listed" /\ next # now
           => next.n = now.n + 1 \/ (next.n = now.n /\ next.clean)]_profileVars

(* Words nobody has screened are being screened or will be, unless a restart lost
   it: a summary task that read these very words is still to answer, or a run that
   reads the row when its CV has been read (the edit, ensureSummary), or the
   application they came with has yet to start that run (POST /api/candidates). *)
ScreeningIsUnderWay ==
    \/ row.notes.clean \/ cut
    \/ \E t \in tasks : t.stage = "extract" \/ (t.stage = "summary" /\ t.read = row.notes)
    \/ \E q \in Uploads : upload[q].stage = "first"

(* What the candidate says of their labels holds for the current version,
   although every analysis rewrites them (applyLabelOverrides). *)
CorrectionsStay ==
    Listed /\ row.version \in DOMAIN derived.labels
    => derived.labels[row.version].corrected = derived.corrected

(* When all work has come to rest the current version has its labels, also when
   a model call failed or a restart cut the run (runIntelligence, backfillIntelligence). *)
LabelsAreBuilt ==
    Listed /\ tasks = {} /\ (\A q \in Uploads : upload[q] = Free)
    => row.version \in DOMAIN derived.labels

(* After an erasure nothing of the candidate is in any table, unless the erasure
   overtook work in flight - and then until the next start only
   (deleteCandidateCompletely, the sweep of db.js). *)
ErasedUnlessOvertaken == life = "erased" /\ ~overtaken => derived = Nothing

(* "Only once the rows point at the new files is it safe to unlink the old"
   (index.js:2984): the unlinks that end an edit leave the CV that the candidate's
   row names.  Of two edits that overlap one may find the other's new file in the
   place of the document it replaces, and take it for an old one. *)
OldFilesOnly == [][(\E q \in Uploads : FinishEdit(q)) => row'.cv \notin disk \ disk']_profileVars

(* The profile against its files and everything derived from them, with edits,
   model calls and an erasure in flight together: no file the row names is
   unlinked, no draft is left "generating" with nobody at work, corrections and
   labels survive, an erasure leaves nothing unless work overtook it. *)
ProfileIsSound ==
    /\ ProfileTypeOK /\ FilesAreThere /\ ScreeningIsUnderWay
    /\ CorrectionsStay /\ LabelsAreBuilt /\ ErasedUnlessOvertaken
=============================================================================
