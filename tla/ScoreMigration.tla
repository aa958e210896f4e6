--------------------------- MODULE ScoreMigration ---------------------------
(* scripts/score-migrate.mjs: stored scores follow the scoring version without a
   model being asked, in pages that a restart may come between, while the server
   goes on judging; --refresh applies a changed silence fraction in place, and
   --revert undoes the latest run from its manifest.

   Each row of either table is a number, in the order the script walks them: first
   candidate_job_analyses, each of one candidate, then triage_applicants.  A page
   is one row here and five hundred there; the script reads it before the
   transaction that writes it, and the server is another process. *)
EXTENDS Naturals, Sequences, FiniteSets, FiniteSetsExt

CONSTANTS
    Analyses, Graded,   \* rows of candidate_job_analyses and of triage_applicants
    Movable,    \* rows that need no model: all, or if the rubric changed those it never judged
    Migrators,  \* processes: one of each boot, one an operator starts by hand
    MaxMigrations,    \* bound: score_migration_runs
    MaxDial,    \* bound: the values MATCH_SILENCE_FRACTION takes
    NoScore     \* no such row

Scored == Analyses \union Graded

Dials == 1..MaxDial
(* `first` is a history: the dial the score was first written at. *)
ScoreRow == [by : {"moved", "judged"}, dial : Dials, first : Dials]

ASSUME MigrationAssumption ==
    /\ Scored \subseteq Nat \ {0} /\ Movable \subseteq Scored
    /\ \A k \in Analyses, a \in Graded : k < a
    /\ MaxMigrations \in Nat /\ MaxDial \in Nat \ {0} /\ NoScore \notin ScoreRow

VARIABLES
    before,     \* scores at the version migrated from
    after,      \* scores at the current version: by whom, at which dial
    runs,       \* score_migration_runs, each with its score_migration_rows
    migrator,   \* what each process is at
    dial,       \* MATCH_SILENCE_FRACTION
    author,     \* the candidate of an analysis: as analysed, edited since, erased
    asked,      \* analyses a search has missed and asked the model for
    \* history
    storedOver,    \* analyses stored over a row that had been moved meanwhile
    lost,       \* judgements a run took away
    overlapped, \* a run began or was undone while another was at work
    pruned,     \* a manifest was dropped
    inHand      \* analyses whose candidate was erased while a page held them

migrationVars ==
    <<before, after, runs, migrator, dial, author, asked, storedOver, lost, overlapped, pruned, inHand>>
serverVars == <<before, author, asked>>
scoreHistory == <<storedOver, lost, overlapped, pruned, inHand>>

NewScore(by, d) == [by |-> by, dial |-> d, first |-> d]
Unstarted == [at |-> "unstarted"]
Note == [row : Scored, was : ScoreRow \union {NoScore}]

MigrationTypeOK ==
    /\ before \in [Scored -> BOOLEAN] /\ after \in [Scored -> ScoreRow \union {NoScore}]
    /\ \A i \in DOMAIN runs :
        /\ runs[i].scope \subseteq Scored /\ runs[i].notes \subseteq Note
        /\ runs[i].refresh \in BOOLEAN /\ runs[i].done \in BOOLEAN /\ runs[i].reverted \in BOOLEAN
    /\ \A m \in Migrators : migrator[m] # Unstarted => migrator[m].run \in DOMAIN runs
    /\ dial \in Dials /\ asked \subseteq Analyses
    /\ author \in [Analyses -> {"as analysed", "edited", "erased"}]
    /\ lost \subseteq Analyses

MigrationInit ==
    /\ before = [r \in Scored |-> TRUE] /\ after = [r \in Scored |-> NoScore]
    /\ runs = <<>> /\ migrator = [m \in Migrators |-> Unstarted]
    /\ dial = 1 /\ author = [k \in Analyses |-> "as analysed"] /\ asked = {}
    /\ storedOver = {} /\ lost = {} /\ overlapped = FALSE /\ pruned = FALSE /\ inHand = {}

-----------------------------------------------------------------------------
(* The script *)

(* Faulty variant: a run that has begun shuts the gate, finished or not. *)
GateShutByStarting ==
    \E i \in DOMAIN runs : /\ ~runs[i].refresh /\ runs[i].scope = Scored
                           /\ ~runs[i].reverted

(* alreadyRun: a run over everything has finished and was not undone. *)
GateShut ==
    \E i \in DOMAIN runs : /\ ~runs[i].refresh /\ runs[i].scope = Scored
                           /\ runs[i].done /\ ~runs[i].reverted

AtWork == {m \in Migrators : migrator[m] # Unstarted}

(* What a run walks: rows at the old version, or to refresh at the current one.  A *)
(* Triage row has one version, an analysis keeps the old one beside the new.        *)
Walked(run) ==
    {r \in run.scope : IF run.refresh THEN after[r] # NoScore ELSE before[r]}

(* Up to the row of the run.  A scope is --job or --triage; only a run over *)
(* everything that is not forced minds the gate.                             *)
StartRun(m, scope, refresh, force) ==
    LET run == [scope |-> scope, refresh |-> refresh, done |-> FALSE, reverted |-> FALSE,
                stale |-> FALSE, notes |-> {}]
    IN
    /\ migrator[m] = Unstarted /\ Len(runs) < MaxMigrations
    /\ refresh \/ force \/ scope # Scored \/ ~GateShut
    /\ refresh \/ Walked(run) # {}
    /\ runs' = Append(runs, run)
    /\ migrator' = [migrator EXCEPT ![m] = [at |-> "read", run |-> Len(runs) + 1,
                                            passed |-> 0, dial |-> dial]]
    /\ overlapped' = (overlapped \/ AtWork # {})
    /\ UNCHANGED <<after, serverVars, dial, storedOver, lost, pruned, inHand>>

Ahead(m) == {r \in Walked(runs[migrator[m].run]) : r > migrator[m].passed}

ReadPage(m) ==
    /\ migrator[m].at = "read" /\ Ahead(m) # {}
    /\ LET r == Min(Ahead(m)) IN
       migrator' = [migrator EXCEPT ![m] = [at |-> "write", run |-> @.run, passed |-> r, dial |-> @.dial,
                                            was |-> after[r]]]
    /\ UNCHANGED <<after, serverVars, runs, dial, scoreHistory>>

(* The transaction of a page writes `score` and notes `was`, or does neither. *)
WriteScore(m, writes, was, score) ==
    LET r == migrator[m].passed IN
    /\ after' = IF writes THEN [after EXCEPT ![r] = score] ELSE after
    /\ runs' = IF writes
               THEN [runs EXCEPT ![migrator[m].run].notes = @ \union {[row |-> r, was |-> was]}]
               ELSE runs
    /\ lost' = IF writes /\ after[r] # NoScore /\ after[r].by = "judged" /\ score.by # "judged"
               THEN lost \union {r} ELSE lost
    /\ migrator' = [migrator EXCEPT ![m] = [at |-> "read", run |-> @.run,
                                            passed |-> r, dial |-> @.dial]]
    /\ UNCHANGED <<dial, author, asked, storedOver, overlapped, pruned, inHand>>

(* An erased candidate counts as version 1, which is the version of the row. *)
MoveAnalysis(m) ==
    LET r == migrator[m].passed IN
    /\ migrator[m].at = "write" /\ ~runs[migrator[m].run].refresh /\ r \in Analyses
    /\ WriteScore(m, r \in Movable /\ author[r] # "edited" /\ after[r] = NoScore, NoScore,
                  NewScore("moved", migrator[m].dial))
    /\ UNCHANGED before

MoveApplicant(m) ==
    LET r == migrator[m].passed IN
    /\ migrator[m].at = "write" /\ ~runs[migrator[m].run].refresh /\ r \in Graded
    /\ WriteScore(m, r \in Movable, migrator[m].was, NewScore("moved", migrator[m].dial))
    /\ before' = [before EXCEPT ![r] = @ /\ r \notin Movable]

(* --refresh: the stored verdicts at the dial of today.  An UPDATE of a row that is *)
(* gone changes nothing, and is noted all the same.                                  *)
RefreshScore(m) ==
    LET r == migrator[m].passed IN
    /\ migrator[m].at = "write" /\ runs[migrator[m].run].refresh
    /\ WriteScore(m, TRUE, migrator[m].was,
                  IF after[r] = NoScore THEN NoScore
                  ELSE [migrator[m].was EXCEPT !.dial = migrator[m].dial])
    /\ UNCHANGED before

(* The end of a run, which drops the manifests of runs older than SCORE_MANIFEST_DAYS. *)
CompleteRun(m) ==
    LET i == migrator[m].run
        drops(j) == ~runs[i].refresh /\ runs[j].done /\ runs[j].stale /\ j # i
    IN
    /\ migrator[m].at = "read" /\ Ahead(m) = {}
    /\ runs' = [j \in DOMAIN runs |->
                  IF j = i THEN [runs[j] EXCEPT !.done = TRUE]
                  ELSE IF drops(j) THEN [runs[j] EXCEPT !.notes = {}] ELSE runs[j]]
    /\ pruned' = (pruned \/ \E j \in DOMAIN runs : drops(j) /\ runs[j].notes # {})
    /\ migrator' = [migrator EXCEPT ![m] = Unstarted]
    /\ UNCHANGED <<after, serverVars, dial, storedOver, lost, overlapped, inHand>>

KillMigrator(m) ==
    /\ migrator[m] # Unstarted
    /\ migrator' = [migrator EXCEPT ![m] = Unstarted]
    /\ UNCHANGED <<after, serverVars, runs, dial, scoreHistory>>

(* --revert --run: rows that were inserted go, others become what they were. *)
Revert ==
    LET standing == {i \in DOMAIN runs : ~runs[i].reverted}
        i == Max(standing)
        noted(r) == \E n \in runs[i].notes : n.row = r
        was(r) == (CHOOSE n \in runs[i].notes : n.row = r).was
        back == [r \in Scored |->
                    IF noted(r) /\ (~runs[i].refresh \/ after[r] # NoScore \/ r \in Graded)
                    THEN was(r) ELSE after[r]]
    IN
    /\ standing # {}
    /\ after' = back
    /\ before' = [r \in Scored |-> before[r] \/ (r \in Graded /\ noted(r) /\ ~runs[i].refresh)]
    /\ runs' = [runs EXCEPT ![i].reverted = TRUE]
    /\ lost' = lost \union {k \in Analyses : /\ after[k] # NoScore /\ after[k].by = "judged"
                                             /\ (back[k] = NoScore \/ back[k].by = "moved")}
    /\ overlapped' = (overlapped \/ AtWork # {})
    /\ UNCHANGED <<migrator, dial, author, asked, storedOver, pruned, inHand>>

-----------------------------------------------------------------------------
(* The server and the operator meanwhile *)

AskModel(k) ==
    /\ author[k] # "erased" /\ after[k] = NoScore /\ k \notin asked
    /\ asked' = asked \union {k}
    /\ UNCHANGED <<before, after, author, runs, migrator, dial, scoreHistory>>

(* writeCached: what is there is overwritten.  After an edit the row is another one. *)
StoreJudgement(k) ==
    /\ k \in asked
    /\ asked' = asked \ {k}
    /\ IF author[k] = "edited" THEN UNCHANGED <<after, storedOver>>
       ELSE /\ after' = [after EXCEPT ![k] = NewScore("judged", dial)]
            /\ storedOver' = IF after[k] = NoScore THEN storedOver ELSE storedOver \union {k}
    /\ UNCHANGED <<before, author, runs, migrator, dial, lost, overlapped, pruned, inHand>>

EditCandidate(k) ==
    /\ author[k] = "as analysed"
    /\ author' = [author EXCEPT ![k] = "edited"]
    /\ UNCHANGED <<before, asked, after, runs, migrator, dial, scoreHistory>>

(* deleteCandidateCompletely, which knows of the manifest.  A search that is under *)
(* way is left out: what it writes afterwards is in Profile.                        *)
EraseCandidate(k) ==
    /\ author[k] # "erased"
    /\ author' = [author EXCEPT ![k] = "erased"]
    /\ before' = [before EXCEPT ![k] = FALSE] /\ after' = [after EXCEPT ![k] = NoScore]
    /\ asked' = asked \ {k}
    /\ runs' = [i \in DOMAIN runs |-> [runs[i] EXCEPT !.notes = {n \in @ : n.row # k}]]
    /\ inHand' = inHand \union
            {j \in {k} : \E m \in Migrators : migrator[m].at = "write" /\ migrator[m].passed = j}
    /\ UNCHANGED <<migrator, dial, storedOver, lost, overlapped, pruned>>

TurnDial ==
    /\ dial < MaxDial
    /\ dial' = dial + 1
    /\ UNCHANGED <<after, serverVars, runs, migrator, scoreHistory>>

(* SCORE_MANIFEST_DAYS go by. *)
MonthPasses ==
    /\ \E i \in DOMAIN runs : ~runs[i].stale /\ runs[i].done
    /\ runs' = [i \in DOMAIN runs |-> [runs[i] EXCEPT !.stale = @ \/ runs[i].done]]
    /\ UNCHANGED <<after, serverVars, migrator, dial, scoreHistory>>

MigrationNext ==
    \/ Revert \/ TurnDial \/ MonthPasses
    \/ \E m \in Migrators :
        \/ \E scope \in {Scored, Analyses}, refresh, force \in BOOLEAN :
            StartRun(m, scope, refresh, force)
        \/ ReadPage(m) \/ MoveAnalysis(m) \/ MoveApplicant(m) \/ RefreshScore(m)
        \/ CompleteRun(m) \/ KillMigrator(m)
    \/ \E k \in Analyses : AskModel(k) \/ StoreJudgement(k) \/ EditCandidate(k) \/ EraseCandidate(k)

MigrationSpec == MigrationInit /\ [][MigrationNext]_migrationVars

-----------------------------------------------------------------------------
(* "This script fills gaps": no run takes away what the model said at the current
   version, forwards or back.  The exception is a row the search stored over one
   that was moved while it waited, which a revert removes with the rest although
   score-migrate.mjs:341 says that anything written since is untouched. *)
JudgementsStand == overlapped \/ lost \subseteq storedOver

(* While the gate of a boot is shut there is nothing left to move, whatever runs
   were killed, forced, scoped, undone or dropped before: nobody is judged again for
   a score that was on disk. *)
GateIsHonest ==
    ~overlapped /\ GateShut =>
        \A r \in Movable : /\ r \in Graded => ~before[r]
                           /\ r \in Analyses /\ before[r] /\ author[r] = "as analysed"
                                => after[r] # NoScore

(* Once every run was undone no moved score is left, a judgement is what it was before
   any refresh, and so is every Triage row, however runs were killed and followed by
   others, as long as no manifest was dropped. *)
RevertRestores ==
    ~overlapped /\ ~pruned /\ (\A i \in DOMAIN runs : runs[i].reverted) /\ AtWork = {} =>
        /\ \A k \in Analyses \ (inHand \union storedOver) : after[k] # NoScore =>
                after[k].by = "judged" /\ after[k].dial = after[k].first
        /\ \A a \in Graded : before[a] /\ after[a] = NoScore

(* An erasure takes a candidate out of the scores and out of every manifest, unless
   a page that had been read was still to be written. *)
ErasedLeavesNoScore ==
    \A k \in Analyses \ inHand :
        author[k] = "erased" =>
            /\ ~before[k] /\ after[k] = NoScore
            /\ \A i \in DOMAIN runs, n \in Note : n.row = k => n \notin runs[i].notes

MigrationIsSound ==
    /\ MigrationTypeOK /\ JudgementsStand /\ GateIsHonest /\ RevertRestores /\ ErasedLeavesNoScore
=============================================================================
