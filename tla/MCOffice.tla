------------------------------ MODULE MCOffice ------------------------------
(* What an organization's database keeps true while processes, days and builds pass,
   for TLC: reveals that divide themselves equally, CVs that come due, scores that a
   newer build migrates, the open page of a Triage, and contacts of one profile each.
   They share no state: each is explored with the others at rest. *)
EXTENDS RevealWallet, Retention, ScoreMigration, TriageScreen, Contacts

VARIABLE part

(* Whoever fits worst looks best at a first glance, and who may be added like the best. *)
QuickScores == [a \in Everybody |-> IF a \in {1, 2} THEN 1 ELSE a]

OfficeInit ==
    /\ part \in {"reveals", "retention", "migration", "screen", "contacts"}
    /\ Init /\ RetentionInit /\ MigrationInit /\ ScreenInit /\ ContactsInit
    /\ part # "retention" => \A t \in Piles : pile[t].lifecycle = "open"
    /\ part # "contacts" => Live = {}

OfficeNext ==
    /\ UNCHANGED part
    /\ \/ /\ part = "reveals" /\ NextDefault
          /\ UNCHANGED <<retentionVars, migrationVars, screenVars, contactsVars>>
       \/ /\ part = "retention" /\ RetentionNext
          /\ UNCHANGED <<vars, migrationVars, screenVars, contactsVars>>
       \/ /\ part = "migration" /\ MigrationNext
          /\ UNCHANGED <<vars, retentionVars, screenVars, contactsVars>>
       \/ /\ part = "screen" /\ ScreenNext
          /\ UNCHANGED <<vars, retentionVars, migrationVars, contactsVars>>
       \/ /\ part = "contacts" /\ ContactsNext
          /\ UNCHANGED <<vars, retentionVars, migrationVars, screenVars>>

OfficeSpec ==
    /\ OfficeInit
    /\ [][OfficeNext]_<<part, vars, retentionVars, migrationVars, screenVars, contactsVars>>
=============================================================================
