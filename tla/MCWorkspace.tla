---------------------------- MODULE MCWorkspace ----------------------------
(* A candidate's profile, the searches that find it, the batches they judge, what the
   judgements and keywords are worth, and the shortlists and conversations that follow,
   for TLC.  They share no state: each is explored with the others at rest. *)
EXTENDS Profile, Search, Judging, Scoring, Keywords, Shortlists, Conversations, TLC

VARIABLE part

(* Uploads, Requests, Team and Pooled are the same two names, which mean nothing. *)
WorkspaceSymmetry == Permutations(Requests)

(* One answer of the model stands for all where nothing is scored. *)
Unscored ==
    /\ silence = Max(Silences) /\ friction = 0 /\ stored = Unknown
    /\ answer = [job |-> [r \in Requirements |-> "preferred"], said |-> [r \in Requirements |-> "meets"]]

Init ==
    /\ part \in {"profile", "search", "judging", "scoring", "keywords", "shortlists", "conversations"}
    /\ ProfileInit /\ SearchInit /\ JudgingInit /\ ScoringInit /\ KeywordsInit
    /\ ShortlistInit /\ ConversationInit
    /\ part # "scoring" => Unscored

Next ==
    /\ UNCHANGED part
    /\ \/ /\ part = "profile" /\ ProfileNext
          /\ UNCHANGED <<searchVars, judgingVars, scoringVars, reading,
                         shortlistVars, conversationVars>>
       \/ /\ part = "search" /\ SearchNext
          /\ UNCHANGED <<profileVars, judgingVars, scoringVars, reading,
                         shortlistVars, conversationVars>>
       \/ /\ part = "judging" /\ JudgingNext
          /\ UNCHANGED <<profileVars, searchVars, scoringVars, reading,
                         shortlistVars, conversationVars>>
       \/ /\ part = "scoring" /\ ScoringNext
          /\ UNCHANGED <<profileVars, searchVars, judgingVars, reading,
                         shortlistVars, conversationVars>>
       \/ /\ part = "keywords" /\ KeywordsNext
          /\ UNCHANGED <<profileVars, searchVars, judgingVars, scoringVars,
                         shortlistVars, conversationVars>>
       \/ /\ part = "shortlists" /\ ShortlistNext
          /\ UNCHANGED <<profileVars, searchVars, judgingVars, scoringVars,
                         reading, conversationVars>>
       \/ /\ part = "conversations" /\ ConversationNext
          /\ UNCHANGED <<profileVars, searchVars, judgingVars, scoringVars,
                         reading, shortlistVars>>

Spec ==
    /\ Init
    /\ [][Next]_<<part, profileVars, searchVars, judgingVars, scoringVars, reading,
                 shortlistVars, conversationVars>>
=============================================================================
