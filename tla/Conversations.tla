---------------------------- MODULE Conversations ----------------------------
(***************************************************************************)
(* The conversation of one recruiter and one candidate (workspace.js, the      *)
(* thread routes of index.js): messages, thread rows that open and close,       *)
(* what each side has read, marked and cleared from its inbox.  Every handler    *)
(* is one step; the instants it compares are milliseconds, and several steps      *)
(* fit into one.  Emails are sent without being awaited and change nothing.        *)
(***************************************************************************)
EXTENDS Naturals, Sequences, FiniteSets, SequencesExt, FiniteSetsExt

CONSTANTS
    MaxMessages,    \* bound: messages written
    MaxThreads,     \* bound: thread rows
    MaxInstant      \* bound: the clock

ASSUME ConversationAssumption == MaxMessages \in Nat /\ {MaxThreads, MaxInstant} \subseteq Nat \ {0}

Parties == {"recruiter", "candidate"}
Other(p) == IF p = "candidate" THEN "recruiter" ELSE "candidate"

VARIABLES
    instant,    \* the clock
    there,      \* the candidate exists
    hasPaid,    \* hasRevealed, for the recruiter's company
    blocks,     \* the candidate blocks this employer
    messages,   \* in the order written
    threads,    \* message_threads: the status of each row, the newest last
    standing,   \* conversation_unread
    cleared,    \* conversation_hidden: hidden_at, 0 if there is none
    \* history
    clearedUpTo,    \* messages there were when the party last cleared its inbox
    openedUpTo,     \* ... when it last opened the conversation
    marked          \* who has marked it unread since

conversationVars == <<instant, there, hasPaid, blocks, messages, threads, standing, cleared,
                      clearedUpTo, openedUpTo, marked>>
pastVars == <<clearedUpTo, openedUpTo, marked>>

(* Whether newestThread is open, or closed; a new pair has none and is free to write. *)
RowIsOpen == threads # <<>> /\ Last(threads) = "open"
Closed == threads # <<>> /\ Last(threads) = "closed"
Indices == DOMAIN messages
From(p) == {i \in Indices : messages[i].from = p}

ConversationTypeOK ==
    /\ instant \in 1..MaxInstant
    /\ {there, hasPaid, blocks} \subseteq BOOLEAN
    /\ Len(messages) <= MaxMessages
    /\ \A i \in Indices :
        messages[i] \in [from : Parties, at : 1..instant, read : BOOLEAN, thread : DOMAIN threads]
    /\ \A r \in DOMAIN threads : threads[r] = "open" => r = Len(threads)
    /\ standing \subseteq Parties
    /\ cleared \in [Parties -> 0..MaxInstant]

ConversationInit ==
    /\ instant = 1 /\ there = TRUE /\ hasPaid = FALSE /\ blocks = FALSE
    /\ messages = <<>> /\ threads = <<>>
    /\ standing = {} /\ cleared = [p \in Parties |-> 0]
    /\ clearedUpTo = [p \in Parties |-> 0] /\ openedUpTo = [p \in Parties |-> 0]
    /\ marked = {}

-----------------------------------------------------------------------------
(* Inboxes.                                                                *)

NewestAt == Max({messages[i].at : i \in Indices} \union {0})

(* candidateThreads, recruiterThreads: the HAVING clause, and who has blocked. *)
ListedFor(p) ==
    /\ messages # <<>>
    /\ NewestAt > cleared[p]
    /\ p = "recruiter" => ~blocks

UnreadFrom(p) == {i \in From(p) : ~messages[i].read}

(* The number on the conversation: a standing mark counts as one. *)
Badge(p) == Max({Cardinality(UnreadFrom(Other(p))), IF p \in standing THEN 1 ELSE 0})

-----------------------------------------------------------------------------
(* Steps.  The recruiter's routes refuse somebody who blocks them, all but
   the list and the clearing of it.                                        *)

MayAct(p) == there /\ (p = "recruiter" => ~blocks)

(* openThread: a closed row is never revived. *)
Opened == IF RowIsOpen THEN threads ELSE Append(threads, "open")

(* sendMessage behind the two routes: nobody but a recruiter who has revealed
   the candidate writes first, and nobody into a closed conversation. *)
Send(p) ==
    /\ MayAct(p)
    /\ IF p = "recruiter" THEN hasPaid ELSE messages # <<>>
    /\ ~Closed
    /\ Len(messages) < MaxMessages
    /\ threads' = Opened
    /\ messages' = Append(messages, [from |-> p, at |-> instant, read |-> FALSE, thread |-> Len(threads')])
    /\ UNCHANGED <<instant, there, hasPaid, blocks, standing, cleared, pastVars>>

(* What is left of the standing marks when p reads. *)
Unmarked(p) == standing \ {p}

(* GET of the conversation: markThreadRead. *)
OpenConversation(p) ==
    /\ MayAct(p)
    /\ p = "candidate" => messages # <<>>
    /\ messages' = [i \in Indices |-> IF i \in From(Other(p)) THEN [messages[i] EXCEPT !.read = TRUE]
                                                            ELSE messages[i]]
    /\ standing' = Unmarked(p)
    /\ openedUpTo' = [openedUpTo EXCEPT ![p] = Len(messages)]
    /\ marked' = marked \ {p}
    /\ UNCHANGED <<instant, there, hasPaid, blocks, threads, cleared, clearedUpTo>>

(* Faulty variant: everything the other side wrote is unread again. *)
AllOf(own) == own

(* The message markThreadUnread takes up: the newest, if there is one. *)
NewestOf(own) == {i \in own : \A j \in own : messages[j].at < messages[i].at \/ j <= i}

MarkUnread(p) ==
    /\ MayAct(p)
    /\ messages # <<>>
    /\ messages' = [i \in Indices |-> IF i \in NewestOf(From(Other(p)))
                                          THEN [messages[i] EXCEPT !.read = FALSE] ELSE messages[i]]
    /\ standing' = standing \union {p}
    /\ marked' = marked \union {p}
    /\ UNCHANGED <<instant, there, hasPaid, blocks, threads, cleared, clearedUpTo, openedUpTo>>

(* Faulty variant: a row that is there already is left as it is. *)
ClearedOnce(p) == IF cleared[p] = 0 THEN instant ELSE cleared[p]

(* hideConversation: hidden_at is set again every time. *)
ClearedAt(p) == instant

Clear(p) ==
    /\ there
    /\ cleared' = [cleared EXCEPT ![p] = ClearedAt(p)]
    /\ clearedUpTo' = [clearedUpTo EXCEPT ![p] = Len(messages)]
    /\ UNCHANGED <<instant, there, hasPaid, blocks, messages, threads, standing, openedUpTo, marked>>

(* closeThread and reopenThread, the recruiter's alone. *)
Close ==
    /\ MayAct("recruiter")
    /\ messages # <<>> /\ RowIsOpen
    /\ threads' = [threads EXCEPT ![Len(threads)] = "closed"]
    /\ UNCHANGED <<instant, there, hasPaid, blocks, messages, standing, cleared, pastVars>>

Reopen ==
    /\ MayAct("recruiter")
    /\ ~RowIsOpen
    /\ Len(threads) < MaxThreads
    /\ threads' = Opened
    /\ UNCHANGED <<instant, there, hasPaid, blocks, messages, standing, cleared, pastVars>>

RevealFirst ==
    /\ MayAct("recruiter") /\ ~hasPaid
    /\ hasPaid' = TRUE
    /\ UNCHANGED <<instant, there, blocks, messages, threads, standing, cleared, pastVars>>

(* PATCH /api/candidate/me/blocked-companies. *)
ToggleBlock ==
    /\ there
    /\ blocks' = ~blocks
    /\ UNCHANGED <<instant, there, hasPaid, messages, threads, standing, cleared, pastVars>>

(* deleteCandidateCompletely, as far as the conversation goes. *)
Forget ==
    /\ there
    /\ there' = FALSE
    /\ messages' = <<>> /\ threads' = <<>>
    /\ standing' = {} /\ cleared' = [p \in Parties |-> 0]
    /\ clearedUpTo' = [p \in Parties |-> 0] /\ openedUpTo' = [p \in Parties |-> 0] /\ marked' = {}
    /\ UNCHANGED <<instant, hasPaid, blocks>>

Tick ==
    /\ there /\ instant < MaxInstant
    /\ instant' = instant + 1
    /\ UNCHANGED <<there, hasPaid, blocks, messages, threads, standing, cleared, pastVars>>

ConversationNext ==
    \/ \E p \in Parties : Send(p) \/ OpenConversation(p) \/ MarkUnread(p) \/ Clear(p)
    \/ Close \/ Reopen \/ RevealFirst \/ ToggleBlock \/ Forget \/ Tick

ConversationSpec == ConversationInit /\ [][ConversationNext]_conversationVars

-----------------------------------------------------------------------------
(* What a party cleared stays away until something arrives and comes back with
   it, however often it was cleared - save for a message of the very millisecond
   (hideConversation, the HAVING clause of candidateThreads). *)
ClearedUntilNews ==
    \A p \in Parties :
        /\ NewestAt # cleared[p] /\ (p = "recruiter" => ~blocks)
        => (ListedFor(p) = (Len(messages) > clearedUpTo[p]))

(* A closed row is history: it takes no more messages and never opens again,
   whoever writes, reopens and closes after it (openThread, reopenThread). *)
ClosedRowsRest ==
    [][\A r \in DOMAIN threads :
        threads[r] = "closed" /\ there' =>
            /\ threads'[r] = "closed"
            /\ {i \in DOMAIN messages' : messages'[i].thread = r} \subseteq Indices]_conversationVars

(* The badge counts what arrived since the conversation was opened, and a mark
   set by hand adds one at most and shows in any case: no "badge of eleven on a
   conversation with one thing outstanding", and none that stays lit
   (markThreadRead, markThreadUnread). *)
BadgeIsHonest ==
    \A p \in Parties :
        LET news == Cardinality({i \in From(Other(p)) : i > openedUpTo[p]})
        IN  IF p \in marked THEN Badge(p) \in {Max({news, 1}), news + 1} ELSE Badge(p) = news

(* What a party sees of a conversation: cleared until something new arrives, under a
   badge that counts that and nothing else, over rows that rest once they are closed. *)
ConversationIsSound ==
    [](ConversationTypeOK /\ ClearedUntilNews /\ BadgeIsHonest) /\ ClosedRowsRest
=============================================================================
