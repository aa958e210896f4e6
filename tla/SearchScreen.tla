---------------------------- MODULE SearchScreen ----------------------------
(* The search page of one recruiter (SearchTab, HrPanel.jsx, with the box of
   SearchHero.jsx) beside the server's saved searches.  The page keeps what it shows in
   states of their own (the text in the box, the results, the saved search they belong
   to, who is ruled out of it), and the functions that set them await the server between.

   An errand is one call of such a function: asked, answered by the server, heard by the
   page.  What a search finds is in Search, folders are in Shortlists; a search is its
   brief here, and everybody is found by it.  A job description may come from a file too,
   which the server reads while everything else goes on. *)
EXTENDS Naturals, FiniteSets

CONSTANTS
    Texts,      \* job descriptions
    Found,      \* candidates on every list
    MaxSaved,   \* bound: searches ever saved
    Errands,    \* bound: calls under way at a time (numbers)
    MaxReading, \* bound: files being read at a time
    Empty       \* null: no text, no results

ASSUME SearchScreenAssumption ==
    /\ MaxSaved \in Nat \ {0} /\ Empty \notin Texts
    /\ Errands \subseteq Nat /\ IsFiniteSet(Errands) /\ MaxReading \in Nat

VARIABLES
    \* the server
    searches,   \* search_chats: of (their brief) and out (search_dismissals), by id
    lastId,     \* AUTOINCREMENT
    \* the page
    box,        \* query
    editing, busy, loading,
    shown,      \* response, and the session it came with
    chatId,     \* 0 for null
    dismissed,
    errands,
    reading,    \* files on their way to the box: calls of attach()
    \* history
    replaced,   \* what a file said came into a box that was no longer open for it, and
                \* stands there in place of the brief that was searched or is being
    mixed,      \* what belongs to two searches may be on screen: searches overlapped, or
                \* one of their calls failed
    behind      \* the server may know of rulings the page does not: calls that report
                \* them overlapped, or one failed

searchServer == <<searches, lastId>>
searchPage == <<box, editing, busy, loading, shown, chatId, dismissed>>
attachments == <<reading, replaced>>
searchScreenVars == <<searchServer, searchPage, errands, attachments, mixed, behind>>

None == [kind |-> "none"]
UnderWay(kinds) == \E e \in Errands : errands[e].kind \in kinds

FreeErrand(e) == errands[e] = None /\ \A f \in Errands : f < e => errands[f] # None

(* Errands that change which search the page is about, and those that tell who is
   ruled out of it (opening a search runs it). *)
Moving == {"open", "search", "save", "delete"}
Telling == {"open", "search", "more", "dismiss"}

OutOf(c) == IF c \in DOMAIN searches THEN searches[c].out ELSE {}

SearchScreenTypeOK ==
    /\ DOMAIN searches \subseteq 1..lastId /\ lastId <= MaxSaved
    /\ \A c \in DOMAIN searches : searches[c] \in [of : Texts, out : SUBSET Found]
    /\ box \in Texts \union {Empty} /\ shown \in Texts \union {Empty}
    /\ chatId \in 0..lastId /\ dismissed \subseteq Found
    /\ \A e \in Errands : errands[e].kind \in Moving \union Telling \union {"none"}
    /\ reading \in 0..MaxReading /\ replaced \in BOOLEAN

(* search() begins: the box locks, and stays as it is until the answer. *)
Searching(e, text, chat) ==
    /\ busy' = TRUE /\ editing' = FALSE
    /\ errands' = [errands EXCEPT ![e] =
                      [kind |-> "search", at |-> "asked", of |-> text, chat |-> chat,
                       out |-> {}]]

(* A new account may come with the search of the demo, which is run at once. *)
SearchScreenInit ==
    /\ searches = [c \in {} |-> Empty] /\ lastId = 0
    /\ editing = FALSE /\ loading = FALSE /\ shown = Empty /\ chatId = 0 /\ dismissed = {}
    /\ mixed = FALSE /\ behind = FALSE /\ reading = 0 /\ replaced = FALSE
    /\ \/ box = Empty /\ busy = FALSE /\ errands = [e \in Errands |-> None]
       \/ /\ box \in Texts /\ busy = TRUE
          /\ errands = [e \in Errands |->
                IF \A f \in Errands : e <= f
                THEN [kind |-> "search", at |-> "asked", of |-> box, chat |-> 0, out |-> {}]
                ELSE None]

-----------------------------------------------------------------------------
(* What the recruiter does *)

(* Bound: nothing is promised of a page that is mixed until the next New search, and that
   is all its recruiter does there. *)
Followed == ~mixed

(* Whoever starts one errand while another is under way. *)
Crosses(moves, tells) ==
    /\ mixed' = UnderWay(moves)
    /\ behind' = (behind \/ mixed' \/ UnderWay(tells))

(* readOnly once submitted or busy; Modify unlocks it, also while it is busy. *)
Unlocked == (shown = Empty \/ editing) /\ ~busy

Type(text) ==
    /\ Followed /\ Unlocked
    /\ box' = text
    /\ UNCHANGED <<searchServer, editing, busy, loading, shown, chatId, dismissed, errands,
                   attachments, mixed, behind>>

(* attach(): a file is read for a box that is open and empty ... *)
Attach ==
    /\ Followed /\ Unlocked /\ box = Empty /\ reading < MaxReading
    /\ reading' = reading + 1
    /\ UNCHANGED <<searchServer, searchPage, errands, replaced, mixed, behind>>

(* ... and fills it when it has been read, whatever it holds by then. *)
HearAttach(text) ==
    /\ reading > 0 /\ reading' = reading - 1
    /\ box' = text
    /\ replaced' = (replaced \/ ~Unlocked)
    /\ UNCHANGED <<searchServer, editing, busy, loading, shown, chatId, dismissed, errands,
                   mixed, behind>>

(* It cannot be read, or the call is lost. *)
AttachFails ==
    /\ reading > 0 /\ reading' = reading - 1
    /\ UNCHANGED <<searchServer, searchPage, errands, replaced, mixed, behind>>

ModifySearch ==
    /\ Followed /\ shown # Empty /\ ~editing
    /\ editing' = TRUE
    /\ UNCHANGED <<searchServer, box, busy, loading, shown, chatId, dismissed, errands,
                   attachments, mixed, behind>>

Unsaved == Cardinality({e \in Errands : errands[e].kind = "save"
                            \/ (errands[e].kind = "search" /\ errands[e].chat = 0)})

(* A fresh search, which will be saved. *)
SubmitSearch(e) ==
    /\ Followed /\ Unlocked /\ box # Empty
    /\ FreeErrand(e) /\ lastId + Unsaved < MaxSaved
    /\ Searching(e, box, 0)
    /\ Crosses(Moving \union {"more"}, Telling) /\ replaced' = FALSE
    /\ UNCHANGED <<searchServer, box, loading, shown, chatId, dismissed, reading>>

(* The saved search is run with what stands in the box, be it another brief. *)
RefreshSearch(e) ==
    /\ Followed /\ shown # Empty /\ ~editing /\ ~busy /\ box # Empty
    /\ FreeErrand(e) /\ (chatId = 0 => lastId + Unsaved < MaxSaved)
    /\ Searching(e, box, chatId)
    /\ mixed' = (replaced \/ UnderWay(Moving \union {"more"})) /\ replaced' = FALSE
    /\ behind' = (behind \/ mixed' \/ UnderWay(Telling))
    /\ UNCHANGED <<searchServer, box, loading, shown, chatId, dismissed, reading>>

Cleared ==
    /\ chatId' = 0 /\ dismissed' = {} /\ box' = Empty /\ shown' = Empty
    /\ replaced' = FALSE

(* newSearch, from the rail: at rest it leaves nothing of the search before. *)
NewSearch ==
    /\ Cleared
    /\ mixed' = UnderWay(Moving \union {"more"})
    /\ behind' = (mixed' \/ UnderWay(Telling))
    /\ UNCHANGED <<searchServer, editing, busy, loading, errands, reading>>

(* From the rail, which is never disabled and lists what the server has. *)
OpenChat(e, c) ==
    /\ Followed /\ FreeErrand(e) /\ c \in DOMAIN searches
    /\ errands' = [errands EXCEPT ![e] = [kind |-> "open", at |-> "asked", chat |-> c]]
    /\ Crosses(Moving \union {"more"}, Telling)
    /\ UNCHANGED <<searchServer, searchPage, attachments>>

DeleteChat(e, c) ==
    /\ Followed /\ FreeErrand(e) /\ c \in DOMAIN searches
    /\ errands' = [errands EXCEPT ![e] =
                      [kind |-> "delete", at |-> "asked", chat |-> c, sits |-> c = chatId]]
    /\ Crosses(Moving \union {"more"}, {})
    /\ UNCHANGED <<searchServer, searchPage, attachments>>

ShowMore(e) ==
    /\ Followed /\ shown # Empty /\ ~loading /\ FreeErrand(e)
    /\ loading' = TRUE
    /\ errands' = [errands EXCEPT ![e] =
                      [kind |-> "more", at |-> "asked", of |-> shown, chat |-> chatId,
                       out |-> {}]]
    /\ Crosses(Moving, Telling)
    /\ UNCHANGED <<searchServer, box, editing, busy, shown, chatId, dismissed, attachments>>

(* Not relevant: the row is there, and the page knows of a saved search. *)
DismissFromList(e, p) ==
    /\ Followed /\ shown # Empty /\ chatId # 0 /\ p \notin dismissed /\ FreeErrand(e)
    /\ errands' = [errands EXCEPT ![e] =
                      [kind |-> "dismiss", at |-> "asked", chat |-> chatId, who |-> p,
                       role |-> IF UnderWay(Moving) THEN Empty ELSE shown, out |-> {}]]
    /\ Crosses({}, Moving \union Telling)
    /\ UNCHANGED <<searchServer, searchPage, attachments>>

-----------------------------------------------------------------------------
(* What the server answers *)

(* With who is ruled out, as the server has it. *)
Answered(e, out) == errands' = [errands EXCEPT ![e].at = "answered", ![e].out = out]

(* POST /api/hr/search: the saved search is looked up before the pipeline ... *)
BeginSearch(e) ==
    /\ errands[e].kind = "search" /\ errands[e].at = "asked"
    /\ errands[e].chat \in DOMAIN searches \union {0}
    /\ errands' = [errands EXCEPT ![e].at = "begun"]
    /\ UNCHANGED <<searchServer, searchPage, attachments, mixed, behind>>

(* ... and who is ruled out of it after. *)
AnswerSearch(e) ==
    /\ errands[e].kind = "search" /\ errands[e].at = "begun"
    /\ Answered(e, OutOf(errands[e].chat))
    /\ UNCHANGED <<searchServer, searchPage, attachments, mixed, behind>>

(* POST /api/hr/search/:sessionId/more *)
AnswerMore(e) ==
    /\ errands[e].kind = "more" /\ errands[e].at = "asked"
    /\ errands[e].chat \in DOMAIN searches \union {0}
    /\ Answered(e, OutOf(errands[e].chat))
    /\ UNCHANGED <<searchServer, searchPage, attachments, mixed, behind>>

(* POST /api/hr/chats *)
AnswerSave(e) ==
    /\ errands[e].kind = "save" /\ errands[e].at = "asked"
    /\ lastId' = lastId + 1
    /\ searches' = [c \in DOMAIN searches \union {lastId'} |->
                      IF c = lastId' THEN [of |-> errands[e].of, out |-> {}] ELSE searches[c]]
    /\ errands' = [errands EXCEPT ![e].at = "answered", ![e].chat = lastId']
    /\ UNCHANGED <<searchPage, attachments, mixed, behind>>

(* GET /api/hr/chats/:id *)
AnswerOpen(e) ==
    /\ errands[e].kind = "open" /\ errands[e].at = "asked"
    /\ errands[e].chat \in DOMAIN searches
    /\ errands' = [errands EXCEPT ![e] =
                      [kind |-> "open", at |-> "answered", chat |-> errands[e].chat,
                       of |-> searches[errands[e].chat].of]]
    /\ UNCHANGED <<searchServer, searchPage, attachments, mixed, behind>>

(* DELETE /api/hr/chats/:id *)
AnswerDelete(e) ==
    /\ errands[e].kind = "delete" /\ errands[e].at = "asked"
    /\ errands[e].chat \in DOMAIN searches
    /\ searches' = [c \in DOMAIN searches \ {errands[e].chat} |-> searches[c]]
    /\ errands' = [errands EXCEPT ![e].at = "answered"]
    /\ UNCHANGED <<lastId, searchPage, attachments, mixed, behind>>

(* POST /api/hr/chats/:id/dismissed *)
AnswerDismiss(e) ==
    /\ errands[e].kind = "dismiss" /\ errands[e].at = "asked"
    /\ errands[e].chat \in DOMAIN searches
    /\ searches' = [searches EXCEPT ![errands[e].chat].out = @ \union {errands[e].who}]
    /\ Answered(e, searches'[errands[e].chat].out)
    /\ UNCHANGED <<lastId, searchPage, attachments, mixed, behind>>

-----------------------------------------------------------------------------
(* What the page does with it *)

Done(e) == errands' = [errands EXCEPT ![e] = None]

(* The results are the answer's; a search that was saved before is restored, a fresh one
   goes on to be saved. *)
HearSearch(e) ==
    /\ errands[e].kind = "search" /\ errands[e].at = "answered"
    /\ shown' = errands[e].of /\ dismissed' = errands[e].out
    /\ IF errands[e].chat # 0
       THEN chatId' = errands[e].chat /\ busy' = FALSE /\ Done(e)
       ELSE /\ errands' = [errands EXCEPT ![e] =
                              [kind |-> "save", at |-> "asked", of |-> errands[e].of, chat |-> 0]]
            /\ UNCHANGED <<chatId, busy>>
    /\ UNCHANGED <<searchServer, box, editing, loading, attachments, mixed, behind>>

HearSave(e) ==
    /\ errands[e].kind = "save" /\ errands[e].at = "answered"
    /\ chatId' = errands[e].chat /\ busy' = FALSE
    /\ Done(e)
    /\ UNCHANGED <<searchServer, box, editing, loading, shown, dismissed, attachments, mixed, behind>>

(* The saved search is open before its results are there. *)
HearOpen(e) ==
    /\ errands[e].kind = "open" /\ errands[e].at = "answered"
    /\ chatId' = errands[e].chat /\ box' = errands[e].of
    /\ Searching(e, errands[e].of, errands[e].chat)
    /\ replaced' = FALSE
    /\ UNCHANGED <<searchServer, loading, shown, dismissed, reading, mixed, behind>>

HearMore(e) ==
    /\ errands[e].kind = "more" /\ errands[e].at = "answered"
    /\ shown' = errands[e].of /\ dismissed' = errands[e].out /\ loading' = FALSE
    /\ Done(e)
    /\ UNCHANGED <<searchServer, box, editing, busy, chatId, attachments, mixed, behind>>

HearDismiss(e) ==
    /\ errands[e].kind = "dismiss" /\ errands[e].at = "answered"
    /\ dismissed' = errands[e].out
    /\ Done(e)
    /\ UNCHANGED <<searchServer, box, editing, busy, loading, shown, chatId, attachments, mixed, behind>>

(* Faulty variant: the search leaves the rail and stays on the page. *)
HearDeleteKeeping(e) ==
    /\ errands[e].kind = "delete" /\ errands[e].at = "answered"
    /\ Done(e)
    /\ UNCHANGED <<searchServer, searchPage, attachments, mixed, behind>>

(* The search that was open at the press, which this render remembers. *)
HearDelete(e) ==
    /\ errands[e].kind = "delete" /\ errands[e].at = "answered"
    /\ IF errands[e].sits
       THEN Cleared ELSE UNCHANGED <<box, shown, chatId, dismissed, replaced>>
    /\ Done(e)
    /\ UNCHANGED <<searchServer, editing, busy, loading, reading, mixed, behind>>

(* Refused (the search is gone), or lost before the server or after it. *)
ErrandFails(e) ==
    /\ errands[e].kind # "none"
    /\ LET kind == errands[e].kind IN
       /\ busy' = (busy /\ kind \notin {"search", "save"})
       /\ loading' = (loading /\ kind # "more")
       /\ mixed' = (mixed \/ kind \in {"save", "delete"} \/ (kind = "search" /\ shown # Empty))
       /\ behind' = (behind \/ mixed' \/ kind = "dismiss")
    /\ Done(e)
    /\ UNCHANGED <<searchServer, box, editing, shown, chatId, dismissed, attachments>>

SearchScreenNext ==
    \/ ModifySearch \/ NewSearch \/ \E t \in Texts \union {Empty} : Type(t)
    \/ Attach \/ AttachFails \/ \E t \in Texts : HearAttach(t)
    \/ \E e \in Errands :
        \/ SubmitSearch(e) \/ RefreshSearch(e) \/ ShowMore(e)
        \/ BeginSearch(e) \/ AnswerSearch(e) \/ AnswerMore(e) \/ AnswerSave(e)
        \/ AnswerOpen(e) \/ AnswerDelete(e) \/ AnswerDismiss(e)
        \/ HearSearch(e) \/ HearSave(e) \/ HearOpen(e) \/ HearMore(e) \/ HearDismiss(e)
        \/ HearDelete(e) \/ ErrandFails(e)
        \/ \E c \in DOMAIN searches : OpenChat(e, c) \/ DeleteChat(e, c)
        \/ \E p \in Found : DismissFromList(e, p)

SearchScreenSpec == SearchScreenInit /\ [][SearchScreenNext]_searchScreenVars

-----------------------------------------------------------------------------
(* At rest, and unless searches overlapped or failed, the box holds the brief the results
   came from, but for a file whose text came too late and replaced it (attach() tests the
   box before it awaits the reading and not after), and the results belong to a saved search of their brief,
   which exists: "every search run from this screen has one" (dismissFromList). *)
ResultsAreOfOneSearch ==
    shown # Empty /\ ~mixed /\ ~UnderWay(Moving \union {"more"}) =>
        /\ editing \/ box = shown \/ replaced
        /\ chatId \in DOMAIN searches /\ searches[chatId].of = shown

(* Whoever is ruled out is ruled out of the role whose results the recruiter was looking
   at, however long the call takes and whatever is opened meanwhile; not promised while
   a search is on its way, when the page may know of one search and show another. *)
RulingsAreOfTheirRole ==
    \A e \in Errands :
        (errands[e].kind = "dismiss" /\ errands[e].role # Empty
         /\ errands[e].chat \in DOMAIN searches) =>
            searches[errands[e].chat].of = errands[e].role

(* At rest the page hides exactly the people ruled out of its search: a re-run, the next
   batch or a search reopened bring nobody back. *)
RuledOutStayOut ==
    (shown # Empty /\ ~behind /\ ~UnderWay(Moving \union Telling)) =>
        dismissed = OutOf(chatId)

(* What the page shows belongs together. *)
SearchScreenIsSound ==
    /\ SearchScreenTypeOK
    /\ ResultsAreOfOneSearch
    /\ RulingsAreOfTheirRole
    /\ RuledOutStayOut
=============================================================================
