------------------------------- MODULE Paging -------------------------------
(***************************************************************************)
(* What paging through a search promises: the people it retrieved are handed  *)
(* out in order, a page at a time; nobody is handed out twice or skipped, and   *)
(* only who is erased leaves the line.                                         *)
(***************************************************************************)
EXTENDS Naturals, Sequences, FiniteSets, SequencesExt, Functions

CONSTANTS People, PageSize

VARIABLES
    waiting,    \* per search, who is still to be handed out, in order
    given       \* per search, who has been

pagingVars == <<waiting, given>>

Least(m, n) == IF m < n THEN m ELSE n

FirstPage(line) == {line[i] : i \in 1..Least(PageSize, Len(line))}
AfterFirstPage(line) == SubSeq(line, Least(PageSize, Len(line)) + 1, Len(line))

PagingInit == waiting = <<>> /\ given = <<>>

(* A search retrieves its line, each person once, and hands out the first page;
   somebody waits only behind a full one. *)
Open ==
    /\ Len(waiting') = Len(waiting) + 1 /\ Len(given') = Len(waiting')
    /\ Front(waiting') = waiting /\ Front(given') = given
    /\ LET first == Last(given')
           rest == Last(waiting')
       IN  /\ Cardinality(first) <= PageSize
           /\ rest # <<>> => Cardinality(first) = PageSize
           /\ IsInjective(rest) /\ ToSet(rest) \intersect first = {}

NextPage(s) ==
    /\ waiting' = [waiting EXCEPT ![s] = AfterFirstPage(waiting[s])]
    /\ given' = [given EXCEPT ![s] = @ \union FirstPage(waiting[s])]

(* The others close up; nobody is in a line twice. *)
ClosedUp(line, c) ==
    IF c \in ToSet(line) THEN RemoveAt(line, CHOOSE i \in DOMAIN line : line[i] = c) ELSE line

Leave(c) ==
    /\ waiting' = [s \in DOMAIN waiting |-> ClosedUp(waiting[s], c)]
    /\ given' = [s \in DOMAIN given |-> given[s] \ {c}]

PagingNext ==
    \/ Open
    \/ \E s \in DOMAIN waiting : NextPage(s)
    \/ \E c \in People : Leave(c)

PagingSpec == PagingInit /\ [][PagingNext]_pagingVars
=============================================================================
