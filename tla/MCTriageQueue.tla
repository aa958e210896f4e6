--------------------------- MODULE MCTriageQueue ---------------------------
(* TriageQueue for TLC: who sent which of the CVs. *)
EXTENDS TriageQueue

(* Everybody sends one CV. *)
Everyone == [c \in Cvs |-> c]
Everybody == [c \in Cvs |-> <<c, "plain">>]

(* The first and the last CV come from the same person. *)
Sender(c) == IF c = MaxCvs THEN 1 ELSE c

Resent == [c \in Cvs |-> Sender(c)]
ResentPlain == [c \in Cvs |-> <<Sender(c), "plain">>]
=============================================================================
