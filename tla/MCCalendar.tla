----------------------------- MODULE MCCalendar -----------------------------
(* What days and months bring, for TLC: the end of a paid month to an organization's
   seats, and a candidate's silence to their profile.  They share no state: each is
   explored with the other at rest. *)
EXTENDS SeatPlan, Freshness

VARIABLE part

CalendarInit == part \in {"seats", "silence"} /\ SeatInit /\ FreshInit

CalendarNext ==
    /\ UNCHANGED part
    /\ \/ part = "seats" /\ SeatNext /\ UNCHANGED freshVars
       \/ part = "silence" /\ FreshNext /\ UNCHANGED seatVars

(* Seats at rest wait for nothing; a profile at rest does not grow older. *)
CalendarSpec ==
    /\ CalendarInit /\ [][CalendarNext]_<<part, seatVars, freshVars>>
    /\ WF_seatVars(part = "seats" /\ MonthEnds)
    /\ WF_seatVars(part = "seats" /\ ReadEntitlement)
    /\ WF_freshVars(part = "silence" /\ Day)
    /\ WF_freshVars(part = "silence" /\ Sweeping)
=============================================================================
