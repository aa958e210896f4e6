---------------------------- MODULE OneTimeCode ----------------------------
(***************************************************************************)
(* What a one-time code promises, whatever it opens: at most one code is    *)
(* worth anything at a time, it is the last one that was asked for, and it  *)
(* opens the door once.                                                     *)
(***************************************************************************)
CONSTANT Codes

VARIABLES
    issued,   \* the codes that were ever made
    live,     \* the code that is worth something: one or none
    used      \* the codes that opened the door

codeVars == <<issued, live, used>>

CodeInit == issued = {} /\ live = {} /\ used = {}

(* A new code takes the place of the one before it. *)
Issue ==
    \E c \in Codes \ issued :
        /\ issued' = issued \union {c}
        /\ live' = {c}
        /\ UNCHANGED used

Use ==
    /\ live # {}
    /\ used' = used \union live
    /\ live' = {}
    /\ UNCHANGED issued

(* Time, wrong guesses or a request that broke off end it. *)
Lapse == live' = {} /\ UNCHANGED <<issued, used>>

CodeNext == Issue \/ Use \/ Lapse

CodeSpec == CodeInit /\ [][CodeNext]_codeVars
=============================================================================
