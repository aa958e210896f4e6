---------------------------- MODULE MCRecruiter ----------------------------
(* What recruiters do, for TLC: they search, on a page that awaits the server, and they
   reveal whom they found, from a wallet that runs empty.  The two share no state: each
   is explored with the other at rest. *)
EXTENDS RevealWallet, SearchScreen, TLC

VARIABLE part

WalletSymmetry ==
    Permutations(Colleagues) \cup Permutations(Candidates) \cup Permutations(Requests)

RecruiterInit ==
    /\ part \in {"reveals", "searching"}
    /\ Init /\ SearchScreenInit
    /\ part # "searching" => box = Empty

RecruiterNext ==
    /\ UNCHANGED part
    /\ \/ part = "reveals" /\ Next /\ UNCHANGED searchScreenVars
       \/ part = "searching" /\ SearchScreenNext /\ UNCHANGED vars

RecruiterSpec == RecruiterInit /\ [][RecruiterNext]_<<part, vars, searchScreenVars>>
=============================================================================
