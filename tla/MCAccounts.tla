----------------------------- MODULE MCAccounts -----------------------------
(* Sessions, Passwords, Codes, PublicDemo and TriageWallet for TLC.  They share no
   state: each is explored with the others at rest. *)
EXTENDS Sessions, Passwords, Codes, PublicDemo, TriageWallet, TLC

VARIABLE part

(* Handlers are the requests, whose names mean nothing, and so it is with accounts. *)
AccountsSymmetry == Permutations(Requests) \union Permutations(Recruiters)

(* One organization stands for all where the wallet is at rest. *)
AtRest == row = [t \in Triages |-> OlderRow(FALSE, 0)] /\ loose = [t \in Triages |-> 1] /\ split

Init ==
    /\ part \in {"sessions", "passwords", "codes", "demo", "wallet"}
    /\ SessionInit /\ PasswordInit /\ CodesInit /\ DemoInit /\ WalletInit
    /\ part # "wallet" => AtRest

Next ==
    /\ UNCHANGED part
    /\ \/ /\ part = "sessions" /\ SessionNext
          /\ UNCHANGED <<passwordVars, codesVars, demoVars, walletVars>>
       \/ /\ part = "passwords" /\ PasswordNext
          /\ UNCHANGED <<sessionVars, codesVars, demoVars, walletVars>>
       \/ /\ part = "codes" /\ CodesNext
          /\ UNCHANGED <<sessionVars, passwordVars, demoVars, walletVars>>
       \/ /\ part = "demo" /\ DemoNext
          /\ UNCHANGED <<sessionVars, passwordVars, codesVars, walletVars>>
       \/ /\ part = "wallet" /\ WalletNext
          /\ UNCHANGED <<sessionVars, passwordVars, codesVars, demoVars>>

Spec ==
    Init /\ [][Next]_<<part, sessionVars, passwordVars, codesVars, demoVars, walletVars>>
=============================================================================
