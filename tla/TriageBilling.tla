--------------------------- MODULE TriageBilling ---------------------------
(***************************************************************************)
(* What a triage session promises about money, whatever its queue does: a  *)
(* delivery is charged for once, only if there is capacity for all of it,  *)
(* and what is given back only grows, up to what that delivery cost.       *)
(***************************************************************************)
EXTENDS Integers, FiniteSetsExt

CONSTANTS
    MaxCvs,   \* the CVs a delivery may hold
    Drops,    \* the deliveries
    Capacity  \* the capacity of the organization to begin with

VARIABLES
    bill,    \* what each delivery was charged, and given back
    balance  \* the capacity that is left

billingVars == <<bill, balance>>

Init ==
    /\ bill = [d \in Drops |-> [charged |-> 0, refunded |-> 0]]
    /\ balance = Capacity

ChargeDelivery(d, n) ==
    /\ bill[d].charged = 0
    /\ balance >= n
    /\ bill' = [bill EXCEPT ![d].charged = n]
    /\ balance' = balance - n

(* Some of what was charged is given back, `back` being the totals. *)
GiveBack(back) ==
    /\ \A d \in Drops : bill[d].refunded <= back[d] /\ back[d] <= bill[d].charged
    /\ bill' = [d \in Drops |-> [charged |-> bill[d].charged, refunded |-> back[d]]]
    /\ balance' = balance + MapThenSumSet(LAMBDA d : back[d] - bill[d].refunded, Drops)

Next ==
    \/ \E d \in Drops, n \in 1..MaxCvs : ChargeDelivery(d, n)
    \/ \E back \in [Drops -> 0..MaxCvs] : GiveBack(back)

Spec == Init /\ [][Next]_billingVars
=============================================================================
