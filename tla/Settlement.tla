----------------------------- MODULE Settlement ------------------------------
(***************************************************************************)
(* What the payments component promises about one payment, without         *)
(* requests, tables or retries: collected by the payment provider, settled *)
(* in the school's books, receipted, announced to the family.  Each happens *)
(* at most once and in this order.  Only settling is promised to happen: a *)
(* receipt and an announcement may be lost.                                *)
(***************************************************************************)
EXTENDS Naturals

CONSTANT Payments

VARIABLES collected, settled, receipted, announced

stages == <<collected, settled, receipted, announced>>

Init ==
    /\ collected = {}
    /\ settled = {}
    /\ receipted = {}
    /\ announced = [p \in Payments |-> 0]

Collect(p) ==
    /\ p \notin collected
    /\ collected' = collected \union {p}
    /\ UNCHANGED <<settled, receipted, announced>>

Settle(p) ==
    /\ p \in collected \ settled
    /\ settled' = settled \union {p}
    /\ UNCHANGED <<collected, receipted, announced>>

Receipt(p) ==
    /\ p \in settled \ receipted
    /\ receipted' = receipted \union {p}
    /\ UNCHANGED <<collected, settled, announced>>

Announce(p) ==
    /\ p \in receipted
    /\ announced[p] = 0
    /\ announced' = [announced EXCEPT ![p] = 1]
    /\ UNCHANGED <<collected, settled, receipted>>

Next == \E p \in Payments : Collect(p) \/ Settle(p) \/ Receipt(p) \/ Announce(p)

SafeSpec == Init /\ [][Next]_stages

Spec == SafeSpec /\ \A p \in Payments : WF_stages(Settle(p))
==============================================================================
