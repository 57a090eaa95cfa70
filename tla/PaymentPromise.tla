--------------------------- MODULE PaymentPromise ---------------------------
(***************************************************************************)
(* What the sending side of the protocol promises about a stealth payment, *)
(* whatever wallet, network or page performs it.  Paying a one-time        *)
(* address and announcing it are two transactions; the promise is the      *)
(* order of the two: nothing is announced before the wallet has seen its   *)
(* payment settle, and a payment never goes back.                          *)
(***************************************************************************)
CONSTANT Payments       \* names of the one-time addresses that can be paid

VARIABLE stage          \* [Payments -> Stages]

Stages == {"none", "broadcast", "settled", "announced"}

Init == stage = [p \in Payments |-> "none"]

Broadcast(p) == /\ stage[p] = "none"
                /\ stage' = [stage EXCEPT ![p] = "broadcast"]

Settle(p) == /\ stage[p] = "broadcast"
             /\ stage' = [stage EXCEPT ![p] = "settled"]

Announce(p) == /\ stage[p] = "settled"
               /\ stage' = [stage EXCEPT ![p] = "announced"]

Next == \E p \in Payments : Broadcast(p) \/ Settle(p) \/ Announce(p)

Spec == Init /\ [][Next]_stage
=============================================================================
