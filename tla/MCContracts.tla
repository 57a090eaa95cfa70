----------------------------- MODULE MCContracts -----------------------------
(***************************************************************************)
(* The contracts, side by side: PointerSig, CommitRoute with the key       *)
(* registry, and KeyExchange.  They share no state; a behaviour runs one   *)
(* of the three (a bound).                                                 *)
(*                                                                         *)
(* PointerSig has one EOA (classic or hybrid), two ML-DSA keys, of which   *)
(* p2 owns nothing, and two C13 keys, of which c2 owns nothing; the key    *)
(* contract fixed has one answer, moving answers p1 or p2.  A key signs    *)
(* for the owners some mode takes its scheme for.  CommitRoute has two     *)
(* keys, one of them with two accounts.                                    *)
(***************************************************************************)
EXTENDS PointerSig, CommitRoute, KeyExchange

CONSTANTS e1, p1, p2, c1, c2, o1, fixed, moving,   \* of PointerSig
          pk1, pk2, a1, a2, w1, w2                 \* of CommitRoute

VARIABLE part  \* the part that runs

SomeOwners == {Eoa(e1), PqAddress(p1), PqAddressOf(c1), PqAddressOf(Commitment(c1, o1))}
Answers == fixed :> {p1} @@ moving :> {p1, p2}
SchemeOwners == [k \in SigningKeys |-> IF k \in C13Keys
                                       THEN {PqAddressOf(c1), PqAddressOf(Commitment(c1, o1))}
                                       ELSE {Eoa(e1), PqAddress(p1)}]
VaultSymmetry == Permutations(Vaults)

Expansion == [pk \in {pk1, pk2} |-> IF pk = pk1 THEN a1 ELSE a2]
TwoAccounts == {<<pk1, w1>>, <<pk1, w2>>}

ContractsInit ==
  /\ part \in {"pointer", "route", "exchange"}
  /\ Init /\ RouteInit /\ ExchangeInit

ContractsNext ==
  /\ UNCHANGED part
  /\ \/ part = "pointer" /\ Next /\ UNCHANGED <<routeVars, exchangeVars>>
     \/ part = "route" /\ RouteNext /\ UNCHANGED <<vars, exchangeVars>>
     \/ part = "exchange" /\ ExchangeNext /\ UNCHANGED <<vars, routeVars>>

ContractsSpec == ContractsInit /\ [][ContractsNext]_<<part, vars, routeVars, exchangeVars>>
=============================================================================
