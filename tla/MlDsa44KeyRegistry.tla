------------------------- MODULE MlDsa44KeyRegistry -------------------------
(***************************************************************************)
(* TrustedMlDsa44KeyRegistry (contracts/src/MlDsa44KeyRegistry.sol): which *)
(* PKContract, holding an expanded matrix aHat, answers for a public key.  *)
(*                                                                         *)
(* The PKContract of (pk, aHat) lives at a CREATE2 address determined by   *)
(* the pair, so the pair itself is the pointer (keccak256 is injective     *)
(* here) and deploying a pair twice reverts.  Code never disappears.  A    *)
(* call that reverts leaves the state as it was: it is no step.            *)
(***************************************************************************)
EXTENDS CommitParameters, FiniteSets

VARIABLES
  expandedKey,  \* mapping(pkHash => pointer); None is address(0)
  deployed      \* the PKContracts this registry has created

registryVars == <<expandedKey, deployed>>

AnyKey == Keys \cup ShortKeys
AnyMatrix == Matrices \cup BadMatrices
Pointers == Keys \X Matrices
None == <<>>                       \* address(0), and what a reverting call returns

Registered(pk) == expandedKey[pk] # None

(* _bind: the length and shape checks, then the CREATE2 deployment. *)
(* (A definition named X_Slip is a slip X could have; no specification uses *)
(* it.)                                                                     *)
BindOutcome_AnyShape(pk, aHat) == IF pk \in Keys /\ <<pk, aHat>> \notin deployed
                                  THEN <<pk, aHat>> ELSE None

BindOutcome(pk, aHat) == IF <<pk, aHat>> \in Pointers \ deployed THEN <<pk, aHat>> ELSE None

(* register: a key is bound once. *)
RegisterOutcome(pk, aHat) == IF Registered(pk) THEN None ELSE BindOutcome(pk, aHat)

(* replace: an existing deployment of exactly this pair is answered again,  *)
(* any other pair is deployed.                                              *)
ReplaceOutcome_Redeploy(pk, aHat) == IF Registered(pk) THEN BindOutcome(pk, aHat) ELSE None

ReplaceOutcome_SaltedByMatrix(pk, aHat) ==
  IF ~Registered(pk) THEN None
  ELSE IF \E p \in deployed : p[2] = aHat THEN CHOOSE p \in deployed : p[2] = aHat
  ELSE BindOutcome(pk, aHat)

ReplaceOutcome(pk, aHat) == IF ~Registered(pk) THEN None
                            ELSE IF <<pk, aHat>> \in deployed THEN <<pk, aHat>>
                            ELSE BindOutcome(pk, aHat)

(* A call that answers no pointer has reverted. *)
Answer(pk, pointer) == /\ pointer # None
                       /\ expandedKey' = [expandedKey EXCEPT ![pk] = pointer]
                       /\ deployed' = deployed \cup {pointer}

Register(caller, pk, aHat) == /\ caller = REGISTRAR
                              /\ Answer(pk, RegisterOutcome(pk, aHat))

Replace(caller, pk, aHat) == /\ caller = REGISTRAR
                             /\ Answer(pk, ReplaceOutcome(pk, aHat))

RegistryInit == /\ expandedKey = [pk \in AnyKey |-> None]
                /\ deployed = {}

RegistryNext == \E caller \in Callers, pk \in AnyKey, aHat \in AnyMatrix :
                  Register(caller, pk, aHat) \/ Replace(caller, pk, aHat)
-----------------------------------------------------------------------------
RegistryTypeOK == /\ expandedKey \in [AnyKey -> Pointers \cup {None}]
                  /\ deployed \subseteq Pointers

(* The registry answers a key only with a deployed PKContract made for that *)
(* very key, and every deployment belongs to a key that still has an        *)
(* answer, so that register() can never run into a CREATE2 collision.       *)
AnswersOwnDeployment ==
  /\ \A pk \in AnyKey : Registered(pk) => expandedKey[pk] \in deployed /\ expandedKey[pk][1] = pk
  /\ \A p \in deployed : Registered(p[1])

(* After any history of correct and incorrect bindings the registrar can    *)
(* still bind a registered key to any well-formed matrix, one it had before *)
(* included (review F1: correct -> incorrect -> correct).                   *)
RecoveryOpen == \A pk \in Keys, aHat \in Matrices :
                  Registered(pk) => ReplaceOutcome(pk, aHat) = <<pk, aHat>>

StaysBound == \A pk \in AnyKey : Registered(pk) =>
                expandedKey'[pk] # None /\ expandedKey[pk] \in deployed'

(* A registered key never becomes unregistered, and what it was bound to    *)
(* stays deployed when replace() binds it anew.                             *)
NeverUnbound == [][StaysBound]_registryVars
=============================================================================
