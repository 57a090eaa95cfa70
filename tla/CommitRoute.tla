----------------------------- MODULE CommitRoute -----------------------------
(***************************************************************************)
(* The ML-DSA-44 commitment spend route, end to end: a stealth account     *)
(* (Stealth7913Account4337 over Pq7913Signer) whose immutable signer bytes *)
(* are MlDsa44CommitSigner7913 || commitment, the key registry it resolves *)
(* the expanded key through, and the EntryPoint that calls it.             *)
(*                                                                         *)
(* An account is named by what its commitment hides, <<pk, opener>>: the   *)
(* hashes spendKey, commitment and getUserOpHash are injective here.  A    *)
(* signature is the record of who made it over which hash.  The matrix of  *)
(* a PKContract is taken from the registrar on trust: one chosen for the   *)
(* purpose (Trapdoored) lets the registrar sign in the key's place.        *)
(***************************************************************************)
EXTENDS MlDsa44KeyRegistry

VARIABLES
  authorizations,  \* the ML-DSA signatures the key holders and the registrar have made
  nonces,          \* EntryPoint: the next nonce of each account (key 0)
  spends           \* the operations the EntryPoint has executed

accountVars == <<authorizations, nonces, spends>>
routeVars == <<expandedKey, deployed, authorizations, nonces, spends>>

Ops == [account : Accounts, nonce : 0..MaxOps - 1, to : Destinations]
Authorizations == [by : Keys \cup {REGISTRAR}, hash : Ops]
(* signature = pk || opener || sig; the length test of verify() is `whole`. *)
Payloads == [whole : BOOLEAN, pk : Keys, opener : HidingWords, sig : Authorizations]
-----------------------------------------------------------------------------
(* External: the ZKNOX verifier checks a signature under a PKContract...    *)
Accepts(pointer, hash, sig) ==
  /\ sig \in authorizations /\ sig.hash = hash
  /\ \/ sig.by \in Keys /\ pointer = <<sig.by, ExpandA[sig.by]>>
     \/ sig.by = REGISTRAR /\ pointer[2] \in Trapdoored

(* ...with the gas it is given.  With too little it does not complete; an    *)
(* answer that is not one canonical word is a malfunction, `broken`.        *)
VerifierAnswer(gas, broken, pointer, hash, sig) ==
  IF gas < VerifyGas THEN "reverts"
  ELSE IF broken THEN "malformed"
  ELSE IF Accepts(pointer, hash, sig) THEN "magic" ELSE "other"

(* EIP-150: a call forwards at most all but one 64th of what is left. *)
Forward(gas) == gas - gas \div 64

(* How a caller reads the answer of a layer it called: only a completed,    *)
(* well-formed answer is a verdict.                                         *)
Read_Swallow(answer) == IF answer = "magic" THEN "magic" ELSE "other"

Read(answer) == IF answer \in {"magic", "other"} THEN answer ELSE "reverts"

(* MlDsa44CommitSigner7913.verify *)
SignerVerify_NoOpening(gas, broken, key, hash, p) ==
  IF gas < SignerGas THEN "reverts"
  ELSE IF ~p.whole \/ ~Registered(p.pk) THEN "other"
  ELSE Read(VerifierAnswer(Forward(gas - SignerGas), broken, expandedKey[p.pk], hash, p.sig))

SignerVerify(gas, broken, key, hash, p) ==
  IF gas < SignerGas THEN "reverts"
  ELSE IF ~p.whole \/ <<p.pk, p.opener>> # key \/ ~Registered(p.pk) THEN "other"
  ELSE Read(VerifierAnswer(Forward(gas - SignerGas), broken, expandedKey[p.pk], hash, p.sig))

(* Pq7913Signer._validate7913, for a signer of verifier || key. *)
Validate7913(gas, broken, account, hash, p) ==
  IF gas < AccountGas THEN "reverts"
  ELSE Read(SignerVerify(Forward(gas - AccountGas), broken, account, hash, p))
-----------------------------------------------------------------------------
(* Anyone signs anything with the key it holds, the registrar with the      *)
(* trapdoor it keeps.                                                       *)
Authorize(by, op) == /\ Cardinality(authorizations) < MaxAuthorizations
                     /\ authorizations' = authorizations \cup {[by |-> by, hash |-> op]}
                     /\ UNCHANGED <<expandedKey, deployed, nonces, spends>>

(* External, EntryPoint.handleOps: the nonce, then validateUserOp of the      *)
(* account (Validate7913).  A signature that is invalid (AA24), a validation *)
(* that reverts (AA23) and a stale nonce (AA25) all revert the bundle.       *)
(* Otherwise the nonce is consumed and execute() runs; whether its inner     *)
(* call succeeds changes nothing here.                                       *)
HandleOp(op, p, gas, broken) ==
  /\ op.nonce = nonces[op.account]
  /\ Validate7913(gas, broken, op.account, op, p) = "magic"
  /\ nonces' = [nonces EXCEPT ![op.account] = @ + 1]
  /\ spends' = spends \cup {op}
  /\ UNCHANGED <<expandedKey, deployed, authorizations>>

RegistryStep == RegistryNext /\ UNCHANGED accountVars

RouteInit == /\ RegistryInit
             /\ authorizations = {} /\ nonces = [a \in Accounts |-> 0] /\ spends = {}

RouteNext == \/ RegistryStep
             \/ \E by \in Keys \cup {REGISTRAR}, op \in Ops : Authorize(by, op)
             \/ \E op \in Ops, gas \in GasLimits, broken \in BOOLEAN :
                  \E p \in [whole : BOOLEAN, pk : Keys, opener : HidingWords, sig : authorizations] :
                    HandleOp(op, p, gas, broken)

RouteSpec == RouteInit /\ [][RouteNext]_routeVars
-----------------------------------------------------------------------------
RouteTypeOK == /\ RegistryTypeOK
               /\ authorizations \subseteq Authorizations
               /\ nonces \in [Accounts -> 0..MaxOps]
               /\ spends \subseteq Ops

(* An operation is executed only when the holder of the account's key has   *)
(* signed that very operation, whichever payload the bundler relays and     *)
(* whatever wrong matrices the registrar has bound; the one exception is a  *)
(* trapdoored matrix bound to that key, which stays deployed and logged     *)
(* (verify(), steps 2-4, and the registry's trust note).                    *)
SpendsAuthorized ==
  \A op \in spends :
    \/ [by |-> op.account[1], hash |-> op] \in authorizations
    \/ /\ [by |-> REGISTRAR, hash |-> op] \in authorizations
       /\ \E p \in deployed : p[1] = op.account[1] /\ p[2] \in Trapdoored

(* The verdict the state justifies, whatever the gas and the backend do.    *)
Genuine(account, hash, p) ==
  /\ p.whole /\ <<p.pk, p.opener>> = account
  /\ Registered(p.pk) /\ Accepts(expandedKey[p.pk], hash, p.sig)

(* No gas limit and no backend malfunction turns a genuine signature into   *)
(* "invalid" or a bad one into "valid": a verdict is true or it is a revert *)
(* (issue #32, review F5).                                                  *)
VerdictsAreTrue ==
  \A p \in [whole : BOOLEAN, pk : Keys, opener : HidingWords, sig : authorizations] :
    \A op \in Ops, gas \in GasLimits, broken \in BOOLEAN :
      LET verdict == Validate7913(gas, broken, op.account, op, p)
      IN  /\ verdict = "magic" => Genuine(op.account, op, p)
          /\ verdict = "other" => ~Genuine(op.account, op, p)
=============================================================================
