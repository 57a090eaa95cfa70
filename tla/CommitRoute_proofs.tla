--------------------------- MODULE CommitRoute_proofs ---------------------------
(***************************************************************************)
(* Proofs about the key registry and the commitment route, for all sets of *)
(* keys, matrices, accounts and gas limits and any number of operations.   *)
(***************************************************************************)
EXTENDS CommitRoute, TLAPS

(* What the registry answers is the pair it was asked to bind.               *)
LEMMA OutcomeIsPair ==
  ASSUME RegistryTypeOK, NEW pk \in AnyKey, NEW aHat \in AnyMatrix,
         NEW pointer \in {RegisterOutcome(pk, aHat), ReplaceOutcome(pk, aHat)}, pointer # None
  PROVE  pointer = <<pk, aHat>> /\ pointer \in Pointers /\ pointer[1] = pk
<1>1. pointer = <<pk, aHat>>
  BY DEF RegisterOutcome, ReplaceOutcome, BindOutcome
<1>2. <<pk, aHat>> \in deployed \/ <<pk, aHat>> \in Pointers
  BY <1>1 DEF RegisterOutcome, ReplaceOutcome, BindOutcome
<1> QED
  BY <1>1, <1>2 DEF RegistryTypeOK

(* A registry step binds one key to a pair of its own.                       *)
LEMMA RegistryShape ==
  ASSUME RegistryTypeOK, RegistryNext
  PROVE  \E pk \in AnyKey, pointer \in Pointers :
           /\ pointer[1] = pk
           /\ expandedKey' = [expandedKey EXCEPT ![pk] = pointer]
           /\ deployed' = deployed \cup {pointer}
<1>1. PICK pk \in AnyKey, aHat \in AnyMatrix :
        Answer(pk, RegisterOutcome(pk, aHat)) \/ Answer(pk, ReplaceOutcome(pk, aHat))
  BY DEF RegistryNext, Register, Replace
<1>2. PICK pointer \in {RegisterOutcome(pk, aHat), ReplaceOutcome(pk, aHat)} : Answer(pk, pointer)
  BY <1>1
<1>3. pointer # None
  BY <1>2 DEF Answer
<1>4. pointer \in Pointers /\ pointer[1] = pk
  BY <1>3, OutcomeIsPair
<1> QED
  BY <1>2, <1>4 DEF Answer

LEMMA NoneIsNoPointer == None \notin Pointers
  BY DEF None, Pointers

RegistryInv == RegistryTypeOK /\ AnswersOwnDeployment

LEMMA RegistryStart == RegistryInit => RegistryInv
  BY DEF RegistryInit, RegistryInv, RegistryTypeOK, AnswersOwnDeployment, Registered

LEMMA RegistryKept ==
  ASSUME RegistryInv, RegistryNext
  PROVE  RegistryInv'
<1>0. RegistryTypeOK /\ AnswersOwnDeployment
  BY DEF RegistryInv
<1>1. PICK pk \in AnyKey, pointer \in Pointers :
        /\ pointer[1] = pk
        /\ expandedKey' = [expandedKey EXCEPT ![pk] = pointer]
        /\ deployed' = deployed \cup {pointer}
  BY <1>0, RegistryShape
<1>2. RegistryTypeOK'
  BY <1>0, <1>1 DEF RegistryTypeOK
<1>3. \A k \in AnyKey : expandedKey'[k] = IF k = pk THEN pointer ELSE expandedKey[k]
  BY <1>0, <1>1 DEF RegistryTypeOK
<1>4. pointer # None
  BY NoneIsNoPointer
<1>5. ASSUME NEW k \in AnyKey, Registered(k)'
      PROVE  expandedKey'[k] \in deployed' /\ expandedKey'[k][1] = k
  BY <1>0, <1>1, <1>3, <1>5 DEF AnswersOwnDeployment, Registered
<1>6. ASSUME NEW p \in deployed' PROVE Registered(p[1])'
  <2>1. p[1] \in AnyKey
    BY <1>1, <1>6, <1>2 DEF RegistryTypeOK, Pointers, AnyKey
  <2> QED
    BY <1>0, <1>1, <1>3, <1>4, <1>6, <2>1 DEF AnswersOwnDeployment, Registered
<1> QED
  BY <1>2, <1>5, <1>6 DEF RegistryInv, AnswersOwnDeployment
-----------------------------------------------------------------------------
(* A verdict is true or it is a revert; nothing but the types is needed.     *)
LEMMA Verdicts ==
  ASSUME NEW account, NEW hash, NEW p, NEW gas, NEW broken,
         NEW verdict, verdict = Validate7913(gas, broken, account, hash, p)
  PROVE  /\ verdict = "magic" => Genuine(account, hash, p)
         /\ verdict = "other" => ~Genuine(account, hash, p)
<1>0. PICK sgas : verdict = "reverts" \/ verdict = Read(SignerVerify(sgas, broken, account, hash, p))
  BY DEF Validate7913
<1> DEFINE sv == SignerVerify(sgas, broken, account, hash, p)
<1>1. PICK vgas : \/ sv = "reverts"
                  \/ sv = "other" /\ ~Genuine(account, hash, p)
                  \/ /\ p.whole /\ <<p.pk, p.opener>> = account /\ Registered(p.pk)
                     /\ sv = Read(VerifierAnswer(vgas, broken, expandedKey[p.pk], hash, p.sig))
  BY DEF SignerVerify, Genuine
<1> HIDE DEF sv
<1> DEFINE va == VerifierAnswer(vgas, broken, expandedKey[p.pk], hash, p.sig)
<1>2. /\ va = "magic" => Accepts(expandedKey[p.pk], hash, p.sig)
      /\ va = "other" => ~Accepts(expandedKey[p.pk], hash, p.sig)
  BY DEF VerifierAnswer
<1> HIDE DEF va
<1>3. /\ sv = "magic" => Genuine(account, hash, p)
      /\ sv = "other" => ~Genuine(account, hash, p)
  BY <1>1, <1>2 DEF Read, Genuine, va
<1> QED
  BY <1>0, <1>3 DEF Read, sv
-----------------------------------------------------------------------------
IInv == RouteTypeOK /\ AnswersOwnDeployment /\ SpendsAuthorized

(* What an executed operation has been shown to carry.                       *)
LEMMA HandledShape ==
  ASSUME RouteTypeOK, AnswersOwnDeployment, NEW op \in Ops, NEW gas, NEW broken,
         NEW p \in [whole : BOOLEAN, pk : Keys, opener : HidingWords, sig : authorizations],
         HandleOp(op, p, gas, broken)
  PROVE  \/ [by |-> op.account[1], hash |-> op] \in authorizations
         \/ /\ [by |-> REGISTRAR, hash |-> op] \in authorizations
            /\ \E q \in deployed : q[1] = op.account[1] /\ q[2] \in Trapdoored
<1> DEFINE pointer == expandedKey[p.pk]
<1>1. Genuine(op.account, op, p)
  BY Verdicts DEF HandleOp
<1>2. /\ <<p.pk, p.opener>> = op.account /\ Registered(p.pk) /\ p.sig \in authorizations /\ p.sig.hash = op
      /\ \/ p.sig.by \in Keys /\ pointer = <<p.sig.by, ExpandA[p.sig.by]>>
         \/ p.sig.by = REGISTRAR /\ pointer[2] \in Trapdoored
  BY <1>1 DEF Genuine, Accepts
<1>3. p.pk = op.account[1] /\ p.pk \in AnyKey
  BY <1>2 DEF AnyKey
<1>4. pointer \in deployed /\ pointer[1] = p.pk
  BY <1>2, <1>3 DEF AnswersOwnDeployment
<1>5. p.sig = [by |-> p.sig.by, hash |-> op]
  <2>1. p.sig \in Authorizations
    BY <1>2 DEF RouteTypeOK
  <2> QED
    BY <1>2, <2>1 DEF Authorizations
<1> HIDE DEF pointer
<1>6. CASE p.sig.by \in Keys /\ pointer = <<p.sig.by, ExpandA[p.sig.by]>>
  <2>1. p.sig.by = op.account[1]
    BY <1>3, <1>4, <1>6
  <2> QED
    BY <1>2, <1>5, <2>1
<1>7. CASE p.sig.by = REGISTRAR /\ pointer[2] \in Trapdoored
  BY <1>2, <1>3, <1>4, <1>5, <1>7
<1> QED
  BY <1>2, <1>6, <1>7 DEF pointer

LEMMA HandledKeeps ==
  ASSUME IInv, NEW op \in Ops, NEW gas, NEW broken,
         NEW p \in [whole : BOOLEAN, pk : Keys, opener : HidingWords, sig : authorizations],
         HandleOp(op, p, gas, broken)
  PROVE  IInv'
<1>0. RouteTypeOK /\ AnswersOwnDeployment /\ SpendsAuthorized
  BY DEF IInv
<1>1. /\ op.nonce = nonces[op.account] /\ nonces' = [nonces EXCEPT ![op.account] = @ + 1]
      /\ spends' = spends \cup {op} /\ UNCHANGED <<expandedKey, deployed, authorizations>>
  BY DEF HandleOp
<1>2. op.account \in Accounts /\ op.nonce \in 0..MaxOps - 1 /\ MaxOps \in Nat
  BY RouteAssumption DEF Ops
<1>3. \A a \in Accounts : nonces'[a] = IF a = op.account THEN nonces[a] + 1 ELSE nonces[a]
  BY <1>0, <1>1 DEF RouteTypeOK
<1>4. RouteTypeOK'
  <2>1. nonces' \in [Accounts -> 0..MaxOps]
    BY <1>0, <1>1, <1>2 DEF RouteTypeOK
  <2> QED
    BY <1>0, <1>1, <2>1 DEF RouteTypeOK, RegistryTypeOK
<1>5. AnswersOwnDeployment'
  BY <1>0, <1>1 DEF AnswersOwnDeployment, Registered
<1>6. SpendsAuthorized'
  <2>1. \/ [by |-> op.account[1], hash |-> op] \in authorizations
        \/ /\ [by |-> REGISTRAR, hash |-> op] \in authorizations
           /\ \E q \in deployed : q[1] = op.account[1] /\ q[2] \in Trapdoored
    BY <1>0, HandledShape
  <2> QED
    BY <1>0, <1>1, <2>1 DEF SpendsAuthorized
<1> QED
  BY <1>4, <1>5, <1>6 DEF IInv

LEMMA IInvHolds == RouteSpec => []IInv
<1>1. RouteInit => IInv
  <2> SUFFICES ASSUME RouteInit PROVE IInv
    OBVIOUS
  <2>1. RegistryInv
    BY RegistryStart DEF RouteInit
  <2>2. \A a \in Accounts : nonces[a] = 0
    BY DEF RouteInit
  <2>3. nonces \in [Accounts -> 0..MaxOps] /\ authorizations = {} /\ spends = {}
    BY RouteAssumption DEF RouteInit
  <2> QED
    BY <2>1, <2>2, <2>3 DEF IInv, RouteTypeOK, RegistryInv, SpendsAuthorized
<1>2. IInv /\ [RouteNext]_routeVars => IInv'
  <2> SUFFICES ASSUME IInv, [RouteNext]_routeVars PROVE IInv'
    OBVIOUS
  <2>0. RouteTypeOK /\ AnswersOwnDeployment /\ SpendsAuthorized /\ RegistryInv
    BY DEF IInv, RouteTypeOK, RegistryInv
  <2>1. CASE RegistryStep
    <3>1. UNCHANGED <<authorizations, nonces, spends>> /\ RegistryInv'
      BY <2>0, <2>1, RegistryKept DEF RegistryStep, accountVars
    <3>2. deployed \subseteq deployed'
      BY <2>0, <2>1, RegistryShape DEF RegistryStep, RegistryInv
    <3>3. SpendsAuthorized'
      BY <2>0, <3>1, <3>2 DEF SpendsAuthorized
    <3>4. RouteTypeOK'
      BY <2>0, <3>1 DEF RouteTypeOK, RegistryInv
    <3> QED
      BY <3>1, <3>3, <3>4 DEF IInv, RegistryInv
  <2>2. ASSUME NEW by \in Keys \cup {REGISTRAR}, NEW op \in Ops, Authorize(by, op) PROVE IInv'
    <3>1. /\ authorizations' = authorizations \cup {[by |-> by, hash |-> op]} /\ UNCHANGED <<expandedKey, deployed, nonces, spends>>
      BY <2>2 DEF Authorize
    <3>2. [by |-> by, hash |-> op] \in Authorizations
      BY DEF Authorizations
    <3>3. RouteTypeOK'
      BY <2>0, <3>1, <3>2 DEF RouteTypeOK, RegistryTypeOK
    <3>4. AnswersOwnDeployment'
      BY <2>0, <3>1 DEF AnswersOwnDeployment, Registered
    <3>5. SpendsAuthorized'
      BY <2>0, <3>1 DEF SpendsAuthorized
    <3> QED
      BY <3>3, <3>4, <3>5 DEF IInv
  <2>3. CASE \E op \in Ops, gas \in GasLimits, broken \in BOOLEAN :
               \E p \in [whole : BOOLEAN, pk : Keys, opener : HidingWords, sig : authorizations] :
                 HandleOp(op, p, gas, broken)
    BY <2>3, HandledKeeps
  <2>4. CASE UNCHANGED routeVars
    BY <2>0, <2>4 DEF routeVars, IInv, RouteTypeOK, RegistryTypeOK, AnswersOwnDeployment, Registered, SpendsAuthorized
  <2> QED
    BY <2>1, <2>2, <2>3, <2>4 DEF RouteNext
<1> QED
  BY <1>1, <1>2, PTL DEF RouteSpec

(* The types, for all constants.                                             *)
THEOREM TypeCorrect == RouteSpec => []RouteTypeOK
<1>1. IInv => RouteTypeOK
  BY DEF IInv
<1> QED
  BY <1>1, IInvHolds, PTL

(* A key is answered with a live contract made for that key.                 *)
THEOREM RegistryAnswersOwn == RouteSpec => []AnswersOwnDeployment
<1>1. IInv => AnswersOwnDeployment
  BY DEF IInv
<1> QED
  BY <1>1, IInvHolds, PTL

(* No operation is executed that neither the account's key nor a logged      *)
(* trapdoored binding authorizes.                                           *)
THEOREM Authorization == RouteSpec => []SpendsAuthorized
<1>1. IInv => SpendsAuthorized
  BY DEF IInv
<1> QED
  BY <1>1, IInvHolds, PTL

(* Neither gas nor a malfunction forges a verdict, in any state whatever.    *)
THEOREM VerdictsTrue == RouteSpec => []VerdictsAreTrue
<1>1. VerdictsAreTrue
  BY Verdicts DEF VerdictsAreTrue
<1> QED
  BY <1>1, PTL

(* The registrar can always correct a binding, also back to an earlier one.  *)
THEOREM RecoveryAlwaysOpen == RouteSpec => []RecoveryOpen
<1>1. RecoveryOpen
  BY DEF RecoveryOpen, ReplaceOutcome, BindOutcome, Pointers
<1> QED
  BY <1>1, PTL

(* No step unbinds a key or loses the contract it was bound to.              *)
THEOREM BindingsStay == RouteSpec => NeverUnbound
<1>1. IInv /\ [RouteNext]_routeVars => [StaysBound]_registryVars
  <2> SUFFICES ASSUME IInv, RouteNext, NEW pk \in AnyKey, Registered(pk), ~UNCHANGED registryVars
               PROVE  expandedKey'[pk] # None /\ expandedKey[pk] \in deployed'
    BY DEF routeVars, registryVars, StaysBound
  <2>0. RegistryTypeOK /\ AnswersOwnDeployment
    BY DEF IInv, RouteTypeOK
  <2>1. RegistryNext
    BY DEF RouteNext, RegistryStep, Authorize, HandleOp, registryVars
  <2>2. PICK k \in AnyKey, pointer \in Pointers :
          /\ expandedKey' = [expandedKey EXCEPT ![k] = pointer]
          /\ deployed' = deployed \cup {pointer}
    BY <2>0, <2>1, RegistryShape
  <2>3. expandedKey'[pk] \in {pointer, expandedKey[pk]}
    BY <2>0, <2>2 DEF RegistryTypeOK
  <2>4. expandedKey[pk] \in deployed /\ expandedKey[pk] # None
    BY <2>0 DEF AnswersOwnDeployment, Registered
  <2> QED
    BY <2>2, <2>3, <2>4, NoneIsNoPointer
<1> QED
  BY <1>1, IInvHolds, PTL DEF RouteSpec, NeverUnbound
=============================================================================
