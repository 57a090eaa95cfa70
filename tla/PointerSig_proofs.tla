--------------------------- MODULE PointerSig_proofs ---------------------------
(***************************************************************************)
(* Proofs about the pointer-signature registry and vault, for all sets of  *)
(* vaults, keys, owners and amounts and withdrawals nested to any depth.   *)
(*                                                                         *)
(* A failing payment restores a storage saved on the stack, so the         *)
(* inductive invariant says of every saved storage what it says of the     *)
(* current one.                                                            *)
(***************************************************************************)
EXTENDS PointerSig, WellFoundedInduction, FiniteSetTheorems, SequenceTheorems, TLAPS

(* Induction over data.  The library's induction theorems take an operator;   *)
(* that the order of the naturals is well founded does not, and a set of       *)
(* counterexamples has a least element.                                       *)
LEMMA LeastNat ==
  ASSUME NEW T, T \subseteq Nat, T # {}
  PROVE  \E n \in T : \A m \in T : ~(m < n)
<1> DEFINE R == OpToRel(<, Nat)
<1>1. IsWellFoundedOn(R, Nat)
  BY NatLessThanWellFounded
<1>2. \E n \in T : \A m \in T : ~(<<m, n>> \in R)
  <2> HIDE DEF R
  <2> QED
    BY <1>1, WFMin
<1> QED
  BY <1>2 DEF OpToRel
-----------------------------------------------------------------------------
(* The sum of a function over a finite set, as MapThenSumSet computes it: the *)
(* elements are taken off in the order CHOOSE gives.                          *)
Pick(t) == CHOOSE x \in t : TRUE

IsIter(f, S, g) == g = [t \in SUBSET S |-> IF t = {} THEN 0 ELSE f[Pick(t)] + g[t \ {Pick(t)}]]

Iter(f, S) == CHOOSE g : IsIter(f, S, g)

Sum(f, S) == Iter(f, S)[S]

LEMMA PickIn == \A t : t # {} => Pick(t) \in t
  BY DEF Pick

IterSteps(f, S, g) == \A t \in SUBSET S : g[t] = IF t = {} THEN 0 ELSE f[Pick(t)] + g[t \ {Pick(t)}]

LEMMA IterAt ==
  ASSUME NEW f, NEW S, NEW g, IsIter(f, S, g)
  PROVE  \A t \in SUBSET S : g[t] = IF t = {} THEN 0 ELSE f[Pick(t)] + g[t \ {Pick(t)}]
  BY DEF IsIter

LEMMA IterStepsAll == \A f, S, g : IsIter(f, S, g) => IterSteps(f, S, g)
  BY IterAt DEF IterSteps

(* Sets that shrink: the least set of a family. *)
LEMMA LeastSet ==
  ASSUME NEW F, F # {}, \A t \in F : IsFiniteSet(t)
  PROVE  \E t \in F : \A x \in t : t \ {x} \notin F
<1> DEFINE T == {Cardinality(t) : t \in F}
<1>1. T \subseteq Nat /\ T # {}
  BY FS_CardinalityType
<1>2. PICK n \in T : \A m \in T : ~(m < n)
  <2> HIDE DEF T
  <2> QED
    BY <1>1, LeastNat
<1>3. PICK t \in F : n = Cardinality(t)
  OBVIOUS
<1>4. ASSUME NEW x \in t, t \ {x} \in F PROVE FALSE
  <2>1. Cardinality(t \ {x}) = Cardinality(t) - 1
    BY <1>4, FS_RemoveElement
  <2>2. Cardinality(t) \in Nat
    BY FS_CardinalityType
  <2>3. Cardinality(t \ {x}) \in T
    BY <1>4
  <2> QED
    BY <1>2, <1>3, <2>1, <2>2, <2>3
<1> QED
  BY <1>4

(* Two iterations over the same function agree where both are defined. *)
LEMMA IterUnique ==
  ASSUME NEW f, NEW S1, NEW S2, NEW g1, NEW g2, IsIter(f, S1, g1), IsIter(f, S2, g2),
         NEW t \in (SUBSET S1) \cap (SUBSET S2), IsFiniteSet(t)
  PROVE  g1[t] = g2[t]
<1> DEFINE F == {u \in SUBSET t : g1[u] # g2[u]}
<1>1. SUFFICES ASSUME F # {} PROVE FALSE
  OBVIOUS
<1>2. \A u \in F : IsFiniteSet(u)
  BY FS_Subset
<1>3. PICK u \in F : \A x \in u : u \ {x} \notin F
  <2> HIDE DEF F
  <2> QED
    BY <1>1, <1>2, LeastSet
<1>4. CASE u = {}
  BY <1>4, IterAt
<1>5. CASE u # {}
  <2>1. Pick(u) \in u
    BY <1>5, PickIn
  <2>2. g1[u \ {Pick(u)}] = g2[u \ {Pick(u)}]
    BY <1>3, <2>1
  <2>3. g1[u] = f[Pick(u)] + g1[u \ {Pick(u)}] /\ g2[u] = f[Pick(u)] + g2[u \ {Pick(u)}]
    BY <1>5, IterAt
  <2> QED
    BY <2>2, <2>3
<1> QED
  BY <1>4, <1>5

(* The recursive function exists: built on a least set that would have none   *)
(* from those on its proper subsets.                                          *)
LEMMA IterExists ==
  ASSUME NEW f, NEW S, IsFiniteSet(S)
  PROVE  IsIter(f, S, Iter(f, S))
<1> DEFINE F == {s \in SUBSET S : ~ \E g : IsIter(f, s, g)}
<1>1. SUFFICES ASSUME F # {} PROVE FALSE
  <2>1. \E g : IsIter(f, S, g)
    BY <1>1
  <2> QED
    BY <2>1 DEF Iter
<1>2. \A s \in F : IsFiniteSet(s)
  BY FS_Subset
<1>3. PICK s \in F : \A x \in s : s \ {x} \notin F
  <2> HIDE DEF F
  <2> QED
    BY <1>1, <1>2, LeastSet
<1>4. ASSUME NEW x \in s, NEW u \in SUBSET (s \ {x}) PROVE IsIter(f, u, Iter(f, u))
  <2>1. PICK g : IsIter(f, s \ {x}, g)
    BY <1>3, <1>4
  <2>0. \A t \in SUBSET (s \ {x}) : g[t] = IF t = {} THEN 0 ELSE f[Pick(t)] + g[t \ {Pick(t)}]
    BY <2>1, IterAt
  <2> DEFINE h == [t \in SUBSET u |-> g[t]]
  <2>2. \A t \in SUBSET u : h[t] = IF t = {} THEN 0 ELSE f[Pick(t)] + h[t \ {Pick(t)}]
    <3> TAKE t \in SUBSET u
    <3>1. t \in SUBSET (s \ {x})
      BY <1>4
    <3>2. g[t] = IF t = {} THEN 0 ELSE f[Pick(t)] + g[t \ {Pick(t)}]
      BY <2>0, <3>1
    <3> QED
      BY <3>2
  <2>3. IsIter(f, u, h)
    <3> HIDE DEF h
    <3>1. h = [t \in SUBSET u |-> h[t]]
      BY DEF h
    <3> QED
      BY <2>2, <3>1 DEF IsIter
  <2> QED
    BY <2>3 DEF Iter
<1> DEFINE G(u) == Iter(f, u)[u]
           h == [t \in SUBSET s |-> IF t = {} THEN 0 ELSE f[Pick(t)] + G(t \ {Pick(t)})]
<1>5. \A t \in SUBSET s : t # {} => h[t \ {Pick(t)}] = G(t \ {Pick(t)})
  <2> SUFFICES ASSUME NEW t \in SUBSET s, t # {} PROVE h[t \ {Pick(t)}] = G(t \ {Pick(t)})
    OBVIOUS
  <2> DEFINE u == t \ {Pick(t)}
  <2>1. Pick(t) \in s /\ u \in SUBSET (s \ {Pick(t)}) /\ u \in SUBSET s
    BY PickIn
  <2>2. IsIter(f, u, Iter(f, u))
    BY <1>4, <2>1
  <2>3. G(u) = IF u = {} THEN 0 ELSE f[Pick(u)] + Iter(f, u)[u \ {Pick(u)}]
    <3> HIDE DEF u
    <3> QED
      BY <2>2, IterAt
  <2>4. CASE u = {}
    BY <2>1, <2>3, <2>4
  <2>5. CASE u # {}
    <3> DEFINE w == u \ {Pick(u)}
    <3>1. Pick(u) \in s /\ w \in SUBSET (s \ {Pick(u)}) /\ w \in SUBSET u
      BY <2>1, <2>5, PickIn
    <3>2. IsIter(f, w, Iter(f, w))
      BY <1>4, <3>1
    <3>3. IsFiniteSet(w)
      BY <2>1, <3>1, FS_Subset
    <3>4. Iter(f, u)[w] = Iter(f, w)[w]
      <4> HIDE DEF u, w
      <4> QED
        BY <2>2, <3>1, <3>2, <3>3, IterUnique
    <3>5. h[u] = f[Pick(u)] + G(w)
      BY <2>1, <2>5
    <3> QED
      BY <2>3, <2>5, <3>4, <3>5
  <2> QED
    BY <2>4, <2>5
<1>6. h = [t \in SUBSET s |-> IF t = {} THEN 0 ELSE f[Pick(t)] + h[t \ {Pick(t)}]]
  <2>1. \A t \in SUBSET s : h[t] = IF t = {} THEN 0 ELSE f[Pick(t)] + h[t \ {Pick(t)}]
    BY <1>5
  <2>2. h = [t \in SUBSET s |-> h[t]]
    OBVIOUS
  <2> HIDE DEF h
  <2> QED
    BY <2>1, <2>2
<1>7. IsIter(f, s, h)
  <2> HIDE DEF h
  <2> QED
    BY <1>6 DEF IsIter
<1> QED
  BY <1>3, <1>7

(* Changing one value changes the sum by as much.  CHOOSE takes the elements  *)
(* off in the same order for both functions, so no reordering is involved.    *)
LEMMA IterChange ==
  ASSUME NEW S, IsFiniteSet(S), NEW f, NEW y \in S, NEW d \in Int,
         \A x \in S : f[x] \in Int,
         NEW g, \A x \in S : g[x] = IF x = y THEN f[x] + d ELSE f[x],
         NEW a, NEW b, IterSteps(f, S, a), IterSteps(g, S, b)
  PROVE  a[S] \in Int /\ b[S] = a[S] + d
<1> DEFINE F == {t \in SUBSET S : ~(a[t] \in Int /\ b[t] = IF y \in t THEN a[t] + d ELSE a[t])}
<1>2. SUFFICES ASSUME F # {} PROVE FALSE
  OBVIOUS
<1>3. \A t \in F : IsFiniteSet(t)
  BY FS_Subset
<1>4. PICK t \in F : \A x \in t : t \ {x} \notin F
  <2> HIDE DEF F
  <2> QED
    BY <1>2, <1>3, LeastSet
<1>5. /\ a[t] = IF t = {} THEN 0 ELSE f[Pick(t)] + a[t \ {Pick(t)}]
      /\ b[t] = IF t = {} THEN 0 ELSE g[Pick(t)] + b[t \ {Pick(t)}]
  BY DEF IterSteps
<1>6. CASE t = {}
  BY <1>5, <1>6
<1>7. CASE t # {}
  <2> DEFINE x == Pick(t)
             u == t \ {x}
  <2>1. x \in t /\ x \in S /\ u \in SUBSET S
    BY <1>7, PickIn
  <2>2. u \notin F
    BY <1>4, <2>1
  <2>3. a[u] \in Int /\ b[u] = IF y \in u THEN a[u] + d ELSE a[u]
    BY <2>1, <2>2
  <2>4. y \in u <=> y \in t /\ y # x
    OBVIOUS
  <2>5. a[t] = f[x] + a[u] /\ b[t] = g[x] + b[u]
    BY <1>5, <1>7
  <2>6. f[x] \in Int /\ g[x] = IF x = y THEN f[x] + d ELSE f[x]
    BY <2>1
  <2>7. a[t] \in Int /\ b[t] = IF y \in t THEN a[t] + d ELSE a[t]
    <3> HIDE DEF x, u
    <3> QED
      BY <2>1, <2>3, <2>4, <2>5, <2>6
  <2> QED
    BY <2>7
<1> QED
  BY <1>6, <1>7

LEMMA SumChange ==
  ASSUME NEW S, IsFiniteSet(S), NEW f, NEW y \in S, NEW d \in Int,
         \A x \in S : f[x] \in Int,
         NEW g, \A x \in S : g[x] = IF x = y THEN f[x] + d ELSE f[x]
  PROVE  Sum(f, S) \in Int /\ Sum(g, S) = Sum(f, S) + d
<1>1. IsIter(f, S, Iter(f, S)) /\ IsIter(g, S, Iter(g, S))
  BY IterExists
<1>2. IterSteps(f, S, Iter(f, S)) /\ IterSteps(g, S, Iter(g, S))
  BY <1>1, IterStepsAll
<1> QED
  BY <1>2, IterChange DEF Sum

LEMMA OwedIsSum == \A vault : Owed(vault) = Sum(chain.balanceOf[vault], Owners)
  BY DEF Owed, Sum, Iter, IsIter, Pick, MapThenSumSet, MapThenFoldSet

LEMMA IterZero ==
  ASSUME NEW S, IsFiniteSet(S), NEW f, \A x \in S : f[x] = 0, NEW a, IsIter(f, S, a)
  PROVE  a[S] = 0
<1> DEFINE F == {t \in SUBSET S : a[t] # 0}
<1>1. \A u \in SUBSET S : a[u] = IF u = {} THEN 0 ELSE f[Pick(u)] + a[u \ {Pick(u)}]
  BY IterAt
<1>2. SUFFICES ASSUME F # {} PROVE FALSE
  OBVIOUS
<1>3. \A t \in F : IsFiniteSet(t)
  BY FS_Subset
<1>4. PICK t \in F : \A x \in t : t \ {x} \notin F
  <2> HIDE DEF F
  <2> QED
    BY <1>2, <1>3, LeastSet
<1>5. a[t] = IF t = {} THEN 0 ELSE f[Pick(t)] + a[t \ {Pick(t)}]
  BY <1>1
<1>6. t # {} => Pick(t) \in t
  BY PickIn
<1> QED
  BY <1>4, <1>5, <1>6

LEMMA SumZero ==
  ASSUME NEW S, IsFiniteSet(S), NEW f, \A x \in S : f[x] = 0
  PROVE  Sum(f, S) = 0
<1>1. IsIter(f, S, Iter(f, S))
  BY IterExists
<1> QED
  BY <1>1, IterZero DEF Sum
-----------------------------------------------------------------------------
(* Type correctness, one lemma for each operation *)

LEMMA PopType ==
  ASSUME NEW T, NEW q \in Seq(T), q # <<>>, NEW p, p = SubSeq(q, 1, Len(q) - 1)
  PROVE  p \in Seq(T) /\ q[Len(q)] \in T /\ \A i \in DOMAIN p : i \in DOMAIN q /\ p[i] = q[i]
<1>1. Len(q) \in 1..Len(q) /\ Len(q) - 1 \in 0..Len(q)
  BY EmptySeq, LenProperties
<1> QED
  BY <1>1, SubSeqProperties, ElementOfSeq, LenProperties

LEMMA PublishableTyped == TypeOK => Publishable \subseteq Blobs
  BY DEF TypeOK, Publishable, Blobs, By, Signatures, SigningKeys

LEMMA IntentsTyped == Intents \subseteq Withdrawals
  BY InputsAssumption DEF Intents, Withdrawals

LEMMA TypeStart == Init => TypeOK
<1> SUFFICES ASSUME Init PROVE TypeOK
  OBVIOUS
<1>1. EmptyChain \in Chains
  BY DEF EmptyChain, Chains
<1> QED
  BY <1>1 DEF Init, TypeOK

LEMMA RegisterTyped ==
  ASSUME TypeOK, NEW k \in EcKeys, NEW c \in Contracts, NEW pk \in PqKeys, RegisterKey(k, c, pk)
  PROVE  TypeOK'
<1>1. [pkContract |-> c, pk |-> pk, classic |-> k] \in KeyEntries
  BY DEF KeyEntries, RegisterKey
<1>2. Append(chain.keys, [pkContract |-> c, pk |-> pk, classic |-> k]) \in Seq(KeyEntries)
  BY <1>1, AppendProperties DEF TypeOK, Chains
<1> QED
  BY <1>2 DEF TypeOK, RegisterKey, Chains

LEMMA PublishTyped ==
  ASSUME TypeOK, NEW blob \in Publishable, PublishSignature(blob)
  PROVE  TypeOK'
<1>1. Append(chain.blobs, blob) \in Seq(Blobs)
  BY PublishableTyped, AppendProperties DEF TypeOK, Chains
<1> QED
  BY <1>1 DEF TypeOK, PublishSignature, Chains

LEMMA DepositTyped ==
  ASSUME TypeOK, NEW vault \in Vaults, NEW owner \in Owners, NEW value \in Amounts,
         DepositFor(vault, owner, value)
  PROVE  TypeOK'
<1>0. value \in Nat
  BY InputsAssumption
<1>1. chain.balanceOf[vault] \in [Owners -> Nat] /\ chain.eth \in [Vaults -> Nat]
  BY DEF TypeOK, Chains
<1>2. [chain.balanceOf[vault] EXCEPT ![owner] = @ + value] \in [Owners -> Nat]
  BY <1>0, <1>1
<1>3. [chain.eth EXCEPT ![vault] = @ + value] \in [Vaults -> Nat]
  BY <1>0, <1>1
<1> QED
  BY <1>0, <1>1, <1>2, <1>3 DEF TypeOK, DepositFor, Chains

(* What a withdrawal writes, one field at a time *)
LEMMA WithdrawShape ==
  ASSUME TypeOK, NEW vault \in Vaults, NEW owner \in Owners, NEW to \in Receivers,
         NEW amount \in Amounts, NEW v \in Versions, NEW r, NEW s,
         Withdraw(vault, owner, to, amount, v, r, s)
  PROVE  LET w == Request(vault, owner, to, amount) IN
         /\ w \in Withdrawals /\ w.vault = vault /\ w.owner = owner /\ w.nonce = chain.nonces[vault][owner]
         /\ w.nonce < MaxNonce /\ Recovers(WithdrawDigest(w), v, r, s, owner)
         /\ amount \in Nat /\ amount <= chain.balanceOf[vault][owner] /\ amount <= chain.eth[vault]
         /\ stack' = Append(stack, chain) /\ signed' = signed
         /\ chain' = [keys |-> chain.keys, blobs |-> chain.blobs,
                      payouts |-> Append(chain.payouts, Payout(w, v, r)),
                      eth |-> [chain.eth EXCEPT ![vault] = @ - amount],
                      balanceOf |-> [chain.balanceOf EXCEPT ![vault][owner] = @ - amount],
                      nonces |-> [chain.nonces EXCEPT ![vault][owner] = @ + 1]]
<1>1. amount \in Nat
  BY InputsAssumption
<1>2. Request(vault, owner, to, amount) \in Withdrawals
  BY <1>1 DEF Request, Withdrawals, TypeOK, Chains
<1> QED
  BY <1>1, <1>2 DEF Withdraw, Request, Paying, TypeOK, Chains

LEMMA PayoutTyped ==
  ASSUME InputsAssumption, NEW w \in Withdrawals, NEW v \in Versions, NEW r \in RWords(v)
  PROVE  Payout(w, v, r) \in Payouts
<1>1. v \in {"pq", "hybrid"} => r \in 0..MaxKeys
  BY DEF RWords
<1>2. MaxKeys \in Nat
  BY DEF InputsAssumption
<1> QED
  BY <1>1, <1>2 DEF Payout, Payouts

LEMMA WithdrawTyped ==
  ASSUME TypeOK, NEW vault \in Vaults, NEW owner \in Owners, NEW to \in Receivers,
         NEW amount \in Amounts, NEW v \in Versions, NEW r \in RWords(v), NEW s,
         Withdraw(vault, owner, to, amount, v, r, s)
  PROVE  TypeOK'
<1> DEFINE w == Request(vault, owner, to, amount)
<1>1. /\ w \in Withdrawals
      /\ amount \in Nat /\ amount <= chain.balanceOf[vault][owner] /\ amount <= chain.eth[vault]
      /\ stack' = Append(stack, chain) /\ signed' = signed
      /\ chain' = [keys |-> chain.keys, blobs |-> chain.blobs,
                   payouts |-> Append(chain.payouts, Payout(w, v, r)),
                   eth |-> [chain.eth EXCEPT ![vault] = @ - amount],
                   balanceOf |-> [chain.balanceOf EXCEPT ![vault][owner] = @ - amount],
                   nonces |-> [chain.nonces EXCEPT ![vault][owner] = @ + 1]]
  BY WithdrawShape
<1> HIDE DEF w
<1>2. Append(chain.payouts, Payout(w, v, r)) \in Seq(Payouts)
  BY <1>1, PayoutTyped, InputsAssumption, AppendProperties DEF TypeOK, Chains
<1>3. chain.balanceOf[vault] \in [Owners -> Nat] /\ chain.eth \in [Vaults -> Nat]
      /\ chain.nonces[vault] \in [Owners -> Nat]
  BY DEF TypeOK, Chains
<1>4. [chain.eth EXCEPT ![vault] = @ - amount] \in [Vaults -> Nat]
  BY <1>1, <1>3
<1>5. [chain.balanceOf EXCEPT ![vault][owner] = @ - amount] \in [Vaults -> [Owners -> Nat]]
  BY <1>1, <1>3 DEF TypeOK, Chains
<1>6. [chain.nonces EXCEPT ![vault][owner] = @ + 1] \in [Vaults -> [Owners -> Nat]]
  BY <1>1, <1>3 DEF TypeOK, Chains
<1>7. chain' \in Chains
  BY <1>1, <1>2, <1>4, <1>5, <1>6 DEF TypeOK, Chains
<1>8. stack' \in Seq(Chains)
  BY <1>1, AppendProperties DEF TypeOK
<1> QED
  BY <1>1, <1>7, <1>8 DEF TypeOK

LEMMA ReturnTyped == ASSUME TypeOK, Return \/ Revert PROVE TypeOK'
<1>1. Pop \in Seq(Chains) /\ stack[Len(stack)] \in Chains
  BY PopType DEF TypeOK, Return, Revert, Pop
<1> QED
  BY <1>1 DEF TypeOK, Return, Revert, Undo

LEMMA SignTyped ==
  ASSUME TypeOK, NEW k \in SigningKeys, NEW w \in Intents, Sign(k, w)
  PROVE  TypeOK'
  BY IntentsTyped DEF TypeOK, Sign, Signatures

LEMMA TypeKept == TypeOK /\ [Next]_vars => TypeOK'
<1> SUFFICES ASSUME TypeOK, [Next]_vars PROVE TypeOK'
  OBVIOUS
<1>1. CASE \E k \in EcKeys, c \in Contracts, pk \in PqKeys : RegisterKey(k, c, pk)
  BY <1>1, RegisterTyped
<1>2. CASE \E blob \in Publishable : PublishSignature(blob)
  BY <1>2, PublishTyped
<1>3. CASE \E vault \in Vaults, owner \in Owners, value \in Amounts : DepositFor(vault, owner, value)
  BY <1>3, DepositTyped
<1>4. CASE \E vault \in Vaults, owner \in Owners, to \in Receivers, amount \in Amounts, v \in Versions :
             \E r \in RWords(v), s \in SWords(v) : Withdraw(vault, owner, to, amount, v, r, s)
  BY <1>4, WithdrawTyped
<1>5. CASE Return \/ Revert
  BY <1>5, ReturnTyped
<1>6. CASE \E k \in SigningKeys, w \in Intents : Sign(k, w)
  BY <1>6, SignTyped
<1>7. CASE UNCHANGED vars
  BY <1>7 DEF TypeOK, vars
<1> QED
  BY <1>1, <1>2, <1>3, <1>4, <1>5, <1>6, <1>7 DEF Next

(* Every storage, the current one and each that a revert would restore, has    *)
(* its type; balances never go below zero (PointerSigVault's checked           *)
(* subtraction never fails after its own guards).                             *)
THEOREM TypeCorrect == Spec => []TypeOK
  BY TypeStart, TypeKept, PTL DEF Spec
-----------------------------------------------------------------------------
(* The inductive invariant *)

(* The current storage and those withdrawals in progress would restore. *)
Storages == {chain} \cup {stack[i] : i \in DOMAIN stack}

SolventIn(c) == \A vault \in Vaults : c.eth[vault] = Sum(c.balanceOf[vault], Owners)

(* NonceCountsPayouts, with what makes it inductive: no nonce passes its      *)
(* bound, and no payout carries a nonce the owner has yet to use.             *)
CountedIn(c) ==
  \A vault \in Vaults, owner \in Owners :
    LET next == c.nonces[vault][owner]
        For(i) == c.payouts[i].what.vault = vault /\ c.payouts[i].what.owner = owner
    IN /\ next <= MaxNonce
       /\ \A i \in DOMAIN c.payouts : For(i) => c.payouts[i].what.nonce < next
       /\ \A n \in 0..MaxNonce : n < next => \E i \in DOMAIN c.payouts : For(i) /\ c.payouts[i].what.nonce = n
       /\ \A i, j \in DOMAIN c.payouts :
            For(i) /\ For(j) /\ c.payouts[i].what.nonce = c.payouts[j].what.nonce => i = j

(* A payout and the keys of its registry: who signed it. *)
Warranted(p, keys, signatures) ==
  LET SignedBy(k) == [by |-> k, what |-> p.what] \in signatures
      entry == keys[p.key + 1] IN
  /\ p.v \in {"pq", "hybrid"} => p.key < Len(keys) /\ \E k \in PublicKeys[entry.pkContract] : SignedBy(k)
  /\ p.v = "hybrid" => p.what.owner = Eoa(entry.classic) /\ SignedBy(entry.classic)
  /\ (p.v = "pq" => OneAnswer(entry.pkContract)) =>
       \E k \in SigningKeys : Controls(k, p.what.owner) /\ SignedBy(k)

AuthorizedIn(c) == \A i \in DOMAIN c.payouts : Warranted(c.payouts[i], c.keys, signed)

IInv == /\ TypeOK
        /\ \A c \in Storages : SolventIn(c) /\ CountedIn(c) /\ AuthorizedIn(c)

(* A verified signature is the record of its signer and of that very request. *)
LEMMA VerifiedIsSigned ==
  ASSUME TypeOK, NEW sig, NEW k, NEW w \in Withdrawals, Verifies(sig, k, WithdrawDigest(w))
  PROVE  [by |-> k, what |-> w] \in signed
<1>1. sig \in Signatures /\ sig \in signed /\ sig.by = k
  BY DEF TypeOK, Verifies
<1>2. sig.what \in Withdrawals
  BY <1>1 DEF Signatures
<1>3. sig.what = w
  BY <1>2 DEF Verifies, WithdrawDigest, Withdrawals
<1> QED
  BY <1>1, <1>3 DEF Signatures

LEMMA KeyTyped ==
  ASSUME TypeOK, NEW r \in Nat, HasKey(r)
  PROVE  Key(r) \in KeyEntries
  BY ElementOfSeq DEF TypeOK, Chains, HasKey, Key

LEMMA SigTyped ==
  ASSUME TypeOK, NEW s \in Nat, NEW kind, HasSig(s, kind)
  PROVE  Sig(s) \in Blobs /\ Sig(s).kind = kind
  BY ElementOfSeq DEF TypeOK, Chains, HasSig, Sig

LEMMA RecoveredWarranted ==
  ASSUME TypeOK, NEW w \in Withdrawals, NEW v \in Versions, NEW r \in RWords(v), NEW s \in SWords(v),
         Recovers(WithdrawDigest(w), v, r, s, w.owner)
  PROVE  Warranted(Payout(w, v, r), chain.keys, signed)
<1> DEFINE p == Payout(w, v, r)
<1>0. p.what = w /\ p.v = v /\ (v \in {"pq", "hybrid"} => p.key = r)
  BY DEF Payout
<1>n. MaxKeys \in Nat /\ MaxBlobs \in Nat
  BY InputsAssumption
<1>r. v \in {"pq", "hybrid"} => r \in Nat
  BY <1>n DEF RWords
<1>s. v # "classic" => s \in Nat
  BY <1>n DEF SWords
<1> HIDE DEF p
<1>1. CASE v = "classic"
  <2>1. PICK k \in EcKeys : Verifies(s, k, WithdrawDigest(w)) /\ w.owner = Eoa(k)
    BY <1>1 DEF Recovers
  <2> QED
    BY <1>0, <1>1, <2>1, VerifiedIsSigned DEF Warranted, Controls, SigningKeys, p
<1>2. CASE v = "pq"
  <2>1. HasKey(r) /\ VerifiesPq(Sig(s).sig, r, WithdrawDigest(w)) /\ w.owner = PqAddress(Key(r).pk)
    BY <1>2 DEF Recovers
  <2>2. PICK k \in PublicKeys[Key(r).pkContract] : [by |-> k, what |-> w] \in signed
    BY <2>1, VerifiedIsSigned DEF VerifiesPq
  <2>3. Key(r).pk \in PqKeys /\ Key(r).pk \in PublicKeys[Key(r).pkContract]
    BY <1>2, <1>r, <2>1, KeyTyped DEF KeyEntries
  <2>4. OneAnswer(Key(r).pkContract) => k = Key(r).pk
    BY <2>3 DEF OneAnswer
  <2>5. Key(r).pk \in SigningKeys /\ Controls(Key(r).pk, w.owner)
    BY <2>1, <2>3 DEF Controls, SigningKeys
  <2>6. Key(r) = chain.keys[r + 1] /\ r < Len(chain.keys)
    BY <2>1 DEF HasKey, Key
  <2>7. p.what = w /\ p.v = "pq" /\ p.key = r
    BY <1>0, <1>2
  <2>8. \E x \in PublicKeys[chain.keys[r + 1].pkContract] : [by |-> x, what |-> w] \in signed
    BY <2>2, <2>6
  <2>9. OneAnswer(chain.keys[r + 1].pkContract) =>
          \E x \in SigningKeys : Controls(x, w.owner) /\ [by |-> x, what |-> w] \in signed
    BY <2>2, <2>4, <2>5, <2>6
  <2> QED
    BY <2>6, <2>7, <2>8, <2>9 DEF Warranted, p
<1>3. CASE v = "hybrid"
  <2>1. RecoverHybrid(WithdrawDigest(w), r, s, w.owner)
    BY <1>3 DEF Recovers
  <2>2. /\ HasKey(r) /\ w.owner = Eoa(Key(r).classic)
        /\ [by |-> Key(r).classic, what |-> w] \in signed
        /\ \E k \in PublicKeys[Key(r).pkContract] : [by |-> k, what |-> w] \in signed
    BY <2>1, VerifiedIsSigned DEF RecoverHybrid, VerifiesPq
  <2>3. Key(r).classic \in EcKeys
    BY <1>3, <1>r, <2>2, KeyTyped DEF KeyEntries
  <2> QED
    BY <1>0, <1>3, <2>2, <2>3 DEF Warranted, Controls, SigningKeys, HasKey, Key, p
<1>4. CASE v = "sphincs"
  <2>1. Verifies(Sig(s).sig, r, WithdrawDigest(w)) /\ w.owner = PqAddressOf(r) /\ r \in C13Keys
    BY <1>4 DEF Recovers, RWords
  <2> QED
    BY <1>0, <1>4, <2>1, VerifiedIsSigned DEF Warranted, Controls, SigningKeys, p
<1>5. CASE v = "commit"
  <2>1. RecoverCommit(WithdrawDigest(w), r, s, w.owner)
    BY <1>5 DEF Recovers
  <2>2. /\ HasSig(s, "opening") /\ w.owner = PqAddressOf(Commitment(Sig(s).pk, Sig(s).opener))
        /\ [by |-> Sig(s).pk, what |-> w] \in signed
    BY <2>1, VerifiedIsSigned DEF RecoverCommit
  <2>3. Sig(s).pk \in C13Keys /\ Sig(s).opener \in Openers
    BY <1>5, <1>s, <2>2, SigTyped DEF Blobs
  <2> QED
    BY <1>0, <1>5, <2>2, <2>3 DEF Warranted, Controls, SigningKeys, p
<1> QED
  BY <1>1, <1>2, <1>3, <1>4, <1>5 DEF Versions

(* Keys are only appended and signatures only made: a warrant stands. *)
LEMMA WarrantStands ==
  ASSUME NEW sigs, NEW moreSigs, sigs \subseteq moreSigs, NEW p, p.key \in Nat,
         NEW keys, NEW moreKeys, Warranted(p, keys, sigs),
         Len(keys) \in Nat, Len(moreKeys) \in Nat, Len(keys) <= Len(moreKeys),
         \A i \in 1..Len(keys) : moreKeys[i] = keys[i]
  PROVE  Warranted(p, moreKeys, moreSigs)
<1>1. p.v \in {"pq", "hybrid"} => p.key < Len(keys) /\ moreKeys[p.key + 1] = keys[p.key + 1]
                                 /\ p.key < Len(moreKeys)
  BY DEF Warranted
<1> QED
  BY <1>1 DEF Warranted

LEMMA StoredChains == ASSUME TypeOK PROVE Storages \subseteq Chains
  BY ElementOfSeq, LenProperties DEF TypeOK, Storages

LEMMA PayoutsOf ==
  ASSUME NEW c \in Chains
  PROVE  DOMAIN c.payouts = 1..Len(c.payouts) /\ Len(c.payouts) \in Nat
         /\ \A i \in DOMAIN c.payouts : c.payouts[i] \in Payouts
<1>1. c.payouts \in Seq(Payouts)
  BY DEF Chains
<1> QED
  BY <1>1, ElementOfSeq, LenProperties

(* The storages after a step: at most one is new. *)
LEMMA StoragesAfter ==
  ASSUME TypeOK,
         \/ stack' = stack
         \/ stack' = Append(stack, chain)
         \/ stack # <<>> /\ stack' = Pop
  PROVE  Storages' \subseteq Storages \cup {chain'}
<1>0. stack \in Seq(Chains)
  BY DEF TypeOK
<1>1. CASE stack' = stack
  BY <1>1 DEF Storages
<1>2. CASE stack' = Append(stack, chain)
  <2>1. \A i \in DOMAIN stack' : stack'[i] = chain \/ (i \in DOMAIN stack /\ stack'[i] = stack[i])
    BY <1>0, <1>2, AppendProperties, LenProperties DEF TypeOK
  <2> QED
    BY <2>1 DEF Storages
<1>3. CASE stack # <<>> /\ stack' = Pop
  <2>1. \A i \in DOMAIN stack' : i \in DOMAIN stack /\ stack'[i] = stack[i]
    BY <1>0, <1>3, PopType DEF Pop
  <2> QED
    BY <2>1 DEF Storages
<1> QED
  BY <1>1, <1>2, <1>3

Good(c) == SolventIn(c) /\ CountedIn(c) /\ AuthorizedIn(c)

(* Good storages stay good when signatures are made, and so the invariant     *)
(* holds after a step that writes a good storage.                             *)
LEMMA GoodAfter ==
  ASSUME IInv, TypeOK', Storages' \subseteq Storages \cup {chain'}, signed \subseteq signed', Good(chain)'
  PROVE  IInv'
<1>1. ASSUME NEW c \in Storages PROVE SolventIn(c)' /\ CountedIn(c)' /\ AuthorizedIn(c)'
  <2>1. c \in Chains
    BY StoredChains DEF IInv
  <2>2. \A i \in DOMAIN c.payouts : c.payouts[i].key \in Nat
    BY <2>1, PayoutsOf DEF Payouts
  <2>3. Len(c.keys) \in Nat
    BY <2>1, LenProperties DEF Chains
  <2>4. \A i \in DOMAIN c.payouts : Warranted(c.payouts[i], c.keys, signed')
    BY <2>2, <2>3, WarrantStands DEF IInv, AuthorizedIn
  <2> QED
    BY <2>4 DEF IInv, SolventIn, CountedIn, AuthorizedIn
<1> QED
  BY <1>1 DEF IInv, Good

LEMMA InvStart == Init => IInv
<1> SUFFICES ASSUME Init PROVE IInv
  OBVIOUS
<1>1. TypeOK
  BY TypeStart
<1>2. Storages = {EmptyChain}
  BY DEF Init, Storages
<1>3. SolventIn(EmptyChain)
  BY SumZero, InputsAssumption DEF SolventIn, EmptyChain
<1>4. CountedIn(EmptyChain) /\ AuthorizedIn(EmptyChain)
  BY InputsAssumption DEF CountedIn, AuthorizedIn, EmptyChain
<1> QED
  BY <1>1, <1>2, <1>3, <1>4 DEF IInv

LEMMA GoodNow == ASSUME IInv PROVE Good(chain)
  BY DEF IInv, Storages, Good

(* RegisterKey and PublishSignature write no balance, nonce or payout. *)
LEMMA RegistryStepKeeps ==
  ASSUME IInv, TypeOK', signed' = signed, stack' = stack,
         chain'.payouts = chain.payouts, chain'.eth = chain.eth, chain'.balanceOf = chain.balanceOf,
         chain'.nonces = chain.nonces,
         chain'.keys = chain.keys \/ \E e : chain'.keys = Append(chain.keys, e)
  PROVE  IInv'
<1>0. TypeOK /\ Good(chain)
  BY GoodNow DEF IInv
<1>1. SolventIn(chain') /\ CountedIn(chain')
  BY <1>0 DEF Good, SolventIn, CountedIn
<1>2. /\ Len(chain.keys) \in Nat /\ Len(chain'.keys) \in Nat /\ Len(chain.keys) <= Len(chain'.keys)
      /\ \A i \in 1..Len(chain.keys) : chain'.keys[i] = chain.keys[i]
  <2>1. chain.keys \in Seq(KeyEntries) /\ chain'.keys \in Seq(KeyEntries)
    BY <1>0 DEF TypeOK, Chains
  <2> QED
    BY <2>1, LenProperties, AppendProperties
<1>3. \A i \in DOMAIN chain.payouts : chain.payouts[i].key \in Nat
  BY <1>0, PayoutsOf DEF TypeOK, Payouts
<1>4. AuthorizedIn(chain)'
  <2> SUFFICES ASSUME NEW i \in DOMAIN chain.payouts
               PROVE  Warranted(chain.payouts[i], chain'.keys, signed')
    BY DEF AuthorizedIn
  <2> QED
    BY <1>0, <1>2, <1>3, WarrantStands DEF Good, AuthorizedIn
<1>5. Good(chain)'
  BY <1>1, <1>4 DEF Good, SolventIn, CountedIn
<1> QED
  BY <1>0, <1>5, StoragesAfter, GoodAfter

LEMMA DepositKeeps ==
  ASSUME IInv, TypeOK', NEW vault \in Vaults, NEW owner \in Owners, NEW value \in Amounts,
         DepositFor(vault, owner, value)
  PROVE  IInv'
<1>0. TypeOK /\ Good(chain) /\ value \in Nat /\ IsFiniteSet(Owners)
  BY GoodNow, InputsAssumption DEF IInv
<1>1. /\ stack' = stack /\ signed' = signed
      /\ chain'.payouts = chain.payouts /\ chain'.nonces = chain.nonces /\ chain'.keys = chain.keys
      /\ chain'.eth = [chain.eth EXCEPT ![vault] = @ + value]
      /\ chain'.balanceOf = [chain.balanceOf EXCEPT ![vault][owner] = @ + value]
  BY <1>0 DEF DepositFor, TypeOK, Chains
<1>2. ASSUME NEW u \in Vaults PROVE chain'.eth[u] = Sum(chain'.balanceOf[u], Owners)
  <2>0. chain.eth[u] = Sum(chain.balanceOf[u], Owners) /\ chain.eth \in [Vaults -> Nat]
        /\ chain.balanceOf \in [Vaults -> [Owners -> Nat]]
    BY <1>0 DEF Good, SolventIn, TypeOK, Chains
  <2>1. CASE u # vault
    BY <1>1, <2>0, <2>1
  <2>2. CASE u = vault
    <3> DEFINE f == chain.balanceOf[vault]
               g == chain'.balanceOf[vault]
    <3>1. \A x \in Owners : f[x] \in Int /\ g[x] = IF x = owner THEN f[x] + value ELSE f[x]
      BY <1>0, <1>1, <2>0
    <3>2. Sum(g, Owners) = Sum(f, Owners) + value
      <4> HIDE DEF f, g
      <4> QED
        BY <1>0, <3>1, SumChange
    <3> QED
      BY <1>1, <2>0, <2>2, <3>2
  <2> QED
    BY <2>1, <2>2
<1>3. Good(chain)'
  BY <1>0, <1>1, <1>2 DEF Good, SolventIn, CountedIn, AuthorizedIn
<1> QED
  BY <1>0, <1>1, <1>3, StoragesAfter, GoodAfter

LEMMA WithdrawKeeps ==
  ASSUME IInv, TypeOK', NEW vault \in Vaults, NEW owner \in Owners, NEW to \in Receivers,
         NEW amount \in Amounts, NEW v \in Versions, NEW r \in RWords(v), NEW s \in SWords(v),
         Withdraw(vault, owner, to, amount, v, r, s)
  PROVE  IInv'
<1> DEFINE w == Request(vault, owner, to, amount)
           p == Payout(w, v, r)
           n == chain.nonces[vault][owner]
<1>0. TypeOK /\ Good(chain) /\ IsFiniteSet(Owners) /\ MaxNonce \in Nat
  BY GoodNow, InputsAssumption DEF IInv
<1>1. /\ w \in Withdrawals /\ w.vault = vault /\ w.owner = owner /\ w.nonce = n /\ n < MaxNonce
      /\ Recovers(WithdrawDigest(w), v, r, s, w.owner)
      /\ amount \in Nat /\ stack' = Append(stack, chain) /\ signed' = signed
      /\ chain'.keys = chain.keys
      /\ chain'.payouts = Append(chain.payouts, p)
      /\ chain'.eth = [chain.eth EXCEPT ![vault] = @ - amount]
      /\ chain'.balanceOf = [chain.balanceOf EXCEPT ![vault][owner] = @ - amount]
      /\ chain'.nonces = [chain.nonces EXCEPT ![vault][owner] = @ + 1]
  <2> DEFINE c == [keys |-> chain.keys, blobs |-> chain.blobs, payouts |-> Append(chain.payouts, p),
                   eth |-> [chain.eth EXCEPT ![vault] = @ - amount],
                   balanceOf |-> [chain.balanceOf EXCEPT ![vault][owner] = @ - amount],
                   nonces |-> [chain.nonces EXCEPT ![vault][owner] = @ + 1]]
  <2>1. /\ w \in Withdrawals /\ w.vault = vault /\ w.owner = owner /\ w.nonce = n /\ n < MaxNonce
        /\ Recovers(WithdrawDigest(w), v, r, s, owner)
        /\ amount \in Nat /\ stack' = Append(stack, chain) /\ signed' = signed /\ chain' = c
    BY <1>0, WithdrawShape
  <2> HIDE DEF w, p, n
  <2> QED
    BY <2>1
<1>2. p.what = w
  BY DEF Payout
<1>3. /\ chain.eth \in [Vaults -> Nat] /\ chain.balanceOf \in [Vaults -> [Owners -> Nat]]
      /\ chain.nonces \in [Vaults -> [Owners -> Nat]] /\ n \in Nat
  BY <1>0 DEF TypeOK, Chains
<1>n. n \in Nat /\ MaxNonce \in Nat /\ n + 1 <= MaxNonce
  BY <1>0, <1>1, <1>3
<1> HIDE DEF w, n
<1>4. ASSUME NEW u \in Vaults PROVE chain'.eth[u] = Sum(chain'.balanceOf[u], Owners)
  <2>0. chain.eth[u] = Sum(chain.balanceOf[u], Owners)
    BY <1>0 DEF Good, SolventIn
  <2>1. CASE u # vault
    BY <1>1, <1>3, <2>0, <2>1
  <2>2. CASE u = vault
    <3> DEFINE f == chain.balanceOf[vault]
               g == chain'.balanceOf[vault]
    <3>1. /\ -amount \in Int
          /\ \A x \in Owners : f[x] \in Int /\ g[x] = IF x = owner THEN f[x] + (-amount) ELSE f[x]
      BY <1>1, <1>3
    <3>2. Sum(f, Owners) \in Int /\ Sum(g, Owners) = Sum(f, Owners) + (-amount)
      <4> HIDE DEF f, g
      <4> QED
        BY <1>0, <3>1, SumChange
    <3> QED
      BY <1>1, <1>3, <2>0, <2>2, <3>2
  <2> QED
    BY <2>1, <2>2
<1>5. /\ DOMAIN chain.payouts = 1..Len(chain.payouts) /\ Len(chain.payouts) \in Nat
      /\ \A i \in DOMAIN chain.payouts : chain.payouts[i] \in Payouts
      /\ DOMAIN chain'.payouts = 1..Len(chain.payouts) + 1
      /\ chain'.payouts[Len(chain.payouts) + 1] = p
      /\ \A i \in DOMAIN chain.payouts : chain'.payouts[i] = chain.payouts[i]
  <2>1. chain.payouts \in Seq(Payouts) /\ chain \in Chains
    BY <1>0 DEF TypeOK, Chains
  <2>2. p \in Payouts
    BY <1>1, PayoutTyped, InputsAssumption
  <2>3. chain'.payouts = Append(chain.payouts, p)
    BY <1>1
  <2> HIDE DEF p
  <2> QED
    BY <2>1, <2>2, <2>3, PayoutsOf, AppendProperties, LenProperties
<1> HIDE DEF p
<1>6. CountedIn(chain')
  <2> SUFFICES ASSUME NEW u \in Vaults, NEW o \in Owners
               PROVE LET next == chain'.nonces[u][o]
                         For(i) == chain'.payouts[i].what.vault = u /\ chain'.payouts[i].what.owner = o
                     IN /\ next <= MaxNonce
                        /\ \A i \in DOMAIN chain'.payouts : For(i) => chain'.payouts[i].what.nonce < next
                        /\ \A m \in 0..MaxNonce : m < next =>
                              \E i \in DOMAIN chain'.payouts : For(i) /\ chain'.payouts[i].what.nonce = m
                        /\ \A i, j \in DOMAIN chain'.payouts :
                             For(i) /\ For(j) /\ chain'.payouts[i].what.nonce = chain'.payouts[j].what.nonce => i = j
    BY DEF CountedIn
  <2> DEFINE Old(i) == chain.payouts[i].what.vault = u /\ chain.payouts[i].what.owner = o
             New(i) == chain'.payouts[i].what.vault = u /\ chain'.payouts[i].what.owner = o
             last == Len(chain.payouts) + 1
  <2>1. /\ chain.nonces[u][o] \in Nat /\ chain.nonces[u][o] <= MaxNonce
        /\ \A i \in DOMAIN chain.payouts : Old(i) => chain.payouts[i].what.nonce < chain.nonces[u][o]
        /\ \A m \in 0..MaxNonce : m < chain.nonces[u][o] =>
              \E i \in DOMAIN chain.payouts : Old(i) /\ chain.payouts[i].what.nonce = m
        /\ \A i, j \in DOMAIN chain.payouts :
              Old(i) /\ Old(j) /\ chain.payouts[i].what.nonce = chain.payouts[j].what.nonce => i = j
    BY <1>0, <1>3 DEF Good, CountedIn
  <2>2. \A i \in DOMAIN chain.payouts : chain.payouts[i].what.nonce \in Nat
    BY <1>5 DEF Payouts, Withdrawals
  <2>3. \A i \in DOMAIN chain'.payouts : i \in DOMAIN chain.payouts \/ i = last
    BY <1>5
  <2>4. CASE u = vault /\ o = owner
    <3>1. chain'.nonces[u][o] = n + 1 /\ chain.nonces[u][o] = n
      BY <1>1, <1>3, <2>4 DEF n
    <3>2. chain'.payouts[last].what.nonce = n /\ last \in DOMAIN chain'.payouts
          /\ chain'.payouts[last].what.vault = u /\ chain'.payouts[last].what.owner = o
      BY <1>1, <1>2, <1>5, <2>4
    <3>3. \A i \in DOMAIN chain.payouts : i \in DOMAIN chain'.payouts
      BY <1>5
    <3> HIDE DEF last
    <3>4. \A m \in 0..MaxNonce : m < n + 1 => m < n \/ m = n
      BY <1>n
    <3>5. \A i \in DOMAIN chain'.payouts : New(i) /\ i # last =>
            /\ i \in DOMAIN chain.payouts /\ Old(i) /\ chain'.payouts[i] = chain.payouts[i]
            /\ chain.payouts[i].what.nonce \in Nat /\ chain.payouts[i].what.nonce < n
      BY <1>5, <2>1, <2>2, <2>3, <3>1
    <3>6. \A i \in DOMAIN chain.payouts : Old(i) => New(i) /\ chain'.payouts[i] = chain.payouts[i]
      BY <1>5
    <3>7. \A i \in DOMAIN chain'.payouts : New(i) => chain'.payouts[i].what.nonce < n + 1
      BY <1>n, <3>2, <3>5
    <3>8. \A m \in 0..MaxNonce : m < n + 1 => \E i \in DOMAIN chain'.payouts : New(i) /\ chain'.payouts[i].what.nonce = m
      BY <2>1, <3>1, <3>2, <3>3, <3>4, <3>6
    <3>9. \A i, j \in DOMAIN chain'.payouts :
            New(i) /\ New(j) /\ chain'.payouts[i].what.nonce = chain'.payouts[j].what.nonce => i = j
      BY <1>n, <2>1, <3>2, <3>5
    <3> QED
      BY <1>n, <3>1, <3>7, <3>8, <3>9
  <2>5. CASE ~(u = vault /\ o = owner)
    <3>1. chain'.nonces[u][o] = chain.nonces[u][o]
      BY <1>1, <1>3, <2>5
    <3>2. ~(chain'.payouts[last].what.vault = u /\ chain'.payouts[last].what.owner = o)
      BY <1>1, <1>2, <1>5, <2>5
    <3>3. \A i \in DOMAIN chain.payouts : i \in DOMAIN chain'.payouts
      BY <1>5
    <3> HIDE DEF last
    <3>4. \A i \in DOMAIN chain'.payouts : New(i) => i \in DOMAIN chain.payouts /\ Old(i)
      BY <1>5, <2>3, <3>2
    <3>5. \A i \in DOMAIN chain.payouts : Old(i) => New(i)
      BY <1>5
    <3>6. \A m \in 0..MaxNonce : m < chain.nonces[u][o] =>
            \E i \in DOMAIN chain'.payouts : New(i) /\ chain'.payouts[i].what.nonce = m
      BY <1>5, <2>1, <3>3, <3>5
    <3>7. \A i, j \in DOMAIN chain'.payouts :
            New(i) /\ New(j) /\ chain'.payouts[i].what.nonce = chain'.payouts[j].what.nonce => i = j
      BY <1>5, <2>1, <3>4
    <3>8. \A i \in DOMAIN chain'.payouts : New(i) => chain'.payouts[i].what.nonce < chain.nonces[u][o]
      BY <1>5, <2>1, <3>4
    <3> QED
      BY <2>1, <3>1, <3>6, <3>7, <3>8
  <2> QED
    BY <2>4, <2>5
<1>7. \A i \in DOMAIN chain'.payouts : Warranted(chain'.payouts[i], chain.keys, signed)
  <2>1. Warranted(p, chain.keys, signed)
    BY <1>0, <1>1, RecoveredWarranted DEF p
  <2> QED
    BY <1>0, <1>5, <2>1 DEF Good, AuthorizedIn
<1>8. Good(chain)'
  BY <1>1, <1>4, <1>6, <1>7 DEF Good, SolventIn, CountedIn, AuthorizedIn
<1> QED
  BY <1>0, <1>1, <1>8, StoragesAfter, GoodAfter

LEMMA ReturnKeeps == ASSUME IInv, TypeOK', Return PROVE IInv'
<1>1. Good(chain) /\ TypeOK
  BY GoodNow DEF IInv
<1>2. chain' = chain /\ signed' = signed /\ stack # <<>> /\ stack' = Pop
  BY DEF Return
<1>3. Good(chain)'
  BY <1>1, <1>2 DEF Good, SolventIn, CountedIn, AuthorizedIn
<1> QED
  BY <1>1, <1>2, <1>3, StoragesAfter, GoodAfter

LEMMA RevertKeeps == ASSUME IInv, TypeOK', Revert PROVE IInv'
<1>1. TypeOK /\ stack # <<>> /\ stack' = Pop /\ signed' = signed /\ chain' = stack[Len(stack)]
  BY DEF IInv, Revert, Undo
<1>2. chain' \in Storages
  <2>1. Len(stack) \in DOMAIN stack
    BY <1>1, EmptySeq, LenProperties DEF TypeOK
  <2> QED
    BY <1>1, <2>1 DEF Storages
<1>3. Good(chain')
  BY <1>2 DEF IInv, Good
<1>4. Good(chain)'
  BY <1>1, <1>3 DEF Good, SolventIn, CountedIn, AuthorizedIn
<1> QED
  BY <1>1, <1>4, StoragesAfter, GoodAfter

LEMMA SignKeeps ==
  ASSUME IInv, TypeOK', NEW k \in SigningKeys, NEW w \in Intents, Sign(k, w)
  PROVE  IInv'
<1>1. TypeOK /\ chain' = chain /\ stack' = stack /\ signed \subseteq signed' /\ Good(chain)
  BY GoodNow DEF IInv, Sign
<1>2. Good(chain)'
  <2>1. chain \in Chains
    BY <1>1 DEF TypeOK
  <2>2. \A i \in DOMAIN chain.payouts : Warranted(chain.payouts[i], chain.keys, signed')
    <3>1. \A i \in DOMAIN chain.payouts : chain.payouts[i].key \in Nat
      BY <2>1, PayoutsOf DEF Payouts
    <3>2. Len(chain.keys) \in Nat
      BY <2>1, LenProperties DEF Chains
    <3> QED
      BY <1>1, <3>1, <3>2, WarrantStands DEF Good, AuthorizedIn
  <2> QED
    BY <1>1, <2>2 DEF Good, SolventIn, CountedIn, AuthorizedIn
<1> QED
  BY <1>1, <1>2, StoragesAfter, GoodAfter

LEMMA InvKept == IInv /\ [Next]_vars => IInv'
<1> SUFFICES ASSUME IInv, [Next]_vars PROVE IInv'
  OBVIOUS
<1>0. TypeOK' /\ TypeOK
  BY TypeKept DEF IInv
<1>1. CASE \E k \in EcKeys, c \in Contracts, pk \in PqKeys : RegisterKey(k, c, pk)
  <2>1. PICK k \in EcKeys, c \in Contracts, pk \in PqKeys : RegisterKey(k, c, pk)
    BY <1>1
  <2>2. /\ signed' = signed /\ stack' = stack /\ chain'.payouts = chain.payouts /\ chain'.eth = chain.eth
        /\ chain'.balanceOf = chain.balanceOf /\ chain'.nonces = chain.nonces
        /\ chain'.keys = Append(chain.keys, [pkContract |-> c, pk |-> pk, classic |-> k])
    BY <1>0, <2>1 DEF RegisterKey, TypeOK, Chains
  <2> QED
    BY <1>0, <2>2, RegistryStepKeeps
<1>2. CASE \E blob \in Publishable : PublishSignature(blob)
  <2>1. /\ signed' = signed /\ stack' = stack /\ chain'.payouts = chain.payouts /\ chain'.eth = chain.eth
        /\ chain'.balanceOf = chain.balanceOf /\ chain'.nonces = chain.nonces /\ chain'.keys = chain.keys
    BY <1>0, <1>2 DEF PublishSignature, TypeOK, Chains
  <2> QED
    BY <1>0, <2>1, RegistryStepKeeps
<1>3. CASE \E vault \in Vaults, owner \in Owners, value \in Amounts : DepositFor(vault, owner, value)
  BY <1>0, <1>3, DepositKeeps
<1>4. CASE \E vault \in Vaults, owner \in Owners, to \in Receivers, amount \in Amounts, v \in Versions :
             \E r \in RWords(v), s \in SWords(v) : Withdraw(vault, owner, to, amount, v, r, s)
  BY <1>0, <1>4, WithdrawKeeps
<1>5. CASE Return \/ Revert
  BY <1>0, <1>5, ReturnKeeps, RevertKeeps
<1>6. CASE \E k \in SigningKeys, w \in Intents : Sign(k, w)
  BY <1>0, <1>6, SignKeeps
<1>7. CASE UNCHANGED vars
  BY <1>7 DEF vars, IInv, TypeOK, Storages, SolventIn, CountedIn, AuthorizedIn
<1> QED
  BY <1>1, <1>2, <1>3, <1>4, <1>5, <1>6, <1>7 DEF Next

LEMMA Invariant == Spec => []IInv
  BY InvStart, InvKept, PTL DEF Spec
-----------------------------------------------------------------------------
(* Each vault holds exactly the sum of the balances it owes, also while a     *)
(* receiver runs inside nested withdrawWithSig calls, and after one fails.    *)
THEOREM SolventCorrect == Spec => []Solvent
<1>1. IInv => Solvent
  BY GoodNow, OwedIsSum DEF Good, SolventIn, Solvent
<1> QED
  BY <1>1, Invariant, PTL

(* No signature pays twice, however withdrawals nest or fail: an owner's       *)
(* payouts carry the nonces below the current one, each once.                 *)
THEOREM NonceCorrect == Spec => []NonceCountsPayouts
<1>1. IInv => NonceCountsPayouts
  <2> SUFFICES ASSUME IInv, NEW vault \in Vaults, NEW owner \in Owners
               PROVE  LET paid == {i \in DOMAIN chain.payouts : /\ chain.payouts[i].what.vault = vault
                                                                /\ chain.payouts[i].what.owner = owner}
                      IN /\ \A n \in 0..MaxNonce : n < chain.nonces[vault][owner]
                                                   <=> \E i \in paid : chain.payouts[i].what.nonce = n
                         /\ \A i, j \in paid : chain.payouts[i].what.nonce = chain.payouts[j].what.nonce => i = j
    BY DEF NonceCountsPayouts
  <2> QED
    BY GoodNow DEF Good, CountedIn
<1> QED
  BY <1>1, Invariant, PTL

(* Every payout was signed for that vault, receiver, amount and nonce: on a   *)
(* registered key by a key its contract answers to, in hybrid mode also by     *)
(* the EOA that registered it, and by a holder of the owner's key unless the   *)
(* mode is pure ML-DSA over a contract that answers several keys.             *)
THEOREM AuthorizedCorrect == Spec => []Authorized
<1>1. IInv => Authorized
  BY GoodNow DEF Good, AuthorizedIn, Warranted, Authorized, HasKey, Key
<1> QED
  BY <1>1, Invariant, PTL
=============================================================================
