------------------------------ MODULE PointerSig ------------------------------
(***************************************************************************)
(* PointerSigRegistry and PointerSigVault (contracts/src/PointerSig.sol):  *)
(* the (v, r, s) of a classic signature turned into pointers into tables   *)
(* of keys and of published signatures, and the vault that pays out by it. *)
(*                                                                         *)
(* The vault pays with to.call{value}: the receiver runs in the middle of  *)
(* withdrawWithSig and may call every contract again.  The contracts'      *)
(* storage is one record, `chain`; every withdrawal in progress keeps the  *)
(* storage it would restore if its payment failed on `stack`.              *)
(*                                                                         *)
(* keccak256 is injective here and the three signature schemes are         *)
(* unforgeable: a signature is the record of who signed which withdrawal.  *)
(* The registry takes any contract as a PKContract: what one may answer is *)
(* a set of keys, of which the vendored, immutable ones have one.          *)
(***************************************************************************)
EXTENDS Naturals, SequencesExt

CONSTANTS
  Vaults,
  EcKeys, PqKeys, C13Keys,   \* secp256k1, ML-DSA-44 and SPHINCS- C13 keys
  Contracts, PublicKeys,     \* what getPublicKey of each contract may answer
  Openers,                   \* the commitment's hiding words
  Owners,                    \* the addresses whose deposits are explored
  Receivers, Amounts,
  SignsFor,                  \* bound: the owners for whom each key signs withdrawals
  MaxNonce, MaxEth, MaxKeys, MaxBlobs, MaxSigned, MaxDepth   \* bounds

VARIABLES
  chain,    \* the storage of the registry and of the vaults
  signed,   \* the signatures made so far, off chain
  stack     \* the storage saved by each withdrawal being paid, outermost first

vars == <<chain, signed, stack>>

(* The addresses recover() returns. *)
Eoa(k) == <<"eoa", k>>
PqAddress(k) == <<"pq", k>>             \* keccak256(abi.encode(aHat, tr, t1))
PqAddressOf(word) == <<"word", word>>   \* of a raw C13 key or of a commitment
Commitment(pk, opener) == <<pk, opener>>

Addresses == {Eoa(k) : k \in EcKeys} \cup {PqAddress(k) : k \in PqKeys}
             \cup {PqAddressOf(w) : w \in C13Keys \cup (C13Keys \X Openers)}

SigningKeys == EcKeys \cup PqKeys \cup C13Keys

ASSUME InputsAssumption ==
  /\ Owners \subseteq Addresses /\ IsFiniteSet(Owners)
  /\ Amounts \subseteq Nat
  /\ {MaxNonce, MaxEth, MaxKeys, MaxBlobs, MaxSigned, MaxDepth} \subseteq Nat
  /\ PublicKeys \in [Contracts -> SUBSET PqKeys \ {{}}]
  /\ SignsFor \in [SigningKeys -> SUBSET Owners]
  /\ EcKeys \cap PqKeys = {} /\ EcKeys \cap C13Keys = {} /\ PqKeys \cap C13Keys = {}

Withdrawals == [vault : Vaults, owner : Owners, to : Receivers, amount : Amounts, nonce : Nat]
Signatures == [by : SigningKeys, what : Withdrawals]
KeyEntries == {e \in [pkContract : Contracts, pk : PqKeys, classic : EcKeys] :
                 e.pk \in PublicKeys[e.pkContract]}
Blobs == [kind : {"mldsa", "c13"}, sig : Signatures]
         \cup [kind : {"hybrid"}, ecdsa : Signatures, mldsa : Signatures]
         \cup [kind : {"opening"}, pk : C13Keys, opener : Openers, sig : Signatures]
-----------------------------------------------------------------------------
(* PointerSigRegistry.  An operator whose name ends in _Something is a slip   *)
(* the definition after it could have; no specification uses it.            *)

(* pqAddress is computed from the key the contract answers now; the entry    *)
(* keeps the contract, which the verifier asks again at each withdrawal.     *)
RegisterKey(sender, contract, pk) ==
  /\ Len(chain.keys) < MaxKeys /\ pk \in PublicKeys[contract]
  /\ chain' = [chain EXCEPT !.keys =
                  Append(@, [pkContract |-> contract, pk |-> pk, classic |-> sender])]
  /\ UNCHANGED <<signed, stack>>

PublishSignature(blob) ==
  /\ Len(chain.blobs) < MaxBlobs
  /\ chain' = [chain EXCEPT !.blobs = Append(@, blob)]
  /\ UNCHANGED <<signed, stack>>

(* _key and _sig: pointers count from 0; past the end they revert. *)
HasKey(r) == r < Len(chain.keys)
Key(r) == chain.keys[r + 1]
HasSig(s, kind) == s < Len(chain.blobs) /\ chain.blobs[s + 1].kind = kind
Sig(s) == chain.blobs[s + 1]

(* withdrawDigest: chain id, vault and the whole request. *)
WithdrawDigest_AnyVault(w) == <<w.owner, w.to, w.amount, w.nonce>>
WithdrawDigest(w) == <<w.vault, w.owner, w.to, w.amount, w.nonce>>

(* ecrecover, the ZKNOX verifier and the C13 verifier (external). *)
Verifies(sig, by, digest) ==
  sig \in signed /\ sig.by = by /\ WithdrawDigest(sig.what) = digest

VerifiesPq(sig, r, digest) ==
  \E k \in PublicKeys[Key(r).pkContract] : Verifies(sig, k, digest)

RecoverHybrid_ClassicOnly(digest, r, s, signer) ==
  /\ HasKey(r) /\ HasSig(s, "hybrid")
  /\ Verifies(Sig(s).ecdsa, Key(r).classic, digest)
  /\ signer = Eoa(Key(r).classic)

RecoverHybrid(digest, r, s, signer) ==
  /\ HasKey(r) /\ HasSig(s, "hybrid")
  /\ Verifies(Sig(s).ecdsa, Key(r).classic, digest)
  /\ VerifiesPq(Sig(s).mldsa, r, digest)
  /\ signer = Eoa(Key(r).classic)

RecoverCommit(digest, r, s, signer) ==
  /\ HasSig(s, "opening")
  /\ Commitment(Sig(s).pk, Sig(s).opener) = r
  /\ Verifies(Sig(s).sig, Sig(s).pk, digest)
  /\ signer = PqAddressOf(r)

(* recover(digest, v, r, s) = signer; every other outcome reverts.  Of a     *)
(* classic signature the curve scalars are the whole, carried here by s.    *)
Recovers(digest, v, r, s, signer) ==
  CASE v = "classic" -> \E k \in EcKeys : Verifies(s, k, digest) /\ signer = Eoa(k)
    [] v = "pq"      -> /\ HasKey(r) /\ HasSig(s, "mldsa")
                        /\ VerifiesPq(Sig(s).sig, r, digest)
                        /\ signer = PqAddress(Key(r).pk)
    [] v = "hybrid"  -> RecoverHybrid(digest, r, s, signer)
    [] v = "sphincs" -> /\ HasSig(s, "c13")
                        /\ Verifies(Sig(s).sig, r, digest)
                        /\ signer = PqAddressOf(r)
    [] v = "commit"  -> RecoverCommit(digest, r, s, signer)
-----------------------------------------------------------------------------
(* PointerSigVault *)

DepositFor(vault, owner, value) ==
  /\ MapThenSumSet(LAMBDA w : chain.eth[w], Vaults) + value <= MaxEth
  /\ chain' = [chain EXCEPT !.balanceOf[vault][owner] = @ + value, !.eth[vault] = @ + value]
  /\ UNCHANGED <<signed, stack>>

(* withdrawWithSig up to the moment the receiver runs.  `payouts` is the    *)
(* history of what this vault has sent, and on which authority.             *)
Request(vault, owner, to, amount) ==
  [vault |-> vault, owner |-> owner, to |-> to, amount |-> amount,
   nonce |-> chain.nonces[vault][owner]]

(* `key` is the key-table index the payout rests on, where there is one. *)
Payout(w, v, r) == [what |-> w, v |-> v, key |-> IF v \in {"pq", "hybrid"} THEN r ELSE 0]

Paying(w) == stack' = Append(stack, chain) /\ w.nonce < MaxNonce

Withdraw_NonceKept(vault, owner, to, amount, v, r, s) ==
  LET w == Request(vault, owner, to, amount)
  IN /\ amount <= chain.balanceOf[vault][owner] /\ amount <= chain.eth[vault]
     /\ Recovers(WithdrawDigest(w), v, r, s, owner)
     /\ Paying(w)
     /\ chain' = [chain EXCEPT !.balanceOf[vault][owner] = @ - amount, !.eth[vault] = @ - amount,
                               !.payouts = Append(@, Payout(w, v, r))]
     /\ UNCHANGED signed

Withdraw_Overdraws(vault, owner, to, amount, v, r, s) ==
  LET w == Request(vault, owner, to, amount)
  IN /\ amount <= chain.eth[vault]
     /\ Recovers(WithdrawDigest(w), v, r, s, owner)
     /\ Paying(w)
     /\ chain' = [chain EXCEPT !.nonces[vault][owner] = @ + 1,
                               !.balanceOf[vault][owner] = @ - amount, !.eth[vault] = @ - amount,
                               !.payouts = Append(@, Payout(w, v, r))]
     /\ UNCHANGED signed

Withdraw(vault, owner, to, amount, v, r, s) ==
  LET w == Request(vault, owner, to, amount)
  IN /\ amount <= chain.balanceOf[vault][owner] /\ amount <= chain.eth[vault]
     /\ Recovers(WithdrawDigest(w), v, r, s, owner)
     /\ Paying(w)
     /\ chain' = [chain EXCEPT !.nonces[vault][owner] = @ + 1,
                               !.balanceOf[vault][owner] = @ - amount, !.eth[vault] = @ - amount,
                               !.payouts = Append(@, Payout(w, v, r))]
     /\ UNCHANGED signed

(* The receiver returns: withdrawWithSig completes. *)
Pop == SubSeq(stack, 1, Len(stack) - 1)

Return == /\ stack # <<>> /\ stack' = Pop
          /\ UNCHANGED <<chain, signed>>

(* The receiver reverts: "transfer failed" undoes the withdrawal and all    *)
(* that was called from inside it.                                          *)
Undo_PaymentOnly == [chain EXCEPT !.eth = stack[Len(stack)].eth, !.payouts = stack[Len(stack)].payouts]
Undo == stack[Len(stack)]

Revert == /\ stack # <<>> /\ stack' = Pop
          /\ chain' = Undo
          /\ UNCHANGED signed
-----------------------------------------------------------------------------
(* A key holder signs a withdrawal, between transactions. *)
Controls(k, owner) == \/ owner \in {Eoa(k), PqAddress(k), PqAddressOf(k)}
                      \/ \E o \in Openers : owner = PqAddressOf(Commitment(k, o))

Sign(k, w) == /\ stack = <<>>
              /\ signed' = signed \cup {[by |-> k, what |-> w]}
              /\ UNCHANGED <<chain, stack>>

EmptyChain == [keys |-> <<>>, blobs |-> <<>>, payouts |-> <<>>,
               eth |-> [vault \in Vaults |-> 0],
               balanceOf |-> [vault \in Vaults |-> [owner \in Owners |-> 0]],
               nonces |-> [vault \in Vaults |-> [owner \in Owners |-> 0]]]

Init == chain = EmptyChain /\ signed = {} /\ stack = <<>>

Versions == {"classic", "pq", "hybrid", "sphincs", "commit"}

(* What r and s may point at under each version. *)
RWords(v) == CASE v \in {"pq", "hybrid"} -> 0..MaxKeys
               [] v = "sphincs" -> C13Keys
               [] v = "commit" -> C13Keys \X Openers
               [] v = "classic" -> {0}
SWords(v) == IF v = "classic" THEN signed ELSE 0..MaxBlobs

(* The blobs worth publishing are made of signatures that exist, each where *)
(* its scheme belongs: no verifier accepts another scheme's signature.      *)
By(ks) == {sig \in signed : sig.by \in ks}
Publishable == [kind : {"mldsa"}, sig : By(PqKeys)] \cup [kind : {"c13"}, sig : By(C13Keys)]
               \cup [kind : {"hybrid"}, ecdsa : By(EcKeys), mldsa : By(PqKeys)]
               \cup [kind : {"opening"}, pk : C13Keys, opener : Openers, sig : By(C13Keys)]

Intents == [vault : Vaults, owner : Owners, to : Receivers, amount : Amounts, nonce : 0..MaxNonce - 1]

Next == \/ \E k \in EcKeys, c \in Contracts, pk \in PqKeys : RegisterKey(k, c, pk)
        \/ \E blob \in Publishable : PublishSignature(blob)
        \/ \E vault \in Vaults, owner \in Owners, value \in Amounts : DepositFor(vault, owner, value)
        \/ /\ Len(stack) < MaxDepth
           /\ \E vault \in Vaults, owner \in Owners, to \in Receivers, amount \in Amounts, v \in Versions :
                \E r \in RWords(v), s \in SWords(v) : Withdraw(vault, owner, to, amount, v, r, s)
        \/ Return \/ Revert
        \/ /\ Cardinality(signed) < MaxSigned
           /\ \E k \in SigningKeys, w \in Intents : w.owner \in SignsFor[k] /\ Sign(k, w)

Spec == Init /\ [][Next]_vars
-----------------------------------------------------------------------------
Payouts == [what : Withdrawals, v : Versions, key : Nat]

Chains == [keys : Seq(KeyEntries), blobs : Seq(Blobs), payouts : Seq(Payouts),
           eth : [Vaults -> Nat], balanceOf : [Vaults -> [Owners -> Nat]],
           nonces : [Vaults -> [Owners -> Nat]]]

TypeOK == chain \in Chains /\ stack \in Seq(Chains) /\ signed \subseteq Signatures

(* Each vault holds exactly what it owes, also while a receiver runs inside *)
(* any number of nested withdrawals, and after any of them fails.           *)
Owed(vault) == MapThenSumSet(LAMBDA owner : chain.balanceOf[vault][owner], Owners)
Solvent == \A vault \in Vaults : chain.eth[vault] = Owed(vault)

(* The payouts made for an owner carry the nonces up to the current one,     *)
(* each once: no signature pays twice, however calls nest or fail.          *)
NonceCountsPayouts ==
  \A vault \in Vaults, owner \in Owners :
    LET paid == {i \in DOMAIN chain.payouts : /\ chain.payouts[i].what.vault = vault
                                              /\ chain.payouts[i].what.owner = owner}
    IN /\ \A n \in 0..MaxNonce : n < chain.nonces[vault][owner]
                                 <=> \E i \in paid : chain.payouts[i].what.nonce = n
       /\ \A i, j \in paid : chain.payouts[i].what.nonce = chain.payouts[j].what.nonce => i = j

(* What a vault pays, the holder of the owner's key has signed: that vault,  *)
(* receiver, amount and nonce.  A payout on a registered key was signed by a *)
(* key its contract answers to, and a hybrid one by the EOA as well, which   *)
(* registered it.  The pure ML-DSA mode promises this to the owner only for  *)
(* a contract that has one answer: PKContract has, the registry cannot tell. *)
OneAnswer(contract) == \E k \in PqKeys : PublicKeys[contract] = {k}

Authorized ==
  \A i \in DOMAIN chain.payouts :
    LET p == chain.payouts[i]
        SignedBy(k) == [by |-> k, what |-> p.what] \in signed
    IN /\ p.v \in {"pq", "hybrid"} =>
            HasKey(p.key) /\ \E k \in PublicKeys[Key(p.key).pkContract] : SignedBy(k)
       /\ p.v = "hybrid" =>
            p.what.owner = Eoa(Key(p.key).classic) /\ SignedBy(Key(p.key).classic)
       /\ (p.v = "pq" => OneAnswer(Key(p.key).pkContract)) =>
            \E k \in SigningKeys : Controls(k, p.what.owner) /\ SignedBy(k)
=============================================================================
