------------------------------ MODULE FrameTx ------------------------------
(***************************************************************************)
(* The EIP-8141 frame transaction (js-client/src/frame-tx/serialize.ts) as *)
(* the tree that toRlp encodes.  RLP is injective on trees, so a tree      *)
(* stands for its bytes; keccak256 does not collide, so a preimage stands  *)
(* for its hash.  Addresses, data and signatures are terms; zero, the null *)
(* address and empty data are all the empty string.                        *)
(***************************************************************************)
EXTENDS Naturals, Sequences, SequencesExt

Empty == <<>>

DEFAULT == 0
VERIFY == 1
SENDER == 2
BOTH == 3                    \* APPROVE_SCOPE
ARBITRARY == 0
SECP256K1 == 1

Refused == <<"throws">>
null == <<"null">>

(* Minimal big-endian bytes; zero is the empty string. *)
int[n \in Nat] == IF n = 0 THEN Empty ELSE Append(int[n \div 256], n % 256)
addr(a) == IF a = null THEN Empty ELSE a

frameTree(f) ==
  IF f.mode # SENDER /\ f.value # 0 THEN Refused
  ELSE <<int[f.mode], int[f.flags], addr(f.target), <<int[f.executionGas], int[f.stateGas]>>,
         int[f.value], f.data>>

sigTree(s) ==
  IF s.scheme = ARBITRARY /\ s.signer # null THEN Refused
  ELSE <<int[s.scheme], addr(s.signer), s.msg, s.signature>>

bodyTree(tx, signatures) ==
  LET frames == [i \in DOMAIN tx.frames |-> frameTree(tx.frames[i])]
      sigs == [i \in DOMAIN signatures |-> sigTree(signatures[i])] IN
  IF Contains(frames, Refused) \/ Contains(sigs, Refused) THEN Refused
  ELSE <<int[tx.chainId], int[tx.nonce], addr(tx.sender), frames, sigs,
         <<int[tx.maxPriorityFeePerGas], int[tx.maxFeePerGas], Empty>>, Empty>>

serializeFrameTx(tx) == bodyTree(tx, tx.signatures)

(* The signatures that sign the hash are left out of it; one with an explicit *)
(* msg is not.                                                                *)
Elided(signatures) ==
  [i \in DOMAIN signatures |->
     IF signatures[i].msg = Empty THEN [signatures[i] EXCEPT !.signature = Empty] ELSE signatures[i]]

frameTxSigHash(tx) == bodyTree(tx, Elided(tx.signatures))
-----------------------------------------------------------------------------
(* actions.ts: the frames and signatures of a sponsored spend. *)

verifyFrame(target) ==
  [mode |-> VERIFY, flags |-> BOTH, target |-> target, executionGas |-> 1, stateGas |-> 1,
   value |-> 0, data |-> Empty]
defaultFrame(target, data) ==
  [mode |-> DEFAULT, flags |-> 0, target |-> target, executionGas |-> 1, stateGas |-> 1,
   value |-> 0, data |-> data]

arbitrarySignature(signature) ==
  [scheme |-> ARBITRARY, signer |-> null, msg |-> Empty, signature |-> signature]
secp256k1Signature(signer, signature) ==
  [scheme |-> SECP256K1, signer |-> signer, msg |-> Empty, signature |-> signature]

SponsoredTx(sponsor, chainId, nonce, frames, sponsorSig, pqSig) ==
  [chainId |-> chainId, nonce |-> nonce, sender |-> sponsor,
   frames |-> <<verifyFrame(sponsor)>> \o frames,
   signatures |-> <<secp256k1Signature(sponsor, sponsorSig), arbitrarySignature(pqSig)>>,
   maxPriorityFeePerGas |-> 1, maxFeePerGas |-> 2]

(* Both signers get the hash of the transaction with placeholders, and must   *)
(* have signed the one that is sent.                                          *)
UnsignedTx(sponsor, chainId, nonce, frames) == SponsoredTx(sponsor, chainId, nonce, frames, Empty, Empty)
=============================================================================
