--------------------------- MODULE CommitScheme ---------------------------
(***************************************************************************)
(* The commitment meta-address (js-client/src/commit-scheme.ts), the       *)
(* account profiles that interpret it (profiles.ts) and the byte-level     *)
(* conventions of the SPHINCS- C13 signer (sphincs.ts), as pure operators. *)
(* A byte string is a term <<tag, parts...>> that names what it is made    *)
(* of, so hashes do not collide; the view tag, one byte, does.  A byte     *)
(* string of the wrong length is <<"short">>, and a layout of several      *)
(* fields is the sequence of its fields.  None is null, Throws an          *)
(* exception.                                                              *)
(***************************************************************************)
EXTENDS Naturals, Sequences

CONSTANTS
  TaggedOne,      \* the coins whose secrets have view tag 1, not 0: tags collide
  None, Throws

Is32(b) == b # <<"short">>
Sha256(parts) == <<"sha256", parts>>
Keccak(parts) == <<"keccak", parts>>
-----------------------------------------------------------------------------
(* ML-KEM: a coin is the randomness of an encapsulation.  Decapsulating        *)
(* another key's ciphertext gives a secret nobody can name (implicit           *)
(* rejection); one of the wrong length throws.                                 *)

EncapsKey(r) == <<"ek", r>>

Encapsulate(ek, coin) == [cipherText |-> <<"ct", ek, coin>>, sharedSecret |-> <<"ss", ek, coin>>]

Decapsulate(ct, r) == IF ct = <<"short">> THEN Throws
                      ELSE IF ct[2] = EncapsKey(r) THEN <<"ss", ct[2], ct[3]>>
                      ELSE <<"rejected", EncapsKey(r), ct[3]>>

computeViewTag(ss) == IF ss[3] \in TaggedOne THEN 1 ELSE 0
-----------------------------------------------------------------------------
(* Domains and keys *)

SPHINCS_C13 == [commitDomain |-> "c13/commit", openDomain |-> "c13/open"]
SPHINCS_C13_DOMAINS == [open |-> "c13/open", commit |-> "c13/commit"]
PREIMAGE_DOMAINS == [open |-> "preimage/open", commit |-> "preimage/commit"]
ML_DSA_44_DOMAINS == [open |-> "ml-dsa-44/open", commit |-> "ml-dsa-44/commit"]
PREIMAGE_KEY_DOMAIN == "preimage/key"
ML_DSA_44_KEY_DOMAIN == "ml-dsa-44/key"

(* A bytes32 word of the raw verifier is <<high half, low half>>; n = 16, so  *)
(* the low half is zero.                                                      *)
sphincsC13Key(pkSeed, pkRoot) == IF pkSeed[2] # 0 \/ pkRoot[2] # 0 THEN Throws
                                 ELSE <<"||", pkSeed[1], pkRoot[1]>>
sphincsC13Opener(ss) == Sha256(<<SPHINCS_C13.openDomain, ss>>)
sphincsC13Commitment(pk, opener) == Keccak(<<SPHINCS_C13.commitDomain, pk, opener>>)

spendKeyFromSecret(sk) == IF Is32(sk) THEN Keccak(<<PREIMAGE_KEY_DOMAIN, sk>>) ELSE Throws

(* assertDomains: a forgotten argument is an exception, not another destination *)
deriveOpener(ss, domains) ==
  IF domains = None THEN Throws
  ELSE IF domains = SPHINCS_C13_DOMAINS THEN sphincsC13Opener(ss)
  ELSE Sha256(<<domains.open, ss>>)

deriveCommitment(spendKey, opener, domains) ==
  IF domains = None THEN Throws
  ELSE IF domains = SPHINCS_C13_DOMAINS THEN sphincsC13Commitment(spendKey, opener)
  ELSE Keccak(<<domains.commit, spendKey, opener>>)

(* CREATE2 over the creation code and its arguments; salt 0 unless given *)
accountAddress(commitment, dep) ==
  <<"create2", dep.factory, IF dep.salt = None THEN 0 ELSE dep.salt,
    Keccak(<<dep.creationCode, commitment, dep.verifier, dep.frameCtx>>)>>
-----------------------------------------------------------------------------
(* Meta-addresses *)

COMMIT_META_ADDRESS_VERSION == 2

encodeCommitMetaAddress(spendKey, kemEk) ==
  IF Is32(spendKey) /\ kemEk # <<"short">> THEN <<COMMIT_META_ADDRESS_VERSION, spendKey, kemEk>>
  ELSE Throws

decodeCommitMetaAddress(bytes) ==
  IF Len(bytes) # 3 \/ bytes[1] # COMMIT_META_ADDRESS_VERSION THEN Throws
  ELSE [spendKey |-> bytes[2], kemEk |-> bytes[3]]
-----------------------------------------------------------------------------
(* Send and scan *)

sendCommit(meta, dep, domains, coin) ==
  LET e == Encapsulate(meta.kemEk, coin)
      commitment == deriveCommitment(meta.spendKey, deriveOpener(e.sharedSecret, domains), domains) IN
  IF domains = None THEN Throws
  ELSE [stealthAddress |-> accountAddress(commitment, dep), ephemeralPubKey |-> e.cipherText,
        viewTag |-> computeViewTag(e.sharedSecret)]

(* The opening of an announcement that pays meta, or None.  A name ending in   *)
(* _Something is a slip the next definition could have.                        *)
checkCommitAnnouncement_TagOnly(meta, r, ann, dep, domains) ==
  LET ss == Decapsulate(ann.ephemeralPubKey, r)
      opener == deriveOpener(ss, domains) IN
  IF domains = None THEN Throws
  ELSE IF ss = Throws \/ computeViewTag(ss) # ann.viewTag THEN None
  ELSE [opener |-> opener, commitment |-> deriveCommitment(meta.spendKey, opener, domains)]
checkCommitAnnouncement(meta, r, ann, dep, domains) ==
  LET ss == Decapsulate(ann.ephemeralPubKey, r)
      opener == deriveOpener(ss, domains)
      commitment == deriveCommitment(meta.spendKey, opener, domains) IN
  IF domains = None THEN Throws
  ELSE IF ss = Throws THEN None
  ELSE IF computeViewTag(ss) # ann.viewTag THEN None
  ELSE IF accountAddress(commitment, dep) # ann.stealthAddress THEN None
  ELSE [opener |-> opener, commitment |-> commitment]
-----------------------------------------------------------------------------
(* Account profiles.  Lengths are counted in fields; the raw C13 key is the   *)
(* spend key itself, the preimage profile has no signature.                    *)

SPHINCS_C13_COMMIT_V0 ==
  [name |-> "sphincs-c13-commit/v0", metaAddressVersion |-> 2, domains |-> SPHINCS_C13_DOMAINS,
   dsa |-> FALSE, keyDomain |-> None, pkBytes |-> 1, sigBytes |-> 1]
PREIMAGE_V0 ==
  [name |-> "preimage/v0", metaAddressVersion |-> 2, domains |-> PREIMAGE_DOMAINS,
   dsa |-> FALSE, keyDomain |-> PREIMAGE_KEY_DOMAIN, pkBytes |-> None, sigBytes |-> None]
ML_DSA_44_COMMIT_V0 ==
  [name |-> "ml-dsa-44-commit/v0", metaAddressVersion |-> 2, domains |-> ML_DSA_44_DOMAINS,
   dsa |-> TRUE, keyDomain |-> ML_DSA_44_KEY_DOMAIN, pkBytes |-> 1, sigBytes |-> 1]
PROFILES == {SPHINCS_C13_COMMIT_V0, PREIMAGE_V0, ML_DSA_44_COMMIT_V0}

payloadBytes(p) == IF p.pkBytes = None \/ p.sigBytes = None THEN None ELSE p.pkBytes + 1 + p.sigBytes

(* A malformed field of a deployment is "malformed". *)
selectProfile(name, chainId, dep) ==
  IF \/ ~\E p \in PROFILES : p.name = name
     \/ chainId <= 0
     \/ \E f \in {"factory", "verifier", "frameCtx", "creationCode", "salt"} : dep[f] = "malformed"
  THEN Throws
  ELSE [profile |-> CHOOSE p \in PROFILES : p.name = name, chainId |-> chainId, deployment |-> dep]

bindingForChain(binding, chainId) == IF binding.chainId # chainId THEN Throws ELSE binding

(* checkMeta *)
MetaFits(meta) == Is32(meta.spendKey) /\ meta.kemEk # <<"short">>

sendWithProfile(meta, binding, coin) ==
  IF ~MetaFits(meta) THEN Throws
  ELSE sendCommit(meta, binding.deployment, binding.profile.domains, coin)

checkWithProfile(meta, r, ann, binding) ==
  IF ~MetaFits(meta) THEN Throws
  ELSE checkCommitAnnouncement(meta, r, ann, binding.deployment, binding.profile.domains)

spendKeyFromMlDsaPk(pk, p) ==
  IF p.keyDomain = None \/ p.pkBytes = None THEN Throws ELSE Keccak(<<p.keyDomain, pk>>)

(* ML-DSA: key generation from a seed; a signature names its key and digest.  *)
mlDsaRecipient(zeta, p) ==
  IF ~p.dsa THEN Throws
  ELSE [publicKey |-> <<"pk", zeta>>, spendKey |-> spendKeyFromMlDsaPk(<<"pk", zeta>>, p)]
Signature(zeta, digest) == <<"sig", zeta, digest>>
Verifies(sig, digest, pk) == sig[1] = "sig" /\ pk[1] = "pk" /\ sig[2] = pk[2] /\ sig[3] = digest

buildAuthorization(zeta, pk, opener, digest, p) ==
  IF ~p.dsa THEN Throws ELSE <<pk, opener, Signature(zeta, digest)>>

Parses(payload, p) == payloadBytes(p) # None /\ Len(payload) = payloadBytes(p)
parseAuthorization(payload, p) ==
  IF Parses(payload, p) THEN [pk |-> payload[1], opener |-> payload[2], sig |-> payload[3]] ELSE Throws

verifyAuthorization_AnyKey(commitment, digest, payload, p) ==
  LET parts == parseAuthorization(payload, p) IN
  p.dsa /\ Parses(payload, p) /\ Verifies(parts.sig, digest, parts.pk)
verifyAuthorization(commitment, digest, payload, p) ==
  /\ p.dsa
  /\ Parses(payload, p)
  /\ LET parts == parseAuthorization(payload, p) IN
     /\ deriveCommitment(spendKeyFromMlDsaPk(parts.pk, p), parts.opener, p.domains) = commitment
     /\ Verifies(parts.sig, digest, parts.pk)
=============================================================================
