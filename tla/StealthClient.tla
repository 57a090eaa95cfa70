--------------------------- MODULE StealthClient ---------------------------
(***************************************************************************)
(* The commitment scheme at work: senders pay a recipient's spend key      *)
(* under an account profile, anyone announces, the recipient scans with    *)
(* its viewing key and spends through a sponsored frame transaction.       *)
(* Everything announced or broadcast is public, and anyone may recombine   *)
(* the parts of it.                                                        *)
(***************************************************************************)
EXTENDS CommitScheme, FrameTx, FiniteSets

CONSTANTS
  Recipients,     \* each has a viewing key and one spend key of every kind
  Coins,
  Chains,
  MaxPays, MaxLog, \* bounds: payments, announcements
  MaxSpends       \* bound: spends

VARIABLES
  log,       \* the announcements, in order
  paid,      \* the payments made: spend key, binding and announcement
  broadcast  \* spends sent, each with its owner and account

vars == <<log, paid, broadcast>>

(* The deployment of a profile on a chain, trusted configuration.  Each chain *)
(* has a factory and a frame context of its own: accountAddress does not hash *)
(* the chain, so this assumption alone tells the accounts of two chains apart. *)
DeploymentOf(p, chain) ==
  [factory |-> <<"factory", chain>>, creationCode |-> <<"account", 0>>, verifier |-> <<"verifier", p.name>>,
   frameCtx |-> <<"ctx", chain>>, salt |-> None]
Bindings == {selectProfile(p.name, chain, DeploymentOf(p, chain)) : p \in PROFILES, chain \in Chains}

(* The 32-byte spend keys of r: under which profile one of them is to be read *)
(* is agreed out of band, nothing in the key says.                            *)
SpendKeys(r) == {mlDsaRecipient(r, ML_DSA_44_COMMIT_V0).spendKey, spendKeyFromSecret(<<"sk", r>>),
                 sphincsC13Key(<<<<"seed", r>>, 0>>, <<<<"root", r>>, 0>>)}
MetaAddress(r, key) == decodeCommitMetaAddress(encodeCommitMetaAddress(key, EncapsKey(r)))
MlDsaMeta(r) == MetaAddress(r, mlDsaRecipient(r, ML_DSA_44_COMMIT_V0).spendKey)
-----------------------------------------------------------------------------
Init == log = <<>> /\ paid = {} /\ broadcast = {}

(* sendWithProfile: the sender takes key, profile and chain from what the     *)
(* recipient published, or mixes them up.                                     *)
Pay(r, key, binding, coin) ==
  LET ann == sendWithProfile(MetaAddress(r, key), binding, coin) IN
  /\ Len(log) < MaxLog /\ Cardinality(paid) < MaxPays
  /\ log' = Append(log, ann)
  /\ paid' = paid \cup {[key |-> key, binding |-> binding, ann |-> ann]}
  /\ UNCHANGED broadcast

(* The announcer takes anything: an address, a ciphertext and a tag from      *)
(* different announcements, or a ciphertext of the wrong length.              *)
Forge(address, ct, tag) ==
  /\ Len(log) < MaxLog
  /\ log' = Append(log, [stealthAddress |-> address, ephemeralPubKey |-> ct, viewTag |-> tag])
  /\ UNCHANGED <<paid, broadcast>>

(* scanCommit: the announcements that pay meta under a binding *)
scanCommit(meta, r, binding) == {i \in DOMAIN log : checkWithProfile(meta, r, log[i], binding) # None}

ExecuteFrame(account, to) == <<defaultFrame(account, <<"executeFrame", to>>)>>

(* buildSponsoredPqTx with buildAuthorization as pqSign, for a payment the    *)
(* scan found: the authorization signs the hash of the placeholder            *)
(* transaction.                                                               *)
Spend(r, binding, i, to) ==
  LET p == ML_DSA_44_COMMIT_V0
      found == checkWithProfile(MlDsaMeta(r), r, log[i], bindingForChain(binding, binding.chainId))
      account == log[i].stealthAddress
      frames == ExecuteFrame(account, to)
      sponsor == <<"eoa", r>>
      sigHash == frameTxSigHash(UnsignedTx(sponsor, binding.chainId, 0, frames))
      auth == buildAuthorization(r, mlDsaRecipient(r, p).publicKey, found.opener, sigHash, p) IN
  /\ Cardinality(broadcast) < MaxSpends
  /\ binding.profile = p
  /\ i \in scanCommit(MlDsaMeta(r), r, binding)
  /\ broadcast' = broadcast \cup
       {[owner |-> r, commitment |-> found.commitment, account |-> account, to |-> to,
         tx |-> SponsoredTx(sponsor, binding.chainId, 0, frames, <<"ecdsa", r, sigHash>>, auth)]}
  /\ UNCHANGED <<log, paid>>

Next ==
  \/ \E r \in Recipients, binding \in Bindings, coin \in Coins : \E key \in SpendKeys(r) :
       Pay(r, key, binding, coin)
  \/ \E i, j \in DOMAIN log, tag \in 0..1 :
       \E ct \in {<<"short">>, log[j].ephemeralPubKey} : Forge(log[i].stealthAddress, ct, tag)
  \/ \E r \in Recipients, binding \in Bindings, i \in DOMAIN log, to \in Recipients :
       Spend(r, binding, i, to)

Spec == Init /\ [][Next]_vars
-----------------------------------------------------------------------------
(* Announcements have their three fields. *)
TypeOK ==
  /\ \A i \in DOMAIN log : DOMAIN log[i] = {"stealthAddress", "ephemeralPubKey", "viewTag"}
  /\ Len(log) <= MaxLog
  /\ \A b \in broadcast : b.owner \in Recipients /\ b.to \in Recipients

(* A scan for a spend key under a binding lists exactly the announcements of  *)
(* payments made to that key under that binding, copies included: nothing     *)
(* paid under another profile, on another chain, to another key, and nothing  *)
(* recombined from several announcements.                                     *)
ScanFindsPayments ==
  \A r \in Recipients, binding \in Bindings : \A key \in SpendKeys(r) :
    scanCommit(MetaAddress(r, key), r, binding) =
      {i \in DOMAIN log : [key |-> key, binding |-> binding, ann |-> log[i]] \in paid}

(* An account accepts what its owner sent, and nothing else that anyone can   *)
(* put together: own signatures, the broadcast ones of others, any key and    *)
(* the account's opening, over any frames.  The sig hash covers the frames,   *)
(* the commitment binds the key.                                              *)
Usable(z, h) == {Signature(z, h)} \cup {b.tx.signatures[2].signature[3] : b \in broadcast}

Accepts(b, tx, auth) == verifyAuthorization(b.commitment, frameTxSigHash(tx), auth, ML_DSA_44_COMMIT_V0)

OwnersSpendsOnly ==
  \A b \in broadcast :
    /\ Accepts(b, b.tx, b.tx.signatures[2].signature)
    /\ \A z \in Recipients \ {b.owner}, k, to \in Recipients, sponsor \in {<<"eoa", r>> : r \in Recipients} :
         LET frames == ExecuteFrame(b.account, to)
             tx == UnsignedTx(sponsor, b.tx.chainId, 0, frames) IN
         \A sig \in Usable(z, frameTxSigHash(tx)) :
           Accepts(b, tx, <<mlDsaRecipient(k, ML_DSA_44_COMMIT_V0).publicKey,
                            b.tx.signatures[2].signature[2], sig>>)
             => \E own \in broadcast : /\ own.owner = b.owner
                                        /\ frameTxSigHash(own.tx) = frameTxSigHash(tx)
=============================================================================
