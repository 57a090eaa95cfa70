-------------------------- MODULE MCClientTools --------------------------
(***************************************************************************)
(* The client library and the two local processes of its tests and of the  *)
(* development setup, side by side: StealthClient (commitment scheme),     *)
(* StealthKeys (lattice keys), NativeKey (EIP-8164 addresses),             *)
(* UserOperation (ERC-4337 operations), SignerService and RpcProxy.  They  *)
(* share no state: the service and the proxy answer any request, the       *)
(* library's modules are functions of their arguments.  A behaviour runs   *)
(* one of the six (a bound).                                               *)
(***************************************************************************)
EXTENDS Naturals

CONSTANTS
  Recipients, Coins, TaggedOne, Chains, MaxPays, MaxLog, MaxSpends, Throws,  \* of StealthClient
  ByteBits, N, K, L, D, ETA, ROOT, StreamLen, Seeds, MaxPayments,            \* of StealthKeys
  SECP_P, SECP_N, MaxSeed, Pubkeys, Nonces, MaxCrafts,                       \* of NativeKey
  Jobs, Dests, GasPrices, Funds0, MaxTopUps,                                 \* of UserOperation
  Inputs, Bad, MaxRequests,                                                  \* of SignerService
  Params, MaxCalls, MaxBatch,                                                \* of RpcProxy
  None, Error, Torn

ASSUME ChainsAssumption == Chains \subseteq Nat \ {0}
ASSUME CurveAssumption ==
  /\ SECP_P \in Nat /\ SECP_N \in 1..SECP_P - 1 /\ SECP_P % 2 = 1
  /\ \A d \in 2..SECP_P - 1 : SECP_P % d # 0
ASSUME NativeAssumption == Nonces \subseteq Nat /\ None \notin Nat
ASSUME GasAssumption == GasPrices \subseteq Nat \ {0} /\ Funds0 \in Nat /\ MaxTopUps \in Nat
ASSUME RequestsAssumption == MaxRequests \in Nat
ASSUME BoundAssumption == MaxLog \in Nat

VARIABLES
  part,  \* the part that runs
  log, paid, broadcast,
  zeta, meta, derived,
  rSeed, crafted,
  script, jobs, sigFile, sent, bal, deposit, topUps, nonce, executed,
  signerC13, reqs, proveQueue, c13KeyCache, deriveCache, hybridDemo, toml, gz,
  mode, made, calls, entries, dirty, file, seen

Client == INSTANCE StealthClient
Keys == INSTANCE StealthKeys
Native == INSTANCE NativeKey
Op == INSTANCE UserOperation
Signer == INSTANCE SignerService
Proxy == INSTANCE RpcProxy

(* null is none of the values it stands beside: a paymaster, a result of the  *)
(* node, the fields of a profile, an answer of the service.                   *)
ASSUME PaymasterAssumption == None # "paymaster"
ASSUME ResultsAssumption == \A req \in Proxy!Requests : Proxy!True(req) # None
ASSUME ProfilesAssumption ==
  /\ None # 1 /\ None # 3 /\ None # Client!ML_DSA_44_KEY_DOMAIN
  /\ \A p \in Client!PROFILES : p.domains # None

ASSUME AnswersAssumption ==
  /\ None # Error
  /\ \A kind \in Signer!Kinds, arg \in Inputs \cup {Bad, None} : Signer!Asked(kind, arg) # None

(* The deployments are configured with well-formed fields. *)
ASSUME DeploymentsAssumption ==
  \A p \in Client!PROFILES, chain \in Chains,
     f \in {"factory", "verifier", "frameCtx", "creationCode", "salt"} :
    Client!DeploymentOf(p, chain)[f] # "malformed"

(* No exception is a shared secret, null no opening of a payment. *)
ASSUME SecretsAssumption ==
  \A r \in Recipients, coin \in Coins, p \in Client!PROFILES :
    LET ss == <<"ss", Client!EncapsKey(r), coin>>
        opener == Client!deriveOpener(ss, p.domains) IN
    /\ ss # Throws
    /\ \A key \in Client!SpendKeys(r) :
         None # [opener |-> opener, commitment |-> Client!deriveCommitment(key, opener, p.domains)]

clientVars == <<log, paid, broadcast>>
keyVars == <<zeta, meta, derived>>
nativeVars == <<rSeed, crafted>>
opVars == <<script, jobs, sigFile, sent, bal, deposit, topUps, nonce, executed>>
signerVars == <<signerC13, reqs, proveQueue, c13KeyCache, deriveCache, hybridDemo, toml, gz>>
proxyVars == <<mode, made, calls, entries, dirty, file, seen>>
vars == <<part, clientVars, keyVars, nativeVars, opVars, signerVars, proxyVars>>

Init ==
  /\ part \in {"client", "keys", "native", "op", "signer", "proxy"}
  /\ Client!Init /\ Keys!Init /\ Native!Init /\ Op!Init /\ Signer!Init /\ Proxy!Init
  /\ part # "op" => ~script
  /\ part # "signer" => ~signerC13
  /\ part # "proxy" => mode = "forward"

Next ==
  /\ UNCHANGED part
  /\ \/ /\ part = "client" /\ Client!Next
        /\ UNCHANGED <<keyVars, nativeVars, opVars, signerVars, proxyVars>>
     \/ /\ part = "keys" /\ Keys!Next
        /\ UNCHANGED <<clientVars, nativeVars, opVars, signerVars, proxyVars>>
     \/ /\ part = "native" /\ Native!Next
        /\ UNCHANGED <<clientVars, keyVars, opVars, signerVars, proxyVars>>
     \/ /\ part = "op" /\ Op!Next
        /\ UNCHANGED <<clientVars, keyVars, nativeVars, signerVars, proxyVars>>
     \/ /\ part = "signer" /\ Signer!Next
        /\ UNCHANGED <<clientVars, keyVars, nativeVars, opVars, proxyVars>>
     \/ /\ part = "proxy" /\ Proxy!Next
        /\ UNCHANGED <<clientVars, keyVars, nativeVars, opVars, signerVars>>

Spec == Init /\ [][Next]_vars /\ Signer!Fairness
-----------------------------------------------------------------------------
(* The properties of the parts, named for the run. *)

ScanFindsPayments == Client!ScanFindsPayments
StealthKeySpendable == Keys!StealthKeySpendable
NativeAddresses == Native!NativeAddresses

(* Commitment accounts and the hybrid account *)
OwnersSpendsOnly == Client!OwnersSpendsOnly /\ Op!OwnersSpendsOnly

OpsFunded == Op!OpsFunded
AnswersOwnInput == Signer!AnswersOwnInput
RequestsEnd == Signer!RequestsEnd
ReplayAnswers == Proxy!ReplayAnswers
=============================================================================
