----------------------------- MODULE NativeKey -----------------------------
(***************************************************************************)
(* EIP-8164 native-key stealth addresses (js-client/src/native-key.ts):    *)
(* the rootless ECDSA authorization that is derived from a stealth public  *)
(* key and a chain id, and the address it recovers to.  The curve is       *)
(* y^2 = x^3 + 7 over a small field; keccak256 of the seed is an oracle    *)
(* that answers any number, every other hash and encoding is a term.       *)
(***************************************************************************)
EXTENDS Integers, FiniteSets, SequencesExt

CONSTANTS
  SECP_P, SECP_N,  \* the field and the group order, SECP_N < SECP_P
  MaxSeed,         \* the oracle answers at most this: 2^256 - 1, beyond SECP_P
  Pubkeys, Chains, Nonces,
  MaxCrafts,       \* bound: authorizations crafted
  None

VARIABLES
  rSeed,    \* the oracle: for a chain and a key, None until it is asked
  crafted   \* the authorizations crafted, and the calls that threw or hang

nativeVars == <<rSeed, crafted>>

Short == "short"   \* a public key of the wrong length
-----------------------------------------------------------------------------
(* By squaring: Pow[e] takes the power e of every element of the field. *)
Pow[e \in Nat] ==
  [b \in 0..SECP_P - 1 |->
     IF e = 0 THEN 1
     ELSE (Pow[e \div 2][(b * b) % SECP_P] * (IF e % 2 = 1 THEN b ELSE 1)) % SECP_P]
modPow(b, e) == Pow[e][b % SECP_P]

(* Euler's criterion for x^3 + 7.  A name ending in _Something is a slip the  *)
(* next definition could have.                                                *)
isValidX_HalfP(x) ==
  /\ x \in 0..SECP_P - 1
  /\ LET rhs == (modPow(x, 3) + 7) % SECP_P IN rhs = 0 \/ modPow(rhs, SECP_P \div 4) = 1
isValidX(x) ==
  /\ x \in 0..SECP_P - 1
  /\ LET rhs == (modPow(x, 3) + 7) % SECP_P IN rhs = 0 \/ modPow(rhs, (SECP_P - 1) \div 2) = 1

(* Minimal big-endian bytes as hex digits, an even number of them *)
HexDigits[v \in Nat] == IF v = 0 THEN <<>> ELSE Append(HexDigits[v \div 16], v % 16)
intToMinimalHex(v) == IF Len(HexDigits[v]) % 2 = 1 THEN <<0>> \o HexDigits[v] ELSE HexDigits[v]

authorizationMsgHash_NoChain(chainId, pubkey, nonce) ==
  <<"keccak", 7, <<<<>>, pubkey, intToMinimalHex(nonce)>>>>
authorizationMsgHash(chainId, pubkey, nonce) ==
  <<"keccak", 7, <<intToMinimalHex(chainId), pubkey, intToMinimalHex(nonce)>>>>

(* The search goes up one by one: from the order on it never ends. *)
Search[x \in Nat] == IF x >= SECP_N THEN None ELSE IF isValidX(x) THEN x ELSE Search[x + 1]
craftedR(seed) == Search[seed % SECP_P]

(* ecrecover (external): of r, the x of a point, there is one key with s = 1  *)
(* and even y; a term names it.                                               *)
recoverAddress(hash, r) == <<"recovered", hash, r>>

Authorization(pubkey, chainId, nonce, r) ==
  LET msgHash == authorizationMsgHash(chainId, pubkey, nonce) IN
  [chainId |-> chainId, pubkey |-> pubkey, nonce |-> nonce, outcome |-> "crafted", yParity |-> 0,
   r |-> r, s |-> 1, msgHash |-> msgHash,
   address |-> recoverAddress(msgHash, r)]

-----------------------------------------------------------------------------
Init == rSeed = [k \in Chains \X Pubkeys |-> None] /\ crafted = {}

Call(pubkey, chainId, nonce, outcome) ==
  [pubkey |-> pubkey, chainId |-> chainId, nonce |-> nonce, outcome |-> outcome]

craftAuthorization(pubkey, chainId, nonce) ==
  /\ Cardinality(crafted) < MaxCrafts
  /\ \/ /\ pubkey = Short /\ UNCHANGED rSeed
        /\ crafted' = crafted \cup {Call(pubkey, chainId, nonce, "throws")}
     \/ /\ pubkey # Short
        /\ \E seed \in IF rSeed[<<chainId, pubkey>>] = None THEN 0..MaxSeed ELSE {rSeed[<<chainId, pubkey>>]} :
             /\ rSeed' = [rSeed EXCEPT ![<<chainId, pubkey>>] = seed]
             /\ crafted' = crafted \cup
                  {IF craftedR(seed) = None THEN Call(pubkey, chainId, nonce, "hangs")
                   ELSE Authorization(pubkey, chainId, nonce, craftedR(seed))}

Next == \E pubkey \in Pubkeys, chainId \in Chains, nonce \in Nonces :
          craftAuthorization(pubkey, chainId, nonce)

Spec == Init /\ [][Next]_nativeVars
-----------------------------------------------------------------------------
OnCurve(x) == \E y \in 0..SECP_P - 1 : (y * y) % SECP_P = (x * x * x + 7) % SECP_P

(* A crafted tuple is a signature of a point below the group order, no point  *)
(* between it and the seed is skipped, so that all who derive it agree, and   *)
(* its address stands for one key on one chain: the one that was paid has     *)
(* nonce 0, no other authorization recovers to it.  The search hangs only     *)
(* where no such point is left: seeds at the top of the field.                *)
NativeAddresses ==
  \A a \in crafted :
    LET start == rSeed[<<a.chainId, a.pubkey>>] % SECP_P IN
    CASE a.outcome = "throws" -> a.pubkey = Short
      [] a.outcome = "hangs" -> \A x \in start..SECP_N - 1 : ~OnCurve(x)
      [] a.outcome = "crafted" ->
                  /\ a.r \in start..SECP_N - 1 /\ OnCurve(a.r)
                  /\ \A x \in start..a.r - 1 : ~OnCurve(x)
                  /\ \A b \in crafted : b.outcome = "crafted" /\ b.address = a.address => b = a
=============================================================================
