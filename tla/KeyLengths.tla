------------------------------ MODULE KeyLengths ------------------------------
(***************************************************************************)
(* The length tables of the key exchange, written twice: by the contract   *)
(* (contracts/src/StealthKeyExchange.sol) and by the client                *)
(* (js-client/src/key-exchange.ts).  Everything the contract decides, it   *)
(* decides by length, so a byte string is its length here.                 *)
(***************************************************************************)
EXTENDS Naturals

CONSTANTS
  Emitters,       \* who calls the announcer directly
  Schemes,        \* ERC-5564 scheme ids in use, scheme 2 among them
  Lengths,        \* lengths of the ciphertexts and keys that are tried
  MetadataLengths,
  MaxLog, MaxViewingKeys   \* bounds

SCHEME_ID == 2
VIEW_TAG_BYTES == 1
SPEND_KEY_BYTES == 32

ASSUME LengthsAssumption == Lengths \subseteq Nat /\ MetadataLengths \subseteq Nat
ASSUME KeyExchangeAssumption == /\ SCHEME_ID \in Schemes /\ "keyExchange" \notin Emitters
                                /\ MaxLog \in Nat /\ MaxViewingKeys \in Nat

Kems == {"MLKEM512", "MLKEM768", "MLKEM1024", "XWING"}
Forms == {"CONSTRUCTION_A", "COMMIT"}
Reverts == "reverts"
-----------------------------------------------------------------------------
(* The contract's parameter table and the typing functions over it. *)

CiphertextBytes(kem) == IF kem = "MLKEM512" THEN 768 ELSE IF kem = "MLKEM768" THEN 1088
                        ELSE IF kem = "MLKEM1024" THEN 1568 ELSE 1120

EncapsulationKeyBytes(kem) == IF kem = "MLKEM512" THEN 800 ELSE IF kem = "MLKEM768" THEN 1184
                              ELSE IF kem = "MLKEM1024" THEN 1568 ELSE 1216

PackedTBytes(kem) == IF kem = "MLKEM512" THEN 2944 ELSE IF kem = "MLKEM1024" THEN 5888 ELSE 4416

MetaAddressVersion(form) == IF form = "COMMIT" THEN 2 ELSE 1

MetaAddressBytes(kem, form) ==
  IF form = "COMMIT" THEN 1 + SPEND_KEY_BYTES + EncapsulationKeyBytes(kem)
  ELSE 1 + 32 + PackedTBytes(kem) + EncapsulationKeyBytes(kem)

(* The order in which the contract compares the lengths. *)
FirstOf(P(_)) == IF P("MLKEM768") THEN "MLKEM768" ELSE IF P("XWING") THEN "XWING"
                 ELSE IF P("MLKEM512") THEN "MLKEM512" ELSE IF P("MLKEM1024") THEN "MLKEM1024"
                 ELSE Reverts

KemOfCiphertextLength(n) == FirstOf(LAMBDA kem : n = CiphertextBytes(kem))

KemOfEncapsulationKeyLength(n) == FirstOf(LAMBDA kem : n = EncapsulationKeyBytes(kem))

KemOfMetaAddress_AnyVersion(n, version) ==
  LET form == IF version = 1 THEN "CONSTRUCTION_A" ELSE "COMMIT"
      kem == FirstOf(LAMBDA k : n = MetaAddressBytes(k, form))
  IN IF kem = Reverts THEN <<Reverts, Reverts>> ELSE <<kem, form>>

KemOfMetaAddress(n, version) ==
  IF n = 0 \/ version \notin {1, 2} THEN <<Reverts, Reverts>>
  ELSE LET form == IF version = 1 THEN "CONSTRUCTION_A" ELSE "COMMIT"
           kem == FirstOf(LAMBDA k : n = MetaAddressBytes(k, form))
       IN IF kem = Reverts THEN <<Reverts, Reverts>> ELSE <<kem, form>>

IsValidAnnouncement(n, metadata) == n \in {1088, 1120, 768, 1568} /\ metadata >= VIEW_TAG_BYTES
-----------------------------------------------------------------------------
(* The client's table (KEM_SIZES, PACKED_T_BYTES) and its find() over it. *)

KEM_SIZES == [MLKEM512 |-> [ek |-> 800, ct |-> 768], MLKEM768 |-> [ek |-> 1184, ct |-> 1088],
              MLKEM1024 |-> [ek |-> 1568, ct |-> 1568], XWING |-> [ek |-> 1216, ct |-> 1120]]
PACKED_T_BYTES == [MLKEM512 |-> 2944, MLKEM768 |-> 4416, MLKEM1024 |-> 5888, XWING |-> 4416]
META_VERSIONS == [CONSTRUCTION_A |-> 1, COMMIT |-> 2]

ClientMetaAddressBytes(kem, form) ==
  33 + KEM_SIZES[kem].ek + (IF form = "COMMIT" THEN 0 ELSE PACKED_T_BYTES[kem])

(* find(), null being Reverts; FIPS 203's sets come first in KEM_ORDER. *)
ClientFind(P(_)) == IF P("MLKEM512") THEN "MLKEM512" ELSE IF P("MLKEM768") THEN "MLKEM768"
                    ELSE IF P("MLKEM1024") THEN "MLKEM1024" ELSE IF P("XWING") THEN "XWING"
                    ELSE Reverts

ClientKemOfCiphertext(n) == ClientFind(LAMBDA kem : KEM_SIZES[kem].ct = n)
ClientKemOfEncapsulationKey(n) == ClientFind(LAMBDA kem : KEM_SIZES[kem].ek = n)

ClientFormOf(version) == IF META_VERSIONS.CONSTRUCTION_A = version THEN "CONSTRUCTION_A"
                         ELSE IF META_VERSIONS.COMMIT = version THEN "COMMIT" ELSE Reverts

ClientKemOfMetaAddress(n, version) ==
  LET form == ClientFormOf(version)
      kem == ClientFind(LAMBDA k : ClientMetaAddressBytes(k, form) = n)
  IN IF n = 0 \/ form = Reverts \/ kem = Reverts THEN <<Reverts, Reverts>> ELSE <<kem, form>>

ClientIsValidAnnouncement(n, metadata) ==
  ClientKemOfCiphertext(n) # Reverts /\ metadata >= VIEW_TAG_BYTES
=============================================================================
