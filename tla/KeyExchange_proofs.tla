------------------------- MODULE KeyExchange_proofs -------------------------
(***************************************************************************)
(* Proofs about KeyExchange, for every set of lengths and callers and      *)
(* every bound: that the contract's table and the client's are one table,  *)
(* and from it the invariants of the runs.                                 *)
(***************************************************************************)
EXTENDS KeyExchange, TLAPS

USE DEF SCHEME_ID, VIEW_TAG_BYTES, SPEND_KEY_BYTES, Reverts, Kems, Forms

(* The contract and its client type every ciphertext length alike. *)
LEMMA CiphertextsAgree == \A n \in Nat : KemOfCiphertextLength(n) = ClientKemOfCiphertext(n)
  BY DEF KemOfCiphertextLength, ClientKemOfCiphertext, FirstOf, ClientFind, CiphertextBytes, KEM_SIZES

(* ... and every encapsulation key length. *)
LEMMA KeysAgree == \A n \in Nat : KemOfEncapsulationKeyLength(n) = ClientKemOfEncapsulationKey(n)
  BY DEF KemOfEncapsulationKeyLength, ClientKemOfEncapsulationKey, FirstOf, ClientFind,
         EncapsulationKeyBytes, KEM_SIZES

(* ... and every meta-address, whatever its version byte. *)
LEMMA MetaAddressesAgree ==
  \A n, version \in Nat : KemOfMetaAddress(n, version) = ClientKemOfMetaAddress(n, version)
<1> SUFFICES ASSUME NEW n \in Nat, NEW version \in Nat
             PROVE  KemOfMetaAddress(n, version) = ClientKemOfMetaAddress(n, version)
  OBVIOUS
<1>1. CASE version = 1
  BY <1>1 DEF KemOfMetaAddress, ClientKemOfMetaAddress, ClientFormOf, META_VERSIONS, FirstOf, ClientFind,
       MetaAddressBytes, ClientMetaAddressBytes, EncapsulationKeyBytes, PackedTBytes, KEM_SIZES, PACKED_T_BYTES
<1>2. CASE version = 2
  BY <1>2 DEF KemOfMetaAddress, ClientKemOfMetaAddress, ClientFormOf, META_VERSIONS, FirstOf, ClientFind,
       MetaAddressBytes, ClientMetaAddressBytes, EncapsulationKeyBytes, KEM_SIZES
<1>3. CASE version \notin {1, 2}
  BY <1>3 DEF KemOfMetaAddress, ClientKemOfMetaAddress, ClientFormOf, META_VERSIONS
<1> QED
  BY <1>1, <1>2, <1>3

(* The pre-checks of contract and client accept what announce() accepts. *)
LEMMA PreChecksAgree ==
  \A n, m \in Nat : /\ IsValidAnnouncement(n, m) <=> ClientIsValidAnnouncement(n, m)
                    /\ IsValidAnnouncement(n, m) <=> /\ KemOfCiphertextLength(n) # Reverts
                                                     /\ m >= VIEW_TAG_BYTES
  BY DEF IsValidAnnouncement, ClientIsValidAnnouncement, ClientKemOfCiphertext, ClientFind, KEM_SIZES,
         KemOfCiphertextLength, FirstOf, CiphertextBytes

(* Contract and client agree about every length there is. *)
THEOREM AllLengthsAgree == \A n \in Nat : TablesAgreeAt(n)
  BY CiphertextsAgree, KeysAgree, MetaAddressesAgree, PreChecksAgree DEF TablesAgreeAt

(* "all eight lengths are pairwise distinct (D-028)": a meta-address types   *)
(* back to the parameter set and the layout it was built for.               *)
THEOREM AllMetaAddressesTypeBack == \A kem \in Kems : MetaAddressTypesBackFor(kem)
  BY DEF MetaAddressTypesBackFor, KemOfMetaAddress, FirstOf, MetaAddressBytes, MetaAddressVersion,
         EncapsulationKeyBytes, PackedTBytes
-----------------------------------------------------------------------------
(* A typed length is in the table, and the client's table has it too. *)
LEMMA TypedKeyLengths ==
  \A n \in Nat : KemOfEncapsulationKeyLength(n) # Reverts
                 => /\ KemOfEncapsulationKeyLength(n) \in Kems
                    /\ KEM_SIZES[KemOfEncapsulationKeyLength(n)].ek = n
  BY DEF KemOfEncapsulationKeyLength, FirstOf, EncapsulationKeyBytes, KEM_SIZES

(* The log and the key table hold what ExchangeTypeOK says.                 *)
THEOREM TypeCorrect == ExchangeSpec => []ExchangeTypeOK
<1>1. ExchangeInit => ExchangeTypeOK
  BY DEF ExchangeInit, ExchangeTypeOK
<1>2. ExchangeTypeOK /\ [ExchangeNext]_exchangeVars => ExchangeTypeOK'
  <2> SUFFICES ASSUME ExchangeTypeOK, [ExchangeNext]_exchangeVars PROVE ExchangeTypeOK'
    OBVIOUS
  <2>1. ASSUME NEW c \in Emitters, NEW s \in Schemes, NEW n \in Lengths, NEW m \in MetadataLengths,
               AnnounceDirectly(c, s, n, m)
        PROVE  ExchangeTypeOK'
    BY <2>1 DEF AnnounceDirectly, Emit, ExchangeTypeOK, Event
  <2>2. ASSUME NEW n \in Lengths, NEW m \in MetadataLengths, Announce(n, m)
        PROVE  ExchangeTypeOK'
    BY <2>2, KeyExchangeAssumption DEF Announce, Emit, ExchangeTypeOK, Event
  <2>3. ASSUME NEW n \in Lengths, RegisterViewingKey(n)
        PROVE  ExchangeTypeOK'
    <3>1. KemOfEncapsulationKeyLength(n) \in Kems
      BY <2>3, TypedKeyLengths, LengthsAssumption DEF RegisterViewingKey
    <3> QED
      BY <2>3, <3>1 DEF RegisterViewingKey, ExchangeTypeOK, ViewingKey
  <2>4. CASE UNCHANGED exchangeVars
    BY <2>4 DEF exchangeVars, ExchangeTypeOK
  <2> QED
    BY <2>1, <2>2, <2>3, <2>4 DEF ExchangeNext
<1> QED
  BY <1>1, <1>2, PTL DEF ExchangeSpec
-----------------------------------------------------------------------------
(* What the entries of both sequences carry beside their types: the          *)
(* strengthening from which the invariants of the run follow.               *)
Recorded == \A i \in DOMAIN viewingKeys :
              /\ KemOfEncapsulationKeyLength(viewingKeys[i].ek) # Reverts
              /\ viewingKeys[i].kem = KemOfEncapsulationKeyLength(viewingKeys[i].ek)

IInv == ExchangeTypeOK /\ WrapperEntriesDecode /\ Recorded

(* What every entry of a sequence satisfies, every entry still satisfies     *)
(* after one more that does is appended.                                    *)
LEMMA LogGrows ==
  ASSUME NEW S, NEW seq \in Seq(S), NEW e \in S,
         \A i \in DOMAIN seq : Decodes(seq[i]), Decodes(e)
  PROVE  \A i \in DOMAIN Append(seq, e) : Decodes(Append(seq, e)[i])
  OBVIOUS

LEMMA IInvInductive == IInv /\ [ExchangeNext]_exchangeVars => WrapperEntriesDecode' /\ Recorded'
<1> SUFFICES ASSUME IInv, [ExchangeNext]_exchangeVars PROVE WrapperEntriesDecode' /\ Recorded'
  OBVIOUS
<1> USE DEF IInv
<1>1. ASSUME NEW c \in Emitters, NEW s \in Schemes, NEW n \in Lengths, NEW m \in MetadataLengths,
             AnnounceDirectly(c, s, n, m)
      PROVE  WrapperEntriesDecode' /\ Recorded'
  <2> DEFINE e == [caller |-> c, scheme |-> s, ct |-> n, metadata |-> m]
  <2>1. Decodes(e)
    BY KeyExchangeAssumption DEF Decodes
  <2>2. log' = Append(log, e) /\ viewingKeys' = viewingKeys /\ e \in Event /\ log \in Seq(Event)
    BY <1>1 DEF AnnounceDirectly, Emit, ExchangeTypeOK, Event
  <2> HIDE DEF e
  <2> QED
    BY <2>1, <2>2, LogGrows DEF Recorded, WrapperEntriesDecode
<1>2. ASSUME NEW n \in Lengths, NEW m \in MetadataLengths, Announce(n, m)
      PROVE  WrapperEntriesDecode' /\ Recorded'
  <2>1. ClientKemOfCiphertext(n) \in Kems
    BY <1>2, CiphertextsAgree, LengthsAssumption DEF Announce, KemOfCiphertextLength, FirstOf
  <2> DEFINE e == [caller |-> "keyExchange", scheme |-> SCHEME_ID, ct |-> n, metadata |-> m]
  <2>2. Decodes(e)
    BY <1>2, <2>1 DEF Announce, Decodes
  <2>3. log' = Append(log, e) /\ viewingKeys' = viewingKeys /\ e \in Event /\ log \in Seq(Event)
    BY <1>2, KeyExchangeAssumption DEF Announce, Emit, ExchangeTypeOK, Event
  <2> HIDE DEF e
  <2> QED
    BY <2>2, <2>3, LogGrows DEF Recorded, WrapperEntriesDecode
<1>3. ASSUME NEW n \in Lengths, RegisterViewingKey(n)
      PROVE  WrapperEntriesDecode' /\ Recorded'
  BY <1>3 DEF RegisterViewingKey, ExchangeTypeOK, WrapperEntriesDecode, Recorded
<1>4. CASE UNCHANGED exchangeVars
  BY <1>4 DEF exchangeVars, WrapperEntriesDecode, Recorded
<1> QED
  BY <1>1, <1>2, <1>3, <1>4 DEF ExchangeNext

LEMMA IInvHolds == ExchangeSpec => []IInv
<1>1. ExchangeInit => WrapperEntriesDecode /\ Recorded
  BY DEF ExchangeInit, WrapperEntriesDecode, Recorded
<1> QED
  BY <1>1, IInvInductive, TypeCorrect, PTL DEF ExchangeSpec, IInv

(* Whatever else is in the log, what came through the wrapper decodes. *)
THEOREM WrapperDecodes == ExchangeSpec => []WrapperEntriesDecode
  BY IInvHolds, PTL DEF IInv

(* The set recorded with a viewing key is the set its length means. *)
THEOREM RecordedKem == ExchangeSpec => []RecordedKemIsClients
<1>1. IInv => RecordedKemIsClients
  <2> SUFFICES ASSUME IInv, NEW index \in 0..MaxViewingKeys, HasViewingKey(index)
               PROVE  /\ ViewingKeyOf(index).kem = ClientKemOfEncapsulationKey(ViewingKeyOf(index).ek)
                      /\ KEM_SIZES[ViewingKeyOf(index).kem].ek = ViewingKeyOf(index).ek
    BY DEF RecordedKemIsClients
  <2>1. viewingKeys \in Seq(ViewingKey) /\ index + 1 \in DOMAIN viewingKeys
    BY DEF IInv, ExchangeTypeOK, HasViewingKey
  <2> QED
    <3>1. viewingKeys[index + 1] \in ViewingKey
      BY <2>1
    <3> QED
      BY <2>1, <3>1, KeysAgree, TypedKeyLengths, LengthsAssumption DEF IInv, Recorded, ViewingKeyOf, ViewingKey
<1> QED
  BY <1>1, IInvHolds, PTL

(* Contract, client and announce() agree about all that was ever announced. *)
THEOREM LoggedLengthsAgree == ExchangeSpec => []TablesAgree
<1>1. ExchangeTypeOK => TablesAgree
  <2> SUFFICES ASSUME ExchangeTypeOK, NEW i \in DOMAIN log PROVE TablesAgreeAt(log[i].ct)
    BY DEF TablesAgree
  <2>1. log[i] \in Event
    BY DEF ExchangeTypeOK
  <2> QED
    BY <2>1, AllLengthsAgree, LengthsAssumption DEF Event
<1> QED
  BY <1>1, TypeCorrect, PTL

(* Every registered key has a meta-address that types back to its set. *)
THEOREM RegisteredTypesBack == ExchangeSpec => []MetaAddressTypesBack
<1>1. ExchangeTypeOK => MetaAddressTypesBack
  <2> SUFFICES ASSUME ExchangeTypeOK, NEW i \in DOMAIN viewingKeys
               PROVE  MetaAddressTypesBackFor(viewingKeys[i].kem)
    BY DEF MetaAddressTypesBack
  <2>1. viewingKeys[i] \in ViewingKey
    BY DEF ExchangeTypeOK
  <2> QED
    BY <2>1, AllMetaAddressesTypeBack DEF ViewingKey
<1> QED
  BY <1>1, TypeCorrect, PTL

(* The registry implements the append-only table: an index is permanent. *)
THEOREM IndicesPermanent == ExchangeSpec => IndexPermanent
<1>1. ExchangeInit => Table!Init
  BY DEF ExchangeInit, Table!Init
<1>2. ExchangeTypeOK /\ [ExchangeNext]_exchangeVars => [Table!Grow]_viewingKeys
  <2> SUFFICES ASSUME ExchangeTypeOK, ExchangeNext, viewingKeys' # viewingKeys PROVE Table!Grow
    BY DEF exchangeVars
  <2>1. PICK n \in Lengths : RegisterViewingKey(n)
    BY DEF ExchangeNext, AnnounceDirectly, Announce, Emit
  <2>2. /\ viewingKeys \in Seq(ViewingKey)
        /\ viewingKeys' = Append(viewingKeys, [kem |-> KemOfEncapsulationKeyLength(n), ek |-> n])
    BY <2>1 DEF ExchangeTypeOK, RegisterViewingKey, ViewingKey
  <2> QED
    BY <2>2 DEF Table!Grow, Table!IsPrefix
<1> QED
  BY <1>1, <1>2, TypeCorrect, PTL DEF ExchangeSpec, IndexPermanent, Table!Spec
=============================================================================
