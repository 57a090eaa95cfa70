----------------------------- MODULE KeyExchange -----------------------------
(***************************************************************************)
(* StealthKeyExchange (contracts/src/StealthKeyExchange.sol), its client   *)
(* js-client/src/key-exchange.ts and the ERC-5564 announcer it forwards    *)
(* to.  The client's table and the contract's are two independent          *)
(* transcriptions of the same parameters (KeyLengths).                     *)
(***************************************************************************)
EXTENDS KeyLengths, Sequences

VARIABLES
  log,          \* the announcer's events, in order
  viewingKeys   \* _keys

exchangeVars == <<log, viewingKeys>>
-----------------------------------------------------------------------------
(* ERC5564Announcer.announce: anyone, any scheme, any bytes. *)
Emit(caller, scheme, n, metadata) ==
  /\ Len(log) < MaxLog
  /\ log' = Append(log, [caller |-> caller, scheme |-> scheme, ct |-> n, metadata |-> metadata])
  /\ UNCHANGED viewingKeys

AnnounceDirectly(caller, scheme, n, metadata) == Emit(caller, scheme, n, metadata)

(* StealthKeyExchange.announce *)
Announce(n, metadata) == /\ KemOfCiphertextLength(n) # Reverts
                         /\ metadata >= VIEW_TAG_BYTES
                         /\ Emit("keyExchange", SCHEME_ID, n, metadata)

(* A name ending in _Something is a slip the next definition could have. *)
RegisterViewingKey_Reuses(n) ==
  LET kem == KemOfEncapsulationKeyLength(n)
  IN /\ kem # Reverts
     /\ viewingKeys' = <<[kem |-> kem, ek |-> n]>> \o viewingKeys
     /\ Len(viewingKeys) < MaxViewingKeys
     /\ UNCHANGED log

RegisterViewingKey(n) ==
  LET kem == KemOfEncapsulationKeyLength(n)
  IN /\ kem # Reverts
     /\ Len(viewingKeys) < MaxViewingKeys
     /\ viewingKeys' = Append(viewingKeys, [kem |-> kem, ek |-> n])
     /\ UNCHANGED log

(* viewingKeyOf(index), counted from 0 *)
HasViewingKey(index) == index < Len(viewingKeys)
ViewingKeyOf(index) == viewingKeys[index + 1]

ExchangeInit == log = <<>> /\ viewingKeys = <<>>

ExchangeNext == \/ \E c \in Emitters, s \in Schemes, n \in Lengths, m \in MetadataLengths :
                     AnnounceDirectly(c, s, n, m)
                \/ \E n \in Lengths, m \in MetadataLengths : Announce(n, m)
                \/ \E n \in Lengths : RegisterViewingKey(n)

ExchangeSpec == ExchangeInit /\ [][ExchangeNext]_exchangeVars
-----------------------------------------------------------------------------
Event == [caller : Emitters \cup {"keyExchange"}, scheme : Schemes, ct : Lengths,
          metadata : MetadataLengths]

ViewingKey == [kem : Kems, ek : Lengths]

ExchangeTypeOK == log \in Seq(Event) /\ viewingKeys \in Seq(ViewingKey)

(* What went through the wrapper, the client can read: its own table types  *)
(* the ciphertext, and the view tag is there.  Entries of other callers     *)
(* promise nothing.                                                         *)
Decodes(event) == event.caller = "keyExchange" =>
                    /\ event.scheme = SCHEME_ID
                    /\ ClientKemOfCiphertext(event.ct) \in Kems
                    /\ event.metadata >= VIEW_TAG_BYTES

WrapperEntriesDecode == \A i \in DOMAIN log : Decodes(log[i])

(* The parameter set recorded with a viewing key is the one the client      *)
(* reads off the key, so a sender that resolves an index encapsulates for   *)
(* the set the recipient registered.                                        *)
RecordedKemIsClients ==
  \A index \in 0..MaxViewingKeys :
    HasViewingKey(index) =>
      /\ ViewingKeyOf(index).kem = ClientKemOfEncapsulationKey(ViewingKeyOf(index).ek)
      /\ KEM_SIZES[ViewingKeyOf(index).kem].ek = ViewingKeyOf(index).ek

(* Append-only: an index, once assigned, never changes what it resolves to. *)
Table == INSTANCE AppendOnlyTable WITH table <- viewingKeys
IndexPermanent == Table!Spec

(* The contract's pre-check, the client's and announce() itself accept the  *)
(* same announcements, and contract and client type a length alike, as a    *)
(* ciphertext, as a key and as a meta-address: of whatever is in the log.   *)
TablesAgreeAt(n) ==
  /\ KemOfCiphertextLength(n) = ClientKemOfCiphertext(n)
  /\ KemOfEncapsulationKeyLength(n) = ClientKemOfEncapsulationKey(n)
  /\ \A version \in 0..3 : KemOfMetaAddress(n, version) = ClientKemOfMetaAddress(n, version)
  /\ \A m \in 0..2 : /\ IsValidAnnouncement(n, m) <=> ClientIsValidAnnouncement(n, m)
                     /\ IsValidAnnouncement(n, m) <=> /\ KemOfCiphertextLength(n) # Reverts
                                                      /\ m >= VIEW_TAG_BYTES

TablesAgree == \A i \in DOMAIN log : TablesAgreeAt(log[i].ct)

(* A meta-address built around a registered key types back to that key's    *)
(* parameter set and to its layout: "all eight lengths are pairwise         *)
(* distinct" (D-028).                                                       *)
MetaAddressTypesBackFor(kem) ==
  \A form \in Forms :
    KemOfMetaAddress(MetaAddressBytes(kem, form), MetaAddressVersion(form)) = <<kem, form>>

MetaAddressTypesBack == \A i \in DOMAIN viewingKeys : MetaAddressTypesBackFor(viewingKeys[i].kem)
=============================================================================
