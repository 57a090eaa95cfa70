---------------------------- MODULE MCScanFlow ----------------------------
(***************************************************************************)
(* Two recipients and two networks.  "chunked" scans from a fixed block in *)
(* spans of two, "window" scans the last block and the one before in one   *)
(* query.  A secret nobody chose has the tag of coin c1's secrets, so view *)
(* tags collide.                                                           *)
(***************************************************************************)
EXTENDS ScanFlow

CONSTANTS a, b, c1, c2, chunked, window

MCNetworks == {chunked, window}
MCRecipients == {a, b}
MCCoins == {c1, c2}
MCTags == {1, 2}
MCTagOf(ss) == IF ss[2] = c2 THEN 2 ELSE 1
MCScanFromBlock == [n \in MCNetworks |-> IF n = chunked THEN 1 ELSE -1]
MCLogChunk == [n \in MCNetworks |-> IF n = chunked THEN 2 ELSE 0]
MCMaxHead == [n \in MCNetworks |-> IF n = chunked THEN 3 ELSE 1]

(* A payment to a, one to b, and the first under another scheme. *)
Announce(r, c) == [scheme |-> 1, ct |-> <<r, c>>, tag |-> IF c = c2 THEN 2 ELSE 1, addr |-> <<r, <<r, c>>>>]
MCOnePayment == {Announce(a, c1)}
MCShortChains == [n \in MCNetworks |-> 1]
MCTraffic == {Announce(a, c1), Announce(b, c1), [Announce(a, c1) EXCEPT !.scheme = 2]}
=============================================================================
