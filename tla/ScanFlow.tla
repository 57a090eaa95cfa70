------------------------------ MODULE ScanFlow ------------------------------
(***************************************************************************)
(* The recipient's page: ui/src/components/ScanTab.tsx over the log        *)
(* fetching of ui/src/lib/announcements.ts, the worker of                  *)
(* ui/src/lib/scan-worker.ts and the check of js-client/src/scheme.ts,     *)
(* while the chains grow and the user changes tab, network and keys.       *)
(*                                                                         *)
(* A scan closes over the network and the two fields of the click.  Blocks *)
(* once mined do not change (no reorganisation), and a block holds at most *)
(* one announcement.                                                       *)
(*                                                                         *)
(* Cryptography is symbolic.  A ciphertext <<r, c>> encapsulates the       *)
(* secret <<r, c>> to r's viewing key; under another key it decapsulates   *)
(* to a secret nobody else can name (implicit rejection).  The stealth     *)
(* address of spending half m under a secret is <<m, secret>>: blinding    *)
(* and keccak256 are injective here.  View tags are one byte and collide.  *)
(***************************************************************************)
EXTENDS Integers, Sequences

CONSTANTS
  Networks,
  ScanFromBlock,  \* [Networks -> Int]: negative means relative to the head
  LogChunk,       \* [Networks -> Nat]: blocks per getLogs; 0 is null, no cap
  Recipients, Coins, Tags,
  TagOf(_),       \* computeViewTag
  SCHEME_ID, OtherScheme,
  Traffic,        \* the announcements that may be mined
  MaxHead,        \* bound, [Networks -> Nat]: the height a chain reaches
  MaxScans,       \* bound: scans started
  Malformed,      \* a ciphertext or a key of the wrong length
  Nothing,        \* an empty block, an empty field, no result
  ErrorNote       \* the outcome of a scan that threw

Secrets == Recipients \X Coins
Addresses == Recipients \X Secrets
Announcements == [scheme : {SCHEME_ID, OtherScheme}, ct : Secrets \cup {Malformed}, tag : Tags,
                  addr : Addresses]

ASSUME ScanAssumption ==
  /\ ScanFromBlock \in [Networks -> Int]
  /\ LogChunk \in [Networks -> Nat]
  /\ SCHEME_ID # OtherScheme
  /\ Traffic \subseteq Announcements
  /\ Malformed \notin Recipients /\ Nothing \notin Recipients
  /\ Malformed \notin Secrets /\ Nothing \notin Announcements
  /\ ErrorNote # Nothing
  /\ MaxHead \in [Networks -> Nat] /\ MaxScans \in Nat

ASSUME TagAssumption == \A ss \in Secrets : TagOf(ss) \in Tags

VARIABLES
  chain,   \* [Networks -> Seq]: block b >= 1 of the network, Nothing or an announcement
  net,     \* App: the selected network
  open,    \* App: is the scan tab shown, so that a ScanTab is mounted?
  tab,     \* the mounted instance's hooks: the two fields, scanning, the outcome, workerRef
  scans,   \* the scans started, in order
  live     \* the scans whose worker is alive

vars == <<chain, net, open, tab, scans, live>>

Blocks == UNION {0..MaxHead[n] : n \in Networks}
Height(n) == Len(chain[n])
Fields == Recipients \cup {Malformed}
-----------------------------------------------------------------------------
(* js-client/src/scheme.ts *)

(* ml_kem768.decapsulate of a ciphertext of the right length.  Under a key   *)
(* it was not made for, the secret is one no sender can have used.           *)
Decapsulate(ct, dk) == IF ct[1] = dk THEN ct ELSE <<"rejected", dk, ct>>

StealthAddressOf(meta, ss) == <<meta, ss>>

CheckAnnouncement_TagOnly(meta, dk, ann) ==
  /\ ann.ct # Malformed /\ dk # Malformed
  /\ TagOf(Decapsulate(ann.ct, dk)) = ann.tag

(* A decapsulation that throws, for the ciphertext's length or the key's, is *)
(* no match.                                                                *)
CheckAnnouncement(meta, dk, ann) ==
  /\ ann.ct # Malformed /\ dk # Malformed
  /\ LET ss == Decapsulate(ann.ct, dk)
     IN TagOf(ss) = ann.tag /\ StealthAddressOf(meta, ss) = ann.addr
-----------------------------------------------------------------------------
(* ui/src/lib/announcements.ts *)

FromBlock(n, latest) == IF ScanFromBlock[n] >= 0 THEN ScanFromBlock[n]
                        ELSE IF latest + ScanFromBlock[n] < 0 THEN 0
                        ELSE latest + ScanFromBlock[n]

(* The span that starts at block b, of a scan up to block latest. *)
SpanEnd(n, b, latest) == IF LogChunk[n] = 0 \/ b + LogChunk[n] - 1 >= latest
                         THEN latest ELSE b + LogChunk[n] - 1

NextSpan_AfterChunk(n, b, latest) == IF LogChunk[n] = 0 THEN latest + 1 ELSE b + LogChunk[n] + 1

NextSpan(n, b, latest) == IF LogChunk[n] = 0 THEN latest + 1 ELSE b + LogChunk[n]

(* getLogs with the scheme filter: the blocks of a span that hold a log. *)
GetLogs(n, from, to) ==
  {b \in from..to : b >= 1 /\ b <= Height(n) /\ chain[n][b] # Nothing /\ chain[n][b].scheme = SCHEME_ID}
-----------------------------------------------------------------------------
(* The rest of the page *)

Mine(n, block) == /\ Height(n) < MaxHead[n]
                  /\ chain' = [chain EXCEPT ![n] = Append(@, block)]
                  /\ UNCHANGED <<net, open, tab, scans, live>>

SelectNetwork(n) == /\ net # n /\ net' = n
                    /\ UNCHANGED <<chain, open, tab, scans, live>>

FreshTab == [meta |-> Nothing, dk |-> Nothing, scanning |-> FALSE, shown |-> Nothing, ref |-> 0]

(* The effect that prefills the fields runs on mounting; k is what the        *)
(* recipient tab, which is another one, has generated or forgotten by then.  *)
OpenTab(k) == /\ ~open /\ open' = TRUE
              /\ tab' = [FreshTab EXCEPT !.meta = k, !.dk = k]
              /\ UNCHANGED <<chain, net, scans, live>>

(* A generation started on the recipient tab may finish after it was left:    *)
(* the effect overwrites both fields.                                        *)
KeysArrive(k) == /\ open /\ tab' = [tab EXCEPT !.meta = k, !.dk = k]
                 /\ UNCHANGED <<chain, net, open, scans, live>>

(* The cleanup terminates the worker the ref knows. *)
LeaveTab == /\ open /\ open' = FALSE
            /\ tab' = FreshTab
            /\ live' = live \ {tab.ref}
            /\ scans' = [t \in DOMAIN scans |-> [scans[t] EXCEPT !.mounted = FALSE]]
            /\ UNCHANGED <<chain, net>>

EditMeta(m) == /\ open /\ tab.meta # m /\ tab' = [tab EXCEPT !.meta = m]
               /\ UNCHANGED <<chain, net, open, scans, live>>

EditDk(d) == /\ open /\ tab.dk # d /\ tab' = [tab EXCEPT !.dk = d]
             /\ UNCHANGED <<chain, net, open, scans, live>>
-----------------------------------------------------------------------------
(* ScanTab.scan: one action per await. *)

None == [b \in Blocks |-> 0]     \* an empty list of announcements, by block

(* The button is disabled while scanning and while a field is empty. *)
Scan == /\ open /\ ~tab.scanning /\ tab.meta # Nothing /\ tab.dk # Nothing
        /\ Len(scans) < MaxScans
        /\ tab' = [tab EXCEPT !.scanning = TRUE, !.shown = Nothing]
        /\ scans' = Append(scans, [mounted |-> TRUE, net |-> net, meta |-> tab.meta, dk |-> tab.dk,
                                   pc |-> "head", from |-> 0, latest |-> 0, cursor |-> 0,
                                   got |-> None, hits |-> None])
        /\ UNCHANGED <<chain, net, open, live>>

Set(t, new) == tab' = IF scans[t].mounted THEN new ELSE tab

(* getBlockNumber answers; a window that starts past the head is an error. *)
GotHead(t) ==
  LET latest == Height(scans[t].net)
      from == FromBlock(scans[t].net, latest)
  IN  /\ scans[t].pc = "head" /\ from <= latest
      /\ scans' = [scans EXCEPT ![t] = [@ EXCEPT !.pc = "logs", !.from = from, !.latest = latest,
                                                 !.cursor = from]]
      /\ UNCHANGED <<tab, live>>

(* getLogs answers for the span at the cursor. *)
GotLogs(t) ==
  LET s == scans[t]
      logs == GetLogs(s.net, s.cursor, SpanEnd(s.net, s.cursor, s.latest))
  IN  /\ s.pc = "logs" /\ s.cursor <= s.latest
      /\ scans' = [scans EXCEPT ![t] = [s EXCEPT !.cursor = NextSpan(s.net, s.cursor, s.latest),
                                                 !.got = [b \in Blocks |-> s.got[b] + IF b \in logs THEN 1 ELSE 0]]]
      /\ UNCHANGED <<tab, live>>

StartWorker(t) == /\ scans[t].pc = "logs" /\ scans[t].cursor > scans[t].latest
                  /\ live' = live \cup {t}
                  /\ scans' = [scans EXCEPT ![t].pc = "worker"]
                  /\ Set(t, [tab EXCEPT !.ref = t])

(* The worker's "done": decodeMetaAddress accepted the meta-address, and the *)
(* announcements that check are hits.                                       *)
WorkerDone(t) ==
  LET s == scans[t]
  IN  /\ s.pc = "worker" /\ t \in live /\ s.meta # Malformed
      /\ live' = live \ {t}
      /\ scans' = [scans EXCEPT ![t] = [s EXCEPT !.pc = "balances", !.hits =
             [b \in Blocks |-> IF s.got[b] > 0 /\ CheckAnnouncement(s.meta, s.dk, chain[s.net][b])
                               THEN s.got[b] ELSE 0]]]
      /\ Set(t, [tab EXCEPT !.ref = 0])

Finished == [mounted |-> FALSE, net |-> Nothing, meta |-> Nothing, dk |-> Nothing, pc |-> "end", from |-> 0,
             latest |-> 0, cursor |-> 0, got |-> None, hits |-> None]

(* A balance that cannot be read is decoration: the loop always completes. *)
Show(t) ==
  LET s == scans[t]
  IN  /\ s.pc = "balances"
      /\ scans' = [scans EXCEPT ![t] = Finished]
      /\ Set(t, [tab EXCEPT !.scanning = FALSE,
                            !.shown = [net |-> s.net, meta |-> s.meta, dk |-> s.dk,
                                       from |-> s.from, to |-> s.latest, hits |-> s.hits]])
      /\ UNCHANGED live

(* What can throw: an RPC call, the window check, the worker (which is then   *)
(* left alive, with the ref still pointing to it).                          *)
FailScan_KeepsLabel(t) == /\ scans[t].pc \in {"head", "logs", "worker"}
                          /\ scans[t].pc = "worker" => t \in live
                          /\ scans' = [scans EXCEPT ![t] = Finished]
                          /\ UNCHANGED <<tab, live>>

FailScan(t) == /\ scans[t].pc \in {"head", "logs", "worker"}
               /\ scans[t].pc = "worker" => t \in live
               /\ scans' = [scans EXCEPT ![t] = Finished]
               /\ Set(t, [tab EXCEPT !.scanning = FALSE, !.shown = ErrorNote])
               /\ UNCHANGED live

Step(t) == /\ \/ GotHead(t) \/ GotLogs(t) \/ StartWorker(t) \/ WorkerDone(t) \/ Show(t) \/ FailScan(t)
           /\ UNCHANGED <<chain, net, open>>
-----------------------------------------------------------------------------
Init == /\ chain = [n \in Networks |-> <<>>]
        /\ net \in Networks
        /\ open = FALSE /\ tab = FreshTab
        /\ scans = <<>> /\ live = {}

Page == \/ \E n \in Networks : SelectNetwork(n)
        \/ \E k \in Recipients \cup {Nothing} : OpenTab(k)
        \/ \E k \in Recipients : KeysArrive(k)
        \/ LeaveTab \/ Scan
        \/ \E m \in Fields : EditMeta(m)
        \/ \E d \in Fields : EditDk(d)

Next == \/ \E n \in Networks, block \in Traffic \cup {Nothing} : Mine(n, block)
        \/ Page
        \/ \E t \in DOMAIN scans : Step(t)

Spec == Init /\ [][Next]_vars

(* Every await of a scan settles; a live worker answers. *)
FairSpec == Spec /\ \A t \in 1..MaxScans : WF_vars(t \in DOMAIN scans /\ Step(t))
-----------------------------------------------------------------------------
(* Properties *)

Counts == [Blocks -> 0..1]
Results == [net : Networks, meta : Fields, dk : Fields, from : Nat, to : Nat, hits : Counts]
ScanRecords == [mounted : BOOLEAN, net : Networks \cup {Nothing}, meta : Fields \cup {Nothing},
                dk : Fields \cup {Nothing}, pc : {"head", "logs", "worker", "balances", "end"},
                from : Nat, latest : Nat, cursor : Nat, got : Counts, hits : Counts]

Tab == [meta : Fields \cup {Nothing}, dk : Fields \cup {Nothing}, scanning : BOOLEAN,
        shown : Results \cup {Nothing, ErrorNote}, ref : Nat]

(* Every variable has its type; in particular no block is fetched twice by a  *)
(* scan, and the chains stay below their bounds.                            *)
TypeOK ==
  /\ chain \in [Networks -> Seq(Traffic \cup {Nothing})]
  /\ \A n \in Networks : Height(n) <= MaxHead[n]
  /\ net \in Networks /\ open \in BOOLEAN
  /\ tab \in Tab /\ tab.ref \in 0..Len(scans)
  /\ scans \in Seq(ScanRecords) /\ Len(scans) <= MaxScans
  /\ live \subseteq DOMAIN scans

(* What a sender who follows the scheme announces for a payment to the        *)
(* meta-address whose viewing key is dk and whose spending half is meta's.   *)
Honest(meta, dk, coin) ==
  LET ss == <<dk, coin>>
  IN  [scheme |-> SCHEME_ID, ct |-> ss, tag |-> TagOf(ss), addr |-> <<meta, ss>>]

Paid(n, b, meta, dk) == /\ b >= 1 /\ b <= Height(n) /\ dk # Malformed
                        /\ \E coin \in Coins : chain[n][b] = Honest(meta, dk, coin)

Exact(r) == \A b \in Blocks :
  r.hits[b] = IF r.from <= b /\ b <= r.to /\ Paid(r.net, b, r.meta, r.dk) THEN 1 ELSE 0

(* A result on the page is exact: over the blocks it says were scanned, on    *)
(* the network of the click, it lists every payment made to the keys of the  *)
(* click and once only, and nothing else, however the spans were cut and     *)
(* whatever the user switched or the chain appended meanwhile.               *)
ScanExact == tab.shown \in {Nothing, ErrorNote} \/ Exact(tab.shown)

(* The mounted page has one scan running exactly while its button says so,    *)
(* and shows no outcome meanwhile: a result on the page is never that of a   *)
(* click before the last.                                                    *)
OneScan ==
  LET running == {t \in DOMAIN scans : scans[t].mounted}
  IN  /\ \A t, u \in running : t = u
      /\ tab.scanning <=> running # {}
      /\ tab.scanning => open /\ tab.shown = Nothing

(* A scan ends: the button does not stay on "Scanning", provided the calls    *)
(* settle and the worker answers.                                            *)
ScanEnds == tab.scanning ~> ~tab.scanning
=============================================================================
