--------------------------- MODULE ScanFlow_proofs ---------------------------
(***************************************************************************)
(* Proofs about ScanFlow, for every set of networks, every length of span, *)
(* every traffic of announcements and any number of scans.                 *)
(***************************************************************************)
EXTENDS ScanFlow, TLAPS

(* Replacing one element of a sequence. *)
LEMMA SeqExcept ==
  ASSUME NEW S, NEW seq \in Seq(S), NEW t \in DOMAIN seq, NEW v \in S
  PROVE  /\ [seq EXCEPT ![t] = v] \in Seq(S)
         /\ Len([seq EXCEPT ![t] = v]) = Len(seq)
         /\ \A u \in DOMAIN seq : [seq EXCEPT ![t] = v][u] = IF u = t THEN v ELSE seq[u]
  OBVIOUS

(* Adding one at the end. *)
LEMMA SeqAppend ==
  ASSUME NEW S, NEW seq \in Seq(S), NEW v \in S
  PROVE  /\ Append(seq, v) \in Seq(S)
         /\ Len(Append(seq, v)) = Len(seq) + 1
         /\ DOMAIN Append(seq, v) = DOMAIN seq \cup {Len(seq) + 1}
         /\ \A u \in DOMAIN seq : Append(seq, v)[u] = seq[u]
         /\ Append(seq, v)[Len(seq) + 1] = v
  OBVIOUS

(* The check tells an honest payment to these keys from everything else that  *)
(* is announced under the scheme, including what implicit rejection makes of *)
(* a ciphertext for another key.                                             *)
LEMMA CheckIsHonest ==
  ASSUME NEW meta \in Recipients, NEW dk \in Fields, NEW ann \in Traffic, ann.scheme = SCHEME_ID
  PROVE  CheckAnnouncement(meta, dk, ann) <=> dk # Malformed /\ \E coin \in Coins : ann = Honest(meta, dk, coin)
<1>1. ann \in Announcements
  BY ScanAssumption
<1>2. ASSUME CheckAnnouncement(meta, dk, ann)
      PROVE  dk # Malformed /\ \E coin \in Coins : ann = Honest(meta, dk, coin)
  <2> DEFINE ss == Decapsulate(ann.ct, dk)
  <2>1. ann.ct \in Secrets /\ dk # Malformed /\ TagOf(ss) = ann.tag /\ ann.addr = <<meta, ss>>
    BY <1>1, <1>2 DEF CheckAnnouncement, StealthAddressOf, Announcements
  <2>2. <<meta, ss>> \in Addresses
    BY <1>1, <2>1 DEF Announcements
  <2>3. ss \in Secrets
    BY <2>2 DEF Addresses
  <2>4. ann.ct[1] = dk
    BY <2>3 DEF Decapsulate, Secrets
  <2>5. ss = ann.ct
    BY <2>4 DEF Decapsulate
  <2>6. ann.ct = <<dk, ann.ct[2]>> /\ ann.ct[2] \in Coins
    BY <2>1, <2>4 DEF Secrets
  <2>7. ann = [scheme |-> SCHEME_ID, ct |-> ann.ct, tag |-> TagOf(ann.ct), addr |-> <<meta, ann.ct>>]
    BY <1>1, <2>1, <2>5 DEF Announcements
  <2> QED
    BY <2>1, <2>6, <2>7 DEF Honest
<1>3. ASSUME dk # Malformed, NEW coin \in Coins, ann = Honest(meta, dk, coin)
      PROVE  CheckAnnouncement(meta, dk, ann)
  <2>1. <<dk, coin>> \in Secrets
    BY <1>3 DEF Fields, Secrets
  <2>2. ann.ct = <<dk, coin>> /\ ann.tag = TagOf(<<dk, coin>>) /\ ann.addr = <<meta, <<dk, coin>>>>
    BY <1>3 DEF Honest
  <2>3. ann.ct # Malformed
    BY <2>1, <2>2, ScanAssumption
  <2>4. Decapsulate(ann.ct, dk) = <<dk, coin>>
    BY <2>2 DEF Decapsulate
  <2> QED
    BY <1>3, <2>2, <2>3, <2>4 DEF CheckAnnouncement, StealthAddressOf
<1> QED
  BY <1>2, <1>3
-----------------------------------------------------------------------------
(* The inductive invariant.  Facts about blocks take the chains as a          *)
(* parameter, to be stated of those before and after a step.                 *)

LoggedIn(ch, n, b) == b >= 1 /\ b <= Len(ch[n]) /\ ch[n][b] # Nothing /\ ch[n][b].scheme = SCHEME_ID

PaidIn(ch, n, b, meta, dk) == /\ b >= 1 /\ b <= Len(ch[n]) /\ dk # Malformed
                              /\ \E coin \in Coins : ch[n][b] = Honest(meta, dk, coin)

ExactIn(ch, r) == \A b \in Blocks :
  r.hits[b] = IF r.from <= b /\ b <= r.to /\ PaidIn(ch, r.net, b, r.meta, r.dk) THEN 1 ELSE 0

ResultOf(s) == [net |-> s.net, meta |-> s.meta, dk |-> s.dk, from |-> s.from, to |-> s.latest, hits |-> s.hits]

(* What a scan has fetched is what was logged below its cursor, once. *)
Fetched(ch, s) == \A b \in Blocks :
  s.got[b] = IF s.from <= b /\ b <= s.latest /\ b < s.cursor /\ LoggedIn(ch, s.net, b) THEN 1 ELSE 0

Sound(ch, s) ==
  /\ s.pc # "end" => s.net \in Networks /\ s.meta \in Fields /\ s.dk \in Fields
  /\ s.pc \in {"logs", "worker", "balances"} => s.latest <= Len(ch[s.net])
  /\ s.pc = "head" => s.got = None
  /\ s.pc \in {"logs", "worker"} => Fetched(ch, s) /\ s.from <= s.cursor
  /\ s.pc = "worker" => s.latest < s.cursor
  /\ s.pc = "balances" => ExactIn(ch, ResultOf(s))

ScanInv == \A t \in DOMAIN scans : Sound(chain, scans[t])

ShownInv == \/ tab.shown \in {Nothing, ErrorNote}
            \/ /\ tab.shown \in Results /\ tab.shown.to <= Len(chain[tab.shown.net])
               /\ ExactIn(chain, tab.shown)

PageInv ==
  /\ ~open => tab = FreshTab
  /\ \A t \in DOMAIN scans : scans[t].mounted => open /\ tab.scanning /\ scans[t].pc # "end"
  /\ \A t, u \in DOMAIN scans : scans[t].mounted /\ scans[u].mounted => t = u
  /\ tab.scanning => open /\ tab.shown = Nothing /\ \E t \in DOMAIN scans : scans[t].mounted

IInv == TypeOK /\ ScanInv /\ ShownInv /\ PageInv

LEMMA BlocksAreNat == Blocks \subseteq Nat
  BY ScanAssumption DEF Blocks

LEMMA NoneIsCounts == None \in Counts
  BY DEF None, Counts

LEMMA HeightIsNat == ASSUME TypeOK, NEW n \in Networks PROVE Height(n) \in Nat
<1>1. chain[n] \in Seq(Traffic \cup {Nothing})
  BY DEF TypeOK
<1> QED
  BY <1>1 DEF Height

LEMMA ExactNow == ASSUME NEW r PROVE Exact(r) <=> ExactIn(chain, r)
  BY DEF Exact, ExactIn, Paid, PaidIn, Height
-----------------------------------------------------------------------------
(* Blocks are only added above those a scan has looked at. *)
Grown(old, new) == \A n \in Networks :
  /\ Len(old[n]) \in Nat /\ Len(new[n]) \in Nat /\ Len(old[n]) <= Len(new[n])
  /\ \A b \in 1..Len(old[n]) : new[n][b] = old[n][b]

LEMMA ExactGrows ==
  ASSUME NEW old, NEW new, Grown(old, new), NEW r \in Results, r.to <= Len(old[r.net]), ExactIn(old, r)
  PROVE  r.to <= Len(new[r.net]) /\ ExactIn(new, r)
<1>1. r.net \in Networks /\ r.to \in Nat
  BY DEF Results
<1>2. ASSUME NEW b \in Blocks, b <= r.to
      PROVE  PaidIn(new, r.net, b, r.meta, r.dk) <=> PaidIn(old, r.net, b, r.meta, r.dk)
  <2>1. b \in Nat
    BY BlocksAreNat
  <2> QED
    BY <1>1, <1>2, <2>1 DEF PaidIn, Grown
<1>3. ExactIn(new, r)
  BY <1>2 DEF ExactIn
<1> QED
  BY <1>1, <1>3 DEF Grown

LEMMA SoundGrows ==
  ASSUME NEW old, NEW new, Grown(old, new), NEW s \in ScanRecords, Sound(old, s)
  PROVE  Sound(new, s)
<1>1. s.latest \in Nat /\ s.pc \in {"head", "logs", "worker", "balances", "end"}
  BY DEF ScanRecords
<1>2. s.pc \in {"logs", "worker", "balances"} => s.net \in Networks /\ s.latest <= Len(old[s.net])
  BY DEF Sound
<1>3. s.pc \in {"logs", "worker", "balances"} => s.latest <= Len(new[s.net])
  BY <1>1, <1>2 DEF Grown
<1>4. ASSUME s.pc \in {"logs", "worker"} PROVE Fetched(new, s)
  <2>1. ASSUME NEW b \in Blocks, b <= s.latest
        PROVE  LoggedIn(new, s.net, b) <=> LoggedIn(old, s.net, b)
    <3>1. b \in Nat
      BY BlocksAreNat
    <3> QED
      BY <1>1, <1>2, <1>4, <2>1, <3>1 DEF LoggedIn, Grown
  <2>2. Fetched(old, s)
    BY <1>4 DEF Sound
  <2> QED
    BY <2>1, <2>2 DEF Fetched
<1>5. ASSUME s.pc = "balances" PROVE ExactIn(new, ResultOf(s))
  <2>1. ResultOf(s) \in Results
    BY <1>5 DEF Sound, ResultOf, Results, ScanRecords
  <2>2. ResultOf(s).to <= Len(old[ResultOf(s).net]) /\ ExactIn(old, ResultOf(s))
    BY <1>5 DEF Sound, ResultOf
  <2> QED
    BY <2>1, <2>2, ExactGrows
<1> QED
  BY <1>3, <1>4, <1>5 DEF Sound
-----------------------------------------------------------------------------
(* A block is mined. *)
LEMMA MineGrows ==
  ASSUME TypeOK, NEW n \in Networks, NEW block \in Traffic \cup {Nothing}, Mine(n, block)
  PROVE  Grown(chain, chain') /\ chain' \in [Networks -> Seq(Traffic \cup {Nothing})]
         /\ \A m \in Networks : Height(m)' <= MaxHead[m]
<1>1. chain \in [Networks -> Seq(Traffic \cup {Nothing})] /\ chain[n] \in Seq(Traffic \cup {Nothing})
  BY DEF TypeOK
<1> DEFINE new == Append(chain[n], block)
<1>2. chain' = [chain EXCEPT ![n] = new] /\ Len(chain[n]) < MaxHead[n]
  BY DEF Mine, Height
<1>3. /\ new \in Seq(Traffic \cup {Nothing})
      /\ Len(new) = Len(chain[n]) + 1
      /\ \A b \in 1..Len(chain[n]) : new[b] = chain[n][b]
  BY <1>1
<1> HIDE DEF new
<1>4. \A m \in Networks : Len(chain[m]) \in Nat /\ Len(chain[m]) <= MaxHead[m] /\ MaxHead[m] \in Nat
  BY HeightIsNat, ScanAssumption DEF TypeOK, Height
<1>5. chain' \in [Networks -> Seq(Traffic \cup {Nothing})]
  BY <1>1, <1>2, <1>3
<1>6. \A m \in Networks : chain'[m] = IF m = n THEN new ELSE chain[m]
  BY <1>1, <1>2
<1>7. Grown(chain, chain')
  <2>1. ASSUME NEW m \in Networks
        PROVE  /\ Len(chain[m]) \in Nat /\ Len(chain'[m]) \in Nat /\ Len(chain[m]) <= Len(chain'[m])
               /\ \A b \in 1..Len(chain[m]) : chain'[m][b] = chain[m][b]
    <3>1. CASE m = n
      BY <1>3, <1>4, <1>6, <3>1
    <3>2. CASE m # n
      BY <1>4, <1>6, <3>2
    <3> QED
      BY <3>1, <3>2
  <2> QED
    BY <2>1 DEF Grown
<1>8. \A m \in Networks : Len(chain'[m]) <= MaxHead[m]
  BY <1>2, <1>3, <1>4, <1>6
<1> QED
  BY <1>5, <1>7, <1>8 DEF Height

LEMMA MineKeeps ==
  ASSUME IInv, NEW n \in Networks, NEW block \in Traffic \cup {Nothing}, Mine(n, block)
  PROVE  IInv'
<1>1. TypeOK /\ UNCHANGED <<net, open, tab, scans, live>>
  BY DEF IInv, Mine
<1>2. TypeOK'
  BY <1>1, MineGrows DEF TypeOK
<1>3. ScanInv'
  <2>1. ASSUME NEW t \in DOMAIN scans PROVE Sound(chain', scans[t])
    <3>1. scans[t] \in ScanRecords
      BY <1>1 DEF TypeOK
    <3> QED
      BY <1>1, <3>1, MineGrows, SoundGrows DEF IInv, ScanInv
  <2> QED
    BY <1>1, <2>1 DEF ScanInv
<1>4. ShownInv'
  <2>1. CASE tab.shown \in {Nothing, ErrorNote}
    BY <1>1, <2>1 DEF ShownInv
  <2>2. CASE tab.shown \notin {Nothing, ErrorNote}
    <3>1. tab.shown \in Results /\ tab.shown.to <= Len(chain[tab.shown.net]) /\ ExactIn(chain, tab.shown)
      BY <2>2 DEF IInv, ShownInv
    <3>2. tab.shown.to <= Len(chain'[tab.shown.net]) /\ ExactIn(chain', tab.shown)
      BY <1>1, <3>1, MineGrows, ExactGrows
    <3> QED
      BY <1>1, <3>1, <3>2 DEF ShownInv
  <2> QED
    BY <2>1, <2>2
<1>5. PageInv'
  BY <1>1 DEF IInv, PageInv, FreshTab
<1> QED
  BY <1>2, <1>3, <1>4, <1>5 DEF IInv
-----------------------------------------------------------------------------
(* The page. *)
LEMMA FreshIsTab == FreshTab \in Tab /\ FreshTab.shown = Nothing /\ ~FreshTab.scanning /\ FreshTab.ref = 0
  BY DEF FreshTab, Tab

LEMMA FieldKeeps ==
  ASSUME IInv, tab' \in Tab, tab'.ref = tab.ref, tab'.shown = tab.shown, tab'.scanning = tab.scanning,
         open, UNCHANGED <<chain, net, open, scans, live>>
  PROVE  IInv'
<1>1. TypeOK'
  BY DEF IInv, TypeOK, Height
<1>2. ScanInv'
  BY DEF IInv, ScanInv
<1>3. ShownInv'
  BY DEF IInv, ShownInv
<1>4. PageInv'
  BY DEF IInv, PageInv
<1> QED
  BY <1>1, <1>2, <1>3, <1>4 DEF IInv

LEMMA EditKeeps ==
  ASSUME IInv, NEW k \in Fields, EditMeta(k) \/ EditDk(k)
  PROVE  IInv'
<1>1. tab \in Tab /\ (tab' = [tab EXCEPT !.meta = k] \/ tab' = [tab EXCEPT !.dk = k])
  BY DEF IInv, TypeOK, EditMeta, EditDk
<1>2. tab' \in Tab /\ tab'.ref = tab.ref /\ tab'.shown = tab.shown /\ tab'.scanning = tab.scanning
  BY <1>1 DEF Tab
<1> QED
  BY <1>2, FieldKeeps DEF EditMeta, EditDk

LEMMA ArriveKeeps ==
  ASSUME IInv, NEW k \in Recipients, KeysArrive(k)
  PROVE  IInv'
<1>1. tab \in Tab /\ tab' = [tab EXCEPT !.meta = k, !.dk = k] /\ k \in Fields
  BY DEF IInv, TypeOK, KeysArrive, Fields
<1>2. tab' \in Tab /\ tab'.ref = tab.ref /\ tab'.shown = tab.shown /\ tab'.scanning = tab.scanning
  BY <1>1 DEF Tab
<1> QED
  BY <1>2, FieldKeeps DEF KeysArrive

LEMMA SelectKeeps ==
  ASSUME IInv, NEW n \in Networks, SelectNetwork(n)
  PROVE  IInv'
<1>1. TypeOK'
  BY DEF IInv, TypeOK, SelectNetwork, Height
<1>2. ScanInv' /\ ShownInv' /\ PageInv'
  BY DEF IInv, ScanInv, ShownInv, PageInv, SelectNetwork, FreshTab
<1> QED
  BY <1>1, <1>2 DEF IInv

LEMMA OpenKeeps ==
  ASSUME IInv, NEW k \in Recipients \cup {Nothing}, OpenTab(k)
  PROVE  IInv'
<1>1. UNCHANGED <<chain, net, scans, live>> /\ open' = TRUE /\ ~open
  BY DEF OpenTab
<1>2. tab' \in Tab /\ tab'.shown = Nothing /\ tab'.scanning = FALSE /\ tab'.ref = 0
  BY FreshIsTab DEF OpenTab, Tab, Fields, FreshTab
<1>3. TypeOK'
  BY <1>1, <1>2 DEF IInv, TypeOK, Height
<1>4. ScanInv'
  BY <1>1 DEF IInv, ScanInv
<1>5. ShownInv'
  BY <1>2 DEF ShownInv
<1>6. PageInv'
  BY <1>1, <1>2 DEF IInv, PageInv
<1> QED
  BY <1>3, <1>4, <1>5, <1>6 DEF IInv

LEMMA UnmountKeepsSound ==
  ASSUME NEW ch, NEW s \in ScanRecords, Sound(ch, s)
  PROVE  /\ [s EXCEPT !.mounted = FALSE] \in ScanRecords /\ ~[s EXCEPT !.mounted = FALSE].mounted
         /\ Sound(ch, [s EXCEPT !.mounted = FALSE])
<1> DEFINE u == [s EXCEPT !.mounted = FALSE]
<1>1. u \in ScanRecords /\ ~u.mounted
  BY DEF ScanRecords
<1>2. /\ u.pc = s.pc /\ u.net = s.net /\ u.meta = s.meta /\ u.dk = s.dk /\ u.from = s.from
      /\ u.latest = s.latest /\ u.cursor = s.cursor /\ u.got = s.got /\ u.hits = s.hits
  BY DEF ScanRecords
<1> HIDE DEF u
<1>3. Sound(ch, u)
  BY <1>2 DEF Sound, Fetched, ResultOf
<1> QED
  BY <1>1, <1>3 DEF u

LEMMA LeaveKeeps ==
  ASSUME IInv, LeaveTab
  PROVE  IInv'
<1>1. /\ UNCHANGED <<chain, net>> /\ open' = FALSE /\ tab' = FreshTab /\ live' \subseteq live
      /\ scans' = [t \in DOMAIN scans |-> [scans[t] EXCEPT !.mounted = FALSE]]
  BY DEF LeaveTab
<1>2. \A t \in DOMAIN scans : scans[t] \in ScanRecords /\ Sound(chain, scans[t])
  BY DEF IInv, TypeOK, ScanInv
<1>3. /\ DOMAIN scans' = DOMAIN scans
      /\ \A t \in DOMAIN scans : scans'[t] \in ScanRecords /\ ~scans'[t].mounted /\ Sound(chain, scans'[t])
  BY <1>1, <1>2, UnmountKeepsSound
<1>4. scans' \in Seq(ScanRecords) /\ Len(scans') = Len(scans)
  BY <1>1, <1>3 DEF IInv, TypeOK
<1>5. TypeOK'
  <2>1. tab' \in Tab /\ tab'.ref = 0 /\ Len(scans') \in Nat
    BY <1>1, <1>4, FreshIsTab DEF IInv, TypeOK
  <2>2. live' \subseteq DOMAIN scans'
    BY <1>1, <1>3 DEF IInv, TypeOK
  <2>3. open' \in BOOLEAN
    BY <1>1
  <2>4. chain' = chain /\ net' = net /\ chain \in [Networks -> Seq(Traffic \cup {Nothing})]
        /\ (\A n \in Networks : Len(chain[n]) <= MaxHead[n]) /\ net \in Networks /\ Len(scans) <= MaxScans
    BY <1>1 DEF IInv, TypeOK, Height
  <2>5. tab'.ref \in 0..Len(scans')
    BY <2>1
  <2>6. \A n \in Networks : Len(chain'[n]) <= MaxHead[n]
    BY <2>4
  <2> QED
    BY <1>4, <2>1, <2>2, <2>3, <2>4, <2>5, <2>6 DEF TypeOK, Height
<1>6. ScanInv'
  BY <1>1, <1>3 DEF ScanInv
<1>7. ShownInv' /\ PageInv'
  BY <1>1, <1>3, FreshIsTab DEF ShownInv, PageInv
<1> QED
  BY <1>5, <1>6, <1>7 DEF IInv
-----------------------------------------------------------------------------
(* A scan. *)
LEMMA ScanKeeps ==
  ASSUME IInv, Scan
  PROVE  IInv'
<1> DEFINE new == [mounted |-> TRUE, net |-> net, meta |-> tab.meta, dk |-> tab.dk, pc |-> "head", from |-> 0,
                   latest |-> 0, cursor |-> 0, got |-> None, hits |-> None]
<1>1. /\ UNCHANGED <<chain, net, open, live>> /\ open /\ ~tab.scanning /\ Len(scans) < MaxScans
      /\ tab' = [tab EXCEPT !.scanning = TRUE, !.shown = Nothing] /\ scans' = Append(scans, new)
      /\ tab.meta # Nothing /\ tab.dk # Nothing
  BY DEF Scan
<1>2. tab \in Tab /\ scans \in Seq(ScanRecords) /\ net \in Networks /\ tab.ref \in 0..Len(scans)
      /\ live \subseteq DOMAIN scans
  BY DEF IInv, TypeOK
<1>3. tab.meta \in Fields /\ tab.dk \in Fields
  BY <1>1, <1>2 DEF Tab
<1>4. new \in ScanRecords
  BY <1>2, <1>3, NoneIsCounts DEF ScanRecords
<1>5. Sound(chain, new)
  BY <1>2, <1>3 DEF Sound
<1>6. new.mounted /\ new.pc # "end"
  OBVIOUS
<1> HIDE DEF new
<1>7. /\ scans' \in Seq(ScanRecords) /\ Len(scans') = Len(scans) + 1
      /\ DOMAIN scans' = DOMAIN scans \cup {Len(scans) + 1}
      /\ \A u \in DOMAIN scans : scans'[u] = scans[u]
      /\ scans'[Len(scans) + 1] = new
  BY <1>1, <1>2, <1>4, SeqAppend
<1>8. tab' \in Tab /\ tab'.ref = tab.ref /\ tab'.shown = Nothing
  BY <1>1, <1>2 DEF Tab
<1>9. tab'.scanning = TRUE
  BY <1>1, <1>2 DEF Tab
<1>10. Len(scans) \in Nat /\ MaxScans \in Nat
  BY <1>2, ScanAssumption
<1>11. TypeOK'
  <2>1. tab'.ref \in 0..Len(scans') /\ Len(scans') <= MaxScans /\ live' \subseteq DOMAIN scans'
    BY <1>1, <1>2, <1>7, <1>8, <1>10
  <2> QED
    BY <1>1, <1>7, <1>8, <2>1 DEF IInv, TypeOK, Height
<1>12. ScanInv'
  BY <1>1, <1>5, <1>7 DEF IInv, ScanInv
<1>13. ShownInv'
  BY <1>8 DEF ShownInv
<1>14. PageInv'
  <2>1. \A u \in DOMAIN scans : ~scans[u].mounted
    BY <1>1 DEF IInv, PageInv
  <2>2. \A u \in DOMAIN scans' : scans'[u].mounted => u = Len(scans) + 1
    BY <1>7, <2>1
  <2>3. Len(scans) + 1 \in DOMAIN scans' /\ scans'[Len(scans) + 1].mounted
        /\ scans'[Len(scans) + 1].pc # "end"
    BY <1>6, <1>7
  <2> QED
    BY <1>1, <1>8, <1>9, <2>2, <2>3 DEF PageInv
<1> QED
  BY <1>11, <1>12, <1>13, <1>14 DEF IInv

(* What every step of a scan does to the list of scans. *)
LEMMA StepKeeps ==
  ASSUME IInv, NEW t \in DOMAIN scans, NEW v \in ScanRecords, Sound(chain, v),
         scans' = [scans EXCEPT ![t] = v], UNCHANGED <<chain, net, open>>,
         tab' \in Tab, tab'.ref \in 0..Len(scans), live' \subseteq DOMAIN scans
  PROVE  /\ TypeOK' /\ ScanInv' /\ DOMAIN scans' = DOMAIN scans
         /\ \A u \in DOMAIN scans : scans'[u] = IF u = t THEN v ELSE scans[u]
<1>1. scans \in Seq(ScanRecords)
  BY DEF IInv, TypeOK
<1>2. /\ scans' \in Seq(ScanRecords) /\ Len(scans') = Len(scans)
      /\ \A u \in DOMAIN scans : scans'[u] = IF u = t THEN v ELSE scans[u]
  BY <1>1, SeqExcept
<1>3. DOMAIN scans' = DOMAIN scans
  BY <1>1, <1>2
<1>4. TypeOK'
  BY <1>2, <1>3 DEF IInv, TypeOK, Height
<1>5. ScanInv'
  BY <1>2, <1>3 DEF IInv, ScanInv
<1> QED
  BY <1>2, <1>3, <1>4, <1>5

(* A step after which the scan goes on. *)
LEMMA RunKeeps ==
  ASSUME IInv, NEW t \in DOMAIN scans, NEW v \in ScanRecords, Sound(chain, v),
         scans' = [scans EXCEPT ![t] = v], UNCHANGED <<chain, net, open>>,
         v.mounted = scans[t].mounted, v.pc # "end",
         tab' \in Tab, tab'.ref \in 0..Len(scans), live' \subseteq DOMAIN scans,
         tab'.scanning = tab.scanning, tab'.shown = tab.shown, ~open => tab' = tab
  PROVE  IInv'
<1>1. /\ TypeOK' /\ ScanInv' /\ DOMAIN scans' = DOMAIN scans
      /\ \A u \in DOMAIN scans : scans'[u] = IF u = t THEN v ELSE scans[u]
  BY StepKeeps
<1>2. \A u \in DOMAIN scans : scans'[u].mounted = scans[u].mounted
  BY <1>1
<1>3. \A u \in DOMAIN scans : scans'[u].pc = "end" => scans[u].pc = "end"
  BY <1>1
<1>4. ShownInv'
  BY DEF IInv, ShownInv
<1>5. PageInv'
  <2>1. PageInv
    BY DEF IInv
  <2>2. ~open' => tab' = FreshTab
    BY <2>1 DEF PageInv
  <2>3. \A u \in DOMAIN scans' : scans'[u].mounted => open' /\ tab'.scanning /\ scans'[u].pc # "end"
    BY <1>1, <1>2, <1>3, <2>1 DEF PageInv
  <2>4. \A u, w \in DOMAIN scans' : scans'[u].mounted /\ scans'[w].mounted => u = w
    BY <1>1, <1>2, <2>1 DEF PageInv
  <2>5. tab'.scanning => open' /\ tab'.shown = Nothing /\ \E u \in DOMAIN scans' : scans'[u].mounted
    BY <1>1, <1>2, <2>1 DEF PageInv
  <2> QED
    BY <2>2, <2>3, <2>4, <2>5 DEF PageInv
<1> QED
  BY <1>1, <1>4, <1>5 DEF IInv

LEMMA FinishedIsSound == Finished \in ScanRecords /\ ~Finished.mounted /\ \A ch : Sound(ch, Finished)
<1>1. Finished \in ScanRecords
  BY NoneIsCounts DEF Finished, ScanRecords
<1>2. Finished.pc = "end" /\ ~Finished.mounted
  BY DEF Finished
<1> HIDE DEF Finished
<1> QED
  BY <1>1, <1>2 DEF Sound

(* A step that ends the scan with outcome x. *)
LEMMA CloseKeeps ==
  ASSUME IInv, NEW t \in DOMAIN scans, NEW x \in Results \cup {Nothing, ErrorNote},
         \/ x \in {Nothing, ErrorNote}
         \/ x \in Results /\ x.to <= Len(chain[x.net]) /\ ExactIn(chain, x),
         scans' = [scans EXCEPT ![t] = Finished], UNCHANGED <<chain, net, open, live>>,
         Set(t, [tab EXCEPT !.scanning = FALSE, !.shown = x])
  PROVE  IInv'
<1>1. tab \in Tab /\ tab.ref \in 0..Len(scans) /\ live \subseteq DOMAIN scans
  BY DEF IInv, TypeOK
<1>2. PageInv /\ ShownInv
  BY DEF IInv
<1>3. CASE scans[t].mounted
  <2>1. tab' = [tab EXCEPT !.scanning = FALSE, !.shown = x]
    BY <1>3 DEF Set
  <2>2. tab' \in Tab /\ tab'.shown = x /\ tab'.ref = tab.ref
    BY <1>1, <2>1 DEF Tab
  <2>3. ~tab'.scanning
    BY <1>1, <2>1 DEF Tab
  <2>4. /\ TypeOK' /\ ScanInv' /\ DOMAIN scans' = DOMAIN scans
        /\ \A u \in DOMAIN scans : scans'[u] = IF u = t THEN Finished ELSE scans[u]
    BY <1>1, <2>2, FinishedIsSound, StepKeeps
  <2>5. ShownInv'
    BY <2>2 DEF ShownInv
  <2>6. \A u \in DOMAIN scans' : ~scans'[u].mounted
    BY <1>2, <1>3, <2>4, FinishedIsSound DEF PageInv
  <2>7. open'
    BY <1>2, <1>3 DEF PageInv
  <2>8. PageInv'
    BY <2>3, <2>6, <2>7 DEF PageInv
  <2> QED
    BY <2>4, <2>5, <2>8 DEF IInv
<1>4. CASE ~scans[t].mounted
  <2>1. tab' = tab
    BY <1>4 DEF Set
  <2>2. /\ TypeOK' /\ ScanInv' /\ DOMAIN scans' = DOMAIN scans
        /\ \A u \in DOMAIN scans : scans'[u] = IF u = t THEN Finished ELSE scans[u]
    BY <1>1, <2>1, FinishedIsSound, StepKeeps
  <2>3. ASSUME NEW u \in DOMAIN scans PROVE scans'[u].mounted <=> scans[u].mounted
    <3>1. CASE u = t
      BY <1>4, <2>2, <3>1, FinishedIsSound
    <3>2. CASE u # t
      BY <2>2, <3>2
    <3> QED
      BY <3>1, <3>2
  <2>4. \A u \in DOMAIN scans : scans[u].mounted => scans'[u] = scans[u]
    BY <1>4, <2>2
  <2>5. ShownInv'
    BY <1>2, <2>1 DEF ShownInv
  <2>6. \A u \in DOMAIN scans' : scans'[u].mounted => open' /\ tab'.scanning /\ scans'[u].pc # "end"
    BY <1>2, <2>1, <2>2, <2>3, <2>4 DEF PageInv
  <2>7. \A u, w \in DOMAIN scans' : scans'[u].mounted /\ scans'[w].mounted => u = w
    BY <1>2, <2>2, <2>3 DEF PageInv
  <2>8. tab'.scanning => open' /\ tab'.shown = Nothing /\ \E u \in DOMAIN scans' : scans'[u].mounted
    BY <1>2, <2>1, <2>2, <2>3 DEF PageInv
  <2>9. PageInv'
    BY <1>2, <2>1, <2>6, <2>7, <2>8 DEF PageInv
  <2> QED
    BY <2>2, <2>5, <2>9 DEF IInv
<1> QED
  BY <1>3, <1>4
-----------------------------------------------------------------------------
LEMMA CheckedRecord ==
  ASSUME TypeOK, NEW t \in DOMAIN scans
  PROVE  scans[t] \in ScanRecords
  BY DEF TypeOK

LEMMA GotHeadKeeps ==
  ASSUME IInv, NEW t \in DOMAIN scans, GotHead(t), UNCHANGED <<chain, net, open>>
  PROVE  IInv'
<1> DEFINE s == scans[t]
           latest == Height(s.net)
           from == FromBlock(s.net, latest)
           v == [s EXCEPT !.pc = "logs", !.from = from, !.latest = latest, !.cursor = from]
<1>1. s \in ScanRecords /\ Sound(chain, s) /\ s.pc = "head"
  BY CheckedRecord DEF IInv, ScanInv, GotHead
<1>2. s.net \in Networks /\ s.meta \in Fields /\ s.dk \in Fields /\ s.got = None
  BY <1>1 DEF Sound
<1>3. latest \in Nat
  BY <1>2, HeightIsNat DEF IInv
<1>4. from \in Nat
  BY <1>2, <1>3, ScanAssumption DEF FromBlock
<1>5. scans' = [scans EXCEPT ![t] = v] /\ UNCHANGED <<tab, live>>
  BY DEF GotHead
<1>6. /\ v \in ScanRecords /\ v.mounted = s.mounted /\ v.pc = "logs" /\ v.net = s.net /\ v.meta = s.meta
      /\ v.dk = s.dk /\ v.from = from /\ v.latest = latest /\ v.cursor = from /\ v.got = s.got
  BY <1>1, <1>3, <1>4 DEF ScanRecords
<1> HIDE DEF v
<1>7. Fetched(chain, v)
  <2>1. ASSUME NEW b \in Blocks PROVE v.got[b] = 0 /\ ~(v.from <= b /\ b < v.cursor)
    BY <1>2, <1>4, <1>6, <2>1, BlocksAreNat DEF None
  <2> QED
    BY <2>1 DEF Fetched
<1>8. Sound(chain, v)
  BY <1>2, <1>3, <1>4, <1>6, <1>7 DEF Sound, Height
<1>9. tab \in Tab /\ tab.ref \in 0..Len(scans) /\ live \subseteq DOMAIN scans
  BY DEF IInv, TypeOK
<1> QED
  BY <1>5, <1>6, <1>8, <1>9, RunKeeps

(* The spans tile the window: the next one starts where this one ends. *)
LEMMA SpansTile ==
  ASSUME NEW n \in Networks, NEW b \in Nat, NEW latest \in Nat, b <= latest
  PROVE  /\ SpanEnd(n, b, latest) \in Nat /\ SpanEnd(n, b, latest) <= latest
         /\ NextSpan(n, b, latest) \in Nat /\ b < NextSpan(n, b, latest)
         /\ \A x \in Nat : x <= SpanEnd(n, b, latest) <=> x <= latest /\ x < NextSpan(n, b, latest)
<1>1. LogChunk[n] \in Nat
  BY ScanAssumption
<1>2. CASE LogChunk[n] = 0
  BY <1>2 DEF SpanEnd, NextSpan
<1>3. CASE LogChunk[n] # 0
  BY <1>1, <1>3 DEF SpanEnd, NextSpan
<1> QED
  BY <1>2, <1>3

LEMMA GotLogsKeeps ==
  ASSUME IInv, NEW t \in DOMAIN scans, GotLogs(t), UNCHANGED <<chain, net, open>>
  PROVE  IInv'
<1> DEFINE s == scans[t]
           end == SpanEnd(s.net, s.cursor, s.latest)
           next == NextSpan(s.net, s.cursor, s.latest)
           logs == GetLogs(s.net, s.cursor, end)
           got == [b \in Blocks |-> s.got[b] + IF b \in logs THEN 1 ELSE 0]
           v == [s EXCEPT !.cursor = next, !.got = got]
<1>1. s \in ScanRecords /\ Sound(chain, s) /\ s.pc = "logs" /\ s.cursor <= s.latest
  BY CheckedRecord DEF IInv, ScanInv, GotLogs
<1>2. /\ s.net \in Networks /\ s.meta \in Fields /\ s.dk \in Fields /\ s.latest <= Len(chain[s.net])
      /\ Fetched(chain, s) /\ s.from <= s.cursor
  BY <1>1 DEF Sound
<1>3. s.from \in Nat /\ s.latest \in Nat /\ s.cursor \in Nat
  BY <1>1 DEF ScanRecords
<1>4. /\ end \in Nat /\ end <= s.latest /\ next \in Nat /\ s.cursor < next
      /\ \A x \in Nat : x <= end <=> x <= s.latest /\ x < next
  BY <1>1, <1>2, <1>3, SpansTile
<1>5. scans' = [scans EXCEPT ![t] = v] /\ UNCHANGED <<tab, live>>
  BY DEF GotLogs
<1> HIDE DEF end, next
<1>6. ASSUME NEW b \in Blocks
      PROVE  got[b] = IF s.from <= b /\ b <= s.latest /\ b < next /\ LoggedIn(chain, s.net, b) THEN 1 ELSE 0
  <2>1. b \in Nat
    BY BlocksAreNat
  <2>2. b \in logs <=> s.cursor <= b /\ b <= end /\ LoggedIn(chain, s.net, b)
    BY <1>3, <1>4, <2>1 DEF GetLogs, LoggedIn, Height
  <2>3. s.got[b] = IF s.from <= b /\ b <= s.latest /\ b < s.cursor /\ LoggedIn(chain, s.net, b) THEN 1 ELSE 0
    BY <1>2 DEF Fetched
  <2>4. got[b] = s.got[b] + IF b \in logs THEN 1 ELSE 0
    OBVIOUS
  <2>5. b <= end <=> b <= s.latest /\ b < next
    BY <1>4, <2>1
  <2> HIDE DEF logs, got
  <2> QED
    BY <1>2, <1>3, <1>4, <2>1, <2>2, <2>3, <2>4, <2>5
<1>7. got \in Counts
  <2>1. \A b \in Blocks : got[b] \in 0..1
    BY <1>6
  <2>2. got = [b \in Blocks |-> got[b]]
    OBVIOUS
  <2> HIDE DEF got
  <2> QED
    BY <2>1, <2>2 DEF Counts
<1> HIDE DEF got
<1>8. /\ v \in ScanRecords /\ v.mounted = s.mounted /\ v.pc = "logs" /\ v.net = s.net /\ v.meta = s.meta
      /\ v.dk = s.dk /\ v.from = s.from /\ v.latest = s.latest /\ v.cursor = next /\ v.got = got
  BY <1>1, <1>4, <1>7 DEF ScanRecords
<1> HIDE DEF v
<1>9. Fetched(chain, v)
  BY <1>6, <1>8 DEF Fetched
<1>10. v.from <= v.cursor
  BY <1>2, <1>3, <1>4, <1>8
<1>11. Sound(chain, v)
  BY <1>2, <1>8, <1>9, <1>10 DEF Sound
<1>12. tab \in Tab /\ tab.ref \in 0..Len(scans) /\ live \subseteq DOMAIN scans
  BY DEF IInv, TypeOK
<1> QED
  BY <1>5, <1>8, <1>11, <1>12, RunKeeps

(* Setting the ref changes nothing else the invariant speaks of. *)
LEMMA RefKeeps ==
  ASSUME IInv, NEW t \in DOMAIN scans, NEW r \in 0..Len(scans), Set(t, [tab EXCEPT !.ref = r])
  PROVE  /\ tab' \in Tab /\ tab'.ref \in 0..Len(scans) /\ tab'.scanning = tab.scanning
         /\ tab'.shown = tab.shown /\ (~open => tab' = tab)
<1>1. tab \in Tab /\ tab.ref \in 0..Len(scans) /\ scans \in Seq(ScanRecords)
  BY DEF IInv, TypeOK
<1>2. CASE scans[t].mounted
  <2>1. tab' = [tab EXCEPT !.ref = r] /\ open
    BY <1>2 DEF Set, IInv, PageInv
  <2>2. r \in Nat
    BY <1>1
  <2> QED
    BY <1>1, <2>1, <2>2 DEF Tab
<1>3. CASE ~scans[t].mounted
  BY <1>1, <1>3 DEF Set
<1> QED
  BY <1>2, <1>3

LEMMA StartWorkerKeeps ==
  ASSUME IInv, NEW t \in DOMAIN scans, StartWorker(t), UNCHANGED <<chain, net, open>>
  PROVE  IInv'
<1> DEFINE s == scans[t]
           v == [s EXCEPT !.pc = "worker"]
<1>1. s \in ScanRecords /\ Sound(chain, s) /\ s.pc = "logs" /\ s.cursor > s.latest
  BY CheckedRecord DEF IInv, ScanInv, StartWorker
<1>2. /\ v \in ScanRecords /\ v.mounted = s.mounted /\ v.pc = "worker" /\ v.net = s.net /\ v.meta = s.meta
      /\ v.dk = s.dk /\ v.from = s.from /\ v.latest = s.latest /\ v.cursor = s.cursor /\ v.got = s.got
  BY <1>1 DEF ScanRecords
<1>3. scans \in Seq(ScanRecords) /\ live \subseteq DOMAIN scans
  BY DEF IInv, TypeOK
<1>4. scans' = [scans EXCEPT ![t] = v]
  BY <1>1, <1>3 DEF StartWorker
<1>5. s.latest < s.cursor
  BY <1>1 DEF ScanRecords
<1> HIDE DEF v
<1>6. Sound(chain, v)
  BY <1>1, <1>2, <1>5 DEF Sound, Fetched
<1>7. t \in 0..Len(scans) /\ live' \subseteq DOMAIN scans
  BY <1>3 DEF StartWorker
<1>8. Set(t, [tab EXCEPT !.ref = t])
  BY DEF StartWorker
<1>9. /\ tab' \in Tab /\ tab'.ref \in 0..Len(scans) /\ tab'.scanning = tab.scanning
      /\ tab'.shown = tab.shown /\ (~open => tab' = tab)
  BY <1>7, <1>8, RefKeeps
<1> QED
  BY <1>2, <1>4, <1>6, <1>7, <1>9, RunKeeps

(* What the worker keeps of a complete, unrepeated list is exactly what was   *)
(* paid to the keys.                                                         *)
LEMMA HitsExact ==
  ASSUME TypeOK, NEW s \in ScanRecords, Sound(chain, s), s.pc = "worker", s.meta # Malformed, NEW b \in Blocks
  PROVE  (IF s.got[b] > 0 /\ CheckAnnouncement(s.meta, s.dk, chain[s.net][b]) THEN s.got[b] ELSE 0)
           = (IF s.from <= b /\ b <= s.latest /\ PaidIn(chain, s.net, b, s.meta, s.dk) THEN 1 ELSE 0)
<1>1. /\ s.net \in Networks /\ s.meta \in Recipients /\ s.dk \in Fields /\ s.latest <= Len(chain[s.net])
      /\ Fetched(chain, s) /\ s.latest < s.cursor
  BY DEF Sound, Fields
<1>2. s.latest \in Nat /\ s.cursor \in Nat /\ s.from \in Nat /\ b \in Nat
  BY BlocksAreNat DEF ScanRecords
<1>3. s.got[b] = IF s.from <= b /\ b <= s.latest /\ LoggedIn(chain, s.net, b) THEN 1 ELSE 0
  BY <1>1, <1>2 DEF Fetched
<1>4. CASE LoggedIn(chain, s.net, b)
  <2>1. chain[s.net] \in Seq(Traffic \cup {Nothing}) /\ b \in 1..Len(chain[s.net])
    BY <1>1, <1>2, <1>4 DEF TypeOK, LoggedIn
  <2>2. chain[s.net][b] \in Traffic /\ chain[s.net][b].scheme = SCHEME_ID
    BY <1>4, <2>1 DEF LoggedIn
  <2>3. CheckAnnouncement(s.meta, s.dk, chain[s.net][b])
          <=> s.dk # Malformed /\ \E coin \in Coins : chain[s.net][b] = Honest(s.meta, s.dk, coin)
    BY <1>1, <2>2, CheckIsHonest
  <2>4. CheckAnnouncement(s.meta, s.dk, chain[s.net][b]) <=> PaidIn(chain, s.net, b, s.meta, s.dk)
    BY <1>4, <2>3 DEF PaidIn, LoggedIn
  <2> QED
    BY <1>3, <1>4, <2>4
<1>5. CASE ~LoggedIn(chain, s.net, b)
  <2>1. ~(b <= s.latest /\ PaidIn(chain, s.net, b, s.meta, s.dk))
    <3>1. SUFFICES ASSUME b <= s.latest, PaidIn(chain, s.net, b, s.meta, s.dk) PROVE FALSE
      OBVIOUS
    <3>2. PICK coin \in Coins : chain[s.net][b] = Honest(s.meta, s.dk, coin)
      BY <3>1 DEF PaidIn
    <3>3. b >= 1 /\ b <= Len(chain[s.net])
      BY <3>1 DEF PaidIn
    <3>4. chain[s.net][b].scheme = SCHEME_ID
      BY <3>2 DEF Honest
    <3>5. chain[s.net][b] = Nothing
      BY <1>5, <3>3, <3>4 DEF LoggedIn
    <3>6. s.dk \in Recipients
      BY <1>1, <3>1 DEF PaidIn, Fields
    <3>7. TagOf(<<s.dk, coin>>) \in Tags
      BY TagAssumption, <3>6 DEF Secrets
    <3>8. Honest(s.meta, s.dk, coin) \in Announcements
      BY <1>1, <3>6, <3>7 DEF Honest, Announcements, Secrets, Addresses
    <3> QED
      BY <3>2, <3>5, <3>8, ScanAssumption
  <2> QED
    BY <1>3, <1>5, <2>1
<1> QED
  BY <1>4, <1>5

LEMMA WorkerDoneKeeps ==
  ASSUME IInv, NEW t \in DOMAIN scans, WorkerDone(t), UNCHANGED <<chain, net, open>>
  PROVE  IInv'
<1> DEFINE s == scans[t]
           hits == [b \in Blocks |-> IF s.got[b] > 0 /\ CheckAnnouncement(s.meta, s.dk, chain[s.net][b])
                                     THEN s.got[b] ELSE 0]
           v == [s EXCEPT !.pc = "balances", !.hits = hits]
<1>1. s \in ScanRecords /\ Sound(chain, s) /\ s.pc = "worker" /\ s.meta # Malformed
  BY CheckedRecord DEF IInv, ScanInv, WorkerDone
<1>2. \A b \in Blocks : hits[b] = IF s.from <= b /\ b <= s.latest /\ PaidIn(chain, s.net, b, s.meta, s.dk)
                                  THEN 1 ELSE 0
  BY <1>1, HitsExact DEF IInv
<1>3. hits \in Counts
  <2>1. \A b \in Blocks : hits[b] \in 0..1
    <3> HIDE DEF hits
    <3> QED
      BY <1>2
  <2>2. hits = [b \in Blocks |-> hits[b]]
    OBVIOUS
  <2> HIDE DEF hits
  <2> QED
    BY <2>1, <2>2 DEF Counts
<1>4. scans' = [scans EXCEPT ![t] = v] /\ live' = live \ {t}
  BY DEF WorkerDone
<1> HIDE DEF hits
<1>5. /\ v \in ScanRecords /\ v.mounted = s.mounted /\ v.pc = "balances" /\ v.net = s.net /\ v.meta = s.meta
      /\ v.dk = s.dk /\ v.from = s.from /\ v.latest = s.latest /\ v.hits = hits
  BY <1>1, <1>3 DEF ScanRecords
<1> HIDE DEF v
<1>6. ExactIn(chain, ResultOf(v))
  BY <1>2, <1>5 DEF ExactIn, ResultOf
<1>7. Sound(chain, v)
  BY <1>1, <1>5, <1>6 DEF Sound
<1>8. Set(t, [tab EXCEPT !.ref = 0]) /\ scans \in Seq(ScanRecords) /\ live \subseteq DOMAIN scans
  BY DEF WorkerDone, IInv, TypeOK
<1>9. 0 \in 0..Len(scans)
  BY <1>8
<1>10. /\ tab' \in Tab /\ tab'.ref \in 0..Len(scans) /\ tab'.scanning = tab.scanning
       /\ tab'.shown = tab.shown /\ (~open => tab' = tab)
  BY <1>8, <1>9, RefKeeps
<1> QED
  BY <1>4, <1>5, <1>7, <1>8, <1>10, RunKeeps

LEMMA ShowKeeps ==
  ASSUME IInv, NEW t \in DOMAIN scans, Show(t), UNCHANGED <<chain, net, open>>
  PROVE  IInv'
<1> DEFINE s == scans[t]
<1>1. s \in ScanRecords /\ Sound(chain, s) /\ s.pc = "balances"
  BY CheckedRecord DEF IInv, ScanInv, Show
<1>2. ResultOf(s) \in Results
  BY <1>1 DEF Sound, ResultOf, Results, ScanRecords
<1>3. ResultOf(s).to <= Len(chain[ResultOf(s).net]) /\ ExactIn(chain, ResultOf(s))
  BY <1>1 DEF Sound, ResultOf
<1>4. /\ scans' = [scans EXCEPT ![t] = Finished] /\ live' = live
      /\ Set(t, [tab EXCEPT !.scanning = FALSE, !.shown = ResultOf(s)])
  BY DEF Show, ResultOf
<1> QED
  BY <1>2, <1>3, <1>4, CloseKeeps

LEMMA FailScanKeeps ==
  ASSUME IInv, NEW t \in DOMAIN scans, FailScan(t), UNCHANGED <<chain, net, open>>
  PROVE  IInv'
<1>1. /\ scans' = [scans EXCEPT ![t] = Finished] /\ live' = live
      /\ Set(t, [tab EXCEPT !.scanning = FALSE, !.shown = ErrorNote])
  BY DEF FailScan
<1> QED
  BY <1>1, CloseKeeps
-----------------------------------------------------------------------------
LEMMA Initially == Init => IInv
<1> SUFFICES ASSUME Init PROVE IInv
  OBVIOUS
<1>1. scans = <<>> /\ tab = FreshTab /\ live = {} /\ net \in Networks /\ chain = [n \in Networks |-> <<>>]
  BY DEF Init
<1>2. open = FALSE
  BY DEF Init
<1>3. scans \in Seq(ScanRecords) /\ Len(scans) = 0 /\ DOMAIN scans = {}
  BY <1>1
<1>4. chain \in [Networks -> Seq(Traffic \cup {Nothing})] /\ \A n \in Networks : Height(n) = 0
  BY <1>1 DEF Height
<1>5. open \in BOOLEAN
  BY <1>2
<1>6. TypeOK
  BY <1>1, <1>3, <1>4, <1>5, FreshIsTab, ScanAssumption DEF TypeOK
<1>7. ScanInv /\ ShownInv /\ PageInv
  BY <1>1, <1>2, <1>3, FreshIsTab DEF ScanInv, ShownInv, PageInv
<1> QED
  BY <1>6, <1>7 DEF IInv

LEMMA Inductive == IInv /\ [Next]_vars => IInv'
<1> SUFFICES ASSUME IInv, [Next]_vars PROVE IInv'
  OBVIOUS
<1>1. ASSUME NEW n \in Networks, NEW block \in Traffic \cup {Nothing}, Mine(n, block) PROVE IInv'
  BY <1>1, MineKeeps
<1>2. CASE Page
  BY <1>2, SelectKeeps, OpenKeeps, LeaveKeeps, ScanKeeps, EditKeeps, ArriveKeeps DEF Page
<1>3. ASSUME NEW t \in DOMAIN scans, Step(t) PROVE IInv'
  <2>1. UNCHANGED <<chain, net, open>>
    BY <1>3 DEF Step
  <2>2. GotHead(t) \/ GotLogs(t) \/ StartWorker(t) \/ WorkerDone(t) \/ Show(t) \/ FailScan(t)
    BY <1>3 DEF Step
  <2> QED
    BY <2>1, <2>2, GotHeadKeeps, GotLogsKeeps, StartWorkerKeeps, WorkerDoneKeeps, ShowKeeps, FailScanKeeps
<1>4. CASE UNCHANGED vars
  <2>1. UNCHANGED <<chain, net, open, tab, scans, live>>
    BY <1>4 DEF vars
  <2>2. TypeOK'
    BY <2>1 DEF IInv, TypeOK, Height
  <2>3. ScanInv' /\ ShownInv' /\ PageInv'
    BY <2>1 DEF IInv, ScanInv, ShownInv, PageInv, FreshTab
  <2> QED
    BY <2>2, <2>3 DEF IInv
<1> QED
  BY <1>1, <1>2, <1>3, <1>4 DEF Next

LEMMA Invariance == Spec => []IInv
  BY Initially, Inductive, PTL DEF Spec

(* The variables of the page and of its scans keep their types; in particular *)
(* no scan fetches a block twice.                                            *)
THEOREM TypeCorrect == Spec => []TypeOK
<1>1. IInv => TypeOK
  BY DEF IInv
<1> QED
  BY <1>1, Invariance, PTL

(* What the page shows after a scan is exactly what was paid to the keys of   *)
(* the click, for every length of span, every traffic, every growth of the   *)
(* chains and everything the user may switch meanwhile.                      *)
THEOREM ResultsExact == Spec => []ScanExact
<1>1. IInv => ScanExact
  BY ExactNow DEF IInv, ShownInv, ScanExact
<1> QED
  BY <1>1, Invariance, PTL

(* The page has a scan running exactly while it says so, and only one, and    *)
(* never shows the outcome of an older click.                                *)
THEOREM OneScanAtATime == Spec => []OneScan
<1>1. IInv => OneScan
  BY DEF IInv, PageInv, OneScan
<1> QED
  BY <1>1, Invariance, PTL
=============================================================================
