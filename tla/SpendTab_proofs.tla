------------------------- MODULE SpendTab_proofs -------------------------
(***************************************************************************)
(* Proofs about the two routes of the spend tab, for all networks, seeds,  *)
(* announcements and any number of jobs at once.                           *)
(*                                                                         *)
(* Both pages are handlers that run at once over shared rows, a pool of    *)
(* transactions and a chain.  What a row shows follows from the receipt    *)
(* its handler got, so the invariants say of every handler what its        *)
(* receipt means, and of every transaction in the pool which handler waits *)
(* for it: exactly the one whose account, nonce and key it carries.        *)
(* CInv is the invariant of ClassicalSpend, UInv that of UserOpSpend; they *)
(* share no variable, so a step of one route keeps the other's.            *)
(***************************************************************************)
EXTENDS SpendTab, Integers, Sequences, FiniteSetTheorems, SequenceTheorems, WellFoundedInduction, TLAPS

(* The awaits at which a receipt may come *)
Waits == {"receipt", "paid", "announced"}

(* Registry n holds the viewing key of id at index. *)
Resolves(reg, n, index, id) == index \in 0..(Len(reg[n]) - 1) /\ reg[n][index + 1] = id

JobOk(j, reg) ==
  /\ j.kind \in {"register", "receive"} => j.id \in C!Ids
  /\ j.kind = "spend" => j.addr \in C!Addrs
  /\ j.kind = "receive" /\ j.pc \in {"paid", "announced"} => j.addr \in C!Addrs
  /\ j.rcpt # None => j.pc \in Waits
  /\ j.rcpt # None /\ j.rcpt.index # None => Resolves(reg, j.net, j.rcpt.index, j.id)

(* A handler of the page shown spends from addr *)
Spends(j, addr) == j # None /\ j.live /\ j.addr = addr /\ j.kind = "spend" /\ j.pc # "scan"

TxType == [slot : 0..Slots, kind : {"register", "both", "pay", "announce", "spend"}, net : Nets,
           id : C!Ids \cup {None}, addr : C!Addrs \cup {None}, dep : Nets \cup {None}]

TxOk(t) == /\ t \in TxType
           /\ t.kind = "register" => t.id \in C!Ids
           /\ t.kind \in {"announce", "both"} => t.addr \in C!Addrs

(* Handler j waits for transaction t, which carries its network and key. *)
Owns(t, j) == j \in C!JobType /\ j.rcpt = None /\ j.pc \in Waits /\ t.net = j.net /\ t.id = j.id

PageOk(p, reg) == p.compact # None => Resolves(reg, p.compact.net, p.compact.index, p.compact.id)

CTyped ==
  /\ net \in Nets /\ fetches \subseteq Nets /\ stored \in C!Ids \cup {None} /\ page \in C!PageType
  /\ drawn \subseteq C!Ids \cup Coins
  /\ jobs \in [1..Slots -> C!JobType \cup {None}]
CChain ==
  /\ registry \in [Nets -> Seq(C!Ids \cup {"other"})] /\ log \in [Nets -> SUBSET C!Addrs]
  /\ \A n \in Nets : Len(registry[n]) <= MaxKeys
CJobs ==
  /\ PageOk(page, registry)
  /\ \A s \in 1..Slots : jobs[s] # None => JobOk(jobs[s], registry)
CSpends == \A s \in 1..Slots, addr \in C!Addrs : Spends(jobs[s], addr) =>
  addr \in page.pending /\ \A q \in 1..Slots : Spends(jobs[q], addr) => q = s
CPool ==
  /\ \A t \in pool : TxOk(t) /\ (t.slot # 0 => Owns(t, jobs[t.slot]))
  /\ \A t, u \in pool : t.slot # 0 /\ t.slot = u.slot => t = u

CInv == CTyped /\ CChain /\ CJobs /\ CSpends /\ CPool

-----------------------------------------------------------------------------
LEMMA LeastNat ==
  ASSUME NEW T \in SUBSET Nat, T # {}
  PROVE  \E n \in T : \A m \in T : ~(m < n)
<1>1. \E n \in T : \A m \in T : ~(<<m, n>> \in OpToRel(<, Nat))
  BY NatLessThanWellFounded, WFMin
<1> QED
  BY <1>1 DEF OpToRel

(* One job changes *)

LEMMA TxSlot == \A t \in TxType : t.slot # 0 => t.slot \in 1..Slots
  BY TabAssumption DEF TxType

LEMMA JobNotNone == \A j \in C!JobType : j # None
  BY TabAssumption

LEMMA JobMoves ==
  ASSUME CInv, NEW s \in 1..Slots, NEW j \in C!JobType \cup {None},
         jobs' = [jobs EXCEPT ![s] = j],
         j # None => JobOk(j, registry),
         UNCHANGED <<registry, log>>,
         net' \in Nets, fetches' \subseteq Nets, stored' \in C!Ids \cup {None}, page' \in C!PageType,
         drawn' \subseteq C!Ids \cup Coins,
         PageOk(page', registry),
         \A q \in (1..Slots) \ {s}, addr \in C!Addrs :
           Spends(jobs[q], addr) => addr \in page'.pending /\ ~Spends(j, addr),
         \A addr \in C!Addrs : Spends(j, addr) => addr \in page'.pending,
         \A t \in pool' : \/ t \in pool /\ t.slot # s
                          \/ TxOk(t) /\ t.slot = 0
                          \/ TxOk(t) /\ t.slot = s /\ Owns(t, j),
         \A t, u \in pool' : t.slot = s /\ u.slot = s => t = u
  PROVE  CInv'
<1>1. /\ jobs' \in [1..Slots -> C!JobType \cup {None}] /\ jobs'[s] = j
      /\ \A q \in 1..Slots : q # s => jobs'[q] = jobs[q]
  BY DEF CInv, CTyped
<1>2. CTyped'
  BY <1>1 DEF CTyped
<1>3. CChain'
  BY DEF CInv, CChain
<1>4. CJobs'
  BY <1>1 DEF CInv, CJobs
<1>5. CSpends'
  <2> SUFFICES ASSUME NEW q \in 1..Slots, NEW addr \in C!Addrs, Spends(jobs'[q], addr)
               PROVE  addr \in page'.pending /\ \A r \in 1..Slots : Spends(jobs'[r], addr) => r = q
    BY DEF CSpends
  <2>1. CASE q = s
    BY <1>1, <2>1
  <2>2. CASE q # s
    <3>1. Spends(jobs[q], addr)
      BY <1>1, <2>2
    <3>2. addr \in page'.pending /\ ~Spends(j, addr)
      BY <2>2, <3>1
    <3> QED
      BY <1>1, <2>2, <3>1, <3>2 DEF CInv, CSpends
  <2> QED
    BY <2>1, <2>2
<1>6. CPool'
  <2>0. s # 0
    OBVIOUS
  <2>1. ASSUME NEW t \in pool' PROVE TxOk(t) /\ (t.slot # 0 => Owns(t, jobs'[t.slot]))
    <3>1. CASE t \in pool /\ t.slot # s
      <4>1. TxOk(t) /\ (t.slot # 0 => Owns(t, jobs[t.slot]))
        BY <3>1 DEF CInv, CPool
      <4>2. t.slot # 0 => t.slot \in 1..Slots
        BY <4>1, TxSlot DEF TxOk
      <4> QED
        BY <1>1, <3>1, <4>1, <4>2
    <3>2. CASE TxOk(t) /\ t.slot = 0
      BY <3>2
    <3>3. CASE TxOk(t) /\ t.slot = s /\ Owns(t, j)
      BY <1>1, <3>3
    <3> QED
      BY <3>1, <3>2, <3>3
  <2>2. ASSUME NEW t \in pool', NEW u \in pool', t.slot # 0, t.slot = u.slot PROVE t = u
    <3>1. CASE t.slot = s
      BY <2>2, <3>1
    <3>2. CASE t.slot # s
      BY <2>2, <3>2 DEF CInv, CPool
    <3> QED
      BY <3>1, <3>2
  <2> QED
    BY <2>1, <2>2 DEF CPool
<1> QED
  BY <1>2, <1>3, <1>4, <1>5, <1>6 DEF CInv

LEMMA LeastSlot ==
  ASSUME NEW S \in SUBSET (1..Slots), S # {}
  PROVE  (CHOOSE s \in S : \A q \in S : s <= q) \in S
<1>1. Slots \in Nat
  BY TabAssumption
<1>2. S \subseteq Nat
  BY <1>1
<1>3. PICK s \in S : \A q \in S : ~(q < s)
  BY <1>2, LeastNat
<1>4. \A q \in S : s <= q
  BY <1>2, <1>3
<1> QED
  BY <1>4

LEMMA Started ==
  ASSUME CInv, NEW kind \in {"identity", "register", "receive", "scan", "spend"},
         NEW addr \in C!Addrs \cup {None}, NEW f \in BOOLEAN,
         NEW pc \in {"derive", "send", "pay", "scan"},
         C!Start(kind, addr, f, pc), C!Unchosen, page' \in C!PageType,
         page'.compact = page.compact, page.pending \subseteq page'.pending,
         kind \in {"register", "receive"} => page.keys # None,
         kind = "spend" => addr \in C!Addrs \ page.pending /\ addr \in page'.pending
  PROVE  CInv'
<1> DEFINE s == CHOOSE s \in C!Free : \A q \in C!Free : s <= q
           j == [kind |-> kind, id |-> page.keys, net |-> net, frames |-> f, addr |-> addr,
                 dep |-> page.dep, pc |-> pc, live |-> TRUE, rcpt |-> None]
<1>1. s \in 1..Slots /\ jobs[s] = None
  <2>1. C!Free \subseteq 1..Slots /\ C!Free # {}
    BY DEF C!Free, C!Start
  <2>2. s \in C!Free
    BY <2>1, LeastSlot
  <2> QED
    BY <2>2 DEF C!Free
<1>2. jobs' = [jobs EXCEPT ![s] = j]
  BY DEF C!Start
<1> HIDE DEF s
<1>3. page \in C!PageType /\ net \in Nets
  BY DEF CInv, CTyped
<1>4. j \in C!JobType
  <2>1. page.keys \in C!Ids \cup {None} /\ page.dep \in Nets \cup {None}
    BY <1>3 DEF C!PageType
  <2> QED
    BY <1>3, <2>1 DEF C!JobType
<1>5. page.keys \in C!Ids \cup {None}
  BY <1>3 DEF C!PageType
<1>6. JobOk(j, registry)
  BY <1>5 DEF JobOk
<1>7. \A a \in C!Addrs : Spends(j, a) => kind = "spend" /\ a = addr
  BY DEF Spends
<1>8. UNCHANGED <<registry, log>> /\ net' \in Nets /\ fetches' \subseteq Nets /\ stored' \in C!Ids \cup {None}
      /\ drawn' \subseteq C!Ids \cup Coins /\ pool' = pool
  BY DEF C!Unchosen, C!app, C!chain, CInv, CTyped
<1>9. PageOk(page', registry)
  BY DEF PageOk, CInv, CJobs
<1> HIDE DEF j
<1>10. \A q \in (1..Slots) \ {s}, a \in C!Addrs : Spends(jobs[q], a) => a \in page'.pending /\ ~Spends(j, a)
  BY <1>7 DEF CInv, CSpends
<1>11. \A a \in C!Addrs : Spends(j, a) => a \in page'.pending
  BY <1>7
<1>12. \A t \in pool' : t \in pool /\ t.slot # s
  <2> SUFFICES ASSUME NEW t \in pool, t.slot = s PROVE FALSE
    BY <1>8
  <2>1. jobs[s] \in C!JobType
    BY <1>1 DEF CInv, CPool, Owns
  <2> QED
    BY <1>1, <2>1, JobNotNone
<1> QED
  BY <1>1, <1>2, <1>4, <1>6, <1>8, <1>9, <1>10, <1>11, <1>12, JobMoves

-----------------------------------------------------------------------------
(* The three ways a handler goes on: it ends, goes to its next await, or      *)
(* sends a transaction.                                                       *)
LEMMA NoTx ==
  ASSUME CInv, NEW s \in 1..Slots, jobs[s].pc \notin Waits \/ jobs[s].rcpt # None
  PROVE  \A t \in pool : t.slot # s
<1> SUFFICES ASSUME NEW t \in pool, t.slot = s PROVE FALSE
  OBVIOUS
<1>1. s # 0
  OBVIOUS
<1> QED
  BY <1>1 DEF CInv, CPool, Owns

(* What a step of handler s leaves alone: a row stays pending unless s is the *)
(* one that spends it.                                                        *)
Kept(s) ==
  /\ UNCHANGED <<registry, log, net, fetches>> /\ stored' \in C!Ids \cup {None}
  /\ drawn' \subseteq C!Ids \cup Coins
  /\ page' \in C!PageType /\ PageOk(page', registry)
  /\ \A addr \in page.pending : addr \in page'.pending \/ Spends(jobs[s], addr)

LEMMA OthersKept ==
  ASSUME CInv, NEW s \in 1..Slots, Kept(s), NEW j,
         \A addr \in C!Addrs : Spends(j, addr) => Spends(jobs[s], addr)
  PROVE  \A q \in (1..Slots) \ {s}, addr \in C!Addrs :
           Spends(jobs[q], addr) => addr \in page'.pending /\ ~Spends(j, addr)
  BY DEF CInv, CSpends, Kept

LEMMA Ended ==
  ASSUME CInv, NEW s \in 1..Slots, jobs[s] # None, C!End(s), Kept(s), pool' = C!Disowned(s)
  PROVE  CInv'
<1>1. /\ net' \in Nets /\ fetches' \subseteq Nets /\ UNCHANGED <<registry, log>>
  BY DEF Kept, CInv, CTyped
<1>2. \A q \in (1..Slots) \ {s}, addr \in C!Addrs :
        Spends(jobs[q], addr) => addr \in page'.pending /\ ~Spends(None, addr)
  BY OthersKept DEF Spends
<1>3. \A t \in pool' : (t \in pool /\ t.slot # s) \/ (TxOk(t) /\ t.slot = 0)
  <2> SUFFICES ASSUME NEW t \in pool, NEW u, u = IF t.slot = s THEN [t EXCEPT !.slot = 0] ELSE t
               PROVE  (u \in pool /\ u.slot # s) \/ (TxOk(u) /\ u.slot = 0)
    BY DEF C!Disowned
  <2>1. TxOk(t)
    BY DEF CInv, CPool
  <2>2. CASE t.slot = s
    <3>0. u = [t EXCEPT !.slot = 0]
      BY <2>2
    <3>1. u \in TxType /\ u.slot = 0 /\ u.kind = t.kind /\ u.id = t.id /\ u.addr = t.addr
      BY <2>1, <3>0, TabAssumption DEF TxOk, TxType
    <3>2. TxOk(u)
      BY <2>1, <3>1 DEF TxOk
    <3> QED
      BY <3>1, <3>2
  <2>3. CASE t.slot # s
    <3>1. u = t
      BY <2>3
    <3> QED
      BY <2>3, <3>1
  <2> QED
    BY <2>2, <2>3
<1>4. s # 0
  OBVIOUS
<1>5. jobs' = [jobs EXCEPT ![s] = None]
  BY DEF C!End
<1> QED
  BY <1>1, <1>2, <1>3, <1>4, <1>5, JobMoves DEF Kept, Spends

LEMMA Went ==
  ASSUME CInv, NEW s \in 1..Slots, NEW j \in C!JobType, jobs' = [jobs EXCEPT ![s] = j], JobOk(j, registry),
         Kept(s), pool' = pool, jobs[s].pc \notin Waits \/ jobs[s].rcpt # None,
         \A addr \in C!Addrs : Spends(j, addr) => Spends(jobs[s], addr) /\ addr \in page'.pending
  PROVE  CInv'
<1>1. /\ net' \in Nets /\ fetches' \subseteq Nets /\ UNCHANGED <<registry, log>>
  BY DEF Kept, CInv, CTyped
<1>2. \A q \in (1..Slots) \ {s}, addr \in C!Addrs :
        Spends(jobs[q], addr) => addr \in page'.pending /\ ~Spends(j, addr)
  BY OthersKept
<1>3. \A t \in pool' : t \in pool /\ t.slot # s
  BY NoTx
<1> QED
  BY <1>1, <1>2, <1>3, JobMoves DEF Kept

LEMMA Sent ==
  ASSUME CInv, NEW s \in 1..Slots, NEW j \in C!JobType, jobs' = [jobs EXCEPT ![s] = j], JobOk(j, registry),
         Kept(s), page' = page, NEW t, pool' = pool \cup {t}, TxOk(t), t.slot = s, Owns(t, j),
         jobs[s].pc \notin Waits \/ jobs[s].rcpt # None,
         \A addr \in C!Addrs : Spends(j, addr) => Spends(jobs[s], addr)
  PROVE  CInv'
<1>1. /\ net' \in Nets /\ fetches' \subseteq Nets /\ UNCHANGED <<registry, log>>
  BY DEF Kept, CInv, CTyped
<1>2. \A q \in (1..Slots) \ {s}, addr \in C!Addrs :
        Spends(jobs[q], addr) => addr \in page'.pending /\ ~Spends(j, addr)
  BY OthersKept
<1>3. \A u \in pool : u.slot # s
  BY NoTx
<1>4. \A addr \in C!Addrs : Spends(j, addr) => addr \in page'.pending
  BY DEF CInv, CSpends
<1>5. \A u \in pool' : (u \in pool /\ u.slot # s) \/ u = t
  BY <1>3
<1>6. \A u, v \in pool' : u.slot = s /\ v.slot = s => u = v
  BY <1>5
<1>7. \A u \in pool' : \/ u \in pool /\ u.slot # s
                       \/ TxOk(u) /\ u.slot = 0
                       \/ TxOk(u) /\ u.slot = s /\ Owns(u, j)
  BY <1>5
<1> QED
  BY <1>1, <1>2, <1>4, <1>6, <1>7, JobMoves DEF Kept

-----------------------------------------------------------------------------
(* The steps of the handlers *)

LEMMA JobTyped ==
  ASSUME CInv, NEW s \in 1..Slots, jobs[s] # None
  PROVE  jobs[s] \in C!JobType /\ JobOk(jobs[s], registry)
  BY DEF CInv, CTyped, CJobs

LEMMA PageTyped == CInv => page \in C!PageType /\ PageOk(page, registry)
  BY DEF CInv, CTyped, CJobs

Shown(s) ==
  /\ page' \in C!PageType /\ PageOk(page', registry)
  /\ \A addr \in page.pending : addr \in page'.pending \/ Spends(jobs[s], addr)

LEMMA ShownKept ==
  ASSUME CInv, NEW s \in 1..Slots, UNCHANGED <<C!app, clicks, C!chain, stored, drawn>>, Shown(s)
  PROVE  Kept(s)
  BY DEF Kept, Shown, C!app, C!chain, CInv, CTyped

LEMMA Thrown ==
  ASSUME CInv, NEW s \in 1..Slots, jobs[s] # None, UNCHANGED <<C!app, clicks, C!chain>>,
         C!Throw(s), jobs[s].kind = "spend" => jobs[s].pc # "scan"
  PROVE  CInv'
<1>1. page \in C!PageType /\ PageOk(page, registry) /\ jobs[s] \in C!JobType
  BY JobTyped, PageTyped
<1>2. C!Cleared(s) \in C!PageType /\ C!Cleared(s).compact = page.compact
      /\ C!Cleared(s).pending = IF jobs[s].kind = "spend" THEN page.pending \ {jobs[s].addr} ELSE page.pending
  <2>1. CASE jobs[s].kind = "spend"
    <3>1. [page EXCEPT !.pending = @ \ {jobs[s].addr}] \in C!PageType
      BY <1>1 DEF C!PageType
    <3> QED
      BY <1>1, <2>1, <3>1 DEF C!Cleared, C!PageType
  <2>2. CASE jobs[s].kind # "spend"
    BY <1>1, <2>2 DEF C!Cleared, C!PageType
  <2> QED
    BY <2>1, <2>2
<1>3. Shown(s)
  <2>1. CASE jobs[s].live
    <3>1. page' = C!Cleared(s)
      BY <2>1 DEF C!Throw, C!SetPage
    <3>2. PageOk(page', registry)
      BY <1>1, <1>2, <3>1 DEF PageOk
    <3>3. \A addr \in page.pending : addr \in page'.pending \/ Spends(jobs[s], addr)
      BY <1>2, <2>1, <3>1 DEF Spends
    <3> QED
      BY <1>2, <3>1, <3>2, <3>3 DEF Shown
  <2>2. CASE ~jobs[s].live
    BY <1>1, <2>2 DEF C!Throw, C!SetPage, Shown
  <2> QED
    BY <2>1, <2>2
<1>4. C!End(s) /\ pool' = C!Disowned(s) /\ UNCHANGED <<stored, drawn>>
  BY DEF C!Throw
<1> QED
  BY <1>3, <1>4, Ended, ShownKept

LEMMA EndedQuietly ==
  ASSUME CInv, NEW s \in 1..Slots, jobs[s] # None, C!End(s), Kept(s), pool' = pool,
         jobs[s].pc \notin Waits \/ jobs[s].rcpt # None
  PROVE  CInv'
<1>1. \A t \in pool : t.slot # s
  BY NoTx
<1>2. C!Disowned(s) = pool
  BY <1>1 DEF C!Disowned
<1> QED
  BY <1>2, Ended

LEMMA IdentityMoves ==
  ASSUME CInv, NEW s \in 1..Slots, jobs[s] # None, UNCHANGED <<C!app, clicks, C!chain>>, C!Identity(s)
  PROVE  CInv'
<1>1. CASE C!At(s, "identity", "derive") /\ C!Throw(s)
  BY <1>1, Thrown DEF C!At
<1>2. ASSUME C!At(s, "identity", "derive"), C!End(s), UNCHANGED pool,
             NEW id \in {"A"} \cup C!RandomClassicalSeeds, stored' = id, drawn' = drawn \cup {id},
             C!SetPage(s, [page EXCEPT !.keys = C!DeriveClassicalKeys(id), !.hits = {}, !.busy = None])
      PROVE  CInv'
  <2>1. id \in C!Ids
    BY DEF C!Ids, C!RandomClassicalSeeds
  <2>2. page \in C!PageType /\ PageOk(page, registry)
    BY PageTyped
  <2> DEFINE p == [page EXCEPT !.keys = id, !.hits = {}, !.busy = None]
  <2>3. p \in C!PageType /\ p.compact = page.compact /\ p.pending = page.pending
    BY <2>1, <2>2 DEF C!PageType
  <2>4. page' = p \/ page' = page
    BY <1>2 DEF C!SetPage, C!DeriveClassicalKeys
  <2> HIDE DEF p
  <2>5. page' \in C!PageType /\ PageOk(page', registry) /\ page'.pending = page.pending
    BY <2>2, <2>3, <2>4 DEF PageOk
  <2>6. Kept(s)
    BY <1>2, <2>1, <2>5 DEF Kept, C!app, C!chain, CInv, CTyped
  <2> QED
    BY <1>2, <2>6, EndedQuietly DEF C!At, Waits
<1> QED
  BY <1>1, <1>2 DEF C!Identity

LEMMA RegisterMoves ==
  ASSUME CInv, NEW s \in 1..Slots, jobs[s] # None, UNCHANGED <<C!app, clicks, C!chain>>, C!RegisterCompact(s)
  PROVE  CInv'
<1>0. /\ page \in C!PageType /\ PageOk(page, registry)
      /\ jobs[s] \in C!JobType /\ JobOk(jobs[s], registry)
  BY PageTyped, JobTyped
<1>1. CASE jobs[s].kind = "register" /\ C!Throw(s)
  BY <1>1, Thrown
<1>2. CASE C!At(s, "register", "send") /\ C!Send(s, C!Tx(s, "register"), "receipt")
  <2> DEFINE j == [jobs[s] EXCEPT !.pc = "receipt", !.rcpt = None]
             t == C!Tx(s, "register")
  <2>1. j \in C!JobType /\ j.kind = "register" /\ j.rcpt = None /\ j.pc = "receipt"
        /\ j.id = jobs[s].id /\ j.net = jobs[s].net
    BY <1>0, <1>2 DEF C!JobType, C!At
  <2>2. jobs' = [jobs EXCEPT ![s] = j] /\ pool' = pool \cup {t} /\ UNCHANGED <<page, stored, drawn>>
    BY <1>0, <1>2 DEF C!Send, C!Go, C!JobType, CInv, CTyped
  <2>3. JobOk(j, registry)
    BY <1>0, <1>2, <2>1 DEF JobOk, C!At
  <2>4. TxOk(t) /\ t.slot = s /\ Owns(t, j)
    <3>1. t \in TxType
      BY <1>0, TabAssumption DEF C!Tx, TxType, C!JobType
    <3>2. t.slot = s /\ t.kind = "register" /\ t.net = jobs[s].net /\ t.id = jobs[s].id /\ t.addr = jobs[s].addr
      BY DEF C!Tx
    <3> QED
      BY <1>0, <1>2, <2>1, <3>1, <3>2 DEF TxOk, Owns, Waits, JobOk, C!At
  <2>5. Kept(s)
    BY <1>0, <2>2, ShownKept DEF Shown
  <2> HIDE DEF j, t
  <2> QED
    BY <1>2, <2>1, <2>2, <2>3, <2>4, <2>5, Sent DEF Spends, Waits, C!At
<1>3. CASE /\ C!At(s, "register", "receipt") /\ jobs[s].rcpt # None /\ jobs[s].rcpt.index # None
           /\ C!SetPage(s, [page EXCEPT !.busy = None,
                      !.compact = C!EncodeCompactMeta(jobs[s].id, jobs[s].net, C!RegisteredIndex(s))])
           /\ C!End(s) /\ UNCHANGED <<stored, drawn, pool>>
  <2> DEFINE c == [id |-> jobs[s].id, net |-> jobs[s].net, index |-> jobs[s].rcpt.index]
             p == [page EXCEPT !.busy = None, !.compact = c]
  <2>1. /\ jobs[s].id \in C!Ids /\ jobs[s].net \in Nets
        /\ Resolves(registry, jobs[s].net, jobs[s].rcpt.index, jobs[s].id)
    BY <1>0, <1>3 DEF JobOk, C!At, C!JobType
  <2>2. jobs[s].rcpt.index \in 0..(MaxKeys - 1)
    <3>1. Len(registry[jobs[s].net]) \in Nat /\ Len(registry[jobs[s].net]) <= MaxKeys
      BY <2>1 DEF CInv, CChain
    <3> QED
      BY <2>1, <3>1, TabAssumption DEF Resolves
  <2>3. p \in C!PageType /\ p.compact = c /\ p.pending = page.pending
    BY <1>0, <2>1, <2>2 DEF C!PageType
  <2>4. page' = p \/ page' = page
    BY <1>3 DEF C!SetPage, C!EncodeCompactMeta, C!RegisteredIndex
  <2>5. PageOk(p, registry)
    BY <2>1, <2>3 DEF PageOk
  <2> HIDE DEF p
  <2>6. page' \in C!PageType /\ PageOk(page', registry) /\ page'.pending = page.pending
    BY <1>0, <2>3, <2>4, <2>5
  <2>7. Kept(s)
    BY <1>3, <2>6, ShownKept DEF Shown
  <2> QED
    BY <1>3, <2>7, EndedQuietly
<1> QED
  BY <1>1, <1>2, <1>3 DEF C!RegisterCompact

LEMMA ReceiveMoves ==
  ASSUME CInv, NEW s \in 1..Slots, jobs[s] # None, UNCHANGED <<C!app, clicks, C!chain>>, C!Receive(s)
  PROVE  CInv'
<1>0. /\ page \in C!PageType /\ PageOk(page, registry)
      /\ jobs[s] \in C!JobType /\ JobOk(jobs[s], registry)
  BY PageTyped, JobTyped
<1>1. CASE jobs[s].kind = "receive" /\ jobs[s].pc # "scan" /\ C!Throw(s)
  BY <1>1, Thrown
<1>2. ASSUME C!At(s, "receive", "pay"), NEW c \in Coins \ drawn, UNCHANGED <<page, stored>>,
             drawn' = drawn \cup {c},
             jobs' = [jobs EXCEPT ![s].addr = C!DeriveStealthAddress(jobs[s].id, c), ![s].pc = "paid"],
             pool' = pool \cup {[C!Tx(s, IF jobs[s].frames THEN "both" ELSE "pay")
                                   EXCEPT !.addr = C!DeriveStealthAddress(jobs[s].id, c)]}
      PROVE  CInv'
  <2> DEFINE a == C!DeriveStealthAddress(jobs[s].id, c)
             j == [jobs[s] EXCEPT !.addr = a, !.pc = "paid"]
             k == IF jobs[s].frames THEN "both" ELSE "pay"
             t == [C!Tx(s, k) EXCEPT !.addr = a]
  <2>1. a \in C!Addrs /\ jobs[s].id \in C!Ids
    BY <1>0, <1>2 DEF C!DeriveStealthAddress, C!Addrs, JobOk, C!At
  <2>2. t \in TxType /\ t.slot = s /\ t.kind \in {"both", "pay"} /\ t.net = jobs[s].net /\ t.id = jobs[s].id /\ t.addr = a
    <3> HIDE DEF a
    <3>1. C!Tx(s, k) \in TxType
      BY <1>0, TabAssumption DEF C!Tx, TxType, C!JobType
    <3> QED
      BY <2>1, <3>1 DEF TxType, C!Tx
  <2>3. jobs' = [jobs EXCEPT ![s] = j] /\ pool' = pool \cup {t}
    BY <1>2 DEF CInv, CTyped
  <2> HIDE DEF a, t
  <2>4. j \in C!JobType /\ j.kind = "receive" /\ j.rcpt = jobs[s].rcpt /\ j.pc = "paid"
        /\ j.id = jobs[s].id /\ j.net = jobs[s].net /\ j.addr = a
    BY <1>0, <1>2, <2>1 DEF C!JobType, C!At
  <2> HIDE DEF j
  <2>8. jobs[s].rcpt = None
    BY <1>0, <1>2 DEF JobOk, Waits, C!At
  <2>5. JobOk(j, registry)
    BY <1>0, <2>1, <2>4, <2>8 DEF JobOk
  <2>6. Kept(s)
    BY <1>0, <1>2 DEF Kept, C!app, C!chain, CInv, CTyped
  <2>7. TxOk(t)
    BY <2>1, <2>2 DEF TxOk
  <2>9. Owns(t, j)
    BY <2>2, <2>4, <2>8 DEF Owns, Waits
  <2> QED
    BY <1>2, <2>2, <2>3, <2>4, <2>5, <2>6, <2>7, <2>9, Sent DEF Spends, Waits, C!At
<1>3. CASE C!At(s, "receive", "paid") /\ jobs[s].rcpt # None /\ ~jobs[s].frames /\ C!Send(s, C!Tx(s, "announce"), "announced")
  <2> DEFINE j == [jobs[s] EXCEPT !.pc = "announced", !.rcpt = None]
             t == C!Tx(s, "announce")
  <2>1. j \in C!JobType /\ j.kind = "receive" /\ j.rcpt = None /\ j.pc = "announced"
        /\ j.id = jobs[s].id /\ j.net = jobs[s].net /\ j.addr = jobs[s].addr
    BY <1>0, <1>3 DEF C!JobType, C!At
  <2>2. jobs' = [jobs EXCEPT ![s] = j] /\ pool' = pool \cup {t} /\ UNCHANGED <<page, stored, drawn>>
    BY <1>0, <1>3 DEF C!Send, C!Go, C!JobType, CInv, CTyped
  <2>3. JobOk(j, registry)
    BY <1>0, <1>3, <2>1 DEF JobOk, C!At
  <2>4. TxOk(t) /\ t.slot = s /\ Owns(t, j)
    <3>1. t \in TxType
      BY <1>0, TabAssumption DEF C!Tx, TxType, C!JobType
    <3>2. t.slot = s /\ t.kind = "announce" /\ t.net = jobs[s].net /\ t.id = jobs[s].id /\ t.addr = jobs[s].addr
      BY DEF C!Tx
    <3> QED
      BY <1>0, <1>3, <2>1, <3>1, <3>2 DEF TxOk, Owns, Waits, JobOk, C!At
  <2>5. Kept(s)
    BY <1>0, <2>2, ShownKept DEF Shown
  <2> HIDE DEF j, t
  <2> QED
    BY <1>3, <2>1, <2>2, <2>3, <2>4, <2>5, Sent DEF Spends, C!At
<1>4. CASE /\ C!At(s, "receive", IF jobs[s].frames THEN "paid" ELSE "announced")
           /\ jobs[s].rcpt # None
           /\ C!Go(s, "scan") /\ C!SetPage(s, [page EXCEPT !.busy = "scan"]) /\ UNCHANGED <<stored, drawn, pool>>
  <2> DEFINE j == [jobs[s] EXCEPT !.pc = "scan", !.rcpt = None]
             p == [page EXCEPT !.busy = "scan"]
  <2>1. j \in C!JobType /\ j.kind = "receive" /\ j.rcpt = None /\ j.pc = "scan" /\ j.id = jobs[s].id
    BY <1>0, <1>4 DEF C!JobType, C!At
  <2>2. jobs' = [jobs EXCEPT ![s] = j]
    BY <1>0, <1>4 DEF C!Go, C!JobType, CInv, CTyped
  <2>3. JobOk(j, registry)
    BY <1>0, <1>4, <2>1 DEF JobOk, C!At
  <2>4. p \in C!PageType /\ p.compact = page.compact /\ p.pending = page.pending
    BY <1>0 DEF C!PageType
  <2>5. page' = p \/ page' = page
    BY <1>4 DEF C!SetPage
  <2> HIDE DEF p
  <2>6. Kept(s)
    BY <1>0, <1>4, <2>4, <2>5, ShownKept DEF Shown, PageOk
  <2> HIDE DEF j
  <2> QED
    BY <1>4, <2>1, <2>2, <2>3, <2>6, Went DEF Spends
<1> QED
  BY <1>1, <1>2, <1>3, <1>4 DEF C!Receive

LEMMA ScanMoves ==
  ASSUME CInv, NEW s \in 1..Slots, jobs[s] # None, UNCHANGED <<C!app, clicks, C!chain>>, C!Scan(s)
  PROVE  CInv'
<1>0. page \in C!PageType /\ PageOk(page, registry) /\ jobs[s] \in C!JobType
  BY PageTyped, JobTyped
<1>1. PICK hits \in {page.hits, C!Hits(s)} : C!SetPage(s, [page EXCEPT !.busy = None, !.hits = hits])
  BY DEF C!Scan
<1>2. hits \subseteq C!Addrs
  <2>1. page.hits \subseteq C!Addrs
    BY <1>0 DEF C!PageType
  <2>2. C!Hits(s) \subseteq C!Addrs
    BY <1>0 DEF C!Hits, C!JobType, CInv, CChain
  <2> QED
    BY <1>1, <2>1, <2>2
<1> DEFINE p == [page EXCEPT !.busy = None, !.hits = hits]
<1>3. p \in C!PageType /\ p.compact = page.compact /\ p.pending = page.pending
  BY <1>0, <1>2 DEF C!PageType
<1>4. page' = p \/ page' = page
  BY <1>1 DEF C!SetPage
<1> HIDE DEF p
<1>5. Kept(s)
  BY <1>0, <1>3, <1>4, ShownKept DEF Shown, PageOk, C!Scan
<1> QED
  BY <1>5, EndedQuietly DEF C!Scan, Waits

LEMMA SpendMoves ==
  ASSUME CInv, NEW s \in 1..Slots, jobs[s] # None, UNCHANGED <<C!app, clicks, C!chain>>, C!Spend(s)
  PROVE  CInv'
<1>0. /\ page \in C!PageType /\ PageOk(page, registry)
      /\ jobs[s] \in C!JobType /\ JobOk(jobs[s], registry)
  BY PageTyped, JobTyped
<1>1. CASE jobs[s].kind = "spend" /\ jobs[s].pc # "scan" /\ C!Throw(s)
  BY <1>1, Thrown
<1>2. CASE C!At(s, "spend", "send") /\ C!Send(s, C!Tx(s, "spend"), "receipt")
  <2> DEFINE j == [jobs[s] EXCEPT !.pc = "receipt", !.rcpt = None]
             t == C!Tx(s, "spend")
  <2>1. j \in C!JobType /\ j.kind = "spend" /\ j.rcpt = None /\ j.pc = "receipt" /\ j.live = jobs[s].live
        /\ j.id = jobs[s].id /\ j.net = jobs[s].net /\ j.addr = jobs[s].addr
    BY <1>0, <1>2 DEF C!JobType, C!At
  <2>2. jobs' = [jobs EXCEPT ![s] = j] /\ pool' = pool \cup {t} /\ UNCHANGED <<page, stored, drawn>>
    BY <1>0, <1>2 DEF C!Send, C!Go, C!JobType, CInv, CTyped
  <2>3. JobOk(j, registry)
    BY <1>0, <1>2, <2>1 DEF JobOk, C!At
  <2>4. TxOk(t) /\ t.slot = s /\ Owns(t, j)
    <3>1. t \in TxType
      BY <1>0, TabAssumption DEF C!Tx, TxType, C!JobType
    <3>2. t.slot = s /\ t.kind = "spend" /\ t.net = jobs[s].net /\ t.id = jobs[s].id /\ t.addr = jobs[s].addr
      BY DEF C!Tx
    <3> QED
      BY <1>0, <1>2, <2>1, <3>1, <3>2 DEF TxOk, Owns, Waits, JobOk, C!At
  <2>5. Kept(s)
    BY <1>0, <2>2, ShownKept DEF Shown
  <2> HIDE DEF j, t
  <2>6. \A addr \in C!Addrs : Spends(j, addr) => Spends(jobs[s], addr)
    BY <1>2, <2>1 DEF Spends, C!At
  <2> QED
    BY <1>2, <2>1, <2>2, <2>3, <2>4, <2>5, <2>6, Sent DEF Waits, C!At
<1>3. ASSUME C!At(s, "spend", "receipt"), jobs[s].rcpt # None, C!Go(s, "scan"), UNCHANGED <<stored, drawn, pool>>,
             NEW pending \in C!Unmarked(jobs[s].addr),
             C!SetPage(s, [page EXCEPT !.pending = pending, !.busy = "scan"])
      PROVE  CInv'
  <2> DEFINE j == [jobs[s] EXCEPT !.pc = "scan", !.rcpt = None]
             p == [page EXCEPT !.pending = pending, !.busy = "scan"]
  <2>1. j \in C!JobType /\ j.kind = "spend" /\ j.rcpt = None /\ j.pc = "scan" /\ j.addr = jobs[s].addr
    BY <1>0, <1>3 DEF C!JobType, C!At
  <2>2. jobs' = [jobs EXCEPT ![s] = j]
    BY <1>0, <1>3 DEF C!Go, C!JobType, CInv, CTyped
  <2>3. JobOk(j, registry)
    BY <1>0, <1>3, <2>1 DEF JobOk, C!At
  <2>4. page.pending \subseteq C!Addrs
    BY <1>0 DEF C!PageType
  <2>5. pending \subseteq C!Addrs /\ page.pending \ {jobs[s].addr} \subseteq pending
    BY <2>4 DEF C!Unmarked
  <2>6. p \in C!PageType /\ p.compact = page.compact /\ p.pending = pending
    BY <1>0, <2>5 DEF C!PageType
  <2>7. page' = IF jobs[s].live THEN p ELSE page
    BY <1>3 DEF C!SetPage
  <2> HIDE DEF p
  <2>8. page' \in C!PageType /\ PageOk(page', registry)
    BY <1>0, <2>6, <2>7 DEF PageOk
  <2>9. \A addr \in page.pending : addr \in page'.pending \/ Spends(jobs[s], addr)
    BY <1>3, <2>5, <2>6, <2>7 DEF Spends, C!At
  <2>10. Kept(s)
    BY <1>3, <2>8, <2>9, ShownKept DEF Shown
  <2> HIDE DEF j
  <2> QED
    BY <1>3, <2>1, <2>2, <2>3, <2>10, Went DEF Spends
<1> QED
  BY <1>1, <1>2, <1>3 DEF C!Spend

LEMMA StepMoves == ASSUME CInv, NEW s \in 1..Slots, C!Step(s) PROVE CInv'
  BY IdentityMoves, RegisterMoves, ReceiveMoves, ScanMoves, SpendMoves DEF C!Step
-----------------------------------------------------------------------------
(* Clicks *)

LEMMA BusySet ==
  ASSUME CInv, NEW b \in {None, "identity", "register", "receive", "scan"}, page' = [page EXCEPT !.busy = b]
  PROVE  page' \in C!PageType /\ page'.compact = page.compact /\ page'.pending = page.pending
  BY PageTyped DEF C!PageType

LEMMA ClickMoves ==
  ASSUME CInv, C!IdentityClick \/ C!RegisterClick \/ C!ReceiveClick \/ C!ScanClick
  PROVE  CInv'
<1>1. CASE C!IdentityClick
  BY <1>1, BusySet, Started DEF C!IdentityClick
<1>2. CASE C!RegisterClick
  BY <1>2, BusySet, Started DEF C!RegisterClick
<1>3. CASE C!ReceiveClick
  <2>1. PICK f \in C!Frames : C!Start("receive", None, f, "pay")
    BY <1>3 DEF C!ReceiveClick
  <2>2. f \in BOOLEAN
    BY DEF C!Frames
  <2> QED
    BY <1>3, <2>1, <2>2, BusySet, Started DEF C!ReceiveClick
<1>4. CASE C!ScanClick
  BY <1>4, BusySet, Started DEF C!ScanClick
<1> QED
  BY <1>1, <1>2, <1>3, <1>4

LEMMA SpendClickMoves ==
  ASSUME CInv, NEW addr \in page.hits, C!SpendClick(addr)
  PROVE  CInv'
<1>0. page \in C!PageType
  BY PageTyped
<1>1. PICK f \in C!Frames : C!Start("spend", addr, f, "send")
  BY DEF C!SpendClick
<1>2. f \in BOOLEAN
  BY DEF C!Frames
<1>3. addr \in C!Addrs
  BY <1>0 DEF C!PageType
<1>4. page' \in C!PageType /\ page'.compact = page.compact /\ page'.pending = page.pending \cup {addr}
  BY <1>0, <1>3 DEF C!PageType, C!SpendClick, C!Marked
<1>5. addr \notin page.pending /\ C!Unchosen
  BY DEF C!SpendClick
<1> QED
  BY <1>1, <1>2, <1>3, <1>4, <1>5, Started
-----------------------------------------------------------------------------
(* The networks, the page and the chains *)

LEMMA ViewMoves ==
  ASSUME CInv, UNCHANGED <<jobs, stored, drawn, pool, registry, log>>,
         net' \in Nets, fetches' \subseteq Nets, page' \in C!PageType, PageOk(page', registry),
         page'.pending = page.pending
  PROVE  CInv'
  BY DEF CInv, CTyped, CChain, CJobs, CSpends, CPool

LEMMA SelectMoves == ASSUME CInv, NEW n \in Nets, C!SelectNetwork(n) PROVE CInv'
<1>1. page' \in C!PageType /\ page'.compact = None /\ page'.pending = page.pending
  BY PageTyped DEF C!SelectNetwork, C!PageType
<1> QED
  BY <1>1, ViewMoves DEF C!SelectNetwork, PageOk, C!chain, CInv, CTyped

LEMMA FetchMoves == ASSUME CInv, NEW n \in Nets, C!FetchDeployment(n) PROVE CInv'
<1>1. PICK d \in {n, None} : page' = [page EXCEPT !.dep = d]
  BY DEF C!FetchDeployment
<1>2. page' \in C!PageType /\ page'.compact = page.compact /\ page'.pending = page.pending
  BY <1>1, PageTyped DEF C!PageType
<1>3. PageOk(page', registry)
  BY <1>2, PageTyped DEF PageOk
<1> QED
  BY <1>2, <1>3, ViewMoves DEF C!FetchDeployment, C!chain, CInv, CTyped

LEMMA ReopenMoves == ASSUME CInv, C!Reopen PROVE CInv'
<1>0. /\ stored \in C!Ids \cup {None} /\ net \in Nets /\ drawn \subseteq C!Ids \cup Coins
      /\ jobs \in [1..Slots -> C!JobType \cup {None}]
  BY DEF CInv, CTyped
<1>1. page' \in C!PageType /\ page'.compact = None
  BY <1>0 DEF C!Reopen, C!FreshPage, C!PageType
<1>2. ASSUME NEW s \in 1..Slots, jobs[s] # None
      PROVE  /\ jobs[s] \in C!JobType
             /\ jobs'[s] \in C!JobType /\ jobs'[s].live = FALSE /\ jobs'[s].kind = jobs[s].kind
             /\ jobs'[s].id = jobs[s].id /\ jobs'[s].net = jobs[s].net /\ jobs'[s].addr = jobs[s].addr
             /\ jobs'[s].pc = jobs[s].pc /\ jobs'[s].rcpt = jobs[s].rcpt
  <2>1. jobs[s] \in C!JobType
    BY <1>0, <1>2
  <2>2. jobs'[s] = [jobs[s] EXCEPT !.live = FALSE]
    BY <1>2 DEF C!Reopen
  <2> QED
    BY <2>1, <2>2 DEF C!JobType
<1>3. \A s \in 1..Slots : jobs[s] = None => jobs'[s] = None
  BY DEF C!Reopen
<1>4. CTyped'
  <2>1. jobs' = [s \in 1..Slots |-> IF jobs[s] = None THEN None ELSE [jobs[s] EXCEPT !.live = FALSE]]
    BY DEF C!Reopen
  <2>2. \A s \in 1..Slots : jobs'[s] \in C!JobType \cup {None}
    BY <1>2, <1>3
  <2>3. jobs' \in [1..Slots -> C!JobType \cup {None}]
    BY <2>1, <2>2
  <2> QED
    BY <1>0, <1>1, <2>3 DEF C!Reopen, CTyped
<1>5. CChain'
  BY DEF C!Reopen, C!chain, CInv, CChain
<1>6. CJobs'
  <2>1. registry' = registry
    BY DEF C!Reopen, C!chain
  <2>2. ASSUME NEW s \in 1..Slots, jobs'[s] # None PROVE JobOk(jobs'[s], registry)
    <3>1. jobs[s] # None /\ JobOk(jobs[s], registry)
      BY <1>3, <2>2 DEF CInv, CJobs
    <3> QED
      BY <1>2, <3>1 DEF JobOk
  <2> QED
    BY <1>1, <2>1, <2>2 DEF CJobs, PageOk
<1>7. CSpends'
  BY <1>2, <1>3 DEF CSpends, Spends
<1>8. CPool'
  <2>1. pool' = pool
    BY DEF C!Reopen
  <2>2. ASSUME NEW t \in pool, t.slot # 0 PROVE Owns(t, jobs'[t.slot])
    <3>1. Owns(t, jobs[t.slot]) /\ t.slot \in 1..Slots
      BY <2>2, TxSlot DEF CInv, CPool, TxOk
    <3>2. jobs[t.slot] # None
      BY <3>1, JobNotNone DEF Owns
    <3> QED
      BY <1>2, <3>1, <3>2 DEF Owns
  <2> QED
    BY <2>1, <2>2 DEF CInv, CPool
<1> QED
  BY <1>4, <1>5, <1>6, <1>7, <1>8 DEF CInv

(* The registries only grow. *)
LEMMA SameCardinality == \A S : C!Cardinality(S) = Cardinality(S)
  BY DEF C!Cardinality, Cardinality

(* MaxKeys bounds all registries together, hence each. *)
LEMMA RoomLeft ==
  ASSUME CChain, NEW n \in Nets, C!KeysRegistered < MaxKeys
  PROVE  Len(registry[n]) < MaxKeys
<1> DEFINE L == Len(registry[n])
           K == {k \in Nets \X (1..MaxKeys) : k[2] \in DOMAIN registry[k[1]]}
<1>1. L \in Nat /\ L <= MaxKeys /\ MaxKeys \in Nat /\ DOMAIN registry[n] = 1..L
  BY TabAssumption DEF CChain
<1>2. {n} \X (1..L) \subseteq K
  BY <1>1
<1>3. IsFiniteSet(1..MaxKeys) /\ IsFiniteSet(1..L) /\ Cardinality(1..L) = L
  BY <1>1, FS_Interval
<1>4. IsFiniteSet(K)
  <2>1. IsFiniteSet(Nets \X (1..MaxKeys))
    BY <1>3, FS_Product, TabAssumption
  <2> QED
    BY <2>1, FS_Subset
<1>5. Cardinality({n} \X (1..L)) = L
  <2>1. IsFiniteSet({n}) /\ Cardinality({n}) = 1
    BY FS_Singleton
  <2>2. Cardinality({n} \X (1..L)) = 1 * L
    BY <1>3, <2>1, FS_Product
  <2> QED
    BY <1>1, <2>2
<1> HIDE DEF K
<1>6. L <= Cardinality(K) /\ Cardinality(K) \in Nat
  BY <1>2, <1>4, <1>5, FS_Subset, FS_CardinalityType
<1>7. Cardinality(K) < MaxKeys
  BY SameCardinality DEF C!KeysRegistered, K
<1> QED
  BY <1>1, <1>6, <1>7

LEMMA RegistryGrows ==
  ASSUME CChain, NEW n \in Nets, NEW key \in C!Ids \cup {"other"}, registry' = C!Registered(n, key),
         Len(registry[n]) < MaxKeys
  PROVE  /\ registry' \in [Nets -> Seq(C!Ids \cup {"other"})]
         /\ \A m \in Nets : Len(registry'[m]) <= MaxKeys
         /\ \A m \in Nets : \A i, id : Resolves(registry, m, i, id) => Resolves(registry', m, i, id)
         /\ Len(registry[n]) \in Nat /\ Resolves(registry', n, Len(registry[n]), key)
<1> DEFINE q == Append(registry[n], key)
<1>1. registry \in [Nets -> Seq(C!Ids \cup {"other"})] /\ registry[n] \in Seq(C!Ids \cup {"other"})
  BY DEF CChain
<1>2. /\ q \in Seq(C!Ids \cup {"other"}) /\ Len(q) = Len(registry[n]) + 1 /\ Len(registry[n]) \in Nat
      /\ q[Len(registry[n]) + 1] = key /\ \A i \in 1..Len(registry[n]) : q[i] = registry[n][i]
  BY <1>1, AppendProperties, LenProperties
<1>3. registry' = [registry EXCEPT ![n] = q]
  BY DEF C!Registered
<1> HIDE DEF q
<1>4. registry'[n] = q /\ \A m \in Nets : m # n => registry'[m] = registry[m]
  BY <1>1, <1>3
<1>5. registry' \in [Nets -> Seq(C!Ids \cup {"other"})]
  BY <1>1, <1>2, <1>3
<1>6. \A m \in Nets : Len(registry'[m]) <= MaxKeys
  BY <1>2, <1>4, TabAssumption DEF CChain
<1>7. ASSUME NEW m \in Nets, NEW i, NEW id, Resolves(registry, m, i, id) PROVE Resolves(registry', m, i, id)
  <2>1. CASE m # n
    BY <1>4, <1>7, <2>1 DEF Resolves
  <2>2. CASE m = n
    <3>1. i \in 0..(Len(registry[n]) - 1) /\ registry[n][i + 1] = id
      BY <1>7, <2>2 DEF Resolves
    <3>2. i \in 0..(Len(q) - 1) /\ i + 1 \in 1..Len(registry[n])
      BY <1>2, <3>1
    <3>3. q[i + 1] = id
      BY <1>2, <3>1, <3>2
    <3> QED
      BY <1>4, <2>2, <3>2, <3>3 DEF Resolves
  <2> QED
    BY <2>1, <2>2
<1>8. Resolves(registry', n, Len(registry[n]), key)
  BY <1>2, <1>4 DEF Resolves
<1> QED
  BY <1>2, <1>5, <1>6, <1>7, <1>8

LEMMA StillOk ==
  ASSUME CInv, \A m \in Nets : \A i, id : Resolves(registry, m, i, id) => Resolves(registry', m, i, id)
  PROVE  /\ PageOk(page, registry')
         /\ \A s \in 1..Slots : jobs[s] # None => JobOk(jobs[s], registry')
<1>1. PageOk(page, registry')
  BY PageTyped DEF PageOk, C!PageType
<1>2. ASSUME NEW s \in 1..Slots, jobs[s] # None PROVE JobOk(jobs[s], registry')
  <2>1. jobs[s] \in C!JobType /\ JobOk(jobs[s], registry)
    BY <1>2, JobTyped
  <2> QED
    BY <2>1 DEF JobOk, C!JobType
<1> QED
  BY <1>1, <1>2

LEMMA OthersMove == ASSUME CInv, NEW n \in Nets, C!OthersRegister(n) PROVE CInv'
<1>0. CChain /\ UNCHANGED <<net, fetches, stored, page, drawn, jobs, log, pool>>
  BY DEF CInv, C!OthersRegister, C!app
<1>1. Len(registry[n]) < MaxKeys /\ registry' = C!Registered(n, "other")
  BY <1>0, RoomLeft DEF C!OthersRegister
<1>2. /\ CChain'
      /\ \A m \in Nets : \A i, id : Resolves(registry, m, i, id) => Resolves(registry', m, i, id)
  BY <1>0, <1>1, RegistryGrows DEF CChain
<1>3. CJobs'
  BY <1>0, <1>2, StillOk DEF CJobs
<1> QED
  BY <1>0, <1>2, <1>3 DEF CInv, CTyped, CSpends, CPool

(* A receipt arrives; the transaction leaves the pool. *)
LEMMA Answered ==
  ASSUME CInv, NEW t \in pool, pool' = pool \ {t}, UNCHANGED <<net, fetches, stored, page, drawn>>, CChain',
         NEW ok \in BOOLEAN, NEW index \in Nat \cup {None},
         \A m \in Nets : \A i, id : Resolves(registry, m, i, id) => Resolves(registry', m, i, id),
         index # None => Resolves(registry', t.net, index, t.id),
         jobs' = IF t.slot = 0 THEN jobs ELSE [jobs EXCEPT ![t.slot].rcpt = [ok |-> ok, index |-> index]]
  PROVE  CInv'
<1> DEFINE r == [ok |-> ok, index |-> index]
           s == t.slot
<1>0. TxOk(t) /\ t \in TxType /\ (s # 0 => s \in 1..Slots /\ Owns(t, jobs[s]))
  BY TxSlot DEF CInv, CPool, TxOk
<1>1. /\ PageOk(page, registry')
      /\ \A q \in 1..Slots : jobs[q] # None => JobOk(jobs[q], registry')
  BY StillOk
<1>2. \A u \in pool' : u \in pool /\ (s # 0 => u.slot # s)
  BY DEF CInv, CPool
<1>3. CASE s = 0
  <2>1. jobs' = jobs
    BY <1>3
  <2>2. CJobs'
    BY <1>1, <2>1 DEF CJobs
  <2>3. CPool'
    BY <1>2, <2>1 DEF CInv, CPool
  <2> QED
    BY <2>1, <2>2, <2>3 DEF CInv, CTyped, CSpends
<1>4. CASE s # 0
  <2> DEFINE j == [jobs[s] EXCEPT !.rcpt = r]
  <2>0. s \in 1..Slots /\ jobs[s] \in C!JobType /\ jobs[s].pc \in Waits /\ t.net = jobs[s].net /\ t.id = jobs[s].id
    BY <1>0, <1>4 DEF Owns
  <2>1. r \in [ok : BOOLEAN, index : Nat \cup {None}] /\ r.index = index
    OBVIOUS
  <2>2. jobs' = [jobs EXCEPT ![s] = j]
    BY <1>4, <2>0 DEF CInv, CTyped
  <2> HIDE DEF r
  <2>3. /\ j \in C!JobType /\ j.kind = jobs[s].kind /\ j.pc = jobs[s].pc /\ j.id = jobs[s].id /\ j.net = jobs[s].net
        /\ j.addr = jobs[s].addr /\ j.live = jobs[s].live /\ j.rcpt = r
    BY <2>0, <2>1 DEF C!JobType
  <2> HIDE DEF j
  <2>4. /\ jobs' \in [1..Slots -> C!JobType \cup {None}] /\ jobs'[s] = j
        /\ \A q \in 1..Slots : q # s => jobs'[q] = jobs[q]
    BY <2>0, <2>2, <2>3 DEF CInv, CTyped
  <2> HIDE DEF s
  <2>5. jobs[s] # None /\ JobOk(jobs[s], registry')
    BY <1>1, <2>0, JobNotNone
  <2>6. JobOk(j, registry')
    BY <2>0, <2>1, <2>3, <2>5 DEF JobOk
  <2>7. CJobs'
    BY <1>1, <2>4, <2>6 DEF CJobs
  <2>8. \A q \in 1..Slots, addr \in C!Addrs : Spends(jobs'[q], addr) => Spends(jobs[q], addr)
    BY <2>3, <2>4, <2>5 DEF Spends
  <2>9. CSpends'
    BY <2>8 DEF CInv, CSpends
  <2>10. ASSUME NEW u \in pool' PROVE TxOk(u) /\ (u.slot # 0 => Owns(u, jobs'[u.slot]))
    <3>1. TxOk(u) /\ (u.slot # 0 => Owns(u, jobs[u.slot])) /\ u.slot # s
      BY <1>2, <1>4, <2>10 DEF CInv, CPool
    <3>2. u.slot # 0 => u.slot \in 1..Slots
      BY <3>1, TxSlot DEF TxOk
    <3> QED
      BY <2>4, <3>1, <3>2
  <2>11. CPool'
    BY <1>2, <2>10 DEF CInv, CPool
  <2> QED
    BY <2>4, <2>7, <2>9, <2>11 DEF CInv, CTyped
<1> QED
  BY <1>3, <1>4

LEMMA MineMoves == ASSUME CInv, NEW t \in pool, C!Mine(t) PROVE CInv'
<1> DEFINE Receipt(ok, index) == jobs' = IF t.slot = 0 THEN jobs
                                         ELSE [jobs EXCEPT ![t.slot].rcpt = [ok |-> ok, index |-> index]]
<1>0. /\ TxOk(t) /\ t \in TxType /\ t.net \in Nets
      /\ pool' = pool \ {t} /\ UNCHANGED <<net, fetches, stored, page, drawn>>
  BY DEF CInv, CPool, TxOk, TxType, C!Mine, C!app
<1>1. CASE Receipt(FALSE, None) /\ UNCHANGED C!chain
  <2>1. CChain' /\ registry' = registry
    BY <1>1 DEF CInv, CChain, C!chain
  <2> QED
    BY <1>0, <1>1, <2>1, Answered
<1>2. CASE /\ t.kind = "register" /\ C!KeysRegistered < MaxKeys
           /\ Receipt(TRUE, Len(registry[t.net])) /\ registry' = C!Registered(t.net, t.id) /\ UNCHANGED log
  <2>0. CChain /\ t.id \in C!Ids
    BY <1>0, <1>2 DEF CInv, TxOk
  <2>1. Len(registry[t.net]) < MaxKeys
    BY <1>0, <1>2, <2>0, RoomLeft
  <2>2. /\ CChain'
        /\ \A m \in Nets : \A i, id : Resolves(registry, m, i, id) => Resolves(registry', m, i, id)
        /\ Len(registry[t.net]) \in Nat /\ Resolves(registry', t.net, Len(registry[t.net]), t.id)
    BY <1>0, <1>2, <2>0, <2>1, RegistryGrows DEF CChain
  <2> QED
    BY <1>0, <1>2, <2>2, Answered
<1>3. CASE /\ Receipt(TRUE, None) /\ UNCHANGED registry
           /\ log' = IF t.kind \in {"announce", "both"} THEN [log EXCEPT ![t.net] = @ \cup {t.addr}] ELSE log
  <2>1. CChain'
    <3>1. log' \in [Nets -> SUBSET C!Addrs]
      BY <1>0, <1>3 DEF CInv, CChain, TxOk
    <3> QED
      BY <1>3, <3>1 DEF CInv, CChain
  <2> QED
    BY <1>0, <1>3, <2>1, Answered
<1> QED
  BY <1>1, <1>2, <1>3 DEF C!Mine

LEMMA ClassicalMoves == CInv /\ C!Next => CInv'
  BY ClickMoves, SpendClickMoves, StepMoves, SelectMoves, FetchMoves, OthersMove, MineMoves, ReopenMoves DEF C!Next

LEMMA ClassicalStays == CInv /\ UNCHANGED classicalVars => CInv'
  BY DEF CInv, CTyped, CChain, CJobs, CSpends, CPool, classicalVars

LEMMA ClassicalStarts == C!Init => CInv
<1> SUFFICES ASSUME C!Init PROVE CInv
  OBVIOUS
<1>1. page \in C!PageType /\ PageOk(page, registry) /\ page.pending = {} /\ stored \in C!Ids \cup {None}
  BY DEF C!Init, C!FreshPage, C!PageType, C!Ids, PageOk
<1>2. CTyped
  BY <1>1, TabAssumption DEF CTyped, C!Init
<1>3. CChain
  <2>1. registry \in [Nets -> Seq(C!Ids \cup {"other"})] /\ \A n \in Nets : Len(registry[n]) = 0
    BY EmptySeq DEF C!Init
  <2>2. log \in [Nets -> SUBSET C!Addrs]
    BY DEF C!Init, C!Addrs, C!Ids
  <2> QED
    BY <2>1, <2>2, TabAssumption DEF CChain
<1>4. CJobs /\ CSpends /\ CPool
  BY <1>1 DEF CJobs, CSpends, CPool, C!Init, Spends
<1> QED
  BY <1>2, <1>3, <1>4 DEF CInv
-----------------------------------------------------------------------------
(* What the invariant says *)

LEMMA ClassicalTyped == CInv => C!TypeOK
<1> SUFFICES ASSUME CInv PROVE C!TypeOK
  OBVIOUS
<1>1. ASSUME NEW t \in pool, t.slot # 0 PROVE jobs[t.slot] # None /\ jobs[t.slot].rcpt = None
  BY <1>1, JobNotNone DEF CInv, CPool, Owns
<1> QED
  BY <1>1 DEF CInv, CTyped, CChain, C!TypeOK

LEMMA ClassicalResolves == CInv => CompactResolves
<1> SUFFICES ASSUME CInv, page.compact # None PROVE C!ResolveCompactMeta(page.compact) = page.compact.id
  BY DEF CompactResolves, C!CompactResolves
<1>1. Resolves(registry, page.compact.net, page.compact.index, page.compact.id) /\ page.compact.net \in Nets
  BY PageTyped DEF PageOk, C!PageType
<1>2. Len(registry[page.compact.net]) \in Nat
  BY <1>1 DEF CInv, CChain
<1> QED
  BY <1>1, <1>2 DEF Resolves, C!ResolveCompactMeta

LEMMA ClassicalOneSpend == CInv => OneSpendPerRow
<1> SUFFICES ASSUME CInv, NEW addr \in C!Addrs, C!Spending(addr) # {}
             PROVE  C!Cardinality(C!Spending(addr)) = 1 /\ addr \in page.pending
  BY DEF OneSpendPerRow, C!OneSpendPerRow
<1>1. PICK s \in C!Spending(addr) : TRUE
  OBVIOUS
<1>2. \A q \in C!Spending(addr) : q \in 1..Slots /\ Spends(jobs[q], addr)
  BY DEF C!Spending, Spends
<1>3. addr \in page.pending /\ C!Spending(addr) = {s}
  BY <1>1, <1>2 DEF CInv, CSpends
<1> QED
  BY <1>3, FS_Singleton, SameCardinality

-----------------------------------------------------------------------------
(* The route of the user operations *)

(* An operation of this row was executed with the nonce it shows. *)
RowOk(n, row, done) == row.result # None =>
  \E e \in done : e.ann = n /\ e.nonce = row.result.nonce /\ (row.result.sponsored => e.moved)

Answers == {"paid", "announced", "deployed", "receipt", "poll", "pause"}

OpJobOk(j, drew, done) ==
  /\ j.kind = "spend" => j.ann \in Anns
  /\ j.kind = "receive" /\ j.pc \in {"paid", "announced"} => j.ann \in drew
  /\ j.kind # "spend" => j.pc \notin {"receipt", "poll", "pause"}
  /\ j.pc = "pause" \/ j.tries < Tries
  /\ j.rcpt # None => j.pc \in Answers
  /\ j.pc \in {"receipt", "poll", "pause"} /\ j.rcpt # None /\ j.rcpt.ok =>
       \E e \in done : e.ann = j.ann /\ e.nonce = j.nonce /\ (j.sponsored => e.moved)

OpTxType == [slot : 0..Slots, kind : {"pay", "announce", "deploy", "ops", "userOp"}, ann : Anns, nonce : Nat]

(* Handler j waits for t, which carries its announcement and its nonce: a     *)
(* receipt of the EntryPoint or the bundler is one of this very operation.    *)
OpOwns(t, j) ==
  /\ j \in U!JobType /\ j.rcpt = None /\ t.ann = j.ann /\ t.nonce = j.nonce
  /\ \/ t.kind = "userOp" /\ j.pc \in {"poll", "pause"}
     \/ t.kind # "userOp" /\ j.pc = CASE t.kind = "pay" -> "paid" [] t.kind = "announce" -> "announced"
                                       [] t.kind = "deploy" -> "deployed" [] t.kind = "ops" -> "receipt"
  /\ t.kind = "ops" => ~j.sponsored

UTyped ==
  /\ hybrid \in BOOLEAN /\ opPage \in U!PageType
  /\ opJobs \in [1..Slots -> U!JobType \cup {None}]
UChain ==
  /\ opLog \subseteq opDrawn /\ opDrawn \subseteq Anns /\ deployed \subseteq U!Accounts
  /\ bal \in [U!Accounts -> Nat] /\ nonce \in [U!Accounts -> Nat]
UJobs ==
  /\ \A n \in Anns : RowOk(n, opPage.row[n], executed)
  /\ \A s \in 1..Slots : opJobs[s] # None => OpJobOk(opJobs[s], opDrawn, executed)
UPool ==
  /\ \A t \in opPool : /\ t \in OpTxType /\ (t.kind = "announce" => t.ann \in opDrawn)
                       /\ t.slot # 0 => OpOwns(t, opJobs[t.slot])
  /\ \A t, u \in opPool : t.slot # 0 /\ t.slot = u.slot => t = u

UInv == UTyped /\ UChain /\ UJobs /\ UPool
-----------------------------------------------------------------------------
LEMMA OpTxSlot == \A t \in OpTxType : t.slot # 0 => t.slot \in 1..Slots
  BY TabAssumption DEF OpTxType

LEMMA OpJobNotNone == \A j \in U!JobType : j # None
  BY TabAssumption

LEMMA OpJobMoves ==
  ASSUME UInv, NEW s \in 1..Slots, NEW j \in U!JobType \cup {None},
         opJobs' = [opJobs EXCEPT ![s] = j],
         j # None => OpJobOk(j, opDrawn', executed),
         UNCHANGED <<hybrid, U!chain>>, opDrawn \subseteq opDrawn', opDrawn' \subseteq Anns,
         opPage' \in U!PageType, \A n \in Anns : RowOk(n, opPage'.row[n], executed),
         \A t \in opPool' : \/ t \in opPool /\ t.slot # s
                            \/ t \in OpTxType /\ (t.kind = "announce" => t.ann \in opDrawn') /\ t.slot = 0
                            \/ /\ t \in OpTxType /\ (t.kind = "announce" => t.ann \in opDrawn')
                               /\ t.slot = s /\ OpOwns(t, j),
         \A t, u \in opPool' : t.slot = s /\ u.slot = s => t = u
  PROVE  UInv'
<1>0. UNCHANGED <<hybrid, opLog, bal, nonce, deployed, executed>>
  BY DEF U!chain
<1>1. /\ opJobs' \in [1..Slots -> U!JobType \cup {None}] /\ opJobs'[s] = j
      /\ \A q \in 1..Slots : q # s => opJobs'[q] = opJobs[q]
  BY DEF UInv, UTyped
<1>2. UTyped'
  BY <1>0, <1>1 DEF UInv, UTyped
<1>3. UChain'
  BY <1>0 DEF UInv, UChain
<1>4. UJobs'
  <2>1. \A q \in 1..Slots : q # s /\ opJobs[q] # None => OpJobOk(opJobs[q], opDrawn', executed)
    BY DEF UInv, UJobs, OpJobOk
  <2> QED
    BY <1>0, <1>1, <2>1 DEF UJobs
<1>5. UPool'
  <2>1. ASSUME NEW t \in opPool'
        PROVE  /\ t \in OpTxType /\ (t.kind = "announce" => t.ann \in opDrawn')
               /\ t.slot # 0 => OpOwns(t, opJobs'[t.slot])
    <3>1. CASE t \in opPool /\ t.slot # s
      <4>1. /\ t \in OpTxType /\ (t.kind = "announce" => t.ann \in opDrawn')
            /\ t.slot # 0 => OpOwns(t, opJobs[t.slot])
        BY <3>1 DEF UInv, UPool
      <4>2. t.slot # 0 => t.slot \in 1..Slots
        BY <4>1, OpTxSlot
      <4> QED
        BY <1>1, <3>1, <4>1, <4>2
    <3>2. CASE t \in OpTxType /\ (t.kind = "announce" => t.ann \in opDrawn') /\ t.slot = 0
      BY <3>2
    <3>3. CASE /\ t \in OpTxType /\ (t.kind = "announce" => t.ann \in opDrawn')
               /\ t.slot = s /\ OpOwns(t, j)
      BY <1>1, <3>3
    <3> QED
      BY <3>1, <3>2, <3>3
  <2>2. ASSUME NEW t \in opPool', NEW u \in opPool', t.slot # 0, t.slot = u.slot PROVE t = u
    <3>1. CASE t.slot = s
      BY <2>2, <3>1
    <3>2. CASE t.slot # s
      BY <2>2, <3>2 DEF UInv, UPool
    <3> QED
      BY <3>1, <3>2
  <2> QED
    BY <2>1, <2>2 DEF UPool
<1> QED
  BY <1>2, <1>3, <1>4, <1>5 DEF UInv

LEMMA OpStarted ==
  ASSUME UInv, NEW kind \in {"receive", "scan", "spend"}, NEW n \in Anns \cup {None}, NEW sponsored \in BOOLEAN,
         NEW pc \in {"pay", "scan", "deploy", "fund", "nonce"},
         U!Start(kind, n, sponsored, pc), kind = "spend" => n \in Anns,
         opPage' \in U!PageType, \A m \in Anns : RowOk(m, opPage'.row[m], executed)
  PROVE  UInv'
<1> DEFINE s == CHOOSE s \in U!Free : \A q \in U!Free : s <= q
           j == [kind |-> kind, ann |-> n, sponsored |-> sponsored, nonce |-> 0, tries |-> 0,
                 pc |-> pc, live |-> TRUE, rcpt |-> None]
<1>1. s \in 1..Slots /\ opJobs[s] = None
  <2>1. U!Free \subseteq 1..Slots /\ U!Free # {}
    BY DEF U!Free, U!Start
  <2>2. s \in U!Free
    BY <2>1, LeastSlot
  <2> QED
    BY <2>2 DEF U!Free
<1>2. opJobs' = [opJobs EXCEPT ![s] = j] /\ UNCHANGED <<hybrid, opDrawn, U!chain, opPool>>
  BY DEF U!Start
<1> HIDE DEF s
<1>3. j \in U!JobType /\ j # None
  <2>1. j \in U!JobType
    BY TabAssumption DEF U!JobType
  <2> QED
    BY <2>1, OpJobNotNone
<1>4. OpJobOk(j, opDrawn', executed)
  BY TabAssumption DEF OpJobOk
<1> HIDE DEF j
<1>5. \A t \in opPool' : t \in opPool /\ t.slot # s
  <2> SUFFICES ASSUME NEW t \in opPool, t.slot = s PROVE FALSE
    BY <1>2
  <2>1. s # 0
    BY <1>1
  <2>2. opJobs[s] \in U!JobType
    BY <2>1 DEF UInv, UPool, OpOwns
  <2> QED
    BY <1>1, <2>2, OpJobNotNone
<1>6. UNCHANGED <<hybrid, U!chain>> /\ opDrawn' = opDrawn
  BY <1>2
<1>7. opDrawn \subseteq opDrawn' /\ opDrawn' \subseteq Anns
  BY <1>6 DEF UInv, UChain
<1> QED
  BY <1>1, <1>2, <1>3, <1>4, <1>5, <1>6, <1>7, OpJobMoves

OpShown == opPage' \in U!PageType /\ \A m \in Anns : RowOk(m, opPage'.row[m], executed)

OpSteps == UNCHANGED <<U!ui, U!chain>> /\ opDrawn \subseteq opDrawn' /\ opDrawn' \subseteq Anns

RowType == [step : BOOLEAN, result : [nonce : Nat, sponsored : BOOLEAN] \cup {None}]

LEMMA OpJobTyped ==
  ASSUME UInv, NEW s \in 1..Slots, opJobs[s] # None
  PROVE  opJobs[s] \in U!JobType /\ OpJobOk(opJobs[s], opDrawn, executed)
  BY DEF UInv, UTyped, UJobs

LEMMA OpPageTyped == UInv => opPage \in U!PageType /\ \A m \in Anns : RowOk(m, opPage.row[m], executed)
  BY DEF UInv, UTyped, UJobs

LEMMA OpSame == ASSUME UInv, opPage' = opPage PROVE OpShown
  BY OpPageTyped DEF OpShown

LEMMA OpDrew == ASSUME UInv, UNCHANGED <<U!ui, U!chain, opDrawn>> PROVE OpSteps
  BY DEF OpSteps, UInv, UChain

LEMMA OpBusy ==
  ASSUME UInv, NEW b \in {None, "receive", "scan"}, NEW hits \in SUBSET Anns, NEW code \in SUBSET U!Accounts,
         NEW s \in 1..Slots,
         \/ U!SetPage(s, [opPage EXCEPT !.busy = b, !.hits = hits, !.code = code])
         \/ U!SetPage(s, [opPage EXCEPT !.busy = b])
  PROVE  OpShown
<1> DEFINE p == [opPage EXCEPT !.busy = b, !.hits = hits, !.code = code]
           q == [opPage EXCEPT !.busy = b]
<1>1. opPage \in U!PageType /\ \A m \in Anns : RowOk(m, opPage.row[m], executed)
  BY OpPageTyped
<1>2. p \in U!PageType /\ p.row = opPage.row /\ q \in U!PageType /\ q.row = opPage.row
  BY <1>1 DEF U!PageType
<1>3. opPage' = p \/ opPage' = q \/ opPage' = opPage
  BY DEF U!SetPage
<1> HIDE DEF p, q
<1> QED
  BY <1>1, <1>2, <1>3 DEF OpShown

LEMMA OpPatched ==
  ASSUME UInv, NEW n \in Anns, NEW row \in RowType, RowOk(n, row, executed),
         NEW busy \in {None, "receive", "scan"},
         \/ opPage' = [opPage EXCEPT !.row[n] = row]
         \/ opPage' = [[opPage EXCEPT !.row[n] = row] EXCEPT !.busy = busy]
         \/ opPage' = opPage
  PROVE  OpShown
<1> DEFINE p == [opPage EXCEPT !.row[n] = row]
           q == [p EXCEPT !.busy = busy]
<1>1. opPage \in U!PageType /\ opPage.row \in [Anns -> RowType] /\ \A m \in Anns : RowOk(m, opPage.row[m], executed)
  BY OpPageTyped DEF U!PageType, RowType
<1>2. [opPage.row EXCEPT ![n] = row] \in [Anns -> RowType]
  BY <1>1
<1>3. p \in U!PageType /\ p.row = [opPage.row EXCEPT ![n] = row]
  BY <1>1, <1>2 DEF U!PageType, RowType
<1> HIDE DEF p
<1>4. q \in U!PageType /\ q.row = p.row
  BY <1>3 DEF U!PageType
<1> HIDE DEF q
<1>5. \A m \in Anns : RowOk(m, [opPage.row EXCEPT ![n] = row][m], executed)
  <2> SUFFICES ASSUME NEW m \in Anns PROVE RowOk(m, [opPage.row EXCEPT ![n] = row][m], executed)
    OBVIOUS
  <2>1. CASE m = n
    BY <1>1, <2>1
  <2>2. CASE m # n
    BY <1>1, <2>2
  <2> QED
    BY <2>1, <2>2
<1>6. opPage' = p \/ opPage' = q \/ opPage' = opPage
  BY DEF p, q
<1> QED
  BY <1>1, <1>3, <1>4, <1>5, <1>6 DEF OpShown

LEMMA OpNoTx ==
  ASSUME UInv, NEW s \in 1..Slots, opJobs[s].pc \notin Answers \/ opJobs[s].rcpt # None
  PROVE  \A t \in opPool : t.slot # s
<1> SUFFICES ASSUME NEW t \in opPool, t.slot = s PROVE FALSE
  OBVIOUS
<1>1. s # 0 /\ t \in OpTxType /\ OpOwns(t, opJobs[s])
  BY DEF UInv, UPool
<1>2. t.kind \in {"pay", "announce", "deploy", "ops", "userOp"}
  BY <1>1 DEF OpTxType
<1> QED
  BY <1>1, <1>2 DEF OpOwns, Answers

LEMMA OpWent ==
  ASSUME UInv, NEW s \in 1..Slots, NEW j \in U!JobType \cup {None}, opJobs' = [opJobs EXCEPT ![s] = j],
         j # None => OpJobOk(j, opDrawn', executed), OpSteps, OpShown, opPool' = opPool,
         opJobs[s].pc \notin Answers \/ opJobs[s].rcpt # None
  PROVE  UInv'
<1>1. \A t \in opPool' : t \in opPool /\ t.slot # s
  BY OpNoTx
<1>2. UNCHANGED <<hybrid, U!chain>>
  BY DEF OpSteps, U!ui
<1> QED
  BY <1>1, <1>2, OpJobMoves DEF OpSteps, OpShown

LEMMA OpSent ==
  ASSUME UInv, NEW s \in 1..Slots, NEW j \in U!JobType, opJobs' = [opJobs EXCEPT ![s] = j],
         OpJobOk(j, opDrawn', executed), OpSteps, OpShown,
         NEW t \in OpTxType, opPool' = opPool \cup {t}, t.kind = "announce" => t.ann \in opDrawn',
         t.slot = s, OpOwns(t, j), opJobs[s].pc \notin Answers \/ opJobs[s].rcpt # None
  PROVE  UInv'
<1>1. \A u \in opPool : u.slot # s
  BY OpNoTx
<1>2. UNCHANGED <<hybrid, U!chain>>
  BY DEF OpSteps, U!ui
<1>3. \A u \in opPool' : (u \in opPool /\ u.slot # s) \/ u = t
  BY <1>1
<1>4. \A u, v \in opPool' : u.slot = s /\ v.slot = s => u = v
  BY <1>3
<1>5. \A u \in opPool' : \/ u \in opPool /\ u.slot # s
                         \/ u \in OpTxType /\ (u.kind = "announce" => u.ann \in opDrawn') /\ u.slot = 0
                         \/ /\ u \in OpTxType /\ (u.kind = "announce" => u.ann \in opDrawn')
                            /\ u.slot = s /\ OpOwns(u, j)
  BY <1>3
<1> QED
  BY <1>2, <1>4, <1>5, OpJobMoves DEF OpSteps, OpShown

LEMMA OpThrown ==
  ASSUME UInv, NEW s \in 1..Slots, opJobs[s] # None, UNCHANGED <<U!ui, U!chain>>, U!Throw(s)
  PROVE  UInv'
<1>0. opJobs[s] \in U!JobType /\ OpJobOk(opJobs[s], opDrawn, executed)
  BY OpJobTyped
<1>1. OpSteps /\ UNCHANGED <<hybrid, U!chain>>
  BY OpDrew DEF U!Throw, U!ui
<1>2. OpShown
  <2>1. CASE opJobs[s].kind = "spend"
    <3> DEFINE n == opJobs[s].ann
               row == [opPage.row[n] EXCEPT !.step = FALSE]
    <3>1. n \in Anns
      BY <1>0, <2>1 DEF OpJobOk
    <3>2. opPage.row[n] \in RowType /\ RowOk(n, opPage.row[n], executed)
      BY <3>1, OpPageTyped DEF U!PageType, RowType
    <3> HIDE DEF n
    <3>3. row \in RowType /\ RowOk(n, row, executed)
      BY <3>2 DEF RowType, RowOk
    <3>4. opPage' = [opPage EXCEPT !.row[n] = row] \/ opPage' = opPage
      BY <2>1 DEF U!Throw, U!SetPage, U!Patch, n
    <3> HIDE DEF row
    <3> QED
      BY <3>1, <3>3, <3>4, OpPatched
  <2>2. CASE opJobs[s].kind # "spend"
    <3>1. U!SetPage(s, [opPage EXCEPT !.busy = None])
      BY <2>2 DEF U!Throw
    <3>2. {} \in SUBSET Anns /\ {} \in SUBSET U!Accounts
      OBVIOUS
    <3> QED
      BY <3>1, <3>2, OpBusy
  <2> QED
    BY <2>1, <2>2
<1>3. \A t \in opPool' :
        \/ t \in opPool /\ t.slot # s
        \/ t \in OpTxType /\ (t.kind = "announce" => t.ann \in opDrawn') /\ t.slot = 0
  <2> SUFFICES ASSUME NEW t \in opPool, NEW u, u = IF t.slot = s THEN [t EXCEPT !.slot = 0] ELSE t
               PROVE  \/ u \in opPool /\ u.slot # s
                      \/ u \in OpTxType /\ (u.kind = "announce" => u.ann \in opDrawn') /\ u.slot = 0
    BY DEF U!Throw
  <2>1. t \in OpTxType /\ (t.kind = "announce" => t.ann \in opDrawn)
    BY DEF UInv, UPool
  <2>2. CASE t.slot = s
    <3>1. u \in OpTxType /\ u.slot = 0 /\ u.kind = t.kind /\ u.ann = t.ann
      BY <2>1, <2>2, TabAssumption DEF OpTxType
    <3> QED
      BY <1>1, <2>1, <3>1 DEF OpSteps
  <2>3. CASE t.slot # s
    BY <2>3
  <2> QED
    BY <2>2, <2>3
<1>4. opJobs' = [opJobs EXCEPT ![s] = None] /\ s # 0
  BY DEF U!Throw, U!End
<1> QED
  BY <1>1, <1>2, <1>3, <1>4, OpJobMoves DEF OpSteps, OpShown

PcOf(kind) == CASE kind = "pay" -> "paid" [] kind = "announce" -> "announced" [] kind = "deploy" -> "deployed"
                [] kind = "ops" -> "receipt" [] kind = "userOp" -> "poll"

LEMMA OpSends ==
  ASSUME UInv, NEW s \in 1..Slots, opJobs[s] # None, UNCHANGED <<U!ui, U!chain>>,
         NEW kind \in {"announce", "deploy", "ops", "userOp"}, NEW pc, pc = PcOf(kind),
         opPool' = opPool \cup {U!Tx(s, kind)}, U!Go(s, pc), UNCHANGED opDrawn, OpShown,
         kind = "announce" => opJobs[s].kind = "receive" /\ opJobs[s].ann \in opDrawn,
         kind # "announce" => opJobs[s].kind = "spend",
         kind = "ops" => ~opJobs[s].sponsored, opJobs[s].pc # "pause",
         opJobs[s].pc \notin Answers \/ opJobs[s].rcpt # None
  PROVE  UInv'
<1> DEFINE j == [opJobs[s] EXCEPT !.pc = pc, !.rcpt = None]
           t == U!Tx(s, kind)
<1>0. opJobs[s] \in U!JobType /\ OpJobOk(opJobs[s], opDrawn, executed)
  BY OpJobTyped
<1>1. pc \in {"announced", "deployed", "receipt", "poll"} /\ (pc = "announced" <=> kind = "announce")
      /\ (pc \in {"receipt", "poll"} => kind \in {"ops", "userOp"})
  BY DEF PcOf
<1>2. /\ j \in U!JobType /\ j.kind = opJobs[s].kind /\ j.rcpt = None /\ j.pc = pc /\ j.ann = opJobs[s].ann
      /\ j.nonce = opJobs[s].nonce /\ j.sponsored = opJobs[s].sponsored /\ j.tries = opJobs[s].tries
  BY <1>0, <1>1 DEF U!JobType
<1>3. opJobs' = [opJobs EXCEPT ![s] = j]
  BY <1>0 DEF U!Go, U!JobType, UInv, UTyped
<1> HIDE DEF j
<1>4. opJobs[s].ann \in Anns
  BY <1>0 DEF OpJobOk, UInv, UChain
<1>5. OpJobOk(j, opDrawn', executed)
  BY <1>0, <1>1, <1>2, <1>4 DEF OpJobOk
<1>6. /\ t \in OpTxType /\ t.slot = s /\ t.kind = kind
      /\ t.ann = opJobs[s].ann /\ t.nonce = opJobs[s].nonce
  BY <1>0, <1>4, TabAssumption DEF U!Tx, OpTxType, U!JobType
<1>7. opPool' = opPool \cup {t}
  OBVIOUS
<1> HIDE DEF t
<1>8. OpOwns(t, j)
  BY <1>2, <1>6 DEF OpOwns, PcOf
<1>9. OpSteps
  BY OpDrew
<1> QED
  BY <1>2, <1>3, <1>5, <1>6, <1>7, <1>8, <1>9, OpSent

LEMMA OpReceiveMoves ==
  ASSUME UInv, NEW s \in 1..Slots, opJobs[s] # None, UNCHANGED <<U!ui, U!chain>>, U!Receive(s)
  PROVE  UInv'
<1>0. opJobs[s] \in U!JobType /\ OpJobOk(opJobs[s], opDrawn, executed)
  BY OpJobTyped
<1>1. ASSUME U!At(s, "receive", "pay"), NEW n \in Anns \ opDrawn, opDrawn' = opDrawn \cup {n}, UNCHANGED opPage,
             opJobs' = [opJobs EXCEPT ![s].ann = n, ![s].pc = "paid"],
             opPool' = opPool \cup {[U!Tx(s, "pay") EXCEPT !.ann = n]}
      PROVE  UInv'
  <2> DEFINE j == [opJobs[s] EXCEPT !.ann = n, !.pc = "paid"]
             t == [U!Tx(s, "pay") EXCEPT !.ann = n]
  <2>1. opJobs[s].rcpt = None /\ opJobs[s].kind = "receive" /\ opJobs[s].pc = "pay"
    BY <1>0, <1>1 DEF OpJobOk, Answers, U!At
  <2>2. /\ j \in U!JobType /\ j.kind = "receive" /\ j.rcpt = None /\ j.pc = "paid" /\ j.ann = n
        /\ j.nonce = opJobs[s].nonce /\ j.tries = opJobs[s].tries
    BY <1>0, <2>1 DEF U!JobType
  <2>3. opJobs' = [opJobs EXCEPT ![s] = j]
    BY <1>1 DEF UInv, UTyped
  <2> HIDE DEF j
  <2>4. OpJobOk(j, opDrawn', executed)
    BY <1>0, <1>1, <2>1, <2>2 DEF OpJobOk
  <2>5. t \in OpTxType /\ t.slot = s /\ t.kind = "pay" /\ t.ann = n /\ t.nonce = opJobs[s].nonce
    BY <1>0, TabAssumption DEF U!Tx, OpTxType, U!JobType
  <2>6. opPool' = opPool \cup {t}
    BY <1>1
  <2> HIDE DEF t
  <2>7. OpOwns(t, j)
    BY <2>2, <2>5 DEF OpOwns
  <2>8. OpSteps /\ OpShown
    BY <1>1, OpSame DEF OpSteps, UInv, UChain
  <2> QED
    BY <2>1, <2>2, <2>3, <2>4, <2>5, <2>6, <2>7, <2>8, OpSent DEF Answers
<1>2. CASE U!At(s, "receive", "paid") /\ opJobs[s].rcpt # None /\ U!Send(s, "announce", "announced")
  <2>1. opJobs[s].ann \in opDrawn /\ opJobs[s].kind = "receive"
    BY <1>0, <1>2 DEF OpJobOk, U!At
  <2>2. "announced" = PcOf("announce") /\ OpShown
    BY <1>2, OpSame DEF PcOf, U!Send
  <2> QED
    BY <1>2, <2>1, <2>2, OpSends DEF U!Send, U!At
<1>3. CASE /\ U!At(s, "receive", "announced") /\ opJobs[s].rcpt # None /\ U!Go(s, "scan")
           /\ U!SetPage(s, [opPage EXCEPT !.busy = "scan"]) /\ UNCHANGED <<opDrawn, opPool>>
  <2> DEFINE j == [opJobs[s] EXCEPT !.pc = "scan", !.rcpt = None]
  <2>1. j \in U!JobType /\ j.kind = "receive" /\ j.rcpt = None /\ j.pc = "scan" /\ j.tries = opJobs[s].tries
    BY <1>0, <1>3 DEF U!JobType, U!At
  <2>2. opJobs' = [opJobs EXCEPT ![s] = j]
    BY <1>3 DEF U!Go, UInv, UTyped
  <2> HIDE DEF j
  <2>3. OpJobOk(j, opDrawn', executed)
    BY <1>0, <1>3, <2>1 DEF OpJobOk, U!At
  <2>4. {} \in SUBSET Anns /\ {} \in SUBSET U!Accounts
    OBVIOUS
  <2>5. OpShown
    BY <1>3, <2>4, OpBusy
  <2>6. OpSteps
    BY <1>3, OpDrew
  <2> QED
    BY <1>3, <2>1, <2>2, <2>3, <2>5, <2>6, OpWent
<1>4. CASE opJobs[s].kind = "receive" /\ opJobs[s].pc # "scan" /\ U!Throw(s)
  BY <1>4, OpThrown
<1> QED
  BY <1>1, <1>2, <1>3, <1>4 DEF U!Receive

LEMMA OpScanMoves ==
  ASSUME UInv, NEW s \in 1..Slots, opJobs[s] # None, UNCHANGED <<U!ui, U!chain>>, U!Scan(s)
  PROVE  UInv'
<1>1. opLog \in SUBSET Anns /\ deployed \in SUBSET U!Accounts
  BY DEF UInv, UChain
<1>2. OpShown
  BY <1>1, OpBusy DEF U!Scan
<1>3. OpSteps
  BY OpDrew DEF U!Scan
<1> QED
  BY <1>2, <1>3, OpWent DEF U!Scan, U!End, Answers

LEMMA OpGoes ==
  ASSUME UInv, NEW s \in 1..Slots, opJobs[s] # None, UNCHANGED <<U!ui, U!chain, opDrawn, opPool>>,
         NEW pc \in {"scan", "fund", "nonce", "submit"}, U!Go(s, pc), opJobs[s].kind = "spend", OpShown,
         opJobs[s].pc # "pause", opJobs[s].pc \notin Answers \/ opJobs[s].rcpt # None
  PROVE  UInv'
<1> DEFINE j == [opJobs[s] EXCEPT !.pc = pc, !.rcpt = None]
<1>0. opJobs[s] \in U!JobType /\ OpJobOk(opJobs[s], opDrawn, executed)
  BY OpJobTyped
<1>1. /\ j \in U!JobType /\ j.kind = "spend" /\ j.rcpt = None /\ j.pc = pc /\ j.ann = opJobs[s].ann
      /\ j.tries = opJobs[s].tries
  BY <1>0 DEF U!JobType
<1>2. opJobs' = [opJobs EXCEPT ![s] = j]
  BY DEF U!Go, UInv, UTyped
<1> HIDE DEF j
<1>3. OpJobOk(j, opDrawn', executed)
  BY <1>0, <1>1 DEF OpJobOk
<1> QED
  BY <1>1, <1>2, <1>3, OpDrew, OpWent

LEMMA OpSpendMoves ==
  ASSUME UInv, NEW s \in 1..Slots, opJobs[s] # None, UNCHANGED <<U!ui, U!chain>>, U!Spend(s)
  PROVE  UInv'
<1>0. opJobs[s] \in U!JobType /\ OpJobOk(opJobs[s], opDrawn, executed)
  BY OpJobTyped
<1>1. CASE U!At(s, "spend", "deploy") /\ U!Send(s, "deploy", "deployed")
  <2>1. "deployed" = PcOf("deploy") /\ OpShown /\ opJobs[s].pc \notin Answers
    BY <1>1, OpSame DEF PcOf, U!Send, U!At, Answers
  <2> QED
    BY <1>1, <2>1, OpSends DEF U!Send, U!At
<1>2. CASE /\ U!At(s, "spend", "deployed") /\ opJobs[s].rcpt # None
           /\ U!Go(s, IF opJobs[s].sponsored THEN "fund" ELSE "nonce") /\ UNCHANGED <<opPage, opDrawn, opPool>>
  <2>1. PICK pc \in {"fund", "nonce"} : U!Go(s, pc)
    BY <1>2
  <2> QED
    BY <1>2, <2>1, OpSame, OpGoes DEF U!At
<1>3. CASE /\ U!At(s, "spend", "nonce")
           /\ opJobs' = [opJobs EXCEPT ![s].nonce = nonce[U!Acct(s)], ![s].rcpt = None,
                                       ![s].pc = IF opJobs[s].sponsored THEN "submit" ELSE "fund"]
           /\ UNCHANGED <<opPage, opDrawn, opPool>>
  <2> DEFINE pc == IF opJobs[s].sponsored THEN "submit" ELSE "fund"
             n == nonce[U!Acct(s)]
             j == [opJobs[s] EXCEPT !.nonce = n, !.rcpt = None, !.pc = pc]
  <2>1. n \in Nat
    <3>1. opJobs[s].ann \in Anns
      BY <1>0, <1>3 DEF OpJobOk, U!At
    <3>2. U!Acct(s) \in U!Accounts
      BY <3>1 DEF U!Acct, U!AccountOf, U!Accounts
    <3> QED
      BY <3>2 DEF UInv, UChain
  <2>2. pc \in {"submit", "fund"}
    OBVIOUS
  <2>3. opJobs' = [opJobs EXCEPT ![s] = j]
    BY <1>3 DEF UInv, UTyped
  <2> HIDE DEF n, pc
  <2>4. /\ j \in U!JobType /\ j.kind = "spend" /\ j.rcpt = None /\ j.pc = pc /\ j.ann = opJobs[s].ann
        /\ j.tries = opJobs[s].tries
    BY <1>0, <1>3, <2>1, <2>2 DEF U!JobType, U!At
  <2> HIDE DEF j
  <2>5. OpJobOk(j, opDrawn', executed)
    BY <1>0, <1>3, <2>2, <2>4 DEF OpJobOk, U!At
  <2>6. OpSteps /\ OpShown
    BY <1>3, OpDrew, OpSame
  <2> QED
    BY <1>3, <2>3, <2>4, <2>5, <2>6, OpWent DEF U!At, Answers
<1>4. CASE /\ U!At(s, "spend", "fund")
           /\ U!Go(s, IF opJobs[s].sponsored THEN "nonce" ELSE "submit") /\ UNCHANGED <<opPage, opDrawn, opPool>>
  <2>1. PICK pc \in {"nonce", "submit"} : U!Go(s, pc)
    BY <1>4
  <2> QED
    BY <1>4, <2>1, OpSame, OpGoes DEF U!At, Answers
<1>5. CASE U!HandleOps(s)
  <2>1. "receipt" = PcOf("ops") /\ OpShown /\ opJobs[s].pc \notin Answers
    BY <1>5, OpSame DEF PcOf, U!Send, U!At, Answers, U!HandleOps
  <2> QED
    BY <1>5, <2>1, OpSends DEF U!Send, U!At, U!HandleOps
<1>6. CASE U!SubmitSponsoredUserOp(s)
  <2> DEFINE n == opJobs[s].ann
             row == [opPage.row[n] EXCEPT !.step = TRUE]
  <2>1. n \in Anns
    BY <1>0, <1>6 DEF OpJobOk, U!At, U!SubmitSponsoredUserOp
  <2>2. opPage.row[n] \in RowType /\ RowOk(n, opPage.row[n], executed)
    BY <2>1, OpPageTyped DEF U!PageType, RowType
  <2> HIDE DEF n
  <2>3. row \in RowType /\ RowOk(n, row, executed)
    BY <2>2 DEF RowType, RowOk
  <2>4. opPage' = [opPage EXCEPT !.row[n] = row] \/ opPage' = opPage
    BY <1>6 DEF U!SubmitSponsoredUserOp, U!SetPage, U!Patch, n
  <2> HIDE DEF row
  <2>5. OpShown
    BY <2>1, <2>3, <2>4, OpPatched
  <2>6. "poll" = PcOf("userOp") /\ opJobs[s].pc \notin Answers
    BY <1>6 DEF PcOf, U!At, Answers, U!SubmitSponsoredUserOp
  <2> QED
    BY <1>6, <2>5, <2>6, OpSends DEF U!SubmitSponsoredUserOp, U!At
<1>7. CASE U!Poll(s)
  <2>1. \/ U!At(s, "spend", "poll") /\ opJobs' = [opJobs EXCEPT ![s].tries = U!NextTry(s), ![s].pc = "pause"]
        \/ /\ U!At(s, "spend", "pause") /\ opJobs[s].tries < Tries
           /\ opJobs' = [opJobs EXCEPT ![s].tries = opJobs[s].tries, ![s].pc = "poll"]
    <3>1. CASE U!At(s, "spend", "poll")
      BY <1>7, <3>1 DEF U!Poll, U!At
    <3>2. CASE U!At(s, "spend", "pause") /\ opJobs[s].tries < Tries /\ opJobs' = [opJobs EXCEPT ![s].pc = "poll"]
      <4>1. opJobs[s] \in U!JobType /\ opJobs \in [1..Slots -> U!JobType \cup {None}]
        BY <1>0 DEF UInv, UTyped
      <4>2. [opJobs[s] EXCEPT !.pc = "poll"] = [opJobs[s] EXCEPT !.tries = opJobs[s].tries, !.pc = "poll"]
        BY <4>1 DEF U!JobType
      <4> QED
        BY <3>2, <4>1, <4>2
    <3> QED
      BY <1>7, <3>1, <3>2 DEF U!Poll
  <2>2. PICK n \in 0..Tries, pc \in {"poll", "pause"} :
          /\ opJobs[s].kind = "spend" /\ opJobs[s].pc \in {"poll", "pause"} /\ (pc = "pause" \/ n < Tries)
          /\ opJobs' = [opJobs EXCEPT ![s].tries = n, ![s].pc = pc]
    <3>1. CASE U!At(s, "spend", "poll") /\ opJobs' = [opJobs EXCEPT ![s].tries = U!NextTry(s), ![s].pc = "pause"]
      <4>1. U!NextTry(s) \in 0..Tries
        BY <1>0, <3>1, TabAssumption DEF U!NextTry, U!JobType, OpJobOk, U!At
      <4> QED
        BY <3>1, <4>1 DEF U!At
    <3>2. CASE /\ U!At(s, "spend", "pause") /\ opJobs[s].tries < Tries
               /\ opJobs' = [opJobs EXCEPT ![s].tries = opJobs[s].tries, ![s].pc = "poll"]
      <4>1. opJobs[s].tries \in 0..Tries
        BY <1>0 DEF U!JobType
      <4> QED
        BY <3>2, <4>1 DEF U!At
    <3> QED
      BY <2>1, <3>1, <3>2
  <2> DEFINE j == [opJobs[s] EXCEPT !.tries = n, !.pc = pc]
  <2>3. opJobs' = [opJobs EXCEPT ![s] = j]
    BY <2>2 DEF UInv, UTyped
  <2>4. /\ j \in U!JobType /\ j.kind = "spend" /\ j.rcpt = opJobs[s].rcpt /\ j.pc = pc /\ j.tries = n
        /\ j.ann = opJobs[s].ann /\ j.nonce = opJobs[s].nonce /\ j.sponsored = opJobs[s].sponsored
    BY <1>0, <2>2 DEF U!JobType
  <2> HIDE DEF j
  <2>5. OpJobOk(j, opDrawn, executed)
    BY <1>0, <2>2, <2>4 DEF OpJobOk, Answers
  <2>6. s # 0
    OBVIOUS
  <2>7. ASSUME NEW t \in opPool
        PROVE  \/ t \in opPool /\ t.slot # s
               \/ /\ t \in OpTxType /\ (t.kind = "announce" => t.ann \in opDrawn)
                  /\ t.slot = s /\ OpOwns(t, j)
    <3>1. SUFFICES ASSUME t.slot = s
                   PROVE  t \in OpTxType /\ (t.kind = "announce" => t.ann \in opDrawn) /\ OpOwns(t, j)
      OBVIOUS
    <3>2. t \in OpTxType /\ (t.kind = "announce" => t.ann \in opDrawn) /\ OpOwns(t, opJobs[s])
      BY <2>6, <3>1 DEF UInv, UPool
    <3>3. t.kind \in {"pay", "announce", "deploy", "ops", "userOp"}
      BY <3>2 DEF OpTxType
    <3>4. t.kind = "userOp"
      BY <2>2, <3>2, <3>3 DEF OpOwns
    <3> QED
      BY <2>4, <3>2, <3>4 DEF OpOwns
  <2>8. \A t, u \in opPool : t.slot = s /\ u.slot = s => t = u
    BY <2>6 DEF UInv, UPool
  <2>9. OpSteps /\ OpShown /\ UNCHANGED <<hybrid, U!chain, opDrawn, opPool>>
    BY <1>7, OpDrew, OpSame DEF U!Poll, U!ui
  <2> QED
    BY <2>3, <2>4, <2>5, <2>7, <2>8, <2>9, OpJobMoves DEF OpSteps, OpShown
<1>8. CASE U!Spent(s)
  <2> DEFINE n == opJobs[s].ann
             done == [step |-> FALSE, result |-> [nonce |-> opJobs[s].nonce, sponsored |-> opJobs[s].sponsored]]
  <2>0. opJobs[s].kind = "spend" /\ opJobs[s].pc \in {"receipt", "poll"} /\ opJobs[s].rcpt # None /\ opJobs[s].rcpt.ok
    BY <1>8 DEF U!Spent, U!Succeeded
  <2>1. n \in Anns
    BY <1>0, <2>0 DEF OpJobOk
  <2>2. opPage.row[n] \in RowType /\ RowOk(n, opPage.row[n], executed)
    BY <2>1, OpPageTyped DEF U!PageType, RowType
  <2>3. done \in RowType /\ RowOk(n, done, executed)
    BY <1>0, <2>0 DEF RowType, RowOk, OpJobOk, U!JobType
  <2>4. PICK row \in {done, opPage.row[n]} : U!SetPage(s, [U!Patch(s, row) EXCEPT !.busy = "scan"])
    BY <1>8 DEF U!Spent
  <2>5. row \in RowType /\ RowOk(n, row, executed)
    BY <2>2, <2>3, <2>4
  <2>6. opPage' = [[opPage EXCEPT !.row[n] = row] EXCEPT !.busy = "scan"] \/ opPage' = opPage
    BY <2>4 DEF U!SetPage, U!Patch
  <2> HIDE DEF n, done
  <2>7. OpShown
    BY <2>1, <2>5, <2>6, OpPatched
  <2> QED
    BY <1>8, <2>0, <2>7, OpGoes DEF U!Spent
<1>9. CASE U!Throw(s)
  BY <1>9, OpThrown
<1> QED
  BY <1>1, <1>2, <1>3, <1>4, <1>5, <1>6, <1>7, <1>8, <1>9 DEF U!Spend, U!Deploy, U!BuildUserOp

LEMMA OpClickMoves ==
  ASSUME UInv, U!ReceiveClick \/ U!ScanClick
  PROVE  UInv'
<1>1. \A b \in {"receive", "scan"} : opPage' = [opPage EXCEPT !.busy = b] =>
        opPage' \in U!PageType /\ \A m \in Anns : RowOk(m, opPage'.row[m], executed)
  BY OpPageTyped DEF U!PageType
<1>2. CASE U!ReceiveClick
  BY <1>1, <1>2, OpStarted DEF U!ReceiveClick
<1>3. CASE U!ScanClick
  BY <1>1, <1>3, OpStarted DEF U!ScanClick
<1> QED
  BY <1>2, <1>3

LEMMA OpSpendClickMoves ==
  ASSUME UInv, NEW n \in opPage.hits, U!SpendClick(n)
  PROVE  UInv'
<1>1. n \in Anns
  BY OpPageTyped DEF U!PageType
<1> DEFINE dep == U!AccountOf(n) \in opPage.code
<1>2. PICK sponsored \in BOOLEAN :
        /\ opPage' = [opPage EXCEPT !.row[n] = [step |-> ~(sponsored /\ dep), result |-> None]]
        /\ U!Start("spend", n, sponsored, IF ~dep THEN "deploy" ELSE IF sponsored THEN "fund" ELSE "nonce")
  BY DEF U!SpendClick
<1> DEFINE row == [step |-> ~(sponsored /\ dep), result |-> None]
           pc == IF ~dep THEN "deploy" ELSE IF sponsored THEN "fund" ELSE "nonce"
<1>3. row \in RowType /\ RowOk(n, row, executed)
  BY DEF RowType, RowOk
<1>4. opPage' = [opPage EXCEPT !.row[n] = row] /\ U!Start("spend", n, sponsored, pc)
  BY <1>2
<1>5. pc \in {"deploy", "fund", "nonce"}
  OBVIOUS
<1> HIDE DEF row, pc
<1>6. None \in {None, "receive", "scan"}
  OBVIOUS
<1>7. OpShown
  BY <1>1, <1>3, <1>4, <1>6, OpPatched
<1> QED
  BY <1>1, <1>4, <1>5, <1>7, OpStarted DEF OpShown

-----------------------------------------------------------------------------
(* The chain and the EntryPoint *)

LEMMA OpStillOk ==
  ASSUME UInv, executed \subseteq executed'
  PROVE  /\ \A n \in Anns : RowOk(n, opPage.row[n], executed')
         /\ \A s \in 1..Slots : opJobs[s] # None => OpJobOk(opJobs[s], opDrawn, executed')
<1>1. \A n \in Anns : RowOk(n, opPage.row[n], executed')
  BY OpPageTyped DEF RowOk
<1>2. \A s \in 1..Slots : opJobs[s] # None => OpJobOk(opJobs[s], opDrawn, executed')
  BY DEF UInv, UJobs, OpJobOk
<1> QED
  BY <1>1, <1>2

LEMMA OpDropped ==
  ASSUME UInv, NEW t \in opPool, opPool' = opPool \ {t}, UNCHANGED <<hybrid, opPage, opDrawn, opJobs>>,
         UChain', executed \subseteq executed'
  PROVE  UInv'
<1>1. UJobs'
  BY OpStillOk DEF UJobs
<1>2. UPool'
  BY DEF UInv, UPool
<1> QED
  BY <1>1, <1>2 DEF UInv, UTyped

LEMMA OpAnswered ==
  ASSUME UInv, NEW t \in opPool, opPool' = opPool \ {t}, UNCHANGED <<hybrid, opPage, opDrawn>>,
         UChain', executed \subseteq executed', NEW ok \in BOOLEAN, U!Receipt(t, ok),
         ok /\ t.kind \in {"ops", "userOp"} =>
           \E e \in executed' : e.ann = t.ann /\ e.nonce = t.nonce /\ (t.kind # "ops" => e.moved)
  PROVE  UInv'
<1> DEFINE s == t.slot
<1>0. t \in OpTxType /\ (s # 0 => s \in 1..Slots /\ OpOwns(t, opJobs[s]))
  BY OpTxSlot DEF UInv, UPool
<1>1. CASE s = 0
  <2>1. opJobs' = opJobs
    BY <1>1 DEF U!Receipt
  <2> QED
    BY <2>1, OpDropped
<1>2. CASE s # 0
  <2> DEFINE r == [ok |-> ok]
             j == [opJobs[s] EXCEPT !.rcpt = r]
  <2>1. s \in 1..Slots /\ OpOwns(t, opJobs[s]) /\ opJobs[s] \in U!JobType
    BY <1>0, <1>2 DEF OpOwns
  <2>2. opJobs' = [opJobs EXCEPT ![s] = j]
    BY <1>2, <2>1 DEF U!Receipt, UInv, UTyped
  <2>3. r \in [ok : BOOLEAN] /\ r.ok = ok
    OBVIOUS
  <2> HIDE DEF r
  <2>4. /\ j \in U!JobType /\ j.kind = opJobs[s].kind /\ j.rcpt = r /\ j.pc = opJobs[s].pc
        /\ j.ann = opJobs[s].ann /\ j.nonce = opJobs[s].nonce /\ j.sponsored = opJobs[s].sponsored
        /\ j.tries = opJobs[s].tries
    BY <2>1, <2>3 DEF U!JobType
  <2> HIDE DEF j
  <2>5. opJobs[s] # None /\ OpJobOk(opJobs[s], opDrawn, executed')
    BY <2>1, OpJobNotNone, OpStillOk
  <2>6. t.kind \in {"pay", "announce", "deploy", "ops", "userOp"}
    BY <1>0 DEF OpTxType
  <2>7. /\ j.pc \in Answers /\ t.ann = j.ann /\ t.nonce = j.nonce
        /\ j.pc = "receipt" => t.kind = "ops" /\ ~j.sponsored
        /\ j.pc \in {"poll", "pause"} => t.kind = "userOp"
    BY <2>1, <2>4, <2>6 DEF OpOwns, Answers
  <2>8. j.pc \in {"receipt", "poll", "pause"} /\ j.rcpt # None /\ j.rcpt.ok =>
          \E e \in executed' : e.ann = j.ann /\ e.nonce = j.nonce /\ (j.sponsored => e.moved)
    BY <2>3, <2>4, <2>7
  <2>9. OpJobOk(j, opDrawn, executed')
    BY <2>4, <2>5, <2>7, <2>8 DEF OpJobOk
  <2>10. /\ opJobs' \in [1..Slots -> U!JobType \cup {None}] /\ opJobs'[s] = j
         /\ \A q \in 1..Slots : q # s => opJobs'[q] = opJobs[q]
    BY <2>1, <2>2, <2>4 DEF UInv, UTyped
  <2> HIDE DEF s
  <2>11. UJobs'
    BY <2>9, <2>10, OpStillOk DEF UJobs
  <2>12. UTyped'
    BY <2>10 DEF UInv, UTyped
  <2>13. \A u \in opPool' : u \in opPool /\ u.slot # s
    BY <1>2 DEF UInv, UPool, s
  <2>14. ASSUME NEW u \in opPool'
         PROVE  /\ u \in OpTxType /\ (u.kind = "announce" => u.ann \in opDrawn')
                /\ u.slot # 0 => OpOwns(u, opJobs'[u.slot])
    <3>1. /\ u \in OpTxType /\ (u.kind = "announce" => u.ann \in opDrawn)
          /\ u.slot # 0 => OpOwns(u, opJobs[u.slot])
      BY <2>13 DEF UInv, UPool
    <3>2. u.slot # 0 => u.slot \in 1..Slots
      BY <3>1, OpTxSlot
    <3> QED
      BY <2>10, <2>13, <3>1, <3>2
  <2>15. UPool'
    BY <2>13, <2>14 DEF UInv, UPool
  <2> QED
    BY <2>11, <2>12, <2>15 DEF UInv
<1> QED
  BY <1>1, <1>2

LEMMA OpMineMoves == ASSUME UInv, NEW t \in opPool, U!Mine(t) PROVE UInv'
<1>0. /\ t \in OpTxType /\ (t.kind = "announce" => t.ann \in opDrawn) /\ t.kind \notin {"ops", "userOp"}
      /\ opPool' = opPool \ {t} /\ UNCHANGED <<hybrid, opPage, opDrawn>>
  BY DEF UInv, UPool, U!Mine, U!ui
<1>1. t.ann \in Anns
  BY <1>0 DEF OpTxType
<1> DEFINE a == U!AccountOf(t.ann)
<1>2. a \in U!Accounts
  BY <1>1 DEF U!AccountOf, U!Accounts
<1> HIDE DEF a
<1>3. CASE U!Receipt(t, FALSE) /\ UNCHANGED U!chain
  <2>1. UChain' /\ executed' = executed
    BY <1>0, <1>3 DEF UInv, UChain, U!chain
  <2> QED
    BY <1>0, <1>3, <2>1, OpAnswered
<1>4. CASE /\ U!Receipt(t, TRUE)
           /\ bal' = IF t.kind = "pay" THEN [bal EXCEPT ![a] = @ + 2] ELSE bal
           /\ opLog' = IF t.kind = "announce" THEN opLog \cup {t.ann} ELSE opLog
           /\ deployed' = IF t.kind = "deploy" THEN deployed \cup {a} ELSE deployed
           /\ UNCHANGED <<nonce, executed>>
  <2>1. bal' \in [U!Accounts -> Nat]
    BY <1>2, <1>4 DEF UInv, UChain
  <2>2. opLog' \subseteq opDrawn /\ deployed' \subseteq U!Accounts
    BY <1>0, <1>2, <1>4 DEF UInv, UChain
  <2>3. UChain'
    BY <1>0, <1>4, <2>1, <2>2 DEF UInv, UChain
  <2> QED
    BY <1>0, <1>4, <2>3, OpAnswered
<1> QED
  BY <1>3, <1>4 DEF U!Mine, a

LEMMA OpIncludeMoves == ASSUME UInv, NEW t \in opPool, U!Include(t) PROVE UInv'
<1>0. t \in OpTxType /\ opPool' = opPool \ {t} /\ UNCHANGED <<hybrid, opPage, opDrawn>> /\ t.kind \in {"ops", "userOp"}
  BY DEF UInv, UPool, U!Include, U!ui
<1>1. t.ann \in Anns
  BY <1>0 DEF OpTxType
<1> DEFINE a == U!AccountOf(t.ann)
           gas == IF t.kind = "ops" THEN 1 ELSE 0
<1>2. a \in U!Accounts
  BY <1>1 DEF U!AccountOf, U!Accounts
<1>3. ASSUME NEW moved \in BOOLEAN, bal[a] >= gas + (IF moved THEN 1 ELSE 0),
             nonce' = [nonce EXCEPT ![a] = @ + 1],
             bal' = [bal EXCEPT ![a] = @ - gas - (IF moved THEN 1 ELSE 0)],
             executed' = executed \cup {[ann |-> t.ann, nonce |-> t.nonce, moved |-> moved]},
             U!Receipt(t, t.kind = "ops" \/ moved), UNCHANGED <<opLog, deployed>>
      PROVE  UInv'
  <2> DEFINE ok == t.kind = "ops" \/ moved
             e == [ann |-> t.ann, nonce |-> t.nonce, moved |-> moved]
             cost == gas + (IF moved THEN 1 ELSE 0)
  <2>1. gas \in Nat /\ cost \in Nat /\ bal[a] \in Nat /\ bal[a] >= cost
    BY <1>2, <1>3 DEF UInv, UChain
  <2>2. bal[a] - gas - (IF moved THEN 1 ELSE 0) \in Nat
    BY <2>1
  <2> HIDE DEF a, gas, cost
  <2>3. bal' \in [U!Accounts -> Nat]
    BY <1>2, <1>3, <2>2 DEF UInv, UChain
  <2>4. nonce' \in [U!Accounts -> Nat]
    BY <1>2, <1>3 DEF UInv, UChain
  <2>5. UChain'
    BY <1>0, <1>3, <2>3, <2>4 DEF UInv, UChain
  <2>6. e \in executed' /\ e.ann = t.ann /\ e.nonce = t.nonce /\ e.moved = moved /\ executed \subseteq executed'
    BY <1>3
  <2>7. ok \in BOOLEAN /\ U!Receipt(t, ok) /\ (ok => (t.kind # "ops" => moved))
    BY <1>3
  <2> HIDE DEF ok, e
  <2>8. ok /\ t.kind \in {"ops", "userOp"} =>
          \E f \in executed' : f.ann = t.ann /\ f.nonce = t.nonce /\ (t.kind # "ops" => f.moved)
    BY <2>6, <2>7
  <2> QED
    BY <1>0, <2>5, <2>6, <2>7, <2>8, OpAnswered
<1>4. CASE UNCHANGED U!chain /\ (U!Receipt(t, FALSE) \/ UNCHANGED opJobs)
  <2>1. UChain' /\ executed' = executed
    BY <1>0, <1>4 DEF UInv, UChain, U!chain
  <2>2. CASE U!Receipt(t, FALSE)
    BY <1>0, <2>1, <2>2, OpAnswered
  <2>3. CASE UNCHANGED opJobs
    BY <1>0, <2>1, <2>3, OpDropped
  <2> QED
    BY <1>4, <2>2, <2>3
<1> QED
  BY <1>3, <1>4 DEF U!Include

LEMMA OpReopenMoves == ASSUME UInv, U!Reopen PROVE UInv'
<1>0. opJobs \in [1..Slots -> U!JobType \cup {None}] /\ UNCHANGED <<hybrid, opDrawn, U!chain, opPool>>
  BY DEF UInv, UTyped, U!Reopen
<1>1. opPage' \in U!PageType /\ \A n \in Anns : RowOk(n, opPage'.row[n], executed)
  <2>1. opPage' = U!FreshPage
    BY DEF U!Reopen
  <2>2. U!FreshPage \in U!PageType /\ \A n \in Anns : U!FreshPage.row[n].result = None
    BY DEF U!FreshPage, U!FreshRow, U!PageType
  <2> QED
    BY <2>1, <2>2 DEF RowOk
<1>2. ASSUME NEW s \in 1..Slots, opJobs[s] # None
      PROVE  /\ opJobs[s] \in U!JobType
             /\ opJobs'[s] \in U!JobType /\ opJobs'[s].kind = opJobs[s].kind
             /\ opJobs'[s].ann = opJobs[s].ann /\ opJobs'[s].nonce = opJobs[s].nonce
             /\ opJobs'[s].sponsored = opJobs[s].sponsored
             /\ opJobs'[s].pc = opJobs[s].pc /\ opJobs'[s].rcpt = opJobs[s].rcpt /\ opJobs'[s].tries = opJobs[s].tries
  <2>1. opJobs[s] \in U!JobType
    BY <1>0, <1>2
  <2>2. opJobs'[s] = [opJobs[s] EXCEPT !.live = FALSE]
    BY <1>2 DEF U!Reopen
  <2> QED
    BY <2>1, <2>2 DEF U!JobType
<1>3. \A s \in 1..Slots : opJobs[s] = None => opJobs'[s] = None
  BY DEF U!Reopen
<1>4. UTyped'
  <2>1. opJobs' = [s \in 1..Slots |-> IF opJobs[s] = None THEN None ELSE [opJobs[s] EXCEPT !.live = FALSE]]
    BY DEF U!Reopen
  <2>2. \A s \in 1..Slots : opJobs'[s] \in U!JobType \cup {None}
    BY <1>2, <1>3
  <2>3. opJobs' \in [1..Slots -> U!JobType \cup {None}]
    BY <2>1, <2>2
  <2> QED
    BY <1>0, <1>1, <2>3 DEF UInv, UTyped
<1>5. UChain' /\ executed' = executed
  BY <1>0 DEF UInv, UChain, U!chain
<1>6. UJobs'
  <2>1. ASSUME NEW s \in 1..Slots, opJobs'[s] # None PROVE OpJobOk(opJobs'[s], opDrawn, executed)
    <3>1. opJobs[s] # None /\ OpJobOk(opJobs[s], opDrawn, executed)
      BY <1>3, <2>1 DEF UInv, UJobs
    <3> QED
      BY <1>2, <3>1 DEF OpJobOk
  <2> QED
    BY <1>0, <1>1, <1>5, <2>1 DEF UJobs
<1>7. UPool'
  <2>1. ASSUME NEW t \in opPool, t.slot # 0 PROVE OpOwns(t, opJobs'[t.slot])
    <3>1. OpOwns(t, opJobs[t.slot]) /\ t.slot \in 1..Slots
      BY <2>1, OpTxSlot DEF UInv, UPool
    <3>2. opJobs[t.slot] # None
      BY <3>1, OpJobNotNone DEF OpOwns
    <3> QED
      BY <1>2, <3>1, <3>2 DEF OpOwns
  <2> QED
    BY <1>0, <2>1 DEF UInv, UPool
<1> QED
  BY <1>4, <1>5, <1>6, <1>7 DEF UInv

LEMMA UserOpMoves == UInv /\ U!Next => UInv'
<1>1. ASSUME UInv, NEW s \in 1..Slots, U!Step(s) PROVE UInv'
  BY <1>1, OpReceiveMoves, OpScanMoves, OpSpendMoves DEF U!Step
<1> QED
  BY <1>1, OpClickMoves, OpSpendClickMoves, OpMineMoves, OpIncludeMoves, OpReopenMoves DEF U!Next

LEMMA UserOpStays == UInv /\ UNCHANGED userOpVars => UInv'
  BY DEF UInv, UTyped, UChain, UJobs, UPool, userOpVars

LEMMA SameOpCardinality == \A S : U!Cardinality(S) = Cardinality(S)
  BY DEF U!Cardinality, Cardinality

LEMMA UserOpStarts == U!Init => UInv
<1> SUFFICES ASSUME U!Init PROVE UInv
  OBVIOUS
<1>1. opPage \in U!PageType /\ \A n \in Anns : opPage.row[n].result = None
  BY DEF U!Init, U!FreshPage, U!FreshRow, U!PageType
<1>2. UTyped /\ UJobs /\ UPool
  BY <1>1 DEF UTyped, UJobs, UPool, U!Init, RowOk
<1>3. \A a \in U!Accounts : 2 * U!Cardinality({n \in PaidRows : U!AccountOf(n) = a}) \in Nat
  <2> SUFFICES ASSUME NEW a \in U!Accounts PROVE U!Cardinality({n \in PaidRows : U!AccountOf(n) = a}) \in Nat
    OBVIOUS
  <2> DEFINE S == {n \in PaidRows : U!AccountOf(n) = a}
  <2>1. IsFiniteSet(S)
    BY FS_Subset, TabAssumption
  <2> HIDE DEF S
  <2>2. U!Cardinality(S) \in Nat
    BY <2>1, FS_CardinalityType, SameOpCardinality
  <2> QED
    BY <2>2 DEF S
<1>4. UChain
  BY <1>3, TabAssumption DEF UChain, U!Init
<1> QED
  BY <1>2, <1>4 DEF UInv

LEMMA UserOpTyped == UInv => U!TypeOK
<1> SUFFICES ASSUME UInv PROVE U!TypeOK
  OBVIOUS
<1>1. ASSUME NEW t \in opPool, t.slot # 0 PROVE opJobs[t.slot] # None /\ opJobs[t.slot].rcpt = None
  BY <1>1, OpJobNotNone DEF UInv, UPool, OpOwns
<1> QED
  BY <1>1 DEF UInv, UTyped, UChain, U!TypeOK

LEMMA UserOpExecuted == UInv => ResultExecuted
  BY DEF UInv, UJobs, RowOk, ResultExecuted, U!ResultExecuted
-----------------------------------------------------------------------------
IInv == CInv /\ UInv

(* In every reachable state the two invariants hold. *)
THEOREM Invariant == Spec => []IInv
<1>1. Init => IInv
  BY ClassicalStarts, UserOpStarts DEF Init, IInv
<1>2. IInv /\ [Next]_vars => IInv'
  <2> SUFFICES ASSUME IInv, [Next]_vars PROVE IInv'
    OBVIOUS
  <2>1. CASE route = "classical" /\ C!Next /\ UNCHANGED <<route, userOpVars>>
    BY <2>1, ClassicalMoves, UserOpStays DEF IInv
  <2>2. CASE route = "pq" /\ U!Next /\ UNCHANGED <<route, classicalVars>>
    BY <2>2, UserOpMoves, ClassicalStays DEF IInv
  <2>3. CASE UNCHANGED vars
    BY <2>3, ClassicalStays, UserOpStays DEF IInv, vars
  <2> QED
    BY <2>1, <2>2, <2>3 DEF Next
<1> QED
  BY <1>1, <1>2, PTL DEF Spec

(* Both pages, the handlers and the chains keep their types, and a handler    *)
(* whose transaction is in the pool is running and has no receipt.            *)
THEOREM TypeCorrect == Spec => []TypeOK
<1>1. IInv => TypeOK
  BY ClassicalTyped, UserOpTyped DEF IInv, TypeOK
<1> QED
  BY <1>1, Invariant, PTL

(* The compact meta-address on the page resolves to the viewing key of the    *)
(* identity inside it (registerCompact: the index is the receipt's, not one   *)
(* read from the registry afterwards).                                        *)
THEOREM MetaAddressResolves == Spec => []CompactResolves
<1>1. IInv => CompactResolves
  BY ClassicalResolves DEF IInv
<1> QED
  BY <1>1, Invariant, PTL

(* A row of the classical route is spent by one handler at a time, and is     *)
(* shown as pending while it is (spend of ClassicalSpend).                    *)
THEOREM RowSpentOnce == Spec => []OneSpendPerRow
<1>1. IInv => OneSpendPerRow
  BY ClassicalOneSpend DEF IInv
<1> QED
  BY <1>1, Invariant, PTL

(* A row of the ERC-4337 route that shows a result had an operation of its    *)
(* own executed with that nonce, and the money moved if it was sponsored      *)
(* (spend of PqSpend and HybridSepoliaSpend, waitForUserOpReceipt).           *)
THEOREM ShownIsExecuted == Spec => []ResultExecuted
<1>1. IInv => ResultExecuted
  BY UserOpExecuted DEF IInv
<1> QED
  BY <1>1, Invariant, PTL
=============================================================================
