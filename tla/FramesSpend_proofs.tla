--------------------------- MODULE FramesSpend_proofs ---------------------------
(***************************************************************************)
(* The safety of the frame spend pages, for any number of accounts, clicks *)
(* and mounts.  The inductive invariant IInv says of each click how far it *)
(* can be and what it may have sent: a job fits its kind and its pc, an    *)
(* accepted transaction fits the job that sent it, the nonces of the       *)
(* wallet are handed out in order, and the requests pending in the page    *)
(* are the proofs its jobs wait for.                                       *)
(*                                                                         *)
(* A step of a job is shown to have one of few effects (Effect), and the   *)
(* effects to keep the invariant (EffectKeeps); the clicks, the worker and *)
(* the tabs keep the chain (KeptKeeps); Mine is the one that changes it.   *)
(***************************************************************************)
EXTENDS FramesSpend, FiniteSetTheorems, SequenceTheorems, TLAPS

(* The types, record by record *)
Destinations == Accounts \cup Typed \cup {None}
PageStates == [busy : {None, "receive", "scan"}, scanning : BOOLEAN,
               hits : UNION {[S -> [bal : Nat, dep : BOOLEAN]] : S \in SUBSET Accounts}]
Outcomes == [job : Nat, dest : Destinations, announced : BOOLEAN]
RowStates == [dest : Destinations, fresh : PqAccounts \cup {None},
              step : BOOLEAN, deriving : BOOLEAN, outcome : Outcomes \cup {None}]
TransferStates == [busy : BOOLEAN, result : {None, "sent", "success", "reverted"}]
ProverStates == [state : {"new", "ok", "broken", "dead"}, pending : SUBSET Nat, holds : SUBSET Nat]
Txs == [kind : {"spend", "pay", "transfer", "deploy"}, job : Nat, nonce : Nat,
        acct : Accounts \cup {None}, dest : Destinations, deploys : BOOLEAN,
        announces : Accounts \cup {None}, proof : Nat \cup {None}]
Mined == [tx : Txs, ok : BOOLEAN, moved : BOOLEAN]

UiTyped == /\ page \in [Pages -> PageStates] /\ \A p \in Pages : DOMAIN page[p].hits \subseteq OfPage(p)
           /\ row \in [Accounts -> RowStates]
           /\ transfer \in TransferStates

ChainTyped == /\ mined \in Seq(Mined) /\ pool \in SUBSET Txs
              /\ bal \in [Accounts -> Nat] /\ deployed \subseteq Accounts

WellTyped == /\ jobs \in Seq(Job) /\ mounts \in 0..MaxMounts /\ prover \in ProverStates
         /\ UiTyped /\ ChainTyped

(* What the node ever accepted *)
Accepted == pool \cup {m.tx : m \in Range(mined)}

(* No account is announced, promised or paid before it was derived. *)
FreshDerived ==
  /\ derived \subseteq Accounts /\ announced \subseteq derived
  /\ \A j \in DOMAIN jobs : jobs[j].fresh \in derived \cup {None}
  /\ \A a \in Accounts : row[a].fresh \in derived \cup {None}
  /\ \A t \in Accepted : t.announces \in derived \cup {None}

Sent == {"send", "poll", "scan", "done", "failed"}

(* The jobs of which every frame of the transaction succeeded *)
Succeeded == {m.tx.job : m \in {n \in Range(mined) : n.ok /\ n.tx.kind # "deploy"}}

(* What a job of each kind remembers, and where it may be.  dep: the accounts *)
(* with code; done: the jobs that succeeded.  An ML-DSA spend signs only once *)
(* its account is deployed; a spend to a stealth account announces it; a       *)
(* broadcast carries its own proof; only a success is reported as one.         *)
Fits(j, r, dep, done) ==
  /\ r.kind = "receive" => r.page \in Pages /\ r.pc \in {"prepare", "send", "poll", "scan", "done", "failed"}
  /\ r.kind = "receive" /\ r.pc = "send" => r.fresh \in Accounts
  /\ r.kind = "transfer" => r.pc \in {"prepare", "send", "poll", "done", "failed"}
  /\ r.kind \in Pages => r.page = r.kind /\ r.acct \in OfPage(r.kind) /\ r.dest # None
  /\ r.kind = "pq" => /\ r.pc \in {"fees", "deploy", "deployed", "sign", "send", "poll", "scan", "done", "failed"}
                      /\ r.fresh \in {None, r.dest} /\ (r.dest \in Accounts => r.fresh = r.dest)
                      /\ r.pc \in {"sign", "send"} => r.acct \in dep
  /\ r.kind = "zk" => /\ r.pc \in {"fees", "nonce", "sign", "send", "poll", "scan", "done", "failed", "lost"}
                      /\ r.fresh = None /\ r.dest \notin Accounts
  /\ r.dep => r.acct \in dep
  /\ r.kind \in Pages /\ r.pc = "send" => r.proof = j
  /\ r.pc \in {"scan", "done"} => r.kind = "transfer" \/ j \in done

JobsFit == \A j \in DOMAIN jobs : Fits(j, jobs[j], deployed, Succeeded)

(* A transaction says what its job said, and its job has not sent it twice:    *)
(* while the job still sends, the transaction has the nonce it would send with. *)
TxFits(t, js, dep) ==
  LET r == js[t.job] IN
  /\ t.job \in DOMAIN js
  /\ t.kind = "spend" => /\ r.kind \in Pages /\ t.acct = r.acct /\ t.dest = r.dest /\ t.announces = r.fresh
                         /\ t.proof = t.job /\ (t.deploys \/ t.acct \in dep)
  /\ t.kind = "pay" => t.dest = t.announces /\ t.dest \in Accounts /\ ~t.deploys /\ r.kind = "receive"
  /\ t.kind = "transfer" => t.announces = None /\ ~t.deploys
  /\ t.kind = "deploy" => t.announces = None /\ t.acct \in Accounts /\ t.deploys
                          /\ r.kind = "pq" /\ t.acct = r.acct
  /\ t.kind # "deploy" => r.pc \in Sent /\ (r.pc = "send" => t.nonce = r.nonce)

TxsFit == \A t \in Accepted : TxFits(t, jobs, deployed)

(* The wallet's nonces: those mined, then those of the pool, each used once. *)
NoncesInOrder ==
  /\ IsFiniteSet(pool)
  /\ \A i \in DOMAIN mined : mined[i].tx.nonce = i - 1
  /\ \A t \in pool : Len(mined) <= t.nonce /\ t.nonce < PendingNonce
  /\ \A t, u \in pool : t.nonce = u.nonce => t = u

(* A job has one transaction accepted besides its deployment. *)
SentOnce == \A t, u \in Accepted : t.job = u.job /\ t.kind # "deploy" /\ u.kind # "deploy" => t = u

(* A transaction that succeeded did what it was for. *)
ReceiptsTrue == \A m \in Range(mined) :
  /\ m.ok /\ m.tx.kind = "deploy" => m.tx.acct \in deployed
  /\ m.ok /\ m.tx.kind = "spend" => m.moved
  /\ m.ok /\ m.tx.announces # None => m.tx.announces \in announced
  /\ m.moved => m.tx.kind \in {"pay", "spend"}

(* FundsFindable without what the handlers made of it *)
FundsTraced ==
  \A a \in Accounts \ announced : bal[a] > 0 =>
    \E m \in Range(mined) : m.moved /\ m.tx.dest = a /\ ~m.ok

(* A stealth account is a destination only where "new stealth" put it. *)
RowsFit == \A a \in Accounts : /\ row[a].dest \in Accounts => row[a].fresh = row[a].dest
                               /\ a \in ZkAccounts => row[a].dest \notin Accounts /\ ~row[a].deriving

(* An account the scan saw deployed still is. *)
HitsFit == \A p \in Pages : \A a \in DOMAIN page[p].hits : page[p].hits[a].dep => a \in deployed

(* The requests of the mounted page are those its jobs wait for. *)
Proving(r) == r.kind = "zk" /\ r.pc = "sign"

ProverFits == /\ prover.pending = {j \in DOMAIN jobs : Proving(jobs[j])}
              /\ prover.holds \subseteq prover.pending
              /\ prover.state # "dead" => prover.pending \subseteq prover.holds
              /\ \A j \in prover.pending : Live(j)

IInv == /\ WellTyped /\ FreshDerived /\ JobsFit /\ TxsFit /\ NoncesInOrder /\ SentOnce
        /\ ReceiptsTrue /\ RowsFit /\ HitsFit /\ ProverFits
        /\ OutcomeTrue /\ FundsTraced
-----------------------------------------------------------------------------
LEMMA SeqExcept ==
  ASSUME NEW T, NEW q \in Seq(T), NEW j \in DOMAIN q, NEW r \in T
  PROVE  /\ [q EXCEPT ![j] = r] \in Seq(T) /\ DOMAIN [q EXCEPT ![j] = r] = DOMAIN q
         /\ [q EXCEPT ![j] = r][j] = r /\ \A k \in DOMAIN q \ {j} : [q EXCEPT ![j] = r][k] = q[k]
  BY ExceptSeq, LenProperties

LEMMA SeqMap ==
  ASSUME NEW T, NEW q \in Seq(T), NEW f, DOMAIN f = DOMAIN q, f = [k \in DOMAIN q |-> f[k]],
         \A k \in DOMAIN q : f[k] \in T
  PROVE  f \in Seq(T) /\ Len(f) = Len(q)
<1>1. DOMAIN q = 1..Len(q) /\ Len(q) \in Nat
  BY LenProperties
<1>2. f \in [1..Len(q) -> T]
  BY <1>1
<1> QED
  BY <1>1, <1>2, IsASeq, LenProperties

LEMMA SeqAppend ==
  ASSUME NEW T, NEW q \in Seq(T), NEW r \in T
  PROVE  /\ Append(q, r) \in Seq(T) /\ DOMAIN Append(q, r) = DOMAIN q \cup {Len(q) + 1}
         /\ Len(q) + 1 \notin DOMAIN q /\ Append(q, r)[Len(q) + 1] = r
         /\ \A k \in DOMAIN q : Append(q, r)[k] = q[k]
         /\ Len(q) + 1 \in Nat /\ Len(Append(q, r)) = Len(q) + 1 /\ Len(q) \in Nat
  BY AppendProperties, LenProperties

LEMMA SeqAt ==
  ASSUME NEW T, NEW q \in Seq(T)
  PROVE  \A j \in DOMAIN q : q[j] \in T /\ j \in Nat
  BY ElementOfSeq, LenProperties

LEMMA RangeAppend ==
  ASSUME NEW T, NEW q \in Seq(T), NEW r \in T
  PROVE  Range(Append(q, r)) = Range(q) \cup {r}
  BY SeqAppend DEF Range
-----------------------------------------------------------------------------
LEMMA InvStart == Init => IInv
<1> SUFFICES ASSUME Init PROVE IInv
  OBVIOUS
<1>1. jobs = <<>> /\ mined = <<>> /\ pool = {} /\ DOMAIN jobs = {} /\ DOMAIN mined = {} /\ Range(mined) = {}
  BY DEF Init, Range
<1>2. Accepted = {}
  BY <1>1 DEF Accepted
<1>3. FreshPage \in PageStates
  <2>1. DOMAIN <<>> = {} /\ <<>> \in [{} -> [bal : Nat, dep : BOOLEAN]]
    OBVIOUS
  <2> QED
    BY <2>1 DEF FreshPage, PageStates
<1>4. FreshRow \in RowStates /\ FreshTransfer \in TransferStates
  BY DEF FreshRow, RowStates, Destinations, FreshTransfer, TransferStates
<1>5. UiTyped
  BY <1>3, <1>4 DEF Init, UiTyped, FreshPage
<1>6. ChainTyped
  BY <1>1, PagesAssumption DEF Init, ChainTyped
<1>7. WellTyped
  BY <1>1, <1>5, <1>6, PagesAssumption DEF Init, WellTyped, FreshProver, ProverStates
<1>8. FreshDerived /\ JobsFit /\ TxsFit /\ SentOnce /\ ReceiptsTrue
  BY <1>1, <1>2, PagesAssumption DEF Init, FreshDerived, JobsFit, TxsFit, SentOnce, ReceiptsTrue, FreshRow
<1>9. NoncesInOrder
  BY <1>1, FS_EmptySet DEF NoncesInOrder
<1>10. RowsFit /\ HitsFit /\ ProverFits /\ OutcomeTrue
  BY <1>1, PagesAssumption DEF Init, RowsFit, HitsFit, ProverFits, OutcomeTrue, FreshRow, FreshPage, FreshProver
<1>11. FundsTraced
  BY DEF Init, FundsTraced
<1> QED
  BY <1>7, <1>8, <1>9, <1>10, <1>11 DEF IInv
-----------------------------------------------------------------------------
LEMMA ThrowEffect ==
  ASSUME WellTyped, NEW S, S \subseteq DOMAIN jobs, ThrowAll(S)
  PROVE  /\ jobs' \in Seq(Job) /\ DOMAIN jobs' = DOMAIN jobs
         /\ \A k \in DOMAIN jobs : jobs'[k] = IF k \in S THEN [jobs[k] EXCEPT !.pc = "failed"] ELSE jobs[k]
         /\ row' \in [Accounts -> RowStates]
         /\ \A a \in Accounts : \E b \in BOOLEAN : row'[a] = [row[a] EXCEPT !.step = b]
         /\ page' \in [Pages -> PageStates]
         /\ \A p \in Pages : page'[p].hits = page[p].hits
         /\ transfer' \in TransferStates
<1>1. \A k \in DOMAIN jobs : jobs[k] \in Job
  BY SeqAt DEF WellTyped
<1>2. \A k \in DOMAIN jobs : jobs'[k] = IF k \in S THEN [jobs[k] EXCEPT !.pc = "failed"] ELSE jobs[k]
  BY DEF ThrowAll
<1>3. \A k \in DOMAIN jobs : [jobs[k] EXCEPT !.pc = "failed"] \in Job
  BY <1>1 DEF Job
<1>4. \A k \in DOMAIN jobs : jobs'[k] \in Job
  BY <1>1, <1>2, <1>3
<1>5. DOMAIN jobs' = DOMAIN jobs /\ jobs' = [k \in DOMAIN jobs |-> jobs'[k]]
  BY DEF ThrowAll
<1>6. jobs' \in Seq(Job)
  BY <1>4, <1>5, SeqMap DEF WellTyped
<1> DEFINE Of(K) == {j \in S : Live(j) /\ jobs[j].kind \in K}
<1>7. /\ row' \in [Accounts -> RowStates]
      /\ \A a \in Accounts : \E b \in BOOLEAN : row'[a] = [row[a] EXCEPT !.step = b]
  <2>1. row' = [a \in Accounts |-> [row[a] EXCEPT !.step = @ /\ \A j \in Of(Pages) : jobs[j].acct # a]]
    BY DEF ThrowAll
  <2>2. \A a \in Accounts : row[a] \in RowStates
    BY DEF WellTyped, UiTyped
  <2>3. \A a \in Accounts : row'[a] = [row[a] EXCEPT !.step = row[a].step /\ \A j \in Of(Pages) : jobs[j].acct # a]
    BY <2>1
  <2>4. \A a \in Accounts : \E b \in BOOLEAN : row'[a] = [row[a] EXCEPT !.step = b]
    <3> HIDE DEF Of
    <3> QED
      BY <2>3
  <2>5. \A a \in Accounts, b \in BOOLEAN : [row[a] EXCEPT !.step = b] \in RowStates
    BY <2>2 DEF RowStates
  <2>6. \A a \in Accounts : row'[a] \in RowStates
    BY <2>4, <2>5
  <2>7. row' = [a \in Accounts |-> row'[a]]
    BY <2>1
  <2> QED
    BY <2>4, <2>6, <2>7
<1>8. /\ page' \in [Pages -> PageStates]
      /\ \A p \in Pages : page'[p].hits = page[p].hits
  <2>1. page' = [p \in Pages |-> IF \E j \in Of({"receive"}) : jobs[j].page = p
                              THEN [page[p] EXCEPT !.busy = None] ELSE page[p]]
    BY DEF ThrowAll
  <2>2. \A p \in Pages : page[p] \in PageStates
    BY DEF WellTyped, UiTyped
  <2>3. \A p \in Pages : [page[p] EXCEPT !.busy = None] \in PageStates
    BY <2>2 DEF PageStates
  <2>4. \A p \in Pages : page'[p] = page[p] \/ page'[p] = [page[p] EXCEPT !.busy = None]
    <3> HIDE DEF Of
    <3> QED
      BY <2>1
  <2>5. \A p \in Pages : page'[p] \in PageStates /\ page'[p].hits = page[p].hits
    BY <2>2, <2>3, <2>4 DEF PageStates
  <2>6. page' = [p \in Pages |-> page'[p]]
    <3> HIDE DEF Of
    <3> QED
      BY <2>1
  <2> QED
    BY <2>5, <2>6
<1>9. transfer' \in TransferStates
  <2>1. transfer' = [transfer EXCEPT !.busy = @ /\ Of({"transfer"}) = {}]
    BY DEF ThrowAll
  <2>2. transfer \in TransferStates
    BY DEF WellTyped, UiTyped
  <2>3. PICK b \in BOOLEAN : b = (transfer.busy /\ Of({"transfer"}) = {})
    OBVIOUS
  <2>4. transfer' = [transfer EXCEPT !.busy = b]
    <3> HIDE DEF Of
    <3> QED
      BY <2>1, <2>3
  <2> QED
    BY <2>2, <2>4 DEF TransferStates
<1> QED
  BY <1>2, <1>5, <1>6, <1>7, <1>8, <1>9

(* What a step may do to one job's record *)
Advances(r, r2) ==
  /\ r2.kind = r.kind /\ r2.acct = r.acct /\ r2.dest = r.dest /\ r2.mount = r.mount
  /\ r.kind \in Pages => r2.fresh = r.fresh
  /\ r.pc \in Sent => r2.pc \in Sent /\ (r2.pc = "send" => r.pc = "send" /\ r2.nonce = r.nonce)

EffJobs(j) ==
  /\ jobs' \in Seq(Job) /\ DOMAIN jobs' = DOMAIN jobs
  /\ \A k \in DOMAIN jobs \ {j} : jobs'[k] = jobs[k]
  /\ Fits(j, jobs'[j], deployed, Succeeded) /\ Advances(jobs[j], jobs'[j])
  /\ derived \subseteq derived' /\ derived' \subseteq Accounts /\ jobs'[j].fresh \in derived' \cup {None}

EffPool(j) ==
  \/ pool' = pool
  \/ \E t \in Txs : /\ Accepts(t) /\ pool' = pool \cup {t}
                    /\ t.job = j /\ TxFits(t, jobs', deployed) /\ t.announces \in derived \cup {None}
                    /\ t.kind # "deploy" => At(j, "send") /\ t.nonce = jobs[j].nonce

NewOutcome(j, a, o) ==
  /\ a = jobs[j].acct /\ jobs[j].kind \in Pages
  /\ o.job = j /\ o.dest = jobs[j].dest /\ o.announced = (jobs[j].fresh # None)
  /\ \E m \in Receipts(j, "spend") : m.ok

EffUi(j) ==
  /\ row' \in [Accounts -> RowStates]
  /\ \A a \in Accounts :
       /\ row'[a].dest = row[a].dest /\ row'[a].fresh = row[a].fresh /\ row'[a].deriving = row[a].deriving
       /\ row'[a].outcome = row[a].outcome \/ NewOutcome(j, a, row'[a].outcome)
  /\ page' \in [Pages -> PageStates]
  /\ \A p \in Pages : page'[p].hits = page[p].hits \/ page'[p].hits = Hits(p)
  /\ transfer' \in TransferStates

EffProver(j) ==
  /\ ~Proving(jobs[j])
  /\ \/ prover' = prover /\ ~Proving(jobs'[j])
     \/ prover' = Request(j) /\ Proving(jobs'[j]) /\ Live(j)

Effect(j) == EffJobs(j) /\ EffPool(j) /\ EffUi(j) /\ EffProver(j)

LEMMA PendingNat == ASSUME IInv PROVE PendingNonce \in Nat /\ Len(mined) \in Nat /\ Cardinality(pool) \in Nat
  BY FS_CardinalityType, LenProperties DEF IInv, NoncesInOrder, WellTyped, ChainTyped, PendingNonce

LEMMA JobAt ==
  ASSUME IInv, NEW j \in DOMAIN jobs
  PROVE  jobs[j] \in Job /\ j \in Nat /\ Fits(j, jobs[j], deployed, Succeeded) /\ jobs[j].fresh \in derived \cup {None}
  BY SeqAt DEF IInv, WellTyped, JobsFit, FreshDerived

LEMMA JobSet ==
  ASSUME IInv, NEW j \in DOMAIN jobs, NEW r \in Job, jobs' = [jobs EXCEPT ![j] = r],
         Fits(j, r, deployed, Succeeded), Advances(jobs[j], r),
         derived \subseteq derived', derived' \subseteq Accounts, r.fresh \in derived' \cup {None}
  PROVE  EffJobs(j) /\ jobs'[j] = r
  BY SeqExcept DEF IInv, WellTyped, EffJobs

(* The common case: the pc changes, and the nonce, the proof or the tries. *)
SameClick(r, r2) == /\ r2.kind = r.kind /\ r2.page = r.page /\ r2.acct = r.acct /\ r2.dest = r.dest
                    /\ r2.mount = r.mount /\ r2.fresh = r.fresh /\ r2.dep = r.dep

LEMMA JobPc ==
  ASSUME IInv, NEW j \in DOMAIN jobs, NEW r \in Job, jobs' = [jobs EXCEPT ![j] = r],
         derived' = derived, Fits(j, r, deployed, Succeeded), SameClick(jobs[j], r),
         jobs[j].pc \in Sent => r.pc \in Sent /\ (r.pc = "send" => jobs[j].pc = "send" /\ r.nonce = jobs[j].nonce)
  PROVE  EffJobs(j) /\ jobs'[j] = r
<1>1. Advances(jobs[j], r)
  BY DEF Advances, SameClick
<1>2. r.fresh \in derived' \cup {None}
  BY JobAt DEF SameClick
<1> QED
  BY <1>1, <1>2, JobSet DEF IInv, FreshDerived

LEMMA UiSame ==
  ASSUME IInv, NEW j, UNCHANGED ui
  PROVE  EffUi(j)
  BY DEF IInv, WellTyped, UiTyped, ui, EffUi

LEMMA ThrowJob ==
  ASSUME IInv, NEW j \in DOMAIN jobs, ThrowAll({j}), ~Proving(jobs[j]), derived' = derived, prover' = prover
  PROVE  EffJobs(j) /\ EffUi(j) /\ EffProver(j) /\ jobs'[j] = [jobs[j] EXCEPT !.pc = "failed"]
<1>1. /\ jobs' \in Seq(Job) /\ DOMAIN jobs' = DOMAIN jobs
      /\ \A k \in DOMAIN jobs : jobs'[k] = IF k \in {j} THEN [jobs[k] EXCEPT !.pc = "failed"] ELSE jobs[k]
      /\ row' \in [Accounts -> RowStates]
      /\ \A a \in Accounts : \E b \in BOOLEAN : row'[a] = [row[a] EXCEPT !.step = b]
      /\ page' \in [Pages -> PageStates]
      /\ \A p \in Pages : page'[p].hits = page[p].hits
      /\ transfer' \in TransferStates
  BY ThrowEffect DEF IInv
<1>2. jobs[j] \in Job /\ Fits(j, jobs[j], deployed, Succeeded) /\ jobs[j].fresh \in derived \cup {None}
  BY JobAt
<1>3. jobs'[j] = [jobs[j] EXCEPT !.pc = "failed"]
  BY <1>1
<1>4. /\ jobs'[j].pc = "failed" /\ jobs'[j].kind = jobs[j].kind /\ jobs'[j].page = jobs[j].page
      /\ jobs'[j].acct = jobs[j].acct /\ jobs'[j].dest = jobs[j].dest /\ jobs'[j].mount = jobs[j].mount
      /\ jobs'[j].fresh = jobs[j].fresh /\ jobs'[j].dep = jobs[j].dep
  BY <1>2, <1>3 DEF Job
<1>5. Fits(j, jobs'[j], deployed, Succeeded)
  BY <1>2, <1>4 DEF Fits
<1>6. Advances(jobs[j], jobs'[j])
  BY <1>4 DEF Advances, Sent
<1>7. EffJobs(j)
  BY <1>1, <1>2, <1>4, <1>5, <1>6 DEF EffJobs, IInv, FreshDerived
<1>8. EffProver(j)
  BY <1>4 DEF EffProver, Proving
<1>9. \A a \in Accounts : /\ row'[a].dest = row[a].dest /\ row'[a].fresh = row[a].fresh
                          /\ row'[a].deriving = row[a].deriving /\ row'[a].outcome = row[a].outcome
  <2>1. \A a \in Accounts : row[a] \in RowStates
    BY DEF IInv, WellTyped, UiTyped
  <2> QED
    BY <1>1, <2>1 DEF RowStates
<1>10. EffUi(j)
  BY <1>1, <1>9 DEF EffUi
<1> QED
  BY <1>3, <1>7, <1>8, <1>10

LEMMA ThrowStep ==
  ASSUME IInv, NEW j \in DOMAIN jobs, Throw(j), ~Proving(jobs[j])
  PROVE  Effect(j)
  BY ThrowJob DEF Throw, Effect, EffPool

LEMMA TxStays ==
  ASSUME NEW t, NEW js, NEW js2, NEW dep, NEW dep2, TxFits(t, js, dep), t.job \in DOMAIN js2,
         Advances(js[t.job], js2[t.job]), dep \subseteq dep2
  PROVE  TxFits(t, js2, dep2)
  BY DEF TxFits, Advances

LEMMA TxSent ==
  ASSUME IInv, NEW j \in DOMAIN jobs, NEW t \in Txs, t.job = j, t.kind # "deploy" => t.nonce = jobs[j].nonce,
         TxFits(t, jobs, deployed), t.announces \in derived \cup {None},
         t.kind # "deploy" => At(j, "send"), EffJobs(j), Dropped(t)
  PROVE  EffPool(j)
<1>1. TxFits(t, jobs', deployed)
  <2>1. Advances(jobs[j], jobs'[j]) /\ j \in DOMAIN jobs'
    BY DEF EffJobs
  <2> QED
    BY <2>1, TxStays
<1> QED
  BY <1>1 DEF EffPool, Dropped, Answered

LEMMA BroadcastStep ==
  ASSUME IInv, NEW j \in DOMAIN jobs, NEW t \in Txs, t.job = j, t.kind # "deploy", t.nonce = jobs[j].nonce,
         At(j, "send") => TxFits(t, jobs, deployed) /\ t.announces \in derived \cup {None},
         BroadcastFrameTx(j, t)
  PROVE  Effect(j)
<1>1. jobs[j] \in Job /\ Fits(j, jobs[j], deployed, Succeeded)
  BY JobAt
<1>2. At(j, "send") \/ At(j, "poll")
  BY DEF BroadcastFrameTx
<1>3. ~Proving(jobs[j])
  BY <1>2 DEF At, Proving
<1>4. CASE Throw(j)
  BY <1>3, <1>4, ThrowStep
<1>5. CASE At(j, "send") /\ Answered(t) /\ Go(j, "poll") /\ UNCHANGED <<ui, prover, derived>>
  <2> DEFINE r == [jobs[j] EXCEPT !.pc = "poll"]
  <2>1. r \in Job
    BY <1>1 DEF Job
  <2>2. Fits(j, r, deployed, Succeeded)
    BY <1>1, <1>5 DEF Fits, At, Job
  <2>3. jobs' = [jobs EXCEPT ![j] = r] /\ derived' = derived
    BY <1>5 DEF Go
  <2>4. SameClick(jobs[j], r) /\ r.pc = "poll"
    BY <1>1 DEF Job, SameClick
  <2>5. EffJobs(j) /\ jobs'[j] = r
    <3> HIDE DEF r
    <3> QED
      BY <2>1, <2>2, <2>3, <2>4, JobPc DEF Sent
  <2>6. EffPool(j)
    BY <1>5, <2>5, TxSent DEF Dropped
  <2>7. EffProver(j)
    BY <1>1, <1>3, <1>5, <2>5 DEF EffProver, Proving, Job
  <2> QED
    BY <1>5, <2>5, <2>6, <2>7, UiSame DEF Effect
<1>6. CASE /\ At(j, "send") /\ jobs[j].tries + 1 < Attempts /\ Dropped(t)
           /\ jobs' = [jobs EXCEPT ![j].tries = @ + 1] /\ UNCHANGED <<ui, prover, derived>>
  <2> DEFINE r == [jobs[j] EXCEPT !.tries = @ + 1]
  <2>0. jobs[j].tries \in 0..Attempts /\ Attempts \in Nat
    BY <1>1, PagesAssumption DEF Job
  <2>1. r \in Job
    BY <1>1, <1>6, <2>0 DEF Job
  <2>2. Fits(j, r, deployed, Succeeded)
    BY <1>1, <1>6 DEF Fits, At, Job
  <2>3. jobs' = [jobs EXCEPT ![j] = r] /\ derived' = derived
    BY <1>6
  <2>4. SameClick(jobs[j], r) /\ r.pc = jobs[j].pc /\ r.nonce = jobs[j].nonce
    BY <1>1 DEF Job, SameClick
  <2>5. EffJobs(j) /\ jobs'[j] = r
    <3> HIDE DEF r
    <3> QED
      BY <2>1, <2>2, <2>3, <2>4, JobPc DEF Sent
  <2>6. EffPool(j)
    BY <1>6, <2>5, TxSent
  <2>7. EffProver(j)
    BY <1>1, <1>3, <1>6, <2>5 DEF EffProver, Proving, Job
  <2> QED
    BY <1>6, <2>5, <2>6, <2>7, UiSame DEF Effect
<1>7. CASE At(j, "send") /\ Dropped(t) /\ ThrowAll({j}) /\ UNCHANGED <<prover, derived>>
  <2>1. EffJobs(j) /\ EffUi(j) /\ EffProver(j)
    BY <1>3, <1>7, ThrowJob
  <2>2. EffPool(j)
    BY <1>7, <2>1, TxSent
  <2> QED
    BY <2>1, <2>2 DEF Effect
<1> QED
  BY <1>4, <1>5, <1>6, <1>7 DEF BroadcastFrameTx

LEMMA HitsTyped ==
  ASSUME IInv, NEW p \in Pages
  PROVE  /\ Hits(p) \in UNION {[S -> [bal : Nat, dep : BOOLEAN]] : S \in SUBSET Accounts}
         /\ DOMAIN Hits(p) \subseteq OfPage(p)
         /\ \A a \in DOMAIN Hits(p) : Hits(p)[a].dep = (a \in deployed)
<1> DEFINE S == announced \cap OfPage(p)
<1>1. Hits(p) = [a \in S |-> [bal |-> bal[a], dep |-> a \in deployed]]
  BY DEF Hits, PqFound, ZkFound, Found, Pages
<1>2. S \in SUBSET Accounts
  BY DEF OfPage, Accounts
<1>3. \A a \in S : [bal |-> bal[a], dep |-> a \in deployed] \in [bal : Nat, dep : BOOLEAN]
  BY <1>2 DEF IInv, WellTyped, ChainTyped
<1>4. Hits(p) \in [S -> [bal : Nat, dep : BOOLEAN]]
  BY <1>1, <1>3
<1>5. DOMAIN Hits(p) = S /\ \A a \in S : Hits(p)[a].dep = (a \in deployed)
  BY <1>1
<1> QED
  BY <1>2, <1>4, <1>5

LEMMA PageSet ==
  ASSUME IInv, NEW p \in Pages, NEW pg \in PageStates, page' = [page EXCEPT ![p] = pg],
         pg.hits = page[p].hits \/ pg.hits = Hits(p)
  PROVE  /\ page' \in [Pages -> PageStates]
         /\ \A q \in Pages : page'[q].hits = page[q].hits \/ page'[q].hits = Hits(q)
  BY DEF IInv, WellTyped, UiTyped

LEMMA BusySet ==
  ASSUME IInv, NEW p \in Pages, NEW b \in {None, "receive", "scan"}
  PROVE  [page[p] EXCEPT !.busy = b] \in PageStates /\ [page[p] EXCEPT !.busy = b].hits = page[p].hits
<1>1. page[p] \in PageStates
  BY DEF IInv, WellTyped, UiTyped
<1> QED
  BY <1>1 DEF PageStates

LEMMA ScannedTyped ==
  ASSUME IInv, NEW p \in Pages, NEW pg \in Scanned(p, page[p])
  PROVE  pg \in PageStates /\ (pg.hits = page[p].hits \/ pg.hits = Hits(p))
<1>1. page[p] \in PageStates
  BY DEF IInv, WellTyped, UiTyped
<1> DEFINE H == UNION {[S -> [bal : Nat, dep : BOOLEAN]] : S \in SUBSET Accounts}
           h == Hits(p)
<1>2. h \in H
  BY HitsTyped
<1>3. pg = [page[p] EXCEPT !.busy = None] \/ pg = [page[p] EXCEPT !.busy = None, !.hits = h]
  BY DEF Scanned
<1>4. PageStates = [busy : {None, "receive", "scan"}, scanning : BOOLEAN, hits : H]
  BY DEF PageStates
<1>5. pg \in PageStates /\ (pg.hits = page[p].hits \/ pg.hits = h)
  <2> HIDE DEF H, h
  <2> QED
    BY <1>1, <1>2, <1>3, <1>4
<1> QED
  BY <1>5

LEMMA PageEffect ==
  ASSUME IInv, NEW j, NEW p \in Pages, UNCHANGED <<row, transfer>>,
         \/ page' = page
         \/ \E b \in {None, "receive", "scan"} : page' = [page EXCEPT ![p] = [page[p] EXCEPT !.busy = b]]
         \/ \E pg \in Scanned(p, page[p]) : page' = [page EXCEPT ![p] = pg]
  PROVE  EffUi(j)
<1>1. row' \in [Accounts -> RowStates] /\ transfer' \in TransferStates /\ page \in [Pages -> PageStates]
  BY DEF IInv, WellTyped, UiTyped
<1>2. /\ page' \in [Pages -> PageStates]
      /\ \A q \in Pages : page'[q].hits = page[q].hits \/ page'[q].hits = Hits(q)
  BY <1>1, BusySet, ScannedTyped, PageSet
<1> QED
  BY <1>1, <1>2 DEF EffUi

LEMMA ProverSame ==
  ASSUME NEW j, prover' = prover, ~Proving(jobs[j]), ~Proving(jobs'[j])
  PROVE  EffProver(j)
  BY DEF EffProver

LEMMA PayTx ==
  ASSUME IInv, NEW j \in DOMAIN jobs, jobs[j].kind = "receive"
  PROVE  /\ BuildAnnounceTransfer(j) \in Txs
         /\ BuildAnnounceTransfer(j).job = j /\ BuildAnnounceTransfer(j).kind # "deploy"
         /\ BuildAnnounceTransfer(j).nonce = jobs[j].nonce
         /\ At(j, "send") => /\ TxFits(BuildAnnounceTransfer(j), jobs, deployed)
                             /\ BuildAnnounceTransfer(j).announces \in derived \cup {None}
<1>1. jobs[j] \in Job /\ j \in Nat /\ Fits(j, jobs[j], deployed, Succeeded) /\ jobs[j].fresh \in derived \cup {None}
  BY JobAt
<1> QED
  BY <1>1 DEF BuildAnnounceTransfer, Nonce, Txs, Job, Destinations, TxFits, Fits, At, Sent

LEMMA SpendTx ==
  ASSUME IInv, NEW j \in DOMAIN jobs, jobs[j].kind \in Pages
  PROVE  /\ BuildSponsoredPqTx(j) \in Txs
         /\ BuildSponsoredPqTx(j).job = j /\ BuildSponsoredPqTx(j).kind # "deploy"
         /\ BuildSponsoredPqTx(j).nonce = jobs[j].nonce
         /\ At(j, "send") => /\ TxFits(BuildSponsoredPqTx(j), jobs, deployed)
                             /\ BuildSponsoredPqTx(j).announces \in derived \cup {None}
<1>1. jobs[j] \in Job /\ j \in Nat /\ Fits(j, jobs[j], deployed, Succeeded) /\ jobs[j].fresh \in derived \cup {None}
  BY JobAt
<1> QED
  BY <1>1 DEF BuildSponsoredPqTx, Nonce, Txs, Job, Destinations, TxFits, Fits, At, Sent, Pages

LEMMA TransferTx ==
  ASSUME IInv, NEW j \in DOMAIN jobs, jobs[j].kind = "transfer"
  PROVE  /\ BuildEoaTransfer(j) \in Txs
         /\ BuildEoaTransfer(j).job = j /\ BuildEoaTransfer(j).kind # "deploy"
         /\ BuildEoaTransfer(j).nonce = jobs[j].nonce
         /\ At(j, "send") => /\ TxFits(BuildEoaTransfer(j), jobs, deployed)
                             /\ BuildEoaTransfer(j).announces \in derived \cup {None}
<1>1. jobs[j] \in Job /\ j \in Nat
  BY JobAt
<1> QED
  BY <1>1 DEF BuildEoaTransfer, Nonce, Txs, Job, Destinations, TxFits, At, Sent

LEMMA DeploymentTx ==
  ASSUME IInv, NEW j \in DOMAIN jobs, jobs[j].kind = "pq"
  PROVE  /\ DeployTx(j) \in Txs /\ DeployTx(j).job = j /\ DeployTx(j).kind = "deploy"
         /\ TxFits(DeployTx(j), jobs, deployed) /\ DeployTx(j).announces = None
<1>1. jobs[j] \in Job /\ j \in Nat /\ Fits(j, jobs[j], deployed, Succeeded)
  BY JobAt
<1> QED
  BY <1>1 DEF DeployTx, Nonce, Txs, Job, Destinations, TxFits, Fits, Pages, OfPage, Accounts

LEMMA ReceiveStep ==
  ASSUME IInv, NEW j \in DOMAIN jobs, NEW p \in Pages, Receive(j, p)
  PROVE  Effect(j)
<1>1. jobs[j] \in Job /\ Fits(j, jobs[j], deployed, Succeeded) /\ jobs[j].kind = "receive" /\ PendingNonce \in Nat
  BY JobAt, PendingNat DEF Receive
<1>2. ~Proving(jobs[j])
  BY <1>1 DEF Proving
<1>3. CASE Throw(j)
  BY <1>2, <1>3, ThrowStep
<1>4. CASE BroadcastFrameTx(j, BuildAnnounceTransfer(j))
  BY <1>1, <1>4, PayTx, BroadcastStep
<1>5. CASE /\ At(j, "prepare")
           /\ \E a \in OfPage(p) \ derived :
             /\ jobs' = [jobs EXCEPT ![j].pc = "send", ![j].fresh = a, ![j].nonce = PendingNonce]
             /\ derived' = derived \cup {a}
           /\ UNCHANGED <<ui, prover, pool>>
  <2>1. PICK a \in OfPage(p) \ derived :
             /\ jobs' = [jobs EXCEPT ![j].pc = "send", ![j].fresh = a, ![j].nonce = PendingNonce]
             /\ derived' = derived \cup {a}
    BY <1>5
  <2> DEFINE r == [jobs[j] EXCEPT !.pc = "send", !.fresh = a, !.nonce = PendingNonce]
  <2>2. a \in Accounts
    BY DEF OfPage, Accounts
  <2>3. r \in Job
    BY <1>1, <2>2 DEF Job
  <2>4. jobs' = [jobs EXCEPT ![j] = r]
    BY <2>1
  <2>5. Fits(j, r, deployed, Succeeded)
    BY <1>1, <2>2 DEF Fits, Job, Pages
  <2>6. Advances(jobs[j], r)
    BY <1>1, <1>5 DEF Advances, Job, Sent, At, Pages
  <2>7. r.fresh = a /\ r.kind = "receive"
    BY <1>1 DEF Job
  <2>8. derived \subseteq derived' /\ derived' \subseteq Accounts
    BY <2>1, <2>2 DEF IInv, FreshDerived
  <2>9. EffJobs(j) /\ jobs'[j] = r
    <3> HIDE DEF r
    <3> QED
      BY <2>1, <2>3, <2>4, <2>5, <2>6, <2>7, <2>8, JobSet
  <2>10. ~Proving(jobs'[j])
    BY <2>7, <2>9 DEF Proving
  <2> QED
    BY <1>2, <1>5, <2>9, <2>10, UiSame, ProverSame DEF Effect, EffPool
<1>6. CASE /\ At(j, "poll") /\ \E m \in Receipts(j, "pay") : m.ok
           /\ Go(j, "scan")
           /\ page' = IF Live(j) THEN [page EXCEPT ![p].busy = "scan"] ELSE page
           /\ UNCHANGED <<row, transfer, prover, derived, pool>>
  <2> DEFINE r == [jobs[j] EXCEPT !.pc = "scan"]
  <2>1. r \in Job /\ SameClick(jobs[j], r) /\ r.pc = "scan"
    BY <1>1 DEF Job, SameClick
  <2>2. jobs' = [jobs EXCEPT ![j] = r]
    BY <1>6 DEF Go
  <2>0. j \in Succeeded
    BY <1>6 DEF Receipts, Succeeded
  <2>3. Fits(j, r, deployed, Succeeded)
    BY <1>1, <2>0 DEF Fits, Job, Pages
  <2>4. EffJobs(j) /\ jobs'[j] = r
    <3> HIDE DEF r
    <3> QED
      BY <1>6, <2>1, <2>2, <2>3, JobPc DEF Sent
  <2>5. ~Proving(jobs'[j])
    BY <2>1, <2>4 DEF Proving
  <2>6. EffUi(j)
    BY <1>6, PageEffect
  <2> QED
    BY <1>2, <1>6, <2>4, <2>5, <2>6, ProverSame DEF Effect, EffPool
<1> QED
  BY <1>3, <1>4, <1>5, <1>6 DEF Receive

LEMMA ScanStep ==
  ASSUME IInv, NEW j \in DOMAIN jobs, NestedScan(j)
  PROVE  Effect(j)
<1>1. jobs[j] \in Job /\ Fits(j, jobs[j], deployed, Succeeded) /\ At(j, "scan") /\ jobs[j].pc = "scan"
  BY JobAt DEF NestedScan, At
<1>2. jobs[j].page \in Pages
  BY <1>1 DEF Fits, Job, Pages
<1> DEFINE r == [jobs[j] EXCEPT !.pc = "done"]
<1>3. r \in Job /\ SameClick(jobs[j], r) /\ r.pc = "done"
  BY <1>1 DEF Job, SameClick
<1>4. jobs' = [jobs EXCEPT ![j] = r]
  BY DEF NestedScan, Go
<1>5. Fits(j, r, deployed, Succeeded)
  BY <1>1 DEF Fits, Job, Pages
<1>6. EffJobs(j) /\ jobs'[j] = r
  <2> HIDE DEF r
  <2> QED
    BY <1>3, <1>4, <1>5, JobPc DEF Sent, NestedScan
<1>7. ~Proving(jobs[j]) /\ ~Proving(jobs'[j])
  BY <1>1, <1>3, <1>6 DEF Proving
<1>8. EffUi(j)
  BY <1>2, PageEffect DEF NestedScan
<1> QED
  BY <1>6, <1>7, <1>8, ProverSame DEF Effect, EffPool, NestedScan

LEMMA TransferStep ==
  ASSUME IInv, NEW j \in DOMAIN jobs, Transfer(j)
  PROVE  Effect(j)
<1> DEFINE t == BuildEoaTransfer(j)
           rc == Receipts(j, "transfer")
<1>1. jobs[j] \in Job /\ Fits(j, jobs[j], deployed, Succeeded) /\ jobs[j].kind = "transfer" /\ PendingNonce \in Nat
  BY JobAt, PendingNat DEF Transfer
<1>2. ~Proving(jobs[j])
  BY <1>1 DEF Proving
<1>3. t \in Txs /\ t.job = j /\ t.kind # "deploy" /\ t.nonce = jobs[j].nonce
      /\ (At(j, "send") => TxFits(t, jobs, deployed) /\ t.announces \in derived \cup {None})
  BY <1>1, TransferTx
<1> HIDE DEF t
<1>4. CASE Throw(j)
  BY <1>2, <1>4, ThrowStep
<1>5. CASE /\ At(j, "prepare") /\ jobs' = [jobs EXCEPT ![j].pc = "send", ![j].nonce = PendingNonce]
           /\ UNCHANGED <<ui, prover, derived, pool>>
  <2> DEFINE r == [jobs[j] EXCEPT !.pc = "send", !.nonce = PendingNonce]
  <2>1. r \in Job /\ SameClick(jobs[j], r) /\ r.pc = "send" /\ r.kind = "transfer"
    BY <1>1 DEF Job, SameClick
  <2>2. jobs' = [jobs EXCEPT ![j] = r]
    BY <1>5
  <2>3. Fits(j, r, deployed, Succeeded)
    BY <1>1, <2>1 DEF Fits, SameClick, Pages
  <2>4. EffJobs(j) /\ jobs'[j] = r
    <3> HIDE DEF r
    <3> QED
      BY <1>5, <2>1, <2>2, <2>3, JobPc DEF Sent, At
  <2>5. ~Proving(jobs'[j])
    BY <2>1, <2>4 DEF Proving
  <2> QED
    BY <1>2, <1>5, <2>4, <2>5, UiSame, ProverSame DEF Effect, EffPool
<1>6. CASE At(j, "send") /\ Dropped(t) /\ ThrowAll({j}) /\ UNCHANGED <<prover, derived>>
  <2>1. EffJobs(j) /\ EffUi(j) /\ EffProver(j)
    BY <1>2, <1>6, ThrowJob
  <2>2. EffPool(j)
    BY <1>3, <1>6, <2>1, TxSent
  <2> QED
    BY <2>1, <2>2 DEF Effect
<1>7. ASSUME NEW pc \in {"poll", "done"}, NEW x \in TransferStates, At(j, "send") \/ At(j, "poll"),
             Go(j, pc), SetTransfer(j, x), UNCHANGED <<page, row, prover, derived>>,
             pool' = pool \/ (At(j, "send") /\ Answered(t))
      PROVE  Effect(j)
  <2> DEFINE r == [jobs[j] EXCEPT !.pc = pc]
  <2>1. r \in Job /\ SameClick(jobs[j], r) /\ r.pc = pc /\ r.kind = "transfer"
    BY <1>1 DEF Job, SameClick
  <2>2. jobs' = [jobs EXCEPT ![j] = r]
    BY <1>7 DEF Go
  <2>3. Fits(j, r, deployed, Succeeded)
    BY <1>1, <2>1 DEF Fits, SameClick, Pages
  <2>4. EffJobs(j) /\ jobs'[j] = r
    <3> HIDE DEF r
    <3> QED
      BY <1>7, <2>1, <2>2, <2>3, JobPc DEF Sent, At
  <2>5. ~Proving(jobs'[j])
    BY <2>1, <2>4 DEF Proving
  <2>6. EffPool(j)
    BY <1>3, <1>7, <2>4, TxSent DEF Dropped, EffPool
  <2>7. EffUi(j)
    BY <1>7 DEF EffUi, SetTransfer, IInv, WellTyped, UiTyped
  <2> QED
    BY <1>2, <1>7, <2>4, <2>5, <2>6, <2>7, ProverSame DEF Effect
<1>8. transfer \in TransferStates
  BY DEF IInv, WellTyped, UiTyped
<1>9. CASE /\ At(j, "send") /\ Answered(t)
           /\ Go(j, "poll") /\ SetTransfer(j, [transfer EXCEPT !.result = "sent"])
           /\ UNCHANGED <<page, row, prover, derived>>
  <2>1. [transfer EXCEPT !.result = "sent"] \in TransferStates
    BY <1>8 DEF TransferStates
  <2> QED
    BY <1>7, <1>9, <2>1
<1>10. CASE /\ At(j, "poll") /\ Go(j, "done")
            /\ SetTransfer(j, [busy |-> FALSE, result |-> IF rc = {} THEN transfer.result
                                                      ELSE IF \E m \in rc : m.ok THEN "success" ELSE "reverted"])
            /\ UNCHANGED <<page, row, prover, derived, pool>>
  <2> DEFINE x == [busy |-> FALSE, result |-> IF rc = {} THEN transfer.result
                                              ELSE IF \E m \in rc : m.ok THEN "success" ELSE "reverted"]
  <2>1. x \in TransferStates
    BY <1>8 DEF TransferStates
  <2> HIDE DEF x
  <2>2. SetTransfer(j, x)
    BY <1>10 DEF x
  <2> QED
    BY <1>7, <1>10, <2>1, <2>2
<1> QED
  BY <1>4, <1>5, <1>6, <1>9, <1>10 DEF Transfer, t

LEMMA SpendJobAt ==
  ASSUME IInv, NEW j \in DOMAIN jobs, jobs[j].kind \in Pages
  PROVE  /\ jobs[j].acct \in Accounts /\ jobs[j].page \in Pages /\ jobs[j].dest \in Destinations
         /\ row[jobs[j].acct] \in RowStates
<1>1. jobs[j] \in Job /\ Fits(j, jobs[j], deployed, Succeeded)
  BY JobAt
<1>2. jobs[j].acct \in Accounts /\ jobs[j].page \in Pages /\ jobs[j].dest \in Destinations
  BY <1>1 DEF Fits, Pages, OfPage, Accounts, Job, Destinations
<1> QED
  BY <1>2 DEF IInv, WellTyped, UiTyped

LEMMA PatchEffect ==
  ASSUME IInv, NEW j \in DOMAIN jobs, jobs[j].kind \in Pages, NEW r \in RowStates, Patch(j, r),
         r.dest = row[jobs[j].acct].dest, r.fresh = row[jobs[j].acct].fresh,
         r.deriving = row[jobs[j].acct].deriving,
         r.outcome = row[jobs[j].acct].outcome \/ NewOutcome(j, jobs[j].acct, r.outcome),
         transfer' = transfer,
         page' = page \/ page' = [page EXCEPT ![jobs[j].page].busy = "scan"]
  PROVE  EffUi(j)
<1> DEFINE a == jobs[j].acct
<1>1. a \in Accounts /\ jobs[j].page \in Pages
  BY SpendJobAt
<1>2. row \in [Accounts -> RowStates] /\ transfer' \in TransferStates /\ page \in [Pages -> PageStates]
  BY DEF IInv, WellTyped, UiTyped
<1>3. row' = [row EXCEPT ![a] = r] \/ row' = row
  BY DEF Patch
<1>4. row' \in [Accounts -> RowStates]
  BY <1>1, <1>2, <1>3
<1>5. \A b \in Accounts :
       /\ row'[b].dest = row[b].dest /\ row'[b].fresh = row[b].fresh /\ row'[b].deriving = row[b].deriving
       /\ row'[b].outcome = row[b].outcome \/ NewOutcome(j, b, row'[b].outcome)
  <2> HIDE DEF a
  <2>1. r.dest = row[a].dest /\ r.fresh = row[a].fresh /\ r.deriving = row[a].deriving
        /\ (r.outcome = row[a].outcome \/ NewOutcome(j, a, r.outcome))
    BY DEF a
  <2> QED
    BY <1>1, <1>2, <1>3, <2>1
<1>6. /\ page' \in [Pages -> PageStates]
      /\ \A q \in Pages : page'[q].hits = page[q].hits \/ page'[q].hits = Hits(q)
  <2> DEFINE p == jobs[j].page
  <2>1. [page[p] EXCEPT !.busy = "scan"] \in PageStates /\ [page[p] EXCEPT !.busy = "scan"].hits = page[p].hits
    BY <1>1, BusySet
  <2>2. page' = page \/ page' = [page EXCEPT ![p] = [page[p] EXCEPT !.busy = "scan"]]
    OBVIOUS
  <2> HIDE DEF p
  <2> QED
    BY <1>1, <1>2, <2>1, <2>2, PageSet DEF p
<1> QED
  BY <1>2, <1>4, <1>5, <1>6 DEF EffUi

LEMMA StepPatch ==
  ASSUME IInv, NEW j \in DOMAIN jobs, jobs[j].kind \in Pages, SetStep(j), UNCHANGED <<page, transfer>>
  PROVE  EffUi(j)
<1> DEFINE r == [row[jobs[j].acct] EXCEPT !.step = TRUE]
<1>1. row[jobs[j].acct] \in RowStates
  BY SpendJobAt
<1>2. /\ r \in RowStates /\ r.dest = row[jobs[j].acct].dest /\ r.fresh = row[jobs[j].acct].fresh
      /\ r.deriving = row[jobs[j].acct].deriving /\ r.outcome = row[jobs[j].acct].outcome
  BY <1>1 DEF RowStates
<1>3. Patch(j, r)
  BY DEF SetStep
<1> HIDE DEF r
<1> QED
  BY <1>2, <1>3, PatchEffect

LEMMA FeesStep ==
  ASSUME IInv, NEW j \in DOMAIN jobs, NEW pc, Fees(j, pc),
         \/ jobs[j].kind = "zk" /\ pc = "nonce"
         \/ jobs[j].kind = "pq" /\ pc = IF jobs[j].dep THEN "sign" ELSE "deploy"
  PROVE  Effect(j)
<1>1. jobs[j] \in Job /\ Fits(j, jobs[j], deployed, Succeeded) /\ PendingNonce \in Nat /\ At(j, "fees")
  BY JobAt, PendingNat DEF Fees
<1>2. ~Proving(jobs[j])
  BY <1>1 DEF Proving, At
<1>3. CASE Throw(j)
  BY <1>2, <1>3, ThrowStep
<1>4. CASE /\ At(j, "fees") /\ SetStep(j)
           /\ jobs' = [jobs EXCEPT ![j].pc = pc, ![j].nonce = PendingNonce]
           /\ UNCHANGED <<page, transfer, prover, derived, pool>>
  <2> DEFINE r == [jobs[j] EXCEPT !.pc = pc, !.nonce = PendingNonce]
  <2>1. pc \in {"nonce", "sign", "deploy"}
    OBVIOUS
  <2>2. r \in Job /\ SameClick(jobs[j], r) /\ r.pc = pc
    BY <1>1, <2>1 DEF Job, SameClick
  <2>3. jobs' = [jobs EXCEPT ![j] = r]
    BY <1>4
  <2>4. Fits(j, r, deployed, Succeeded)
    BY <1>1, <2>1, <2>2 DEF Fits, SameClick, Pages
  <2>5. EffJobs(j) /\ jobs'[j] = r
    <3> HIDE DEF r
    <3> QED
      BY <1>4, <2>2, <2>3, <2>4, JobPc DEF Sent, At
  <2>6. ~Proving(jobs'[j])
    BY <2>2, <2>5 DEF Proving, SameClick
  <2>7. EffUi(j)
    BY <1>4, StepPatch DEF Pages
  <2> QED
    BY <1>2, <1>4, <2>5, <2>6, <2>7, ProverSame DEF Effect, EffPool
<1> QED
  BY <1>3, <1>4 DEF Fees

LEMMA DeployStep ==
  ASSUME IInv, NEW j \in DOMAIN jobs, jobs[j].kind = "pq", Deploy(j)
  PROVE  Effect(j)
<1>1. jobs[j] \in Job /\ Fits(j, jobs[j], deployed, Succeeded) /\ PendingNonce \in Nat /\ jobs[j].kind \in Pages
  BY JobAt, PendingNat DEF Pages
<1>2. ~Proving(jobs[j])
  BY DEF Proving
<1>3. DeployTx(j) \in Txs /\ DeployTx(j).job = j /\ DeployTx(j).kind = "deploy"
      /\ TxFits(DeployTx(j), jobs, deployed) /\ DeployTx(j).announces = None
  BY DeploymentTx
<1>4. CASE At(j, "deploy") /\ Answered(DeployTx(j)) /\ Go(j, "deployed") /\ UNCHANGED <<ui, prover, derived>>
  <2> DEFINE r == [jobs[j] EXCEPT !.pc = "deployed"]
  <2>1. r \in Job /\ SameClick(jobs[j], r) /\ r.pc = "deployed"
    BY <1>1 DEF Job, SameClick
  <2>2. jobs' = [jobs EXCEPT ![j] = r]
    BY <1>4 DEF Go
  <2>3. Fits(j, r, deployed, Succeeded)
    BY <1>1, <2>1 DEF Fits, SameClick, Pages
  <2>4. EffJobs(j) /\ jobs'[j] = r
    <3> HIDE DEF r
    <3> QED
      BY <1>4, <2>1, <2>2, <2>3, JobPc DEF Sent, At
  <2>5. ~Proving(jobs'[j])
    BY <2>1, <2>4 DEF Proving
  <2>6. EffPool(j)
    BY <1>3, <1>4, <2>4, TxSent DEF Dropped
  <2> QED
    BY <1>2, <1>4, <2>4, <2>5, <2>6, UiSame, ProverSame DEF Effect
<1>5. CASE At(j, "deploy") /\ Dropped(DeployTx(j)) /\ ThrowAll({j}) /\ UNCHANGED <<prover, derived>>
  <2>1. EffJobs(j) /\ EffUi(j) /\ EffProver(j)
    BY <1>2, <1>5, ThrowJob
  <2>2. EffPool(j)
    BY <1>3, <1>5, <2>1, TxSent
  <2> QED
    BY <2>1, <2>2 DEF Effect
<1>6. CASE Throw(j)
  BY <1>2, <1>6, ThrowStep
<1>7. CASE /\ At(j, "deployed") /\ Deployed(j)
           /\ SetStep(j)
           /\ jobs' = [jobs EXCEPT ![j].pc = "sign", ![j].nonce = PendingNonce]
           /\ UNCHANGED <<page, transfer, prover, derived, pool>>
  <2> DEFINE r == [jobs[j] EXCEPT !.pc = "sign", !.nonce = PendingNonce]
  <2>1. jobs[j].acct \in deployed
    <3>1. PICK m \in Receipts(j, "deploy") : m.ok
      BY <1>7 DEF Deployed
    <3>2. m \in Range(mined) /\ m.tx.job = j /\ m.tx.kind = "deploy"
      BY DEF Receipts
    <3>3. m.tx.acct \in deployed
      BY <3>1, <3>2 DEF IInv, ReceiptsTrue
    <3>4. m.tx \in Accepted
      BY <3>2 DEF Accepted
    <3>5. m.tx.acct = jobs[j].acct
      BY <3>2, <3>4 DEF IInv, TxsFit, TxFits
    <3> QED
      BY <3>3, <3>5
  <2>2. r \in Job /\ SameClick(jobs[j], r) /\ r.pc = "sign" /\ r.kind = "pq"
    BY <1>1 DEF Job, SameClick
  <2>3. jobs' = [jobs EXCEPT ![j] = r]
    BY <1>7
  <2>4. Fits(j, r, deployed, Succeeded)
    BY <1>1, <2>1, <2>2 DEF Fits, SameClick, Pages
  <2>5. EffJobs(j) /\ jobs'[j] = r
    <3> HIDE DEF r
    <3> QED
      BY <1>7, <2>2, <2>3, <2>4, JobPc DEF Sent, At
  <2>6. ~Proving(jobs'[j])
    BY <2>2, <2>5 DEF Proving
  <2>7. EffUi(j)
    BY <1>1, <1>7, StepPatch
  <2> QED
    BY <1>2, <1>7, <2>5, <2>6, <2>7, ProverSame DEF Effect, EffPool
<1> QED
  BY <1>4, <1>5, <1>6, <1>7 DEF Deploy

LEMMA SpentStep ==
  ASSUME IInv, NEW j \in DOMAIN jobs, jobs[j].kind \in Pages, NEW o \in Outcomes, Spent(j, o),
         o.job = j, o.dest = jobs[j].dest, o.announced = (jobs[j].fresh # None)
  PROVE  Effect(j)
<1>1. jobs[j] \in Job /\ Fits(j, jobs[j], deployed, Succeeded) /\ At(j, "poll")
  BY JobAt DEF Spent
<1>2. ~Proving(jobs[j])
  BY <1>1 DEF Proving, At
<1> DEFINE r == [jobs[j] EXCEPT !.pc = "scan"]
           w == [row[jobs[j].acct] EXCEPT !.step = FALSE, !.outcome = o]
<1>3. r \in Job /\ SameClick(jobs[j], r) /\ r.pc = "scan"
  BY <1>1 DEF Job, SameClick
<1>4. jobs' = [jobs EXCEPT ![j] = r]
  BY DEF Spent, Go
<1>0. j \in Succeeded
  BY DEF Spent, Receipts, Succeeded
<1>5. Fits(j, r, deployed, Succeeded)
  BY <1>0, <1>1, <1>3 DEF Fits, SameClick, Pages
<1>6. EffJobs(j) /\ jobs'[j] = r
  <2> HIDE DEF r
  <2> QED
    BY <1>3, <1>4, <1>5, JobPc DEF Sent, Spent
<1>7. ~Proving(jobs'[j])
  BY <1>3, <1>6 DEF Proving
<1>8. row[jobs[j].acct] \in RowStates
  BY SpendJobAt
<1>9. /\ w \in RowStates /\ w.dest = row[jobs[j].acct].dest /\ w.fresh = row[jobs[j].acct].fresh
      /\ w.deriving = row[jobs[j].acct].deriving /\ w.outcome = o
  BY <1>8 DEF RowStates
<1>10. Patch(j, w) /\ transfer' = transfer
       /\ (page' = page \/ page' = [page EXCEPT ![jobs[j].page].busy = "scan"])
  BY DEF Spent
<1>11. NewOutcome(j, jobs[j].acct, o)
  BY DEF NewOutcome, Spent
<1>12. EffUi(j)
  <2> HIDE DEF w
  <2> QED
    BY <1>9, <1>10, <1>11, PatchEffect
<1> QED
  BY <1>2, <1>6, <1>7, <1>12, ProverSame DEF Effect, EffPool, Spent

LEMMA OutcomesTyped ==
  ASSUME IInv, NEW j \in DOMAIN jobs, jobs[j].kind \in Pages
  PROVE  /\ PqOutcome(j) \in Outcomes /\ PqOutcome(j).job = j /\ PqOutcome(j).dest = jobs[j].dest
         /\ PqOutcome(j).announced = (jobs[j].fresh # None)
         /\ jobs[j].kind = "zk" => /\ ZkOutcome(j) \in Outcomes /\ ZkOutcome(j).job = j
                                   /\ ZkOutcome(j).dest = jobs[j].dest
                                   /\ ZkOutcome(j).announced = (jobs[j].fresh # None)
<1>1. jobs[j].dest \in Destinations /\ j \in Nat /\ Fits(j, jobs[j], deployed, Succeeded)
  BY SpendJobAt, JobAt
<1> QED
  BY <1>1 DEF PqOutcome, ZkOutcome, Outcomes, Fits

LEMMA PqStep ==
  ASSUME IInv, NEW j \in DOMAIN jobs, PqSpend(j)
  PROVE  Effect(j)
<1>1. /\ jobs[j] \in Job /\ j \in Nat /\ Fits(j, jobs[j], deployed, Succeeded)
      /\ jobs[j].kind = "pq" /\ jobs[j].kind \in Pages
  BY JobAt DEF PqSpend, Pages
<1>2. ~Proving(jobs[j])
  BY <1>1 DEF Proving
<1>3. CASE Fees(j, IF jobs[j].dep THEN "sign" ELSE "deploy")
  BY <1>1, <1>3, FeesStep
<1>4. CASE Deploy(j)
  BY <1>1, <1>4, DeployStep
<1>5. CASE Throw(j)
  BY <1>2, <1>5, ThrowStep
<1>6. CASE /\ At(j, "sign")
           /\ jobs' = [jobs EXCEPT ![j].pc = "send", ![j].proof = j]
           /\ UNCHANGED <<ui, prover, derived, pool>>
  <2> DEFINE r == [jobs[j] EXCEPT !.pc = "send", !.proof = j]
  <2>1. r \in Job /\ SameClick(jobs[j], r) /\ r.pc = "send" /\ r.kind = "pq" /\ r.proof = j
    BY <1>1 DEF Job, SameClick
  <2>2. jobs' = [jobs EXCEPT ![j] = r]
    BY <1>6
  <2>3. Fits(j, r, deployed, Succeeded)
    BY <1>1, <1>6, <2>1 DEF Fits, SameClick, Pages, At
  <2>4. EffJobs(j) /\ jobs'[j] = r
    <3> HIDE DEF r
    <3> QED
      BY <1>6, <2>1, <2>2, <2>3, JobPc DEF Sent, At
  <2>5. ~Proving(jobs'[j])
    BY <2>1, <2>4 DEF Proving
  <2> QED
    BY <1>2, <1>6, <2>4, <2>5, UiSame, ProverSame DEF Effect, EffPool
<1>7. CASE BroadcastFrameTx(j, BuildSponsoredPqTx(j))
  BY <1>1, <1>7, SpendTx, BroadcastStep
<1>8. CASE Spent(j, PqOutcome(j))
  BY <1>1, <1>8, OutcomesTyped, SpentStep
<1> QED
  BY <1>3, <1>4, <1>5, <1>6, <1>7, <1>8 DEF PqSpend

LEMMA ProveStep ==
  ASSUME IInv, NEW j \in DOMAIN jobs, jobs[j].kind = "zk", Prove(j)
  PROVE  Effect(j)
<1>1. jobs[j] \in Job /\ Fits(j, jobs[j], deployed, Succeeded) /\ PendingNonce \in Nat /\ At(j, "nonce")
  BY JobAt, PendingNat DEF Prove
<1>2. ~Proving(jobs[j])
  BY <1>1 DEF Proving, At
<1>3. CASE Live(j)
  <2> DEFINE r == [jobs[j] EXCEPT !.pc = "sign", !.nonce = PendingNonce]
  <2>1. r \in Job /\ SameClick(jobs[j], r) /\ r.pc = "sign" /\ r.kind = "zk"
    BY <1>1 DEF Job, SameClick
  <2>2. jobs' = [jobs EXCEPT ![j] = r] /\ prover' = Request(j) /\ derived' = derived /\ UNCHANGED ui /\ pool' = pool
    BY <1>3 DEF Prove
  <2>3. Fits(j, r, deployed, Succeeded)
    BY <1>1, <2>1 DEF Fits, SameClick, Pages
  <2>4. EffJobs(j) /\ jobs'[j] = r
    <3> HIDE DEF r
    <3> QED
      BY <1>1, <2>1, <2>2, <2>3, JobPc DEF Sent, At
  <2>5. EffProver(j)
    BY <1>2, <1>3, <2>1, <2>2, <2>4 DEF EffProver, Proving
  <2> QED
    BY <2>2, <2>4, <2>5, UiSame DEF Effect, EffPool
<1>4. CASE ~Live(j)
  <2> DEFINE r == [jobs[j] EXCEPT !.pc = "lost"]
  <2>1. r \in Job /\ SameClick(jobs[j], r) /\ r.pc = "lost"
    BY <1>1 DEF Job, SameClick
  <2>2. jobs' = [jobs EXCEPT ![j] = r] /\ prover' = prover /\ derived' = derived /\ UNCHANGED ui /\ pool' = pool
    BY <1>4 DEF Prove, Go
  <2>3. Fits(j, r, deployed, Succeeded)
    BY <1>1, <2>1 DEF Fits, SameClick, Pages
  <2>4. EffJobs(j) /\ jobs'[j] = r
    <3> HIDE DEF r
    <3> QED
      BY <1>1, <2>1, <2>2, <2>3, JobPc DEF Sent, At
  <2>5. ~Proving(jobs'[j])
    BY <2>1, <2>4 DEF Proving
  <2> QED
    BY <1>2, <2>2, <2>4, <2>5, UiSame, ProverSame DEF Effect, EffPool
<1> QED
  BY <1>3, <1>4

LEMMA ZkStep ==
  ASSUME IInv, NEW j \in DOMAIN jobs, ZkSpend(j)
  PROVE  Effect(j)
<1>1. jobs[j].kind = "zk" /\ jobs[j].kind \in Pages
  BY DEF ZkSpend, Pages
<1>2. CASE Fees(j, "nonce")
  BY <1>1, <1>2, FeesStep
<1>3. CASE At(j, "nonce") /\ Throw(j)
  <2>1. ~Proving(jobs[j])
    BY <1>3 DEF Proving, At
  <2> QED
    BY <1>3, <2>1, ThrowStep
<1>4. CASE Prove(j)
  BY <1>1, <1>4, ProveStep
<1>5. CASE BroadcastFrameTx(j, BuildSponsoredPqTx(j))
  BY <1>1, <1>5, SpendTx, BroadcastStep
<1>6. CASE Spent(j, ZkOutcome(j))
  BY <1>1, <1>6, OutcomesTyped, SpentStep
<1> QED
  BY <1>2, <1>3, <1>4, <1>5, <1>6 DEF ZkSpend

LEMMA StepEffect ==
  ASSUME IInv, NEW j \in DOMAIN jobs, Step(j)
  PROVE  Effect(j) /\ UNCHANGED <<shown, mounts, bal, deployed, announced, mined>>
<1>1. UNCHANGED <<shown, mounts, bal, deployed, announced, mined>>
  BY DEF Step, chain
<1>2. CASE PqReceive(j) \/ ZkReceive(j)
  BY <1>1, <1>2, ReceiveStep DEF PqReceive, ZkReceive, Pages
<1>3. CASE PqSpend(j)
  BY <1>1, <1>3, PqStep
<1>4. CASE ZkSpend(j)
  BY <1>1, <1>4, ZkStep
<1>5. CASE Transfer(j)
  BY <1>1, <1>5, TransferStep
<1>6. CASE NestedScan(j)
  BY <1>1, <1>6, ScanStep
<1> QED
  BY <1>1, <1>2, <1>3, <1>4, <1>5, <1>6 DEF Step
-----------------------------------------------------------------------------
(* Transactions are accepted only at the next nonce. *)
LEMMA AcceptedTyped == ASSUME IInv PROVE Accepted \subseteq Txs /\ Range(mined) \subseteq Mined
<1>1. Range(mined) \subseteq Mined
  BY SeqAt DEF IInv, WellTyped, ChainTyped, Range
<1> QED
  BY <1>1 DEF IInv, WellTyped, ChainTyped, Accepted, Mined

LEMMA AcceptedBelow ==
  ASSUME IInv, NEW t \in Accepted
  PROVE  t.nonce \in Nat /\ t.nonce < PendingNonce
<1>1. t \in Txs /\ t.nonce \in Nat
  BY AcceptedTyped DEF Txs
<1>2. Len(mined) \in Nat /\ Cardinality(pool) \in Nat /\ PendingNonce = Len(mined) + Cardinality(pool)
  BY PendingNat DEF PendingNonce
<1>3. CASE t \in pool
  BY <1>1, <1>3 DEF IInv, NoncesInOrder
<1>4. CASE \E m \in Range(mined) : t = m.tx
  <2>1. PICK i \in DOMAIN mined : t = mined[i].tx
    BY <1>4 DEF Range
  <2>2. t.nonce = i - 1 /\ i \in 1..Len(mined)
    BY <2>1, LenProperties DEF IInv, NoncesInOrder, WellTyped, ChainTyped
  <2> QED
    BY <1>2, <2>2
<1> QED
  BY <1>1, <1>3, <1>4 DEF Accepted

(* The parts of the invariant about transactions, when jobs advance and no    *)
(* transaction is accepted.                                                   *)
LEMMA TxsSame ==
  ASSUME IInv, jobs' \in Seq(Job), DOMAIN jobs \subseteq DOMAIN jobs',
         \A k \in DOMAIN jobs : Advances(jobs[k], jobs'[k]),
         mined' = mined, deployed' = deployed, derived \subseteq derived', pool' = pool
  PROVE  /\ pool' \in SUBSET Txs /\ TxsFit' /\ NoncesInOrder' /\ SentOnce'
         /\ \A t \in Accepted' : t.announces \in derived' \cup {None}
         /\ Accepted \subseteq Accepted'
<1>0. TxsFit /\ NoncesInOrder /\ SentOnce /\ pool \in SUBSET Txs /\ FreshDerived
  BY DEF IInv, WellTyped, ChainTyped
<1>1. \A t \in Accepted : TxFits(t, jobs', deployed) /\ t.announces \in derived' \cup {None}
  <2> SUFFICES ASSUME NEW t \in Accepted
               PROVE  TxFits(t, jobs', deployed) /\ t.announces \in derived' \cup {None}
    OBVIOUS
  <2>1. TxFits(t, jobs, deployed)
    BY <1>0 DEF TxsFit
  <2>2. t.job \in DOMAIN jobs
    BY <2>1 DEF TxFits
  <2>3. TxFits(t, jobs', deployed)
    BY <2>1, <2>2, TxStays
  <2> QED
    BY <1>0, <2>3 DEF FreshDerived
<1>2. Accepted' = Accepted
  BY DEF Accepted
<1>3. TxsFit' /\ SentOnce'
  BY <1>0, <1>1, <1>2 DEF TxsFit, SentOnce
<1>4. NoncesInOrder'
  BY <1>0 DEF NoncesInOrder, PendingNonce
<1> QED
  BY <1>0, <1>1, <1>2, <1>3, <1>4

(* The parts of the invariant about transactions, when jobs advance and at    *)
(* most one new transaction is accepted.                                      *)
LEMMA TxsKept ==
  ASSUME IInv, jobs' \in Seq(Job), DOMAIN jobs \subseteq DOMAIN jobs',
         \A k \in DOMAIN jobs : Advances(jobs[k], jobs'[k]),
         mined' = mined, deployed' = deployed, derived \subseteq derived',
         NEW j \in DOMAIN jobs, EffPool(j)
  PROVE  /\ pool' \in SUBSET Txs /\ TxsFit' /\ NoncesInOrder' /\ SentOnce'
         /\ \A t \in Accepted' : t.announces \in derived' \cup {None}
         /\ Accepted \subseteq Accepted'
<1>0. TxsFit /\ NoncesInOrder /\ SentOnce /\ pool \in SUBSET Txs /\ FreshDerived /\ mined \in Seq(Mined)
  BY DEF IInv, WellTyped, ChainTyped
<1>1. \A t \in Accepted : TxFits(t, jobs', deployed) /\ t.announces \in derived' \cup {None}
  <2> SUFFICES ASSUME NEW t \in Accepted
               PROVE  TxFits(t, jobs', deployed) /\ t.announces \in derived' \cup {None}
    OBVIOUS
  <2>1. TxFits(t, jobs, deployed)
    BY <1>0 DEF TxsFit
  <2>2. t.job \in DOMAIN jobs
    BY <2>1 DEF TxFits
  <2>3. TxFits(t, jobs', deployed)
    BY <2>1, <2>2, TxStays
  <2> QED
    BY <1>0, <2>3 DEF FreshDerived
<1>2. CASE pool' = pool
  BY <1>2, TxsSame
<1>3. ASSUME NEW t \in Txs, Accepts(t), pool' = pool \cup {t},
             t.job = j, TxFits(t, jobs', deployed), t.announces \in derived \cup {None},
             t.kind # "deploy" => At(j, "send") /\ t.nonce = jobs[j].nonce
      PROVE  /\ pool' \in SUBSET Txs /\ TxsFit' /\ NoncesInOrder' /\ SentOnce'
             /\ \A u \in Accepted' : u.announces \in derived' \cup {None}
             /\ Accepted \subseteq Accepted'
  <2>1. Accepted' = Accepted \cup {t}
    BY <1>3 DEF Accepted
  <2>2. TxsFit'
    BY <1>1, <1>3, <2>1 DEF TxsFit
  <2>3. t.nonce = PendingNonce
    BY <1>3 DEF Accepts
  <2>4. \A u \in Accepted : u.nonce \in Nat /\ u.nonce < PendingNonce
    BY AcceptedBelow
  <2>5. PendingNonce \in Nat /\ Len(mined) \in Nat /\ Cardinality(pool) \in Nat
    BY PendingNat
  <2>6. NoncesInOrder'
    <3>1. t \notin pool
      BY <2>3, <2>4, <2>5 DEF Accepted
    <3>2. IsFiniteSet(pool') /\ Cardinality(pool') = Cardinality(pool) + 1
      BY <1>0, <1>3, <3>1, FS_AddElement DEF NoncesInOrder
    <3>3. PendingNonce' = PendingNonce + 1 /\ PendingNonce = Len(mined) + Cardinality(pool)
      BY <2>5, <3>2 DEF PendingNonce
    <3>4. \A u \in pool : Len(mined) <= u.nonce /\ u.nonce < PendingNonce /\ u.nonce \in Nat
      BY <1>0, <2>4 DEF NoncesInOrder, Accepted
    <3>5. \A u \in pool' : Len(mined)' <= u.nonce /\ u.nonce < PendingNonce'
      BY <1>3, <2>3, <2>5, <3>3, <3>4
    <3>6. \A u, v \in pool' : u.nonce = v.nonce => u = v
      <4>1. \A u, v \in pool : u.nonce = v.nonce => u = v
        BY <1>0 DEF NoncesInOrder
      <4>2. \A u \in pool : u.nonce # t.nonce
        BY <2>3, <2>5, <3>4
      <4> QED
        BY <1>3, <4>1, <4>2
    <3>7. \A i \in DOMAIN mined' : mined'[i].tx.nonce = i - 1
      BY <1>0 DEF NoncesInOrder
    <3> QED
      BY <3>2, <3>5, <3>6, <3>7 DEF NoncesInOrder
  <2>7. SentOnce'
    <3>1. ASSUME NEW u \in Accepted, u.job = t.job, u.kind # "deploy", t.kind # "deploy" PROVE FALSE
      <4>1. TxFits(u, jobs, deployed) /\ u.job = j /\ jobs[j].pc = "send"
        BY <1>0, <1>3, <3>1 DEF TxsFit, At
      <4>2. u.nonce = jobs[j].nonce
        BY <3>1, <4>1 DEF TxFits
      <4> QED
        BY <1>3, <2>3, <2>4, <2>5, <3>1, <4>2
    <3> QED
      BY <1>0, <2>1, <3>1 DEF SentOnce
  <2> QED
    BY <1>0, <1>1, <1>3, <2>1, <2>2, <2>6, <2>7
<1> QED
  BY <1>2, <1>3 DEF EffPool

OutcomeHolds(a, o) ==
  \E m \in Receipts(o.job, "spend") :
    /\ m.moved /\ m.tx.acct = a /\ m.tx.dest = o.dest
    /\ o.announced => m.tx.dest \in announced

LEMMA NewOutcomeTrue ==
  ASSUME IInv, NEW j \in DOMAIN jobs, NEW a, NEW o, NewOutcome(j, a, o)
  PROVE  OutcomeHolds(a, o)
<1>1. PICK m \in Receipts(j, "spend") : m.ok
  BY DEF NewOutcome
<1>2. m \in Range(mined) /\ m.tx.job = j /\ m.tx.kind = "spend"
  BY DEF Receipts
<1>3. m.moved
  BY <1>1, <1>2 DEF IInv, ReceiptsTrue
<1>4. TxFits(m.tx, jobs, deployed)
  BY <1>2 DEF IInv, TxsFit, Accepted
<1>5. m.tx.acct = jobs[j].acct /\ m.tx.dest = jobs[j].dest /\ m.tx.announces = jobs[j].fresh
  BY <1>2, <1>4 DEF TxFits
<1>6. jobs[j].fresh # None => jobs[j].dest = jobs[j].fresh
  BY JobAt DEF NewOutcome, Fits, Pages
<1>7. jobs[j].fresh # None => jobs[j].fresh \in announced
  BY <1>1, <1>2, <1>5 DEF IInv, ReceiptsTrue
<1> QED
  BY <1>2, <1>3, <1>5, <1>6, <1>7 DEF NewOutcome, OutcomeHolds, Receipts

(* The rest of the invariant, variable by variable *)
LEMMA PagesKept ==
  ASSUME IInv, page' \in [Pages -> PageStates], deployed \subseteq deployed',
         \A p \in Pages : \/ page'[p].hits = page[p].hits \/ page'[p].hits = Hits(p) \/ page'[p].hits = <<>>
  PROVE  HitsFit' /\ \A p \in Pages : DOMAIN page'[p].hits \subseteq OfPage(p)
<1>1. ASSUME NEW p \in Pages
      PROVE  /\ DOMAIN page'[p].hits \subseteq OfPage(p)
             /\ \A a \in DOMAIN page'[p].hits : page'[p].hits[a].dep => a \in deployed'
  <2>1. CASE page'[p].hits = page[p].hits
    BY <2>1 DEF IInv, WellTyped, UiTyped, HitsFit
  <2>2. CASE page'[p].hits = Hits(p)
    BY <2>2, HitsTyped
  <2>3. CASE page'[p].hits = <<>>
    BY <2>3
  <2> QED
    BY <1>1, <2>1, <2>2, <2>3
<1> QED
  BY <1>1 DEF HitsFit

LEMMA OutcomesKept ==
  ASSUME IInv, Range(mined) \subseteq Range(mined)', announced \subseteq announced',
         \A a \in Accounts : \/ row'[a].outcome \in {row[a].outcome, None}
                             \/ OutcomeHolds(a, row'[a].outcome)
  PROVE  OutcomeTrue'
<1>1. ASSUME NEW a \in Accounts, row'[a].outcome # None PROVE OutcomeHolds(a, row'[a].outcome)
  <2>1. CASE row'[a].outcome = row[a].outcome
    BY <1>1, <2>1 DEF IInv, OutcomeTrue, OutcomeHolds
  <2> QED
    BY <1>1, <2>1
<1>2. \A o, a : OutcomeHolds(a, o) => \E m \in Receipts(o.job, "spend")' :
        /\ m.moved /\ m.tx.acct = a /\ m.tx.dest = o.dest /\ (o.announced => m.tx.dest \in announced')
  BY DEF OutcomeHolds, Receipts
<1> QED
  BY <1>1, <1>2 DEF OutcomeTrue

LEMMA EffectKeeps ==
  ASSUME IInv, NEW j \in DOMAIN jobs, Effect(j), UNCHANGED <<shown, mounts, bal, deployed, announced, mined>>
  PROVE  IInv'
<1>1. EffJobs(j) /\ EffPool(j) /\ EffUi(j) /\ EffProver(j)
  BY DEF Effect
<1>2. \A k \in DOMAIN jobs : Advances(jobs[k], jobs'[k])
  BY <1>1 DEF EffJobs, Advances
<1>3. /\ jobs' \in Seq(Job) /\ DOMAIN jobs' = DOMAIN jobs /\ derived \subseteq derived' /\ derived' \subseteq Accounts
      /\ \A k \in DOMAIN jobs \ {j} : jobs'[k] = jobs[k]
  BY <1>1 DEF EffJobs
<1>4. /\ pool' \in SUBSET Txs /\ TxsFit' /\ NoncesInOrder' /\ SentOnce'
      /\ \A t \in Accepted' : t.announces \in derived' \cup {None}
  BY <1>1, <1>2, <1>3, TxsKept
<1>5. JobsFit'
  BY <1>1, <1>3 DEF EffJobs, JobsFit, IInv, Succeeded
<1>6. /\ row' \in [Accounts -> RowStates] /\ page' \in [Pages -> PageStates] /\ transfer' \in TransferStates
      /\ \A a \in Accounts : row'[a].dest = row[a].dest /\ row'[a].fresh = row[a].fresh
                             /\ row'[a].deriving = row[a].deriving
  BY <1>1 DEF EffUi
<1>7. HitsFit' /\ \A p \in Pages : DOMAIN page'[p].hits \subseteq OfPage(p)
  BY <1>1, <1>6, PagesKept DEF EffUi
<1>8. FreshDerived'
  BY <1>1, <1>3, <1>4, <1>6 DEF FreshDerived, IInv, EffJobs
<1>9. RowsFit'
  BY <1>6 DEF RowsFit, IInv
<1>10. ReceiptsTrue' /\ FundsTraced'
  BY DEF IInv, ReceiptsTrue, FundsTraced
<1>11. OutcomeTrue'
  BY <1>1, NewOutcomeTrue, OutcomesKept DEF EffUi
<1>12. prover' \in ProverStates /\ ProverFits'
  <2>0. prover \in ProverStates /\ j \in Nat
    BY JobAt DEF IInv, WellTyped
  <2>1. \A k \in DOMAIN jobs : Live(k)' <=> Live(k)
    BY <1>2 DEF Live, Advances
  <2>2. CASE prover' = prover /\ ~Proving(jobs'[j])
    <3>1. {k \in DOMAIN jobs' : Proving(jobs'[k])} = {k \in DOMAIN jobs : Proving(jobs[k])}
      BY <1>1, <1>3, <2>2 DEF EffProver
    <3> QED
      BY <2>0, <2>1, <2>2, <3>1 DEF ProverFits, IInv
  <2>3. CASE prover' = Request(j) /\ Proving(jobs'[j]) /\ Live(j)
    <3>1. {k \in DOMAIN jobs' : Proving(jobs'[k])} = {k \in DOMAIN jobs : Proving(jobs[k])} \cup {j}
      BY <1>1, <1>3, <2>3 DEF EffProver
    <3>2. PICK h : h = Held(j)
      OBVIOUS
    <3>3. /\ h \in SUBSET Nat /\ h \subseteq prover.holds \cup {j}
          /\ prover.state # "dead" => h = prover.holds \cup {j}
      BY <2>0, <3>2 DEF ProverStates, Held
    <3>4. prover' = [prover EXCEPT !.pending = @ \cup {j}, !.holds = h]
      BY <2>3, <3>2 DEF Request
    <3>5. prover' \in ProverStates /\ prover'.pending = prover.pending \cup {j}
          /\ prover'.holds = h /\ prover'.state = prover.state
      BY <2>0, <3>3, <3>4 DEF ProverStates
    <3> QED
      BY <2>1, <2>3, <3>1, <3>3, <3>5 DEF ProverFits, IInv
  <2> QED
    BY <1>1, <2>2, <2>3 DEF EffProver
<1>13. WellTyped'
  BY <1>3, <1>4, <1>6, <1>7, <1>12 DEF WellTyped, UiTyped, ChainTyped, IInv
<1> QED
  BY <1>4, <1>5, <1>7, <1>8, <1>9, <1>10, <1>11, <1>12, <1>13 DEF IInv
-----------------------------------------------------------------------------
(* The other actions: none of them changes the chain or the pool, except Mine. *)

JobsKept ==
  /\ jobs' \in Seq(Job) /\ DOMAIN jobs \subseteq DOMAIN jobs'
  /\ \A k \in DOMAIN jobs : Advances(jobs[k], jobs'[k])
  /\ \A k \in DOMAIN jobs' : Fits(k, jobs'[k], deployed, Succeeded) /\ jobs'[k].fresh \in derived' \cup {None}
  /\ derived \subseteq derived' /\ derived' \subseteq Accounts

RowsKept ==
  /\ row' \in [Accounts -> RowStates] /\ RowsFit'
  /\ \A a \in Accounts : /\ row'[a].outcome \in {row[a].outcome, None}
                         /\ row'[a].fresh \in derived' \cup {None}

PageKept ==
  /\ page' \in [Pages -> PageStates]
  /\ \A p \in Pages : page'[p].hits = page[p].hits \/ page'[p].hits = Hits(p) \/ page'[p].hits = <<>>

ProverKept == prover' \in ProverStates /\ ProverFits'

LEMMA KeptKeeps ==
  ASSUME IInv, JobsKept, RowsKept, PageKept, ProverKept, transfer' \in TransferStates,
         mounts' \in 0..MaxMounts, UNCHANGED <<bal, deployed, announced, mined, pool>>
  PROVE  IInv'
<1>1. /\ pool' \in SUBSET Txs /\ TxsFit' /\ NoncesInOrder' /\ SentOnce'
      /\ \A t \in Accepted' : t.announces \in derived' \cup {None}
  BY TxsSame DEF JobsKept
<1>2. HitsFit' /\ \A p \in Pages : DOMAIN page'[p].hits \subseteq OfPage(p)
  BY PagesKept DEF PageKept
<1>3. JobsFit' /\ FreshDerived'
  BY <1>1 DEF JobsKept, RowsKept, JobsFit, FreshDerived, IInv, Succeeded
<1>4. ReceiptsTrue' /\ FundsTraced'
  BY DEF IInv, ReceiptsTrue, FundsTraced
<1>5. OutcomeTrue'
  BY OutcomesKept DEF RowsKept
<1>6. WellTyped'
  BY <1>1, <1>2 DEF WellTyped, UiTyped, ChainTyped, IInv, JobsKept, RowsKept, PageKept, ProverKept
<1> QED
  BY <1>1, <1>2, <1>3, <1>4, <1>5, <1>6 DEF IInv, RowsKept, ProverKept

LEMMA JobsSame ==
  ASSUME IInv, jobs' = jobs, derived \subseteq derived', derived' \subseteq Accounts
  PROVE  JobsKept
<1>1. \A k \in DOMAIN jobs : jobs[k].fresh \in derived' \cup {None} /\ Fits(k, jobs[k], deployed, Succeeded)
  BY JobAt
<1> QED
  BY <1>1 DEF IInv, WellTyped, JobsKept, Advances

LEMMA RowsSame ==
  ASSUME IInv, row' = row, derived \subseteq derived' PROVE RowsKept
  BY DEF IInv, WellTyped, UiTyped, RowsKept, RowsFit, FreshDerived

LEMMA PageStays == ASSUME IInv, page' = page PROVE PageKept
  BY DEF IInv, WellTyped, UiTyped, PageKept

LEMMA ProverStays ==
  ASSUME IInv, prover' = prover, jobs' = jobs, mounts' = mounts PROVE ProverKept
  BY DEF IInv, WellTyped, ProverKept, ProverFits, Live

LEMMA DerivedSame == ASSUME IInv, derived' = derived PROVE derived \subseteq derived' /\ derived' \subseteq Accounts
  BY DEF IInv, FreshDerived

LEMMA TransferTyped == ASSUME IInv PROVE transfer \in TransferStates /\ mounts \in 0..MaxMounts
  BY DEF IInv, WellTyped, UiTyped

LEMMA ScanClickKeeps == ASSUME IInv, NEW p \in Pages, ScanClick(p) PROVE IInv'
<1>1. page[p] \in PageStates
  BY DEF IInv, WellTyped, UiTyped
<1> DEFINE q == [page[p] EXCEPT !.busy = "scan", !.scanning = TRUE]
<1>2. q \in PageStates /\ q.hits = page[p].hits
  BY <1>1 DEF PageStates
<1>3. page' = [page EXCEPT ![p] = q]
  BY DEF ScanClick
<1>4. PageKept
  <2> HIDE DEF q
  <2> QED
    BY <1>2, <1>3 DEF PageKept, IInv, WellTyped, UiTyped
<1>5. UNCHANGED <<mounts, row, transfer, prover, jobs, derived, bal, deployed, announced, mined, pool>>
  BY DEF ScanClick, chain
<1> QED
  BY <1>4, <1>5, JobsSame, RowsSame, ProverStays, DerivedSame, TransferTyped, KeptKeeps

LEMMA ScanEndsKeeps == ASSUME IInv, NEW p \in Pages, ScanEnds(p) PROVE IInv'
<1>1. page[p] \in PageStates /\ page \in [Pages -> PageStates]
  BY DEF IInv, WellTyped, UiTyped
<1>2. PICK pg \in Scanned(p, page[p]) : page' = [page EXCEPT ![p] = [pg EXCEPT !.scanning = FALSE]]
  BY DEF ScanEnds
<1>3. pg \in PageStates /\ (pg.hits = page[p].hits \/ pg.hits = Hits(p))
  BY <1>2, ScannedTyped
<1> DEFINE q == [pg EXCEPT !.scanning = FALSE]
<1>4. q \in PageStates /\ (q.hits = page[p].hits \/ q.hits = Hits(p))
  BY <1>3 DEF PageStates
<1>5. page' = [page EXCEPT ![p] = q]
  BY <1>2
<1>6. PageKept
  <2> HIDE DEF q
  <2> QED
    BY <1>1, <1>4, <1>5 DEF PageKept
<1>7. UNCHANGED <<mounts, row, transfer, prover, jobs, derived, bal, deployed, announced, mined, pool>>
  BY DEF ScanEnds, chain
<1> QED
  BY <1>6, <1>7, JobsSame, RowsSame, ProverStays, DerivedSame, TransferTyped, KeptKeeps

(* A row may be replaced if its destination is still announced. *)
RowFits(a, r) ==
  /\ r \in RowStates /\ r.outcome \in {row[a].outcome, None} /\ r.fresh \in derived' \cup {None}
  /\ r.dest \in Accounts => r.fresh = r.dest
  /\ a \in ZkAccounts => r.dest \notin Accounts /\ ~r.deriving

LEMMA RowAt ==
  ASSUME IInv, NEW a \in Accounts, derived \subseteq derived'
  PROVE  RowFits(a, row[a]) /\ row[a].fresh \in derived \cup {None}
  BY DEF IInv, WellTyped, UiTyped, FreshDerived, RowsFit, RowFits

LEMMA RowSet ==
  ASSUME IInv, NEW a \in Accounts, NEW r, RowFits(a, r), row' = [row EXCEPT ![a] = r], derived \subseteq derived'
  PROVE  RowsKept
<1>1. \A b \in Accounts : RowFits(b, row[b])
  BY RowAt
<1>2. DOMAIN row = Accounts /\ row' = [b \in Accounts |-> IF b = a THEN r ELSE row[b]]
  BY DEF IInv, WellTyped, UiTyped
<1>3. \A b \in Accounts : RowFits(b, row'[b])
  BY <1>1, <1>2
<1>4. row' \in [Accounts -> RowStates]
  BY <1>2, <1>3 DEF RowFits
<1>5. RowsFit'
  BY <1>3 DEF RowsFit, RowFits
<1> QED
  BY <1>3, <1>4, <1>5 DEF RowsKept, RowFits

LEMMA EditKeeps == ASSUME IInv, NEW p \in Pages, NEW a \in Accounts, Edit(p, a) PROVE IInv'
<1>1. PICK d \in Typed : row' = [row EXCEPT ![a].dest = d]
  BY DEF Edit
<1>2. UNCHANGED <<mounts, page, transfer, prover, jobs, derived, bal, deployed, announced, mined, pool>>
  BY DEF Edit, chain
<1> DEFINE r == [row[a] EXCEPT !.dest = d]
<1>3. row[a] \in RowStates /\ RowFits(a, row[a])
  BY <1>2, RowAt DEF RowFits
<1>4. d \notin Accounts /\ d \in Destinations
  BY PagesAssumption DEF Destinations
<1>5. RowFits(a, r)
  BY <1>3, <1>4 DEF RowStates, RowFits
<1>6. row' = [row EXCEPT ![a] = r]
  BY <1>1
<1>7. RowsKept
  <2> HIDE DEF r
  <2> QED
    BY <1>2, <1>5, <1>6, RowSet
<1> QED
  BY <1>2, <1>7, JobsSame, PageStays, ProverStays, DerivedSame, TransferTyped, KeptKeeps

LEMMA FillFreshKeeps == ASSUME IInv, NEW a \in PqAccounts, FillFresh(a) PROVE IInv'
<1>1. UNCHANGED <<mounts, page, transfer, prover, jobs, bal, deployed, announced, mined, pool>>
  BY DEF FillFresh, chain
<1>2. a \in Accounts /\ a \notin ZkAccounts
  BY PagesAssumption DEF Accounts
<1>3. derived \subseteq derived' /\ derived' \subseteq Accounts
  BY DEF FillFresh, IInv, FreshDerived, Accounts
<1>4. row[a] \in RowStates /\ RowFits(a, row[a])
  BY <1>2, <1>3, RowAt DEF RowFits
<1>5. PICK r : row' = [row EXCEPT ![a] = r] /\ RowFits(a, r)
  <2>1. CASE \E b \in BOOLEAN : row' = [row EXCEPT ![a].deriving = b]
    <3>1. PICK b \in BOOLEAN : row' = [row EXCEPT ![a].deriving = b]
      BY <2>1
    <3>2. RowFits(a, [row[a] EXCEPT !.deriving = b])
      BY <1>2, <1>4 DEF RowStates, RowFits
    <3> QED
      BY <3>1, <3>2
  <2>2. CASE \E f \in PqAccounts \ derived : row' = [row EXCEPT ![a] = Filled(@, f)] /\ derived' = derived \cup {f}
    <3>1. PICK f \in PqAccounts : row' = [row EXCEPT ![a] = Filled(@, f)] /\ derived' = derived \cup {f}
      BY <2>2
    <3>2. f \in Destinations
      BY DEF Destinations, Accounts
    <3>3. RowFits(a, [row[a] EXCEPT !.deriving = FALSE, !.fresh = f, !.dest = f])
      BY <1>2, <1>4, <3>1, <3>2 DEF RowStates, RowFits
    <3> QED
      BY <3>1, <3>3 DEF Filled
  <2> QED
    BY <2>1, <2>2 DEF FillFresh
<1>6. RowsKept
  BY <1>2, <1>3, <1>5, RowSet
<1> QED
  BY <1>1, <1>3, <1>6, JobsSame, PageStays, ProverStays, TransferTyped, KeptKeeps

(* A click starts a job. *)
LEMMA JobStarts ==
  ASSUME IInv, NEW r \in Job, jobs' = Append(jobs, r), ~Proving(r), r.fresh \in derived \cup {None},
         \A j : r.pc # "send" => Fits(j, r, deployed, Succeeded), r.pc # "send",
         mounts' = mounts, prover' = prover, derived' = derived
  PROVE  JobsKept /\ ProverKept
<1>1. /\ jobs' \in Seq(Job) /\ DOMAIN jobs' = DOMAIN jobs \cup {Len(jobs) + 1}
      /\ Len(jobs) + 1 \notin DOMAIN jobs /\ jobs'[Len(jobs) + 1] = r
      /\ \A k \in DOMAIN jobs : jobs'[k] = jobs[k]
  BY SeqAppend DEF IInv, WellTyped
<1>2. \A k \in DOMAIN jobs : jobs[k].fresh \in derived \cup {None} /\ Fits(k, jobs[k], deployed, Succeeded)
  BY JobAt
<1>3. JobsKept
  BY <1>1, <1>2, DerivedSame DEF JobsKept, Advances
<1>4. {k \in DOMAIN jobs' : Proving(jobs'[k])} = {k \in DOMAIN jobs : Proving(jobs[k])}
  BY <1>1
<1>5. \A k \in DOMAIN jobs : Live(k)' <=> Live(k)
  BY <1>1 DEF Live
<1>6. ProverFits'
  BY <1>4, <1>5 DEF IInv, ProverFits
<1> QED
  BY <1>3, <1>6 DEF ProverKept, IInv, WellTyped

LEMMA Started ==
  ASSUME IInv, NEW kind, NEW p, NEW a, NEW dest, NEW fresh, NEW dep, NEW pc,
         Start(kind, p, a, dest, fresh, dep, pc),
         kind \in Pages \cup {"receive", "transfer"}, p \in Pages \cup {None}, a \in Accounts \cup {None},
         dest \in Destinations, fresh \in Accounts \cup {None}, dep \in BOOLEAN, pc \in {"prepare", "fees"}
  PROVE  \E r \in Job : /\ jobs' = Append(jobs, r) /\ r.kind = kind /\ r.page = p /\ r.acct = a
                        /\ r.dest = dest /\ r.fresh = fresh /\ r.dep = dep /\ r.pc = pc
<1> DEFINE r == [kind |-> kind, page |-> p, mount |-> mounts, acct |-> a, dest |-> dest,
                 fresh |-> fresh, dep |-> dep, nonce |-> 0, tries |-> 0, pc |-> pc, proof |-> None]
<1>1. mounts \in 0..MaxMounts /\ 0 \in 0..Attempts
  BY TransferTyped, PagesAssumption
<1>2. r \in Job
  BY <1>1 DEF Job, Destinations
<1>3. jobs' = Append(jobs, r)
  BY DEF Start
<1> QED
  BY <1>2, <1>3

LEMMA ReceiveClickKeeps == ASSUME IInv, NEW p \in Pages, ReceiveClick(p) PROVE IInv'
<1>1. UNCHANGED <<mounts, row, transfer, prover, derived, bal, deployed, announced, mined, pool>>
  BY DEF ReceiveClick, chain
<1>2. PICK r \in Job : /\ jobs' = Append(jobs, r) /\ r.kind = "receive" /\ r.page = p
                       /\ r.fresh = None /\ r.dep = FALSE /\ r.pc = "prepare"
  <2> DEFINE no == FALSE
  <2>1. Start("receive", p, None, None, None, no, "prepare") /\ no \in BOOLEAN
    BY DEF ReceiveClick
  <2>2. None \in Destinations
    BY DEF Destinations
  <2>3. no = FALSE
    OBVIOUS
  <2> HIDE DEF no
  <2> QED
    BY <2>1, <2>2, <2>3, Started
<1>3. \A j : Fits(j, r, deployed, Succeeded)
  BY <1>2 DEF Fits, Pages
<1>4. JobsKept /\ ProverKept
  BY <1>1, <1>2, <1>3, JobStarts DEF Proving
<1>5. page' = [page EXCEPT ![p] = [page[p] EXCEPT !.busy = "receive"]]
  BY DEF ReceiveClick
<1>6. PageKept
  BY <1>5, BusySet, PageSet DEF PageKept
<1> QED
  BY <1>1, <1>4, <1>6, RowsSame, DerivedSame, TransferTyped, KeptKeeps

LEMMA TransferClickKeeps == ASSUME IInv, TransferClick PROVE IInv'
<1>1. UNCHANGED <<mounts, page, row, prover, derived, bal, deployed, announced, mined, pool>>
  BY DEF TransferClick, chain
<1>2. PICK r \in Job : /\ jobs' = Append(jobs, r) /\ r.kind = "transfer"
                       /\ r.fresh = None /\ r.dep = FALSE /\ r.pc = "prepare"
  <2> DEFINE no == FALSE
  <2>1. Start("transfer", None, None, None, None, no, "prepare") /\ no \in BOOLEAN
    BY DEF TransferClick
  <2>2. None \in Destinations
    BY DEF Destinations
  <2>3. no = FALSE
    OBVIOUS
  <2> HIDE DEF no
  <2> QED
    BY <2>1, <2>2, <2>3, Started
<1>3. \A j : Fits(j, r, deployed, Succeeded)
  BY <1>2 DEF Fits, Pages
<1>4. JobsKept /\ ProverKept
  BY <1>1, <1>2, <1>3, JobStarts DEF Proving
<1>5. transfer' \in TransferStates
  BY DEF TransferClick, TransferStates
<1> QED
  BY <1>1, <1>4, <1>5, PageStays, RowsSame, DerivedSame, TransferTyped, KeptKeeps

LEMMA SpendClickKeeps ==
  ASSUME IInv, NEW p \in Pages, NEW a \in Accounts, NEW fresh, SpendClick(p, a, fresh),
         fresh \in {row[a].fresh, None}, fresh \in {row[a].dest, None}, p = "zk" => fresh = None,
         p = "pq" /\ row[a].dest \in Accounts => fresh = row[a].dest
  PROVE  IInv'
<1>1. UNCHANGED <<mounts, page, transfer, prover, derived, bal, deployed, announced, mined, pool>>
  BY DEF SpendClick, chain
<1>2. a \in DOMAIN page[p].hits /\ row[a].dest # None
  BY DEF SpendClick, Shows
<1>3. row[a] \in RowStates /\ RowFits(a, row[a]) /\ row[a].fresh \in derived \cup {None}
  BY <1>1, RowAt DEF RowFits
<1>4. RowsKept
  <2> DEFINE r == [row[a] EXCEPT !.outcome = None]
  <2>1. RowFits(a, r)
    BY <1>3 DEF RowStates, RowFits
  <2>2. row' = [row EXCEPT ![a] = r]
    BY DEF SpendClick
  <2> HIDE DEF r
  <2> QED
    BY <1>1, <2>1, <2>2, RowSet
<1>5. JobsKept /\ ProverKept
  <2>1. CASE jobs' = jobs
    BY <1>1, <2>1, JobsSame, ProverStays, DerivedSame
  <2>2. CASE Start(p, p, a, row[a].dest, fresh, page[p].hits[a].dep, "fees")
    <3>1. page[p] \in PageStates /\ DOMAIN page[p].hits \subseteq OfPage(p)
      BY DEF IInv, WellTyped, UiTyped
    <3>2. page[p].hits[a].dep \in BOOLEAN
      BY <1>2, <3>1 DEF PageStates
    <3>3. fresh \in Accounts \cup {None} /\ fresh \in derived \cup {None}
      BY <1>3 DEF RowStates, Accounts
    <3>4. row[a].dest \in Destinations
      BY <1>3 DEF RowStates
    <3>5. PICK r \in Job : /\ jobs' = Append(jobs, r) /\ r.kind = p /\ r.page = p /\ r.acct = a
                           /\ r.dest = row[a].dest /\ r.fresh = fresh /\ r.dep = page[p].hits[a].dep
                           /\ r.pc = "fees"
      BY <2>2, <3>2, <3>3, <3>4, Started
    <3>6. r.dep => a \in deployed
      BY <1>2, <3>5 DEF IInv, HitsFit
    <3>7. p = "zk" => row[a].dest \notin Accounts
      <4>1. p = "zk" => a \in ZkAccounts
        BY <1>2, <3>1 DEF OfPage
      <4> QED
        BY <1>3, <4>1 DEF RowFits
    <3>8. \A j : Fits(j, r, deployed, Succeeded)
      BY <1>2, <3>1, <3>5, <3>6, <3>7 DEF Fits, Pages
    <3> QED
      BY <1>1, <3>3, <3>5, <3>8, JobStarts DEF Proving
  <2> QED
    BY <2>1, <2>2 DEF SpendClick
<1> QED
  BY <1>1, <1>4, <1>5, PageStays, TransferTyped, KeptKeeps

LEMMA SpendsKeep ==
  ASSUME IInv, NEW a \in Accounts, PqSpendClick(a) \/ ZkSpendClick(a)
  PROVE  IInv'
<1>1. row[a].dest \in Accounts => row[a].fresh = row[a].dest
  BY DEF IInv, RowsFit
<1>2. CASE PqSpendClick(a)
  <2> DEFINE f == IF row[a].fresh = row[a].dest THEN row[a].fresh ELSE None
  <2>1. f \in {row[a].fresh, None} /\ f \in {row[a].dest, None} /\ (row[a].dest \in Accounts => f = row[a].dest)
    BY <1>1
  <2>2. SpendClick("pq", a, f)
    BY <1>2 DEF PqSpendClick
  <2> HIDE DEF f
  <2> QED
    BY <2>1, <2>2, SpendClickKeeps DEF Pages
<1>3. CASE ZkSpendClick(a)
  BY <1>3, SpendClickKeeps DEF ZkSpendClick, Pages
<1> QED
  BY <1>2, <1>3

(* The pending proofs of S end without an answer. *)
LEMMA ProofsEnd ==
  ASSUME IInv, NEW S, S \subseteq prover.pending, NEW c \in {"lost", "failed"},
         jobs' \in Seq(Job), DOMAIN jobs' = DOMAIN jobs, derived' = derived,
         \A k \in DOMAIN jobs : jobs'[k] = IF k \in S THEN [jobs[k] EXCEPT !.pc = c] ELSE jobs[k]
  PROVE  /\ JobsKept
         /\ {k \in DOMAIN jobs' : Proving(jobs'[k])} = prover.pending \ S
         /\ \A k \in DOMAIN jobs : jobs'[k].mount = jobs[k].mount
<1>1. prover.pending = {k \in DOMAIN jobs : Proving(jobs[k])}
  BY DEF IInv, ProverFits
<1>2. \A k \in DOMAIN jobs : jobs[k] \in Job /\ Fits(k, jobs[k], deployed, Succeeded) /\ jobs[k].fresh \in derived \cup {None}
  BY JobAt
<1>3. ASSUME NEW k \in DOMAIN jobs
      PROVE  /\ Advances(jobs[k], jobs'[k]) /\ Fits(k, jobs'[k], deployed, Succeeded)
             /\ jobs'[k].fresh \in derived \cup {None}
             /\ jobs'[k].mount = jobs[k].mount
             /\ Proving(jobs'[k]) <=> k \in prover.pending \ S
  <2>1. CASE k \notin S
    <3>1. jobs'[k] = jobs[k]
      BY <2>1
    <3> QED
      BY <1>1, <1>2, <2>1, <3>1 DEF Advances
  <2>2. CASE k \in S
    <3>1. Proving(jobs[k])
      BY <1>1, <2>2
    <3>2. jobs'[k] = [jobs[k] EXCEPT !.pc = c]
      BY <2>2
    <3>3. SameClick(jobs[k], jobs'[k]) /\ jobs'[k].pc = c
      BY <1>2, <3>2 DEF Job, SameClick
    <3>4. Fits(k, jobs'[k], deployed, Succeeded)
      BY <1>2, <3>1, <3>3 DEF Fits, SameClick, Proving, Pages
    <3>5. Advances(jobs[k], jobs'[k])
      BY <3>1, <3>3 DEF Advances, SameClick, Proving, Sent
    <3>6. ~Proving(jobs'[k]) /\ jobs'[k].fresh \in derived \cup {None} /\ jobs'[k].mount = jobs[k].mount
      BY <1>2, <3>3 DEF Proving, SameClick
    <3> QED
      BY <2>2, <3>4, <3>5, <3>6
  <2> QED
    BY <2>1, <2>2
<1>4. JobsKept
  BY <1>3, DerivedSame DEF JobsKept
<1>5. {k \in DOMAIN jobs' : Proving(jobs'[k])} = prover.pending \ S
  BY <1>1, <1>3
<1> QED
  BY <1>3, <1>4, <1>5

LEMMA ThrowUi ==
  ASSUME IInv, NEW S, S \subseteq DOMAIN jobs, ThrowAll(S), derived' = derived
  PROVE  RowsKept /\ PageKept /\ transfer' \in TransferStates
<1>1. /\ row' \in [Accounts -> RowStates]
      /\ \A a \in Accounts : \E b \in BOOLEAN : row'[a] = [row[a] EXCEPT !.step = b]
      /\ page' \in [Pages -> PageStates]
      /\ \A p \in Pages : page'[p].hits = page[p].hits
      /\ transfer' \in TransferStates
  BY ThrowEffect DEF IInv
<1>2. \A a \in Accounts : /\ row'[a].dest = row[a].dest /\ row'[a].fresh = row[a].fresh
                          /\ row'[a].deriving = row[a].deriving /\ row'[a].outcome = row[a].outcome
  <2>1. \A a \in Accounts : row[a] \in RowStates
    BY DEF IInv, WellTyped, UiTyped
  <2> QED
    BY <1>1, <2>1 DEF RowStates
<1>3. \A a \in Accounts : row[a].fresh \in derived' \cup {None}
  BY DEF IInv, FreshDerived
<1>4. RowsFit'
  BY <1>2 DEF IInv, RowsFit
<1> QED
  BY <1>1, <1>2, <1>3, <1>4 DEF RowsKept, PageKept

(* The mounted page is the one of every pending proof, before and after. *)
LEMMA ProofsLive ==
  ASSUME IInv, NEW S, prover' \in ProverStates, prover'.pending = prover.pending \ S,
         prover'.holds = prover.pending \ S,
         {k \in DOMAIN jobs' : Proving(jobs'[k])} = prover.pending \ S,
         \A k \in DOMAIN jobs : jobs'[k].mount = jobs[k].mount, mounts' = mounts
  PROVE  ProverKept
<1>1. \A k \in prover.pending : k \in DOMAIN jobs /\ Live(k)
  BY DEF IInv, ProverFits
<1>2. \A k \in prover'.pending : Live(k)'
  BY <1>1 DEF Live
<1> QED
  BY <1>2 DEF ProverKept, ProverFits

LEMMA OpenTabKeeps == ASSUME IInv, NEW t, OpenTab(t) PROVE IInv'
<1>1. UNCHANGED <<derived, bal, deployed, announced, mined, pool>>
  BY DEF OpenTab, chain
<1>2. mounts' \in 0..MaxMounts
  BY TransferTyped, PagesAssumption DEF OpenTab
<1>3. /\ DOMAIN jobs' = DOMAIN jobs
      /\ \A k \in DOMAIN jobs :
           jobs'[k] = IF k \in prover.pending THEN [jobs[k] EXCEPT !.pc = "lost"] ELSE jobs[k]
  BY DEF OpenTab
<1>4. jobs' \in Seq(Job)
  <2>1. jobs' = [k \in DOMAIN jobs |-> jobs'[k]]
    BY DEF OpenTab
  <2>2. \A k \in DOMAIN jobs : [jobs[k] EXCEPT !.pc = "lost"] \in Job /\ jobs[k] \in Job
    BY JobAt DEF Job
  <2>3. \A k \in DOMAIN jobs : jobs'[k] \in Job
    BY <1>3, <2>2
  <2> QED
    BY <1>3, <2>1, <2>3, SeqMap DEF IInv, WellTyped
<1>5. JobsKept /\ {k \in DOMAIN jobs' : Proving(jobs'[k])} = {}
  <2>1. /\ JobsKept
        /\ {k \in DOMAIN jobs' : Proving(jobs'[k])} = prover.pending \ prover.pending
    BY <1>1, <1>3, <1>4, ProofsEnd
  <2> QED
    BY <2>1
<1>6. ProverKept
  <2>1. prover' = [state |-> "new", pending |-> {}, holds |-> {}]
    BY DEF OpenTab, FreshProver
  <2>2. prover' \in ProverStates /\ prover'.pending = {} /\ prover'.holds = {}
    BY <2>1 DEF ProverStates
  <2> QED
    BY <1>5, <2>2 DEF ProverKept, ProverFits
<1>7. RowsKept
  <2>1. FreshRow \in RowStates /\ FreshRow.outcome = None /\ FreshRow.fresh = None /\ FreshRow.dest = None
        /\ ~FreshRow.deriving
    BY DEF FreshRow, RowStates, Destinations
  <2>2. row' = [a \in Accounts |-> FreshRow] /\ None \notin Accounts
    BY PagesAssumption DEF OpenTab
  <2> QED
    BY <2>1, <2>2 DEF RowsKept, RowsFit
<1>8. PageKept
  <2>1. FreshPage \in PageStates /\ FreshPage.hits = <<>>
    <3>1. DOMAIN <<>> = {} /\ <<>> \in [{} -> [bal : Nat, dep : BOOLEAN]]
      OBVIOUS
    <3> QED
      BY <3>1 DEF FreshPage, PageStates
  <2>2. page' = [p \in Pages |-> FreshPage]
    BY DEF OpenTab
  <2> QED
    BY <2>1, <2>2 DEF PageKept
<1>9. transfer' \in TransferStates
  BY DEF OpenTab, FreshTransfer, TransferStates
<1> QED
  BY <1>1, <1>2, <1>5, <1>6, <1>7, <1>8, <1>9, KeptKeeps

LEMMA LoadCircuitKeeps == ASSUME IInv, LoadCircuit PROVE IInv'
<1>1. UNCHANGED <<mounts, page, row, transfer, jobs, derived, bal, deployed, announced, mined, pool>>
  BY DEF LoadCircuit, chain, ui
<1>2. PICK s \in {"ok", "broken"} : prover' = [prover EXCEPT !.state = s]
  BY DEF LoadCircuit
<1>3. prover' \in ProverStates /\ prover'.pending = prover.pending /\ prover'.holds = prover.holds
      /\ prover'.state # "dead"
  BY <1>2 DEF IInv, WellTyped, ProverStates
<1>4. prover.state # "dead"
  BY DEF LoadCircuit
<1>5. ProverKept
  BY <1>1, <1>3, <1>4 DEF IInv, ProverFits, ProverKept, Live
<1> QED
  BY <1>1, <1>5, JobsSame, RowsSame, PageStays, DerivedSame, TransferTyped, KeptKeeps

LEMMA ProofsThrown ==
  ASSUME IInv, NEW S, S \subseteq prover.pending, ThrowAll(S), prover' \in ProverStates,
         prover'.pending = prover.pending \ S, prover'.holds = prover.pending \ S,
         UNCHANGED <<mounts, derived, bal, deployed, announced, mined, pool>>
  PROVE  IInv'
<1>1. S \subseteq DOMAIN jobs
  BY DEF IInv, ProverFits
<1>2. /\ jobs' \in Seq(Job) /\ DOMAIN jobs' = DOMAIN jobs
      /\ \A k \in DOMAIN jobs : jobs'[k] = IF k \in S THEN [jobs[k] EXCEPT !.pc = "failed"] ELSE jobs[k]
  BY <1>1, ThrowEffect DEF IInv
<1>3. /\ JobsKept
      /\ {k \in DOMAIN jobs' : Proving(jobs'[k])} = prover.pending \ S
      /\ \A k \in DOMAIN jobs : jobs'[k].mount = jobs[k].mount
  BY <1>2, ProofsEnd
<1>4. ProverKept
  BY <1>3, ProofsLive
<1> QED
  BY <1>1, <1>3, <1>4, ThrowUi, TransferTyped, KeptKeeps

LEMMA WorkerErrorKeeps == ASSUME IInv, WorkerError PROVE IInv'
<1>1. prover' \in ProverStates /\ prover'.pending = {} /\ prover'.holds = {}
  BY DEF WorkerError, ProverStates
<1>2. ThrowAll(prover.pending) /\ UNCHANGED <<mounts, derived, bal, deployed, announced, mined, pool>>
  BY DEF WorkerError, Rejected, chain
<1>3. prover.pending \ prover.pending = {}
  OBVIOUS
<1> QED
  BY <1>1, <1>2, <1>3, ProofsThrown

LEMMA SettledTyped ==
  ASSUME IInv, NEW id \in prover.holds, prover' = Settled(id), prover.state # "dead"
  PROVE  /\ prover' \in ProverStates /\ prover'.state # "dead"
         /\ prover'.pending = prover.pending \ {id} /\ prover'.holds = prover.pending \ {id}
<1>1. prover \in ProverStates /\ prover.holds = prover.pending
  BY DEF IInv, WellTyped, ProverFits
<1>2. prover' = [prover EXCEPT !.pending = @ \ {id}, !.holds = @ \ {id}]
  BY DEF Settled, AnswerTo
<1> QED
  BY <1>1, <1>2 DEF ProverStates

LEMMA AnswerErrorKeeps == ASSUME IInv, NEW id \in prover.holds, AnswerError(id) PROVE IInv'
<1>1. /\ prover' \in ProverStates /\ prover'.state # "dead"
      /\ prover'.pending = prover.pending \ {id} /\ prover'.holds = prover.pending \ {id}
  BY SettledTyped DEF AnswerError
<1>2. ThrowAll({id}) /\ UNCHANGED <<mounts, derived, bal, deployed, announced, mined, pool>>
  BY DEF AnswerError, AnswerTo, chain
<1>3. {id} \subseteq prover.pending
  BY DEF IInv, ProverFits
<1> QED
  BY <1>1, <1>2, <1>3, ProofsThrown

LEMMA AnswerKeeps == ASSUME IInv, NEW id \in prover.holds, Answer(id) PROVE IInv'
<1>1. /\ prover' \in ProverStates /\ prover'.state # "dead"
      /\ prover'.pending = prover.pending \ {id} /\ prover'.holds = prover.pending \ {id}
  BY SettledTyped DEF Answer
<1>2. UNCHANGED <<mounts, page, row, transfer, derived, bal, deployed, announced, mined, pool>>
  BY DEF Answer, chain, ui
<1>3. /\ id \in DOMAIN jobs /\ Proving(jobs[id])
      /\ prover.pending = {k \in DOMAIN jobs : Proving(jobs[k])}
  BY DEF IInv, ProverFits
<1>4. jobs[id] \in Job /\ id \in Nat /\ Fits(id, jobs[id], deployed, Succeeded)
  BY <1>3, JobAt
<1> DEFINE r == [jobs[id] EXCEPT !.pc = "send", !.proof = id]
<1>5. r \in Job /\ SameClick(jobs[id], r) /\ r.pc = "send" /\ r.proof = id
  BY <1>4 DEF Job, SameClick
<1>6. jobs' = [jobs EXCEPT ![id] = r]
  BY DEF Answer, AnswerTo
<1>7. Fits(id, r, deployed, Succeeded)
  BY <1>3, <1>4, <1>5 DEF Fits, SameClick, Proving, Pages
<1>8. jobs[id].pc \notin Sent
  BY <1>3 DEF Proving, Sent
<1> HIDE DEF r
<1>9. EffJobs(id) /\ jobs'[id] = r
  BY <1>2, <1>3, <1>5, <1>6, <1>7, <1>8, JobPc
<1>10. /\ jobs' \in Seq(Job) /\ DOMAIN jobs' = DOMAIN jobs
       /\ \A k \in DOMAIN jobs \ {id} : jobs'[k] = jobs[k]
       /\ Advances(jobs[id], jobs'[id]) /\ Fits(id, jobs'[id], deployed, Succeeded)
       /\ jobs'[id].fresh \in derived' \cup {None}
  BY <1>9 DEF EffJobs
<1>11. \A k \in DOMAIN jobs : jobs[k].fresh \in derived \cup {None} /\ Fits(k, jobs[k], deployed, Succeeded)
  BY JobAt
<1>12. JobsKept
  BY <1>2, <1>10, <1>11, DerivedSame DEF JobsKept, Advances
<1>13. {k \in DOMAIN jobs' : Proving(jobs'[k])} = prover.pending \ {id}
  BY <1>3, <1>5, <1>9, <1>10 DEF Proving
<1>14. ProverKept
  BY <1>1, <1>2, <1>5, <1>9, <1>10, <1>13, ProofsLive DEF SameClick
<1> QED
  BY <1>2, <1>12, <1>14, RowsSame, PageStays, DerivedSame, TransferTyped, KeptKeeps
-----------------------------------------------------------------------------
(* A transaction is mined. *)

(* What the frames that succeed do to the chain *)
Effects(t, done, moved) ==
  /\ mined' = Append(mined, [tx |-> t, ok |-> done = Frames(t), moved |-> moved])
  /\ moved => t.kind \in {"pay", "spend"}
  /\ t.kind = "spend" /\ done = Frames(t) => moved
  /\ bal' \in [Accounts -> Nat]
  /\ \A a \in Accounts : bal'[a] > 0 => bal[a] > 0 \/ (moved /\ a = t.dest)
  /\ deployed' = IF "deploy" \in done THEN deployed \cup {t.acct} ELSE deployed
  /\ announced' = IF "announce" \in done THEN announced \cup {t.announces} ELSE announced

LEMMA FrameFacts ==
  ASSUME NEW t
  PROVE  /\ "deploy" \in Frames(t) <=> t.deploys
         /\ "announce" \in Frames(t) <=> t.announces # None
         /\ "money" \in Frames(t) <=> t.kind # "deploy"
  BY DEF Frames

LEMMA MinedEffect ==
  ASSUME IInv, NEW t \in pool, Mine(t)
  PROVE  /\ \E done \in SUBSET Frames(t), moved \in BOOLEAN : Effects(t, done, moved)
         /\ t.nonce = Len(mined) /\ pool' = pool \ {t}
         /\ UNCHANGED <<mounts, page, row, transfer, prover, jobs, derived>>
<1>1. t \in Txs /\ TxFits(t, jobs, deployed) /\ bal \in [Accounts -> Nat]
  BY DEF IInv, WellTyped, ChainTyped, TxsFit, Accepted
<1>2. t.nonce = Len(mined) /\ pool' = pool \ {t} /\ UNCHANGED <<mounts, page, row, transfer, prover, jobs, derived>>
  BY DEF Mine, ui
<1>3. t.kind = "spend" => t.acct \in Accounts
  <2>1. SUFFICES ASSUME t.kind = "spend" PROVE t.acct \in Accounts
    OBVIOUS
  <2>2. t.job \in DOMAIN jobs /\ t.acct = jobs[t.job].acct /\ jobs[t.job].kind \in Pages
    BY <1>1, <2>1 DEF TxFits
  <2>3. jobs[t.job].acct \in OfPage(jobs[t.job].kind)
    BY <2>2, JobAt DEF Fits
  <2> QED
    BY <2>2, <2>3 DEF OfPage, Accounts
<1> DEFINE code(done) == IF "deploy" \in done THEN deployed \cup {t.acct} ELSE deployed
           spends(done) == t.kind = "spend" /\ "money" \in done /\ t.acct \in code(done)
           moves(done) == spends(done) \/ (t.kind = "pay" /\ "money" \in done)
           b(done) == IF spends(done) THEN [bal EXCEPT ![t.acct] = @ - 1] ELSE bal
           c(done) == IF moves(done) /\ t.dest \in Accounts THEN [b(done) EXCEPT ![t.dest] = @ + 1] ELSE b(done)
<1>4. PICK done \in SUBSET Frames(t) :
        /\ spends(done) => bal[t.acct] > 0
        /\ mined' = Append(mined, [tx |-> t, ok |-> done = Frames(t), moved |-> moves(done)])
        /\ bal' = c(done)
        /\ deployed' = code(done)
        /\ announced' = IF "announce" \in done THEN announced \cup {t.announces} ELSE announced
  BY DEF Mine
<1>5. moves(done) => t.kind \in {"pay", "spend"}
  OBVIOUS
<1>6. ASSUME t.kind = "spend", done = Frames(t) PROVE moves(done)
  <2>1. t.deploys \/ t.acct \in deployed
    BY <1>1, <1>6 DEF TxFits
  <2>2. t.acct \in code(done) /\ "money" \in done
    BY <1>6, <2>1, FrameFacts
  <2> QED
    BY <1>6, <2>2
<1>7. /\ bal' \in [Accounts -> Nat]
      /\ \A a \in Accounts : bal'[a] > 0 => bal[a] > 0 \/ (moves(done) /\ a = t.dest)
  <2> HIDE DEF moves
  <2>1. b(done) \in [Accounts -> Nat] /\ \A a \in Accounts : b(done)[a] > 0 => bal[a] > 0
    <3>1. CASE spends(done)
      <4>1. t.acct \in Accounts /\ bal[t.acct] > 0 /\ b(done) = [bal EXCEPT ![t.acct] = @ - 1]
        BY <1>3, <1>4, <3>1
      <4> HIDE DEF b, spends
      <4> QED
        BY <1>1, <4>1
    <3>2. CASE ~spends(done)
      <4>1. b(done) = bal
        BY <3>2
      <4> QED
        BY <1>1, <4>1
    <3> QED
      BY <3>1, <3>2
  <2> HIDE DEF b, spends
  <2>2. CASE moves(done) /\ t.dest \in Accounts
    <3>1. c(done) = [b(done) EXCEPT ![t.dest] = @ + 1]
      BY <2>2
    <3> HIDE DEF c
    <3>2. \A a \in Accounts : c(done)[a] = IF a = t.dest THEN b(done)[a] + 1 ELSE b(done)[a]
      BY <2>1, <3>1
    <3>3. c(done) \in [Accounts -> Nat]
      BY <2>1, <2>2, <3>1
    <3> QED
      BY <1>4, <2>1, <2>2, <3>2, <3>3
  <2>3. CASE ~(moves(done) /\ t.dest \in Accounts)
    BY <1>4, <2>1, <2>3
  <2> QED
    BY <2>2, <2>3
<1>8. PICK moved \in BOOLEAN : moved = moves(done)
  OBVIOUS
<1> HIDE DEF moves, c
<1>9. Effects(t, done, moved)
  BY <1>4, <1>5, <1>6, <1>7, <1>8 DEF Effects
<1> QED
  BY <1>2, <1>9

(* The money a transaction moves to a stealth account, it has a frame to announce. *)
LEMMA PaidAnnounced ==
  ASSUME IInv, NEW t \in pool, t.kind \in {"pay", "spend"}, t.dest \in Accounts
  PROVE  t.announces = t.dest
<1>1. TxFits(t, jobs, deployed)
  BY DEF IInv, TxsFit, Accepted
<1>2. CASE t.kind = "pay"
  BY <1>1, <1>2 DEF TxFits
<1>3. CASE t.kind = "spend"
  <2>1. /\ t.job \in DOMAIN jobs /\ jobs[t.job].kind \in Pages
        /\ t.dest = jobs[t.job].dest /\ t.announces = jobs[t.job].fresh
    BY <1>1, <1>3 DEF TxFits
  <2>2. Fits(t.job, jobs[t.job], deployed, Succeeded)
    BY <2>1, JobAt
  <2> QED
    BY <2>1, <2>2 DEF Fits, Pages
<1> QED
  BY <1>2, <1>3

LEMMA FitsStays ==
  ASSUME NEW j, NEW r, NEW dep, NEW dep2, NEW done, NEW done2,
         Fits(j, r, dep, done), dep \subseteq dep2, done \subseteq done2
  PROVE  Fits(j, r, dep2, done2)
  BY DEF Fits

LEMMA MineKeeps == ASSUME IInv, NEW t \in pool, Mine(t) PROVE IInv'
<1>1. /\ t.nonce = Len(mined) /\ pool' = pool \ {t}
      /\ UNCHANGED <<mounts, page, row, transfer, prover, jobs, derived>>
  BY MinedEffect
<1>2. t \in Txs /\ TxFits(t, jobs, deployed) /\ t \in Accepted /\ t.announces \in derived \cup {None}
  BY DEF IInv, WellTyped, ChainTyped, TxsFit, Accepted, FreshDerived
<1>0. PICK done \in SUBSET Frames(t), moved \in BOOLEAN : Effects(t, done, moved)
  BY MinedEffect
<1>3. PICK m \in Mined : mined' = Append(mined, m) /\ m.tx = t /\ m.moved = moved /\ (m.ok <=> done = Frames(t))
  <2>1. PICK ok \in BOOLEAN : ok = (done = Frames(t))
    OBVIOUS
  <2> DEFINE m == [tx |-> t, ok |-> ok, moved |-> moved]
  <2>2. m \in Mined /\ m.tx = t /\ m.moved = moved /\ m.ok = ok
    BY <1>2 DEF Mined
  <2>3. mined' = Append(mined, m)
    BY <1>0, <2>1 DEF Effects
  <2> HIDE DEF m
  <2> QED
    BY <2>1, <2>2, <2>3
<1>4. mined \in Seq(Mined)
  BY DEF IInv, WellTyped, ChainTyped
<1>5. /\ mined' \in Seq(Mined) /\ Len(mined') = Len(mined) + 1
      /\ DOMAIN mined' = DOMAIN mined \cup {Len(mined) + 1} /\ mined'[Len(mined) + 1] = m
      /\ \A k \in DOMAIN mined : mined'[k] = mined[k]
      /\ Range(mined') = Range(mined) \cup {m}
  BY <1>3, <1>4, SeqAppend, RangeAppend
<1>6. Accepted' = Accepted
  BY <1>1, <1>3, <1>5 DEF Accepted
<1>7. deployed \subseteq deployed' /\ deployed' \subseteq Accounts
  <2>1. "deploy" \in done => t.acct \in Accounts
    <3>1. t.kind = "spend" => t.job \in DOMAIN jobs /\ t.acct = jobs[t.job].acct /\ jobs[t.job].kind \in Pages
      BY <1>2 DEF TxFits
    <3>2. t.kind = "spend" => t.acct \in OfPage(jobs[t.job].kind)
      BY <3>1, JobAt DEF Fits
    <3>3. t.kind \in {"spend", "pay", "transfer", "deploy"}
      BY <1>2 DEF Txs
    <3>4. "deploy" \in done => t.deploys
      BY FrameFacts
    <3> QED
      BY <1>2, <3>2, <3>3, <3>4 DEF OfPage, Accounts, TxFits
  <2> QED
    BY <1>0, <2>1 DEF Effects, IInv, WellTyped, ChainTyped
<1>8. /\ announced \subseteq announced' /\ announced' \subseteq derived'
      /\ "announce" \in done => t.announces \in announced'
  <2>1. "announce" \in done => t.announces # None
    BY FrameFacts
  <2> QED
    BY <1>0, <1>1, <1>2, <2>1 DEF Effects, IInv, FreshDerived
<1>20. Succeeded \subseteq Succeeded'
  BY <1>5 DEF Succeeded
<1>9. TxsFit'
  <2>1. \A u \in Accepted : TxFits(u, jobs, deployed)
    BY DEF IInv, TxsFit
  <2>2. \A u \in Accepted : TxFits(u, jobs, deployed')
    <3> SUFFICES ASSUME NEW u \in Accepted PROVE TxFits(u, jobs, deployed')
      OBVIOUS
    <3>1. u.job \in DOMAIN jobs /\ Advances(jobs[u.job], jobs[u.job])
      BY <2>1 DEF TxFits, Advances
    <3> QED
      BY <1>7, <2>1, <3>1, TxStays
  <2> QED
    BY <1>1, <1>6, <2>2 DEF TxsFit
<1>10. JobsFit'
  <2>1. \A k \in DOMAIN jobs : Fits(k, jobs[k], deployed', Succeeded')
    BY <1>7, <1>20, JobAt, FitsStays
  <2> QED
    BY <1>1, <2>1 DEF JobsFit
<1>11. NoncesInOrder'
  <2>1. IsFiniteSet(pool) /\ Len(mined) \in Nat /\ Cardinality(pool) \in Nat
    BY PendingNat DEF IInv, NoncesInOrder
  <2>2. IsFiniteSet(pool') /\ Cardinality(pool') = Cardinality(pool) - 1
    BY <1>1, <2>1, FS_RemoveElement
  <2>3. PendingNonce' = PendingNonce
    BY <1>5, <2>1, <2>2 DEF PendingNonce
  <2>4. \A i \in DOMAIN mined' : mined'[i].tx.nonce = i - 1
    <3>1. \A i \in DOMAIN mined : mined[i].tx.nonce = i - 1
      BY DEF IInv, NoncesInOrder
    <3>2. mined'[Len(mined) + 1].tx.nonce = (Len(mined) + 1) - 1
      BY <1>1, <1>3, <1>5, <2>1
    <3> QED
      BY <1>5, <3>1, <3>2
  <2>5. \A u \in pool' : Len(mined') <= u.nonce /\ u.nonce < PendingNonce'
    <3>1. \A u \in pool : Len(mined) <= u.nonce /\ u.nonce < PendingNonce /\ (u.nonce = t.nonce => u = t)
      BY DEF IInv, NoncesInOrder
    <3>2. \A u \in pool : u.nonce \in Nat
      BY AcceptedTyped DEF Txs, Accepted
    <3> QED
      BY <1>1, <1>5, <2>1, <2>3, <3>1, <3>2
  <2>6. \A u, v \in pool' : u.nonce = v.nonce => u = v
    BY <1>1 DEF IInv, NoncesInOrder
  <2> QED
    BY <2>2, <2>4, <2>5, <2>6 DEF NoncesInOrder
<1>12. SentOnce'
  BY <1>6 DEF IInv, SentOnce
<1>13. ReceiptsTrue'
  <2>1. ASSUME m.ok, t.kind = "deploy" PROVE t.acct \in deployed'
    <3>1. "deploy" \in done
      BY <1>2, <1>3, <2>1, FrameFacts DEF TxFits
    <3> QED
      BY <1>0, <3>1 DEF Effects
  <2>2. ASSUME m.ok, t.kind = "spend" PROVE m.moved
    BY <1>0, <1>3, <2>2 DEF Effects
  <2>3. ASSUME m.ok, t.announces # None PROVE t.announces \in announced'
    BY <1>3, <1>8, <2>3, FrameFacts
  <2>4. m.moved => t.kind \in {"pay", "spend"}
    BY <1>0, <1>3 DEF Effects
  <2>5. /\ m.ok /\ m.tx.kind = "deploy" => m.tx.acct \in deployed'
        /\ m.ok /\ m.tx.kind = "spend" => m.moved
        /\ m.ok /\ m.tx.announces # None => m.tx.announces \in announced'
        /\ m.moved => m.tx.kind \in {"pay", "spend"}
    BY <1>3, <2>1, <2>2, <2>3, <2>4
  <2>6. ASSUME NEW n \in Range(mined)
        PROVE  /\ n.ok /\ n.tx.kind = "deploy" => n.tx.acct \in deployed'
               /\ n.ok /\ n.tx.kind = "spend" => n.moved
               /\ n.ok /\ n.tx.announces # None => n.tx.announces \in announced'
               /\ n.moved => n.tx.kind \in {"pay", "spend"}
    BY <1>7, <1>8 DEF IInv, ReceiptsTrue
  <2> QED
    BY <1>5, <2>5, <2>6 DEF ReceiptsTrue
<1>14. HitsFit' /\ page' \in [Pages -> PageStates] /\ \A p \in Pages : DOMAIN page'[p].hits \subseteq OfPage(p)
  BY <1>1, <1>7 DEF IInv, HitsFit, WellTyped, UiTyped
<1>15. OutcomeTrue'
  BY <1>1, <1>5, <1>8, OutcomesKept
<1>16. FundsTraced'
  <2> SUFFICES ASSUME NEW a \in Accounts, a \notin announced', bal'[a] > 0
               PROVE  \E n \in Range(mined') : n.moved /\ n.tx.dest = a /\ ~n.ok
    BY DEF FundsTraced
  <2>1. CASE bal[a] > 0
    BY <1>5, <1>8, <2>1 DEF IInv, FundsTraced
  <2>2. CASE moved /\ a = t.dest
    <3>1. t.announces = a
      BY <1>0, <2>2, PaidAnnounced DEF Effects
    <3>2. "announce" \notin done /\ "announce" \in Frames(t)
      BY <1>8, <3>1, PagesAssumption, FrameFacts
    <3>3. ~m.ok
      BY <1>3, <3>2
    <3> QED
      BY <1>3, <1>5, <2>2, <3>3
  <2> QED
    BY <1>0, <2>1, <2>2 DEF Effects
<1>17. FreshDerived'
  BY <1>1, <1>6, <1>8 DEF IInv, FreshDerived
<1>18. ProverFits' /\ RowsFit'
  BY <1>1 DEF IInv, ProverFits, RowsFit, Live
<1>19. WellTyped'
  <2>1. pool' \in SUBSET Txs
    BY <1>1 DEF IInv, WellTyped, ChainTyped
  <2>2. bal' \in [Accounts -> Nat]
    BY <1>0 DEF Effects
  <2> QED
    BY <1>1, <1>5, <1>7, <2>1, <2>2 DEF IInv, WellTyped, UiTyped, ChainTyped
<1> QED
  BY <1>9, <1>10, <1>11, <1>12, <1>13, <1>14, <1>15, <1>16, <1>17, <1>18, <1>19 DEF IInv
-----------------------------------------------------------------------------
(* The theorems *)

LEMMA StutterKeeps == ASSUME IInv, UNCHANGED vars PROVE IInv'
<1>1. UNCHANGED <<mounts, page, row, transfer, prover, jobs, derived, bal, deployed, announced, mined, pool>>
  BY DEF vars, ui, chain
<1> QED
  BY <1>1, JobsSame, RowsSame, PageStays, ProverStays, DerivedSame, TransferTyped, KeptKeeps

LEMMA InvKept == IInv /\ [Next]_vars => IInv'
<1> SUFFICES ASSUME IInv, [Next]_vars PROVE IInv'
  OBVIOUS
<1>1. ASSUME NEW p \in Pages, Bar(p) PROVE IInv'
  BY <1>1, ScanClickKeeps, ScanEndsKeeps, ReceiveClickKeeps DEF Bar
<1>2. ASSUME NEW a \in PqAccounts, PqRow(a) PROVE IInv'
  BY <1>2, EditKeeps, FillFreshKeeps, SpendsKeep DEF PqRow, Accounts, Pages
<1>3. ASSUME NEW a \in ZkAccounts, ZkRow(a) PROVE IInv'
  BY <1>3, EditKeeps, SpendsKeep DEF ZkRow, Accounts, Pages
<1>4. CASE TransferClick
  BY <1>4, TransferClickKeeps
<1>5. ASSUME NEW t \in Tabs, OpenTab(t) PROVE IInv'
  BY <1>5, OpenTabKeeps
<1>6. ASSUME NEW j \in DOMAIN jobs, Step(j) PROVE IInv'
  BY <1>6, StepEffect, EffectKeeps
<1>7. CASE Worker
  BY <1>7, LoadCircuitKeeps, WorkerErrorKeeps, AnswerKeeps, AnswerErrorKeeps DEF Worker
<1>8. ASSUME NEW t \in pool, Mine(t) PROVE IInv'
  BY <1>8, MineKeeps
<1>9. CASE UNCHANGED vars
  BY <1>9, StutterKeeps
<1> QED
  BY <1>1, <1>2, <1>3, <1>4, <1>5, <1>6, <1>7, <1>8, <1>9 DEF Next, PqBar, ZkBar, Pages

(* The inductive invariant holds in every state the three pages, their        *)
(* worker, the node and the user can reach, for any number of accounts, jobs  *)
(* and mounts.                                                                *)
THEOREM Invariant == Spec => []IInv
<1>1. Init => IInv
  BY InvStart
<1>2. IInv /\ [Next]_vars => IInv'
  BY InvKept
<1> QED
  BY <1>1, <1>2, PTL DEF Spec

(* Every variable of the pages, of the worker and of the node keeps its type. *)
THEOREM TypeCorrect == Spec => []TypeOK
<1>1. IInv => TypeOK
  <2> SUFFICES ASSUME IInv PROVE TypeOK
    OBVIOUS
  <2>1. \A p \in Pages : page[p] \in PageStates /\ DOMAIN page[p].hits \subseteq OfPage(p)
    BY DEF IInv, WellTyped, UiTyped
  <2>2. \A a \in Accounts : row[a] \in RowStates
    BY DEF IInv, WellTyped, UiTyped
  <2>3. \A p \in Pages : page[p].busy \in {None, "receive", "scan"} /\ page[p].scanning \in BOOLEAN
    BY <2>1 DEF PageStates
  <2>4. \A a \in Accounts : /\ row[a].dest \in Accounts \cup Typed \cup {None}
                            /\ row[a].fresh \in PqAccounts \cup {None}
                            /\ row[a].step \in BOOLEAN /\ row[a].deriving \in BOOLEAN
    BY <2>2 DEF RowStates, Destinations
  <2>5. transfer.result \in {None, "sent", "success", "reverted"} /\ prover.state \in {"new", "ok", "broken", "dead"}
    BY DEF IInv, WellTyped, UiTyped, TransferStates, ProverStates
  <2>6. prover.pending \subseteq DOMAIN jobs /\ prover.holds \subseteq prover.pending
    BY DEF IInv, ProverFits
  <2>7. \A t \in pool : t.job \in DOMAIN jobs
    BY DEF IInv, TxsFit, TxFits, Accepted
  <2>8. jobs \in Seq(Job) /\ derived \subseteq Accounts /\ announced \subseteq derived
        /\ bal \in [Accounts -> Nat] /\ deployed \subseteq Accounts
    BY DEF IInv, WellTyped, ChainTyped, FreshDerived
  <2> QED
    BY <2>1, <2>3, <2>4, <2>5, <2>6, <2>7, <2>8 DEF TypeOK
<1> QED
  BY <1>1, Invariant, PTL

(* A row that reports a spend tells the truth: the transaction of that very    *)
(* click was mined and moved the unit of that hit to the destination shown,    *)
(* which is announced when the note says so, whatever was edited meanwhile and *)
(* whichever frames of other transactions failed.                              *)
THEOREM OutcomeCorrect == Spec => []OutcomeTrue
<1>1. IInv => OutcomeTrue
  BY DEF IInv
<1> QED
  BY <1>1, Invariant, PTL

(* A job has one receipt besides its deployment's. *)
LEMMA OneReceipt ==
  ASSUME IInv, NEW m \in Range(mined), NEW n \in Range(mined), m.tx.job = n.tx.job,
         m.tx.kind # "deploy", n.tx.kind # "deploy"
  PROVE  m = n
<1>1. m.tx = n.tx
  BY DEF IInv, SentOnce, Accepted
<1>2. PICK i \in DOMAIN mined : m = mined[i]
  BY DEF Range
<1>3. PICK k \in DOMAIN mined : n = mined[k]
  BY DEF Range
<1>4. i - 1 = k - 1 /\ i \in Nat /\ k \in Nat
  BY <1>1, <1>2, <1>3, LenProperties DEF IInv, NoncesInOrder, WellTyped, ChainTyped
<1> QED
  BY <1>2, <1>3, <1>4

(* One click pays at most once, although broadcastFrameTx sends its           *)
(* transaction again whenever the answer is lost: a second acceptance would    *)
(* need the same nonce.                                                        *)
THEOREM PaidOnce == Spec => []MinedOnce
<1>1. IInv => MinedOnce
  <2> SUFFICES ASSUME IInv, NEW j \in DOMAIN jobs
               PROVE  Cardinality({m \in Range(mined) : m.tx.job = j /\ m.tx.kind # "deploy"}) <= 1
    BY DEF MinedOnce
  <2> DEFINE S == {m \in Range(mined) : m.tx.job = j /\ m.tx.kind # "deploy"}
  <2>1. S = {} \/ \E m \in S : S = {m}
    BY OneReceipt
  <2> HIDE DEF S
  <2>2. Cardinality(S) = 0 \/ Cardinality(S) = 1
    BY <2>1, FS_EmptySet, FS_Singleton
  <2> QED
    BY <2>2 DEF S
<1> QED
  BY <1>1, Invariant, PTL

(* No spend is broadcast with another one's signature or proof: the worker     *)
(* answers a request by its id, in whatever order the proofs end.              *)
THEOREM ProofsMatch == Spec => []OwnProof
<1>1. IInv => OwnProof
  BY DEF IInv, TxsFit, TxFits, Accepted, OwnProof
<1> QED
  BY <1>1, Invariant, PTL

(* Money on a stealth account that no scan of its recipient finds was moved by *)
(* a transaction one of whose frames failed, and no handler reported that      *)
(* transaction as a success, although nothing makes the paying frame and the   *)
(* announcing one succeed together.                                            *)
THEOREM FundsFound == Spec => []FundsFindable
<1>1. IInv => FundsFindable
  <2> SUFFICES ASSUME IInv, NEW a \in Accounts \ announced, bal[a] > 0
               PROVE  \E m \in Range(mined) : m.moved /\ m.tx.dest = a /\ ~m.ok /\ ~Reported(m.tx.job)
    BY DEF FundsFindable
  <2>1. PICK m \in Range(mined) : m.moved /\ m.tx.dest = a /\ ~m.ok
    BY DEF IInv, FundsTraced
  <2> DEFINE j == m.tx.job
  <2>2. m.tx.kind \in {"pay", "spend"} /\ TxFits(m.tx, jobs, deployed)
    BY <2>1 DEF IInv, ReceiptsTrue, TxsFit, Accepted
  <2>3. j \in DOMAIN jobs /\ jobs[j].kind # "transfer"
    BY <2>2 DEF TxFits, Pages
  <2>4. ASSUME Reported(j) PROVE FALSE
    <3>1. jobs[j].pc \in {"scan", "done"}
      BY <2>4 DEF Reported
    <3>2. Fits(j, jobs[j], deployed, Succeeded)
      BY <2>3, JobAt
    <3>3. j \in Succeeded
      BY <2>3, <3>1, <3>2 DEF Fits
    <3>4. PICK n \in Range(mined) : n.ok /\ n.tx.kind # "deploy" /\ n.tx.job = j
      BY <3>3 DEF Succeeded
    <3>5. m = n
      BY <2>2, <3>4, OneReceipt
    <3> QED
      BY <2>1, <3>4, <3>5
  <2> QED
    BY <2>1, <2>4
<1> QED
  BY <1>1, Invariant, PTL

(* Whoever waits for a proof is on the mounted page and its promise is         *)
(* registered; a worker holds the request unless the page's worker is dead:    *)
(* what was pending then is rejected, what is posted later waits for ever.     *)
THEOREM ProofsAnswered == Spec => []ProofAnswerable
<1>1. IInv => ProofAnswerable
  BY DEF IInv, ProverFits, Proving, ProofAnswerable, At
<1> QED
  BY <1>1, Invariant, PTL
=============================================================================
