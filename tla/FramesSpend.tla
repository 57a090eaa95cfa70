---------------------------- MODULE FramesSpend ----------------------------
(***************************************************************************)
(* The pages that spend through EIP-8141 frame transactions: the ML-DSA    *)
(* route (ui/src/components/FramesPqSpend.tsx), the zero-knowledge route   *)
(* (FramesZkSpend.tsx) with its proving worker (ui/src/lib/                *)
(* preimage-worker.ts, preimage-prover.ts), and the transfer page          *)
(* (FramesTab.tsx), over broadcastFrameTx (ui/src/lib/frames.ts) and the   *)
(* transactions of js-client/src/frame-tx/actions.ts.  All three spend the *)
(* nonces of one in-page wallet, the sponsor.                              *)
(*                                                                         *)
(* A job is one click of Receive, Spend or Send; it keeps running when its *)
(* page is left, but its patches are ignored then.  Awaits that read no    *)
(* shared state are merged with the next one that does.  An account is     *)
(* paid, and a spend moves, one unit.  Notes are not modelled: nothing     *)
(* reads them back.  A signature or a proof is named by the job whose      *)
(* sig_hash it signs.                                                      *)
(***************************************************************************)
EXTENDS Integers, Sequences, FiniteSets, SequencesExt

CONSTANTS
  PqAccounts, ZkAccounts,  \* the recipients' stealth accounts
  Paid0,        \* those paid and announced before the page opened
  Typed,        \* what the user types as a destination ("self" included): no stealth account
  Tabs,         \* the tabs of App the user visits
  Attempts,     \* broadcasts of one transaction when the connection drops (3 in the code)
  MaxJobs,      \* bound: clicks that start a job
  MaxMounts,    \* bound: times a tab is opened
  MaxUsed,      \* bound: pages used in one mount
  None

Accounts == PqAccounts \cup ZkAccounts
Pages == {"pq", "zk"}

ASSUME PagesAssumption ==
  /\ PqAccounts \cap ZkAccounts = {} /\ Paid0 \subseteq Accounts
  /\ None \notin Accounts /\ Typed \cap (Accounts \cup {None}) = {}
  /\ {Attempts, MaxJobs, MaxMounts} \subseteq Nat

OfPage(p) == IF p = "pq" THEN PqAccounts ELSE ZkAccounts

VARIABLES
  shown,      \* App: the tab shown; its component is mounted
  mounts,     \* tabs opened so far: the identity of the mounted components
  page,       \* FramesPqSpend, FramesZkSpend: busy, hits, and a clicked scan in flight
  row,        \* their spendState, one row for each account (each is announced once)
  transfer,   \* FramesTab: busy and result
  prover,     \* useProver: the worker, the requests it holds, the promises pending
  jobs,       \* the handlers started, in order
  derived,    \* stealth accounts encapsulated so far
  bal, deployed, announced,  \* chain: balances, accounts with code, announcements
  pool, mined \* the node: accepted transactions; mined ones in order, the sponsor's nonces

chain == <<bal, deployed, announced, mined>>
ui == <<page, row, transfer>>
vars == <<shown, mounts, ui, prover, jobs, derived, chain, pool>>

FreshPage == [busy |-> None, scanning |-> FALSE, hits |-> <<>>]
FreshRow == [dest |-> None, fresh |-> None, step |-> FALSE, deriving |-> FALSE, outcome |-> None]
FreshTransfer == [busy |-> FALSE, result |-> None]
FreshProver == [state |-> "new", pending |-> {}, holds |-> {}]
-----------------------------------------------------------------------------
(* Jobs *)

Start(kind, p, a, dest, fresh, dep, pc) ==
  /\ Len(jobs) < MaxJobs
  /\ jobs' = Append(jobs, [kind |-> kind, page |-> p, mount |-> mounts, acct |-> a, dest |-> dest,
                           fresh |-> fresh, dep |-> dep, nonce |-> 0, tries |-> 0,
                           pc |-> pc, proof |-> None])

(* The component that started j is still mounted: its setState calls count. *)
Live(j) == jobs[j].mount = mounts
At(j, pc) == jobs[j].pc = pc
Go(j, pc) == jobs' = [jobs EXCEPT ![j].pc = pc]

Patch(j, r) == row' = IF Live(j) THEN [row EXCEPT ![jobs[j].acct] = r] ELSE row

SetStep(j) == Patch(j, [row[jobs[j].acct] EXCEPT !.step = TRUE])

(* The catch and finally of the handlers of S: the step or busy flag is cleared. *)
ThrowAll(S) ==
  LET Of(K) == {j \in S : Live(j) /\ jobs[j].kind \in K} IN
  /\ jobs' = [j \in DOMAIN jobs |-> IF j \in S THEN [jobs[j] EXCEPT !.pc = "failed"] ELSE jobs[j]]
  /\ row' = [a \in Accounts |-> [row[a] EXCEPT !.step = @ /\ \A j \in Of(Pages) : jobs[j].acct # a]]
  /\ page' = [p \in Pages |-> IF \E j \in Of({"receive"}) : jobs[j].page = p
                              THEN [page[p] EXCEPT !.busy = None] ELSE page[p]]
  /\ transfer' = [transfer EXCEPT !.busy = @ /\ Of({"transfer"}) = {}]

Throw(j) == ThrowAll({j}) /\ UNCHANGED <<prover, derived, pool>>
-----------------------------------------------------------------------------
(* The node: one sender, the in-page wallet.  Two transactions with one      *)
(* nonce are not both accepted: nobody raises the fee.                       *)

PendingNonce == Len(mined) + Cardinality(pool)

NonceAtSend(j) == IF At(j, "send") THEN PendingNonce ELSE jobs[j].nonce
Nonce(j) == jobs[j].nonce

(* [VERIFY(sponsor), (createAccount,) executeFrame(dest), (announce(fresh))] *)
BuildSponsoredPqTx(j) ==
  [kind |-> "spend", job |-> j, nonce |-> Nonce(j), acct |-> jobs[j].acct, dest |-> jobs[j].dest,
   deploys |-> jobs[j].kind = "zk" /\ ~jobs[j].dep, announces |-> jobs[j].fresh, proof |-> jobs[j].proof]

(* [VERIFY, SENDER(stealth, value), DEFAULT(announce)] *)
BuildAnnounceTransfer(j) ==
  [kind |-> "pay", job |-> j, nonce |-> Nonce(j), acct |-> None, dest |-> jobs[j].fresh,
   deploys |-> FALSE, announces |-> jobs[j].fresh, proof |-> None]

(* [VERIFY, SENDER(to, value)] *)
BuildEoaTransfer(j) ==
  [kind |-> "transfer", job |-> j, nonce |-> Nonce(j), acct |-> None, dest |-> None,
   deploys |-> FALSE, announces |-> None, proof |-> None]

(* The type-2 transaction of the ML-DSA route: factory.createAccount *)
DeployTx(j) ==
  [kind |-> "deploy", job |-> j, nonce |-> Nonce(j), acct |-> jobs[j].acct, dest |-> None,
   deploys |-> TRUE, announces |-> None, proof |-> None]

Accepts(t) == t.nonce = PendingNonce

(* eth_sendRawTransaction: the answer arrives, or the connection drops before *)
(* or after the node accepted.                                               *)
Answered(t) == Accepts(t) /\ pool' = pool \cup {t}
Dropped(t) == UNCHANGED pool \/ Answered(t)

Receipts(j, kind) == {m \in Range(mined) : m.tx.job = j /\ m.tx.kind = kind}

(* broadcastFrameTx: retried while the connection drops; then 60 polls.  What *)
(* follows a receipt is the caller's.                                        *)
BroadcastFrameTx(j, t) ==
  \/ At(j, "send") /\ Answered(t) /\ Go(j, "poll") /\ UNCHANGED <<ui, prover, derived>>
  \/ At(j, "send") /\ ~Accepts(t) /\ Throw(j)
  \/ At(j, "send") /\ jobs[j].tries + 1 < Attempts /\ Dropped(t)
     /\ jobs' = [jobs EXCEPT ![j].tries = @ + 1] /\ UNCHANGED <<ui, prover, derived>>
  \/ At(j, "send") /\ jobs[j].tries + 1 = Attempts /\ Dropped(t)
     /\ ThrowAll({j}) /\ UNCHANGED <<prover, derived>>
  \/ At(j, "poll") /\ (Receipts(j, t.kind) = {} \/ \E m \in Receipts(j, t.kind) : ~m.ok) /\ Throw(j)

(* executeFrame: the signature or proof is over this transaction's sig_hash *)
Authorized(t) == t.proof = t.job

(* Nothing sets FLAG_ATOMIC_BATCH: after the sponsor's VERIFY frame each frame *)
(* succeeds or fails on its own.  Of a type-2 transaction there is one.      *)
Frames(t) ==
  (IF t.kind = "deploy" THEN {} ELSE {"money"})
  \cup (IF t.deploys THEN {"deploy"} ELSE {})
  \cup (IF t.announces # None THEN {"announce"} ELSE {})

(* The sponsor's transactions are mined in nonce order.  `done` are the      *)
(* frames that succeed; a spend's needs the balance and a signature or proof *)
(* over this transaction's sig_hash, and where there is no code the call     *)
(* succeeds and does nothing.  The receipt says success when every frame     *)
(* did (README, assumptions).                                               *)
Mine(t) ==
  \E done \in SUBSET Frames(t) :
    LET code == IF "deploy" \in done THEN deployed \cup {t.acct} ELSE deployed
        spends == t.kind = "spend" /\ "money" \in done /\ t.acct \in code
        moves == spends \/ (t.kind = "pay" /\ "money" \in done)
        Paid(b) == IF moves /\ t.dest \in Accounts THEN [b EXCEPT ![t.dest] = @ + 1] ELSE b
        Debited(b) == IF spends THEN [b EXCEPT ![t.acct] = @ - 1] ELSE b
    IN /\ t.nonce = Len(mined)
       /\ spends => Authorized(t) /\ bal[t.acct] > 0
       /\ pool' = pool \ {t}
       /\ mined' = Append(mined, [tx |-> t, ok |-> done = Frames(t), moved |-> moves])
       /\ bal' = Paid(Debited(bal))
       /\ deployed' = code
       /\ announced' = IF "announce" \in done THEN announced \cup {t.announces} ELSE announced
       /\ UNCHANGED <<shown, mounts, ui, prover, jobs, derived>>
-----------------------------------------------------------------------------
(* Receive and scan: the bar of each page *)

(* The hits of a scan: the announced accounts of this recipient, with the    *)
(* balance and code the chain reports then.                                  *)
Found(p) == [a \in announced \cap OfPage(p) |-> [bal |-> bal[a], dep |-> a \in deployed]]
PqFound == Found("pq")
ZkFound == Found("zk")
Hits(p) == IF p = "pq" THEN PqFound ELSE ZkFound

Used == {p \in Pages : page[p] # FreshPage}
Idle(p) == shown = "spend" /\ page[p].busy = None /\ Cardinality(Used \cup {p}) <= MaxUsed

(* The scan's finally clears busy, whoever set it; a failed one keeps the hits. *)
Scanned(p, pg) == {[pg EXCEPT !.busy = None], [pg EXCEPT !.busy = None, !.hits = Hits(p)]}

(* Bound: one clicked scan of a page in flight. *)
ScanClick(p) ==
  /\ Idle(p) /\ ~page[p].scanning
  /\ page' = [page EXCEPT ![p].busy = "scan", ![p].scanning = TRUE]
  /\ UNCHANGED <<shown, mounts, row, transfer, prover, jobs, derived, chain, pool>>

ScanEnds(p) ==
  /\ page[p].scanning
  /\ \E pg \in Scanned(p, page[p]) : page' = [page EXCEPT ![p] = [pg EXCEPT !.scanning = FALSE]]
  /\ UNCHANGED <<shown, mounts, row, transfer, prover, jobs, derived, chain, pool>>

(* await scan() at the end of a receive or a spend *)
NestedScan(j) ==
  LET p == jobs[j].page IN
  /\ At(j, "scan") /\ Go(j, "done")
  /\ IF Live(j) THEN \E pg \in Scanned(p, page[p]) : page' = [page EXCEPT ![p] = pg] ELSE UNCHANGED page
  /\ UNCHANGED <<row, transfer, prover, derived, pool>>

ReceiveClick(p) ==
  /\ Idle(p)
  /\ page' = [page EXCEPT ![p].busy = "receive"]
  /\ Start("receive", p, None, None, None, FALSE, "prepare")
  /\ UNCHANGED <<shown, mounts, row, transfer, prover, derived, chain, pool>>

(* freshStealth, then the nonce, then broadcastFrameTx *)
Receive(j, p) ==
  /\ jobs[j].kind = "receive" /\ jobs[j].page = p
  /\ \/ /\ At(j, "prepare")
        /\ \E a \in OfPage(p) \ derived :
             /\ jobs' = [jobs EXCEPT ![j].pc = "send", ![j].fresh = a, ![j].nonce = PendingNonce]
             /\ derived' = derived \cup {a}
        /\ UNCHANGED <<ui, prover, pool>>
     \/ At(j, "prepare") /\ Throw(j)
     \/ BroadcastFrameTx(j, BuildAnnounceTransfer(j))
     \/ /\ At(j, "poll") /\ \E m \in Receipts(j, "pay") : m.ok
        /\ Go(j, "scan")
        /\ page' = IF Live(j) THEN [page EXCEPT ![p].busy = "scan"] ELSE page
        /\ UNCHANGED <<row, transfer, prover, derived, pool>>

PqReceive(j) == Receive(j, "pq")
ZkReceive(j) == Receive(j, "zk")
-----------------------------------------------------------------------------
(* The rows of the hits: destination, "new stealth", Spend *)

Shows(p, a) == shown = "spend" /\ a \in DOMAIN page[p].hits

(* The typed destination and the "self" button; the amount is one unit. *)
Edit(p, a) ==
  /\ Shows(p, a)
  /\ \E d \in Typed : row' = [row EXCEPT ![a].dest = d]
  /\ UNCHANGED <<shown, mounts, page, transfer, prover, jobs, derived, chain, pool>>

(* A slip this code could have, as every definition named X_Y before X: *)
(* fillFresh forgets what to announce.                                   *)
Filled_DestOnly(r, a) == [r EXCEPT !.deriving = FALSE, !.dest = a]
Filled(r, a) == [r EXCEPT !.deriving = FALSE, !.fresh = a, !.dest = a]

(* The click, and later the account or an error, whatever was typed since. *)
FillFresh(a) ==
  /\ \/ /\ Shows("pq", a) /\ ~row[a].deriving
        /\ row' = [row EXCEPT ![a].deriving = TRUE] /\ UNCHANGED derived
     \/ /\ row[a].deriving
        /\ \/ row' = [row EXCEPT ![a].deriving = FALSE] /\ UNCHANGED derived
           \/ \E f \in PqAccounts \ derived : /\ row' = [row EXCEPT ![a] = Filled(@, f)]
                                              /\ derived' = derived \cup {f}
  /\ UNCHANGED <<shown, mounts, page, transfer, prover, jobs, chain, pool>>

(* The step is not shown before the fees are known: a second click in between *)
(* starts a second job.                                                      *)
SpendClick(p, a, fresh) ==
  /\ Shows(p, a) /\ ~row[a].step /\ row[a].dest # None
  /\ row' = [row EXCEPT ![a].outcome = None]
  /\ IF page[p].hits[a].bal > 0
     THEN Start(p, p, a, row[a].dest, fresh, page[p].hits[a].dep, "fees")
     ELSE UNCHANGED jobs
  /\ UNCHANGED <<shown, mounts, page, transfer, prover, derived, chain, pool>>

PqSpendClick(a) == SpendClick("pq", a, IF row[a].fresh = row[a].dest THEN row[a].fresh ELSE None)
ZkSpendClick(a) == SpendClick("zk", a, None)

PqOutcome(j) == [job |-> j, dest |-> jobs[j].dest, announced |-> jobs[j].fresh # None]
ZkOutcome(j) == [job |-> j, dest |-> jobs[j].dest, announced |-> FALSE]

(* The outcome is shown, the step is cleared and the page scans again. *)
Spent(j, outcome) ==
  /\ At(j, "poll") /\ \E m \in Receipts(j, "spend") : m.ok
  /\ Go(j, "scan")
  /\ Patch(j, [row[jobs[j].acct] EXCEPT !.step = FALSE, !.outcome = outcome])
  /\ page' = IF Live(j) THEN [page EXCEPT ![jobs[j].page].busy = "scan"] ELSE page
  /\ UNCHANGED <<transfer, prover, derived, pool>>

(* The receipt of the deployment *)
Deployed_Mined(j) == Receipts(j, "deploy") # {}
Deployed(j) == \E m \in Receipts(j, "deploy") : m.ok

(* The fees are known: the sponsor can front them, or the spend is refused. *)
Fees(j, pc) ==
  \/ At(j, "fees") /\ Throw(j)
  \/ /\ At(j, "fees") /\ SetStep(j)
     /\ jobs' = [jobs EXCEPT ![j].pc = pc, ![j].nonce = PendingNonce]
     /\ UNCHANGED <<page, transfer, prover, derived, pool>>

(* The deployment is sent and mined, or fails, or viem stops waiting for it. *)
Deploy(j) ==
  \/ At(j, "deploy") /\ Answered(DeployTx(j)) /\ Go(j, "deployed") /\ UNCHANGED <<ui, prover, derived>>
  \/ At(j, "deploy") /\ Dropped(DeployTx(j)) /\ ThrowAll({j}) /\ UNCHANGED <<prover, derived>>
  \/ At(j, "deployed") /\ ~Deployed(j) /\ Throw(j)
  \/ /\ At(j, "deployed") /\ Deployed(j)
     /\ SetStep(j)
     /\ jobs' = [jobs EXCEPT ![j].pc = "sign", ![j].nonce = PendingNonce]
     /\ UNCHANGED <<page, transfer, prover, derived, pool>>

(* FramesPqSpend.spend: deploy if the scan saw no code; nonce; the signer    *)
(* service signs the sig_hash; broadcast.                                    *)
PqSpend(j) ==
  /\ jobs[j].kind = "pq"
  /\ \/ Fees(j, IF jobs[j].dep THEN "sign" ELSE "deploy")
     \/ Deploy(j)
     \/ At(j, "sign") /\ Throw(j)
     \/ /\ At(j, "sign")
        /\ jobs' = [jobs EXCEPT ![j].pc = "send", ![j].proof = j]
        /\ UNCHANGED <<ui, prover, derived, pool>>
     \/ BroadcastFrameTx(j, BuildSponsoredPqTx(j))
     \/ Spent(j, PqOutcome(j))
-----------------------------------------------------------------------------
(* FramesZkSpend.spend and its proving worker *)

(* prove(): the promise is registered and the message posted.  A worker whose *)
(* script did not load takes the message and drops it.                       *)
Held(j) == IF prover.state = "dead" THEN prover.holds ELSE prover.holds \cup {j}

Request_Unregistered(j) == [prover EXCEPT !.holds = Held(j)]
Request(j) == [prover EXCEPT !.pending = @ \cup {j}, !.holds = Held(j)]

(* The worker of a page that was left is terminated: the job is lost.        *)
Prove(j) ==
  /\ At(j, "nonce")
  /\ IF Live(j)
     THEN /\ jobs' = [jobs EXCEPT ![j].pc = "sign", ![j].nonce = PendingNonce] /\ prover' = Request(j)
     ELSE Go(j, "lost") /\ UNCHANGED prover
  /\ UNCHANGED <<ui, derived, pool>>

ZkSpend(j) ==
  /\ jobs[j].kind = "zk"
  /\ \/ Fees(j, "nonce")
     \/ At(j, "nonce") /\ Throw(j)
     \/ Prove(j)
     \/ BroadcastFrameTx(j, BuildSponsoredPqTx(j))
     \/ Spent(j, ZkOutcome(j))

(* preimage-worker: the circuit is loaded at the first request, and what     *)
(* came of it is kept.                                                       *)
LoadCircuit ==
  /\ prover.state = "new" /\ prover.holds # {}
  /\ \E s \in {"ok", "broken"} : prover' = [prover EXCEPT !.state = s]
  /\ UNCHANGED <<shown, mounts, ui, jobs, derived, chain, pool>>

Oldest(S) == CHOOSE j \in S : \A k \in S : j <= k
AnswerTo_Oldest(id) == Oldest(prover.pending)
AnswerTo(id) == id

Settled(id) == [prover EXCEPT !.pending = @ \ {AnswerTo(id)}, !.holds = @ \ {id}]

(* The proofs of concurrent requests end in any order. *)
Answer(id) ==
  /\ prover.state = "ok"
  /\ jobs' = [jobs EXCEPT ![AnswerTo(id)].pc = "send", ![AnswerTo(id)].proof = id]
  /\ prover' = Settled(id)
  /\ UNCHANGED <<shown, mounts, ui, derived, chain, pool>>

AnswerError(id) ==
  /\ prover.state \in {"ok", "broken"}
  /\ ThrowAll({AnswerTo(id)}) /\ prover' = Settled(id)
  /\ UNCHANGED <<shown, mounts, derived, chain, pool>>

Rejected_None == {}
Rejected == prover.pending

(* onerror: the worker's script did not load. *)
WorkerError ==
  /\ prover.state = "new" /\ shown = "spend"
  /\ ThrowAll(Rejected)
  /\ prover' = [state |-> "dead", pending |-> {}, holds |-> {}]
  /\ UNCHANGED <<shown, mounts, derived, chain, pool>>

Worker == LoadCircuit \/ WorkerError \/ \E id \in prover.holds : Answer(id) \/ AnswerError(id)
-----------------------------------------------------------------------------
(* FramesTab.send: one broadcast, thirty polls *)

TransferClick ==
  /\ shown = "frames" /\ ~transfer.busy
  /\ transfer' = [busy |-> TRUE, result |-> None]
  /\ Start("transfer", None, None, None, None, FALSE, "prepare")
  /\ UNCHANGED <<shown, mounts, page, row, prover, derived, chain, pool>>

SetTransfer(j, t) == transfer' = IF Live(j) THEN t ELSE transfer

Transfer(j) ==
  LET t == BuildEoaTransfer(j)
      r == Receipts(j, "transfer") IN
  /\ jobs[j].kind = "transfer"
  /\ \/ At(j, "prepare") /\ Throw(j)
     \/ /\ At(j, "prepare") /\ jobs' = [jobs EXCEPT ![j].pc = "send", ![j].nonce = PendingNonce]
        /\ UNCHANGED <<ui, prover, derived, pool>>
     \/ At(j, "send") /\ Dropped(t) /\ ThrowAll({j}) /\ UNCHANGED <<prover, derived>>
     \/ /\ At(j, "send") /\ Answered(t)
        /\ Go(j, "poll") /\ SetTransfer(j, [transfer EXCEPT !.result = "sent"])
        /\ UNCHANGED <<page, row, prover, derived>>
     \/ At(j, "poll") /\ r = {} /\ Throw(j)
     \/ /\ At(j, "poll") /\ Go(j, "done")
        /\ SetTransfer(j, [busy |-> FALSE, result |-> IF r = {} THEN transfer.result
                                                      ELSE IF \E m \in r : m.ok THEN "success" ELSE "reverted"])
        /\ UNCHANGED <<page, row, prover, derived, pool>>
-----------------------------------------------------------------------------
(* Another tab: what was mounted is dropped, its worker terminated. *)
OpenTab(t) ==
  /\ mounts < MaxMounts /\ shown # t
  /\ shown' = t /\ mounts' = mounts + 1
  /\ page' = [p \in Pages |-> FreshPage] /\ row' = [a \in Accounts |-> FreshRow]
  /\ transfer' = FreshTransfer /\ prover' = FreshProver
  /\ jobs' = [j \in DOMAIN jobs |-> IF j \in prover.pending THEN [jobs[j] EXCEPT !.pc = "lost"] ELSE jobs[j]]
  /\ UNCHANGED <<derived, chain, pool>>

Init ==
  /\ shown = None /\ mounts = 0
  /\ page = [p \in Pages |-> FreshPage] /\ row = [a \in Accounts |-> FreshRow]
  /\ transfer = FreshTransfer /\ prover = FreshProver
  /\ jobs = <<>> /\ pool = {} /\ mined = <<>>
  /\ derived = Paid0 /\ announced = Paid0 /\ deployed = {}
  /\ bal = [a \in Accounts |-> IF a \in Paid0 THEN 1 ELSE 0]

Bar(p) == ScanClick(p) \/ ScanEnds(p) \/ ReceiveClick(p)
PqBar == Bar("pq")
ZkBar == Bar("zk")

PqRow(a) == Edit("pq", a) \/ FillFresh(a) \/ PqSpendClick(a)
ZkRow(a) == Edit("zk", a) \/ ZkSpendClick(a)

Step(j) == /\ PqReceive(j) \/ ZkReceive(j) \/ PqSpend(j) \/ ZkSpend(j) \/ Transfer(j) \/ NestedScan(j)
           /\ UNCHANGED <<shown, mounts, chain>>

Running(j) == jobs[j].pc \notin {"done", "failed", "lost"}

Next == \/ PqBar \/ ZkBar
        \/ \E a \in PqAccounts : PqRow(a)
        \/ \E a \in ZkAccounts : ZkRow(a)
        \/ TransferClick \/ \E t \in Tabs : OpenTab(t)
        \/ \E j \in DOMAIN jobs : Running(j) /\ Step(j)
        \/ Worker
        \/ \E t \in pool : Mine(t)

Spec == Init /\ [][Next]_vars
-----------------------------------------------------------------------------
Job == [kind : Pages \cup {"receive", "transfer"}, page : Pages \cup {None}, mount : 0..MaxMounts,
        acct : Accounts \cup {None}, dest : Accounts \cup Typed \cup {None},
        fresh : Accounts \cup {None}, dep : BOOLEAN, nonce : Nat, tries : 0..Attempts,
        pc : {"prepare", "fees", "deploy", "deployed", "nonce", "sign", "send", "poll", "scan",
              "done", "failed", "lost"},
        proof : Nat \cup {None}]

TypeOK ==
  /\ jobs \in Seq(Job) /\ derived \subseteq Accounts
  /\ \A p \in Pages : /\ page[p].busy \in {None, "receive", "scan"} /\ page[p].scanning \in BOOLEAN
                      /\ DOMAIN page[p].hits \subseteq OfPage(p)
  /\ \A a \in Accounts : /\ row[a].dest \in Accounts \cup Typed \cup {None}
                         /\ row[a].fresh \in PqAccounts \cup {None}
                         /\ row[a].step \in BOOLEAN /\ row[a].deriving \in BOOLEAN
  /\ transfer.result \in {None, "sent", "success", "reverted"}
  /\ prover.state \in {"new", "ok", "broken", "dead"}
  /\ prover.pending \subseteq DOMAIN jobs /\ prover.holds \subseteq prover.pending
  /\ bal \in [Accounts -> Nat] /\ deployed \subseteq Accounts /\ announced \subseteq derived
  /\ \A t \in pool : t.job \in DOMAIN jobs

(* What must hold *)

(* When a row says "Spent ... to ...", a mined transaction of that click     *)
(* moved the money of that hit to that destination, and when the note says   *)
(* so the destination was announced -- whatever was edited, derived or       *)
(* scanned while the transaction was deployed, signed, proved and mined.    *)
OutcomeTrue ==
  \A a \in Accounts : row[a].outcome # None =>
    \E m \in Receipts(row[a].outcome.job, "spend") :
      /\ m.moved /\ m.tx.acct = a /\ m.tx.dest = row[a].outcome.dest
      /\ row[a].outcome.announced => m.tx.dest \in announced

(* A click pays at most once, although its transaction is broadcast up to    *)
(* three times: the answer may be lost after the node accepted it.          *)
MinedOnce ==
  \A j \in DOMAIN jobs : Cardinality({m \in Range(mined) : m.tx.job = j /\ m.tx.kind # "deploy"}) <= 1

(* No spend is broadcast with the signature or proof of another one, however *)
(* the worker orders its answers.                                           *)
OwnProof == \A t \in pool : t.kind = "spend" => t.proof = t.job

(* Money of a stealth account that its recipient's scans do not find was     *)
(* moved by a transaction of which a frame failed, and no handler reported   *)
(* that transaction as a success: money and announcement are two frames, and *)
(* either may fail alone, be mined after the handler gave up, or be sent     *)
(* again with the nonce taken.                                              *)
Reported(j) == jobs[j].pc \in {"scan", "done"}

FundsFindable ==
  \A a \in Accounts \ announced : bal[a] > 0 =>
    \E m \in Range(mined) : m.moved /\ m.tx.dest = a /\ ~m.ok /\ ~Reported(m.tx.job)

(* Whoever waits for a proof waits on the mounted page, for a promise that   *)
(* is still registered; and a worker holds the request unless the page's     *)
(* worker is dead and the request was posted after it died.  That one waits  *)
(* for ever: onerror has rejected what was pending before.                  *)
ProofAnswerable ==
  \A j \in DOMAIN jobs : jobs[j].kind = "zk" /\ At(j, "sign") =>
    Live(j) /\ j \in prover.pending /\ (prover.state # "dead" => j \in prover.holds)

(* What a comment of the code says: every message is answered with a proof   *)
(* or an error (preimage-worker.ts:3), so a request is held until it is.     *)
RequestsHeld == prover.pending \subseteq prover.holds
=============================================================================
