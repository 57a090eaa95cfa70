---------------------------- MODULE UserOpSpend ----------------------------
(***************************************************************************)
(* The ERC-4337 route of the spend page: components PqSpend (local chain,  *)
(* one account per payment) and HybridSepoliaSpend (every payment goes to  *)
(* one demo account) of ui/src/components/SpendTab.tsx, over               *)
(* spend4337.ts, spendHybrid.ts and pimlico.ts, and the idempotent account *)
(* factories.                                                              *)
(*                                                                         *)
(* A user operation is bundled by the page itself (handleOps from its      *)
(* wallet; the account pays the gas) or, on the hybrid page with a Pimlico *)
(* key, by a sponsoring bundler.  A payment brings two units; a spend      *)
(* moves one and its own gas, when the account pays it, costs one.         *)
(* Signing reads and writes no shared state and is part of the submission. *)
(***************************************************************************)
EXTENDS Integers, FiniteSets

CONSTANTS
  Anns,         \* bound: the announcements the page may make, one row each
  Paid0,        \* those made before it opened
  Slots,        \* bound: jobs running at once
  MaxClicks,    \* bound: clicks that start a job
  MaxOpens,     \* bound: times the page is left and opened again
  Tries,        \* polls for the receipt of a sponsored operation (60 in the code)
  None

VARIABLES
  hybrid,        \* which of the two pages the selected network shows
  page,          \* its busy, hits, the accounts seen deployed, and rows
  jobs,          \* the running handlers
  clicks, opens, \* what the bounds count
  drawn, log,    \* announcements encapsulated; those on the chain
  bal, nonce, deployed, executed,  \* chain: accounts, operations executed
  pool           \* transactions and operations broadcast and not included

ui == <<hybrid, clicks, opens>>
chain == <<log, bal, nonce, deployed, executed>>
userOpVars == <<ui, page, jobs, drawn, chain, pool>>

Accounts == Anns \cup {"demo"}
AccountOf(n) == IF hybrid THEN "demo" ELSE n

FreshRow == [step |-> FALSE, result |-> None]
FreshPage == [busy |-> None, hits |-> {}, code |-> {}, row |-> [n \in Anns |-> FreshRow]]
-----------------------------------------------------------------------------
(* Jobs *)

Free == {s \in 1..Slots : jobs[s] = None}

Start(kind, n, sponsored, pc) ==
  /\ Free # {} /\ clicks < MaxClicks /\ clicks' = clicks + 1
  /\ jobs' = [jobs EXCEPT ![CHOOSE s \in Free : \A q \in Free : s <= q] =
                [kind |-> kind, ann |-> n, sponsored |-> sponsored, nonce |-> 0, tries |-> 0,
                 pc |-> pc, live |-> TRUE, rcpt |-> None]]
  /\ UNCHANGED <<hybrid, opens, drawn, chain, pool>>

At(s, kind, pc) == jobs[s].kind = kind /\ jobs[s].pc = pc
Acct(s) == AccountOf(jobs[s].ann)
Go(s, pc) == jobs' = [jobs EXCEPT ![s].pc = pc, ![s].rcpt = None]
End(s) == jobs' = [jobs EXCEPT ![s] = None]
SetPage(s, p) == page' = IF jobs[s].live THEN p ELSE page
Patch(s, row) == [page EXCEPT !.row[jobs[s].ann] = row]

(* catch and finally; what was broadcast stays in the pool. *)
Throw(s) ==
  /\ End(s)
  /\ SetPage(s, IF jobs[s].kind = "spend" THEN Patch(s, [page.row[jobs[s].ann] EXCEPT !.step = FALSE])
                ELSE [page EXCEPT !.busy = None])
  /\ pool' = {IF t.slot = s THEN [t EXCEPT !.slot = 0] ELSE t : t \in pool}
  /\ UNCHANGED drawn

Tx(s, kind) == [slot |-> s, kind |-> kind, ann |-> jobs[s].ann, nonce |-> jobs[s].nonce]
Send(s, kind, pc) == pool' = pool \cup {Tx(s, kind)} /\ Go(s, pc) /\ UNCHANGED <<page, drawn>>
-----------------------------------------------------------------------------
(* receive: pay, then announce; neither status is looked at.  scan.          *)

ReceiveClick ==
  /\ page.busy = None /\ page' = [page EXCEPT !.busy = "receive"] /\ Start("receive", None, FALSE, "pay")

Receive(s) ==
  \/ /\ At(s, "receive", "pay")
     /\ \E n \in Anns \ drawn :
          /\ drawn' = drawn \cup {n}
          /\ jobs' = [jobs EXCEPT ![s].ann = n, ![s].pc = "paid"]
          /\ pool' = pool \cup {[Tx(s, "pay") EXCEPT !.ann = n]}
     /\ UNCHANGED page
  \/ At(s, "receive", "paid") /\ jobs[s].rcpt # None /\ Send(s, "announce", "announced")
  \/ /\ At(s, "receive", "announced") /\ jobs[s].rcpt # None
     /\ Go(s, "scan") /\ SetPage(s, [page EXCEPT !.busy = "scan"]) /\ UNCHANGED <<drawn, pool>>
  \/ jobs[s].kind = "receive" /\ jobs[s].pc # "scan" /\ Throw(s)

ScanClick ==
  page.busy = None /\ page' = [page EXCEPT !.busy = "scan"] /\ Start("scan", None, FALSE, "scan")

Scan(s) ==
  /\ jobs[s].pc = "scan" /\ End(s)
  /\ \/ SetPage(s, [page EXCEPT !.busy = None, !.hits = log, !.code = deployed])
     \/ SetPage(s, [page EXCEPT !.busy = None])
  /\ UNCHANGED <<drawn, pool>>
-----------------------------------------------------------------------------
(* spend: deploy the account unless the scan saw its code, build the user    *)
(* operation, submit it, wait.  On the sponsored path the step is first      *)
(* shown by submitSponsoredUserOp, after the balance and the nonce are read. *)

SpendClick(n) ==
  LET dep == AccountOf(n) \in page.code IN
  /\ n \in page.hits /\ ~page.row[n].step
  /\ \E sponsored \in IF hybrid THEN BOOLEAN ELSE {FALSE} :
       /\ page' = [page EXCEPT !.row[n] = [step |-> ~(sponsored /\ dep), result |-> None]]
       /\ Start("spend", n, sponsored, IF ~dep THEN "deploy" ELSE IF sponsored THEN "fund" ELSE "nonce")

(* createAccount returns the account when it exists. *)
Deploy(s) ==
  \/ At(s, "spend", "deploy") /\ Send(s, "deploy", "deployed")
  \/ /\ At(s, "spend", "deployed") /\ jobs[s].rcpt # None
     /\ Go(s, IF jobs[s].sponsored THEN "fund" ELSE "nonce") /\ UNCHANGED <<page, drawn, pool>>

EnsureFunded(s, prefund) == bal[Acct(s)] >= 1 + prefund

BuildUserOp(s) ==
  \/ /\ At(s, "spend", "nonce")
     /\ jobs' = [jobs EXCEPT ![s].nonce = nonce[Acct(s)], ![s].rcpt = None,
                             ![s].pc = IF jobs[s].sponsored THEN "submit" ELSE "fund"]
     /\ UNCHANGED <<page, drawn, pool>>
  \/ /\ At(s, "spend", "fund") /\ EnsureFunded(s, IF jobs[s].sponsored THEN 0 ELSE 1)
     /\ Go(s, IF jobs[s].sponsored THEN "nonce" ELSE "submit") /\ UNCHANGED <<page, drawn, pool>>

HandleOps(s) == ~jobs[s].sponsored /\ At(s, "spend", "submit") /\ Send(s, "ops", "receipt")

(* The paymaster simulates the operation before it sponsors it. *)
SubmitSponsoredUserOp(s) ==
  /\ jobs[s].sponsored /\ At(s, "spend", "submit")
  /\ Acct(s) \in deployed /\ jobs[s].nonce = nonce[Acct(s)]
  /\ pool' = pool \cup {Tx(s, "userOp")} /\ Go(s, "poll")
  /\ SetPage(s, Patch(s, [page.row[jobs[s].ann] EXCEPT !.step = TRUE])) /\ UNCHANGED drawn

(* A slip this code could have, as every definition named X_Y before X: an   *)
(* error of a poll does not count as a try.                                  *)
NextTry_Free(s) == jobs[s].tries
NextTry(s) == jobs[s].tries + 1

(* waitForUserOpReceipt: not included yet, or the poll failed; then a pause  *)
Poll(s) ==
  /\ \/ At(s, "spend", "poll") /\ jobs' = [jobs EXCEPT ![s].tries = NextTry(s), ![s].pc = "pause"]
     \/ At(s, "spend", "pause") /\ jobs[s].tries < Tries /\ jobs' = [jobs EXCEPT ![s].pc = "poll"]
  /\ UNCHANGED <<page, drawn, pool>>

Succeeded_Included(s) == jobs[s].rcpt # None
Succeeded(s) == jobs[s].rcpt # None /\ jobs[s].rcpt.ok

(* The result is shown and the page scans again: of a bundle of its own once *)
(* the transaction succeeded, of a sponsored operation once its call did.  A *)
(* destination typed between the patch and its render writes the old row     *)
(* back.                                                                     *)
Spent(s) ==
  /\ jobs[s].kind = "spend" /\ jobs[s].pc \in {"receipt", "poll"} /\ Succeeded(s)
  /\ Go(s, "scan")
  /\ \E row \in {[step |-> FALSE, result |-> [nonce |-> jobs[s].nonce, sponsored |-> jobs[s].sponsored]],
                 page.row[jobs[s].ann]} :
       SetPage(s, [Patch(s, row) EXCEPT !.busy = "scan"])
  /\ UNCHANGED <<drawn, pool>>

Refused(s) == jobs[s].rcpt # None /\ ~Succeeded(s)

(* Every other await may fail; a failed poll is only counted. *)
MayFail(s) ==
  /\ At(s, "spend", "poll") => Refused(s)
  /\ At(s, "spend", "pause") => jobs[s].tries >= Tries

Spend(s) ==
  \/ Deploy(s) \/ BuildUserOp(s) \/ HandleOps(s) \/ SubmitSponsoredUserOp(s) \/ Poll(s) \/ Spent(s)
  \/ jobs[s].kind = "spend" /\ jobs[s].pc # "scan" /\ MayFail(s) /\ Throw(s)
-----------------------------------------------------------------------------
(* The chain: plain transactions, and the EntryPoint *)

Receipt(t, ok) == jobs' = IF t.slot = 0 THEN jobs ELSE [jobs EXCEPT ![t.slot].rcpt = [ok |-> ok]]

Mine(t) ==
  LET a == AccountOf(t.ann) IN
  /\ t.kind \in {"pay", "announce", "deploy"} /\ pool' = pool \ {t}
  /\ \/ Receipt(t, FALSE) /\ UNCHANGED chain
     \/ /\ Receipt(t, TRUE)
        /\ bal' = IF t.kind = "pay" THEN [bal EXCEPT ![a] = @ + 2] ELSE bal
        /\ log' = IF t.kind = "announce" THEN log \cup {t.ann} ELSE log
        /\ deployed' = IF t.kind = "deploy" THEN deployed \cup {a} ELSE deployed
        /\ UNCHANGED <<nonce, executed>>
  /\ UNCHANGED <<ui, page, drawn>>

(* A valid operation takes its nonce and its gas whatever its call does.  A  *)
(* bundle with an invalid one reverts; a bundler drops it, and may drop any. *)
Include(t) ==
  LET a == AccountOf(t.ann)
      gas == IF t.kind = "ops" THEN 1 ELSE 0
      Executes(moved) ==
        /\ a \in deployed /\ t.nonce = nonce[a] /\ bal[a] >= gas + (IF moved THEN 1 ELSE 0)
        /\ nonce' = [nonce EXCEPT ![a] = @ + 1]
        /\ bal' = [bal EXCEPT ![a] = @ - gas - (IF moved THEN 1 ELSE 0)]
        /\ executed' = executed \cup {[ann |-> t.ann, nonce |-> t.nonce, moved |-> moved]}
        /\ Receipt(t, t.kind = "ops" \/ moved)
        /\ UNCHANGED <<log, deployed>>
  IN /\ t.kind \in {"ops", "userOp"} /\ pool' = pool \ {t}
     /\ \/ \E moved \in BOOLEAN : Executes(moved)
        \/ t.kind = "ops" /\ Receipt(t, FALSE) /\ UNCHANGED chain
        \/ t.kind = "userOp" /\ UNCHANGED <<jobs, chain>>
     /\ UNCHANGED <<ui, page, drawn>>
-----------------------------------------------------------------------------
(* The page is left and opened again. *)
Reopen ==
  /\ opens < MaxOpens /\ opens' = opens + 1 /\ page' = FreshPage
  /\ jobs' = [s \in 1..Slots |-> IF jobs[s] = None THEN None ELSE [jobs[s] EXCEPT !.live = FALSE]]
  /\ UNCHANGED <<hybrid, clicks, drawn, chain, pool>>

Init ==
  /\ hybrid \in BOOLEAN /\ page = FreshPage
  /\ jobs = [s \in 1..Slots |-> None] /\ clicks = 0 /\ opens = 0 /\ pool = {}
  /\ drawn = Paid0 /\ log = Paid0 /\ deployed = {} /\ executed = {}
  /\ nonce = [a \in Accounts |-> 0]
  /\ bal = [a \in Accounts |-> 2 * Cardinality({n \in Paid0 : AccountOf(n) = a})]

Step(s) ==
  /\ jobs[s] # None
  /\ Receive(s) \/ Scan(s) \/ Spend(s)
  /\ UNCHANGED <<ui, chain>>

Next ==
  \/ ReceiveClick \/ ScanClick \/ \E n \in page.hits : SpendClick(n)
  \/ \E s \in 1..Slots : Step(s)
  \/ \E t \in pool : Mine(t) \/ Include(t)
  \/ Reopen

(* The awaits nothing ends: a prompt of the wallet, and a fetch from the     *)
(* signer service or from Pimlico, which sets no timeout.                    *)
Waits(s) ==
  \/ At(s, "receive", "pay")
  \/ At(s, "receive", "paid") /\ jobs[s].rcpt # None
  \/ jobs[s].kind = "spend" /\ jobs[s].pc \in {"deploy", "submit", "poll"}
  \/ jobs[s].pc = "scan" /\ ~hybrid

(* Every other one has a timeout: a read of the chain (viem's transport), a  *)
(* wait for a receipt (viem's default), the pause between two polls.         *)
Fairness == \A s \in 1..Slots : WF_userOpVars(Step(s) /\ ~Waits(s))

Spec == Init /\ [][Next]_userOpVars /\ Fairness
-----------------------------------------------------------------------------
PageType == [busy : {None, "receive", "scan"}, hits : SUBSET Anns, code : SUBSET Accounts,
             row : [Anns -> [step : BOOLEAN, result : [nonce : Nat, sponsored : BOOLEAN] \cup {None}]]]
JobType == [kind : {"receive", "scan", "spend"}, ann : Anns \cup {None}, sponsored : BOOLEAN, nonce : Nat,
            tries : 0..Tries,
            pc : {"pay", "paid", "announced", "scan", "deploy", "deployed", "fund", "nonce",
                  "submit", "receipt", "poll", "pause"},
            live : BOOLEAN, rcpt : [ok : BOOLEAN] \cup {None}]

TypeOK ==
  /\ hybrid \in BOOLEAN /\ page \in PageType
  /\ jobs \in [1..Slots -> JobType \cup {None}]
  /\ \A t \in pool : t.slot # 0 => jobs[t.slot] # None /\ jobs[t.slot].rcpt = None
  /\ log \subseteq drawn /\ bal \in [Accounts -> Nat] /\ nonce \in [Accounts -> Nat]

(* A row that says "Spent" had an operation of its own executed with the     *)
(* nonce it was built with, and a sponsored one moved the money -- although  *)
(* the rows of the demo account race for one nonce and operations of earlier *)
(* clicks are included late.  What a row of the page's own bundle says of    *)
(* the money is SpentMoved.                                                  *)
ResultExecuted ==
  \A n \in Anns : page.row[n].result # None =>
    \E e \in executed : /\ e.ann = n /\ e.nonce = page.row[n].result.nonce
                        /\ page.row[n].result.sponsored => e.moved

(* "Spent X ETH" is shown of money that moved, whoever bundled the operation. *)
(* The page's own bundle breaks it: handleOps succeeds although the call of   *)
(* the operation in it reverted.                                             *)
SpentMoved ==
  \A n \in Anns : page.row[n].result # None =>
    \E e \in executed : e.ann = n /\ e.nonce = page.row[n].result.nonce /\ e.moved

(* Every handler ends or waits for ever for the wallet or an answer that     *)
(* never comes: no other wait outlives its timeout, and the polls are        *)
(* counted, although the chain may never mine a transaction and the bundler  *)
(* may silently drop an operation.                                           *)
HandlersEnd ==
  \A s \in 1..Slots :
    jobs[s] # None ~> (jobs[s] = None \/ [](jobs[s] # None /\ Waits(s)))
=============================================================================
