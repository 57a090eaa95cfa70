------------------------------ MODULE SendFlow ------------------------------
(***************************************************************************)
(* The sender's page: ui/src/components/SendTab.tsx driven by the wallet   *)
(* hook ui/src/lib/useWallet.ts, the network selector of App/WalletBar and *)
(* the announcer check of ui/src/lib/announcements.ts.                     *)
(*                                                                         *)
(* A click starts an asynchronous handler (a task).  The handler closes    *)
(* over the network and the signer of the render it was clicked in, and    *)
(* runs from one await to the next; between two awaits the user may change *)
(* network, signer or tab, and the chains may mine.  Leaving the tab       *)
(* unmounts the component: its state is gone, its tasks run on and their   *)
(* setState calls do nothing.                                              *)
(*                                                                         *)
(* A one-time address is named by the index of the transaction that pays   *)
(* it: every send encapsulates afresh, and an address whose payment was    *)
(* never broadcast is known to nobody.                                     *)
(***************************************************************************)
EXTENDS Naturals, Sequences

CONSTANTS
  Networks,      \* the entries of CHAINS
  FramesNets,    \* those with cfg.frames: the in-page throwaway key signs
  DevNets,       \* the local anvil: the dev account or the browser wallet
  LiveNets,      \* those whose configured announcer address has code
  MaxTasks       \* bound: clicks that start a handler

ASSUME NetworksAssumption ==
  /\ FramesNets \subseteq Networks
  /\ DevNets \subseteq Networks \ FramesNets
  /\ LiveNets \subseteq Networks
ASSUME BoundsAssumption == MaxTasks \in Nat

VARIABLES
  net,        \* App: chainKey, the selected network
  preferred,  \* useWallet: the signer the user prefers
  key,        \* useThrowawayWallet: is there an in-page key?
  known,      \* useWallet: injectedAddress is set
  walletNet,  \* the browser wallet's own network
  believed,   \* useWallet: chainId, what the page last heard of walletNet
  open,       \* App: is the send tab shown, so that a SendTab is mounted?
  tab,        \* the mounted instance's useState hooks
  tasks,      \* the handlers started, in order
  txs         \* the transactions broadcast, in order

walletVars == <<preferred, key, known, walletNet, believed>>
pageVars == <<net, open>>
vars == <<net, preferred, key, known, walletNet, believed, open, tab, tasks, txs>>

Signers == {"dev", "throwaway", "injected"}
InPage == {"dev", "throwaway"}            \* signers whose raw key the page holds

(* The pcs name the await a task is suspended at. *)
PayPcs == {"checkPay", "pay", "payReceipt"}
AnnouncePcs == {"checkAnnounce", "announce", "announceReceipt"}

FreshTab == [step |-> "idle", sent |-> 0, pending |-> 0]

-----------------------------------------------------------------------------
(* useWallet.ts *)

ModesFor(n) == IF n \in FramesNets THEN {"throwaway"}
               ELSE IF n \in DevNets THEN {"dev", "injected"}
               ELSE {"injected"}

(* The preferred signer when the network admits it, else the network's first. *)
Mode == IF preferred \in ModesFor(net) THEN preferred
        ELSE IF net \in FramesNets THEN "throwaway"
        ELSE IF net \in DevNets THEN "dev"
        ELSE "injected"

Gate == CASE Mode = "dev" -> "ready"
          [] Mode = "throwaway" -> IF key THEN "ready" ELSE "connect"
          [] Mode = "injected" -> IF ~known THEN "connect"
                                  ELSE IF believed # net THEN "switch" ELSE "ready"

(* clientFor(cfg) # null *)
HasClient == CASE Mode = "dev" -> TRUE
               [] Mode = "throwaway" -> key
               [] Mode = "injected" -> known

(* The signer selector is shown where there is a choice (WalletBar). *)
SetMode(m) == /\ net \in DevNets /\ m \in ModesFor(net) /\ m # preferred
              /\ preferred' = m
              /\ UNCHANGED <<key, known, walletNet, believed, tab, tasks, txs>> /\ UNCHANGED pageVars

GenerateKey == /\ ~key /\ key' = TRUE
               /\ UNCHANGED <<preferred, known, walletNet, believed, tab, tasks, txs>> /\ UNCHANGED pageVars

ForgetKey == /\ key /\ key' = FALSE
             /\ UNCHANGED <<preferred, known, walletNet, believed, tab, tasks, txs>> /\ UNCHANGED pageVars

(* accountsChanged, or the answer to eth_requestAccounts / eth_accounts *)
AccountsChanged == /\ known' = ~known
                   /\ UNCHANGED <<preferred, key, walletNet, believed, tab, tasks, txs>> /\ UNCHANGED pageVars

(* The user (or an answered wallet_switchEthereumChain) moves the wallet... *)
WalletSwitches(n) == /\ walletNet # n /\ walletNet' = n
                     /\ UNCHANGED <<preferred, key, known, believed, tab, tasks, txs>> /\ UNCHANGED pageVars

(* ...and the page hears of it later: chainChanged or the answer to eth_chainId. *)
ChainChanged == /\ believed # walletNet /\ believed' = walletNet
                /\ UNCHANGED <<preferred, key, known, walletNet, tab, tasks, txs>> /\ UNCHANGED pageVars
-----------------------------------------------------------------------------
(* App.tsx / WalletBar.tsx: the selector and the tabs stay enabled during a send. *)

SelectNetwork(n) == /\ net # n /\ net' = n
                    /\ UNCHANGED <<open, tab, tasks, txs>> /\ UNCHANGED walletVars

OpenTab == /\ ~open /\ open' = TRUE
           /\ tab' = FreshTab
           /\ UNCHANGED <<net, tasks, txs>> /\ UNCHANGED walletVars

LeaveTab == /\ open /\ open' = FALSE
            /\ tab' = FreshTab
            /\ tasks' = [t \in DOMAIN tasks |-> [tasks[t] EXCEPT !.mounted = FALSE]]
            /\ UNCHANGED <<net, txs>> /\ UNCHANGED walletVars
-----------------------------------------------------------------------------
(* SendTab.tsx: the two buttons *)

Start(pc, addr) ==
  /\ Len(tasks) < MaxTasks
  /\ tasks' = Append(tasks, [mounted |-> TRUE, net |-> net, signer |-> Mode, pc |-> pc,
                             addr |-> addr, tx |-> 0])

(* Slips this code could have: each variant below stands before the          *)
(* definition it would replace and is used by no specification.              *)
RunEnabled_NotDisabled == open

(* The main button is disabled while a step is shown. *)
RunEnabled == open /\ tab.step = "idle"

(* run() drops the bundle before it looks at the gate.  What connect() or    *)
(* switchChain() asks of the wallet is granted by the wallet's own actions   *)
(* above; the error message of a refusal is no state of this model.          *)
RunConnect == /\ RunEnabled /\ Gate = "connect"
              /\ tab' = [tab EXCEPT !.pending = 0]
              /\ key' = (key \/ Mode = "throwaway")
              /\ UNCHANGED <<preferred, known, walletNet, believed, tasks, txs>> /\ UNCHANGED pageVars

RunSwitch == /\ RunEnabled /\ Gate = "switch"
             /\ tab' = [tab EXCEPT !.pending = 0]
             /\ UNCHANGED <<tasks, txs>> /\ UNCHANGED walletVars /\ UNCHANGED pageVars

RunPay_EarlyBundle ==
  /\ RunEnabled /\ Gate = "ready"
  /\ tab' = [tab EXCEPT !.pending = Len(txs) + 1, !.sent = 0, !.step = "derive"]
  /\ Start("checkPay", 0)
  /\ UNCHANGED txs /\ UNCHANGED walletVars /\ UNCHANGED pageVars

RunPay == /\ RunEnabled /\ Gate = "ready"
          /\ tab' = [tab EXCEPT !.pending = 0, !.sent = 0, !.step = "derive"]
          /\ Start("checkPay", 0)
          /\ UNCHANGED txs /\ UNCHANGED walletVars /\ UNCHANGED pageVars

(* The retry button is part of the note shown for `pendingAnnounce && !sent`. *)
RetryEnabled == RunEnabled /\ tab.pending # 0 /\ tab.sent = 0

(* Without a client the retry only reports "Wallet not ready." *)
RetryAnnounce == /\ RetryEnabled /\ HasClient
                 /\ tab' = [tab EXCEPT !.step = "announce"]
                 /\ Start("checkAnnounce", tab.pending)
                 /\ UNCHANGED txs /\ UNCHANGED walletVars /\ UNCHANGED pageVars
-----------------------------------------------------------------------------
(* SendTab.tsx: the awaits of run() and announceStealth(), one action each.  *)

Live(t) == tasks[t].pc # "done"

(* setState of task t: a no-op once its instance is unmounted. *)
SetTab(t, new) == tab' = IF tasks[t].mounted THEN new ELSE tab

Goto(t, pc) == tasks' = [tasks EXCEPT ![t].pc = pc]

(* A handler that has ended keeps nothing. *)
Ended == [mounted |-> FALSE, net |-> "none", signer |-> "none", pc |-> "done", addr |-> 0, tx |-> 0]
End(t) == tasks' = [tasks EXCEPT ![t] = Ended]

(* Both calls pass `chain: cfg.chain`, so viem asserts that the browser     *)
(* wallet is on the network of the click; without it the call goes anywhere. *)
CanSend_AnyChain(t) == tasks[t].signer = "injected" => known
CanSend(t) == tasks[t].signer = "injected" => known /\ walletNet = tasks[t].net
LandsOn(t) == IF tasks[t].signer = "injected" THEN walletNet ELSE tasks[t].net

Submit(t, kind, addr, pc) ==
  /\ CanSend(t)
  /\ txs' = Append(txs, [kind |-> kind, addr |-> addr, net |-> LandsOn(t), asked |-> tasks[t].net,
                         signer |-> tasks[t].signer, st |-> "pending"])
  /\ tasks' = [tasks EXCEPT ![t].pc = pc, ![t].addr = addr, ![t].tx = Len(txs')]

(* requireAnnouncer resolves only when the announcer has code. *)
RequireAnnouncer(t) == tasks[t].net \in LiveNets

CheckedPay(t) == /\ tasks[t].pc = "checkPay" /\ RequireAnnouncer(t)
                 /\ Goto(t, "pay") /\ SetTab(t, [tab EXCEPT !.step = "pay"])
                 /\ UNCHANGED txs

SendPay_NoWait(t) == /\ tasks[t].pc = "pay"
                     /\ Submit(t, "pay", Len(txs) + 1, "checkAnnounce")
                     /\ UNCHANGED tab

SendPay(t) == /\ tasks[t].pc = "pay"
              /\ Submit(t, "pay", Len(txs) + 1, "payReceipt")
              /\ UNCHANGED tab

Settled(i) == txs[i].st # "pending"

PayReceipt_NoWait(t) ==
  /\ tasks[t].pc = "payReceipt"
  /\ Goto(t, "checkAnnounce")
  /\ SetTab(t, [tab EXCEPT !.pending = tasks[t].addr, !.step = "announce"])
  /\ UNCHANGED txs

PayReceipt(t) == /\ tasks[t].pc = "payReceipt" /\ Settled(tasks[t].tx)
                 /\ Goto(t, "checkAnnounce")
                 /\ SetTab(t, [tab EXCEPT !.pending = tasks[t].addr, !.step = "announce"])
                 /\ UNCHANGED txs

CheckedAnnounce_Unchecked(t) == /\ tasks[t].pc = "checkAnnounce"
                                /\ Goto(t, "announce")
                                /\ UNCHANGED <<tab, txs>>

CheckedAnnounce(t) == /\ tasks[t].pc = "checkAnnounce" /\ RequireAnnouncer(t)
                      /\ Goto(t, "announce")
                      /\ UNCHANGED <<tab, txs>>

SendAnnounce(t) == /\ tasks[t].pc = "announce"
                   /\ Submit(t, "announce", tasks[t].addr, "announceReceipt")
                   /\ UNCHANGED tab

AnnounceReceipt(t) == /\ tasks[t].pc = "announceReceipt" /\ Settled(tasks[t].tx)
                      /\ End(t)
                      /\ SetTab(t, [tab EXCEPT !.sent = tasks[t].addr, !.pending = 0, !.step = "idle"])
                      /\ UNCHANGED txs

Fail_KeepsStep(t) == /\ Live(t) /\ End(t)
                     /\ UNCHANGED <<tab, txs>>

(* Any await may reject: an RPC error, no announcer, a refused signature, a *)
(* wallet on another chain, a receipt that does not come in time.           *)
Fail(t) == /\ Live(t)
           /\ End(t)
           /\ SetTab(t, [tab EXCEPT !.step = "idle"])
           /\ UNCHANGED txs

Step(t) == /\ \/ CheckedPay(t) \/ SendPay(t) \/ PayReceipt(t)
              \/ CheckedAnnounce(t) \/ SendAnnounce(t) \/ AnnounceReceipt(t)
              \/ Fail(t)
           /\ UNCHANGED walletVars /\ UNCHANGED pageVars
-----------------------------------------------------------------------------
(* The chains *)

Mine(i) == /\ ~Settled(i)
           /\ txs' = [txs EXCEPT ![i].st = "mined"]
           /\ UNCHANGED <<tab, tasks>> /\ UNCHANGED walletVars /\ UNCHANGED pageVars

(* The browser wallet's "cancel": another transaction takes the nonce, and   *)
(* viem's waitForTransactionReceipt resolves with the replacement's receipt. *)
Cancel(i) == /\ ~Settled(i) /\ txs[i].signer = "injected"
             /\ txs' = [txs EXCEPT ![i].st = "cancelled"]
             /\ UNCHANGED <<tab, tasks>> /\ UNCHANGED walletVars /\ UNCHANGED pageVars
-----------------------------------------------------------------------------
(* The page has loaded: the wallet's chain is known, and the in-page key was *)
(* in local storage or was not.                                              *)
Init == /\ net \in Networks /\ preferred = "dev" /\ key \in BOOLEAN
        /\ known = FALSE /\ walletNet \in Networks /\ believed = walletNet
        /\ open = FALSE /\ tab = FreshTab
        /\ tasks = <<>> /\ txs = <<>>

Wallet == \/ \E m \in Signers : SetMode(m)
          \/ GenerateKey \/ ForgetKey \/ AccountsChanged \/ ChainChanged
          \/ \E n \in Networks : WalletSwitches(n)

Page == \/ \E n \in Networks : SelectNetwork(n)
        \/ OpenTab \/ LeaveTab
        \/ RunConnect \/ RunSwitch \/ RunPay \/ RetryAnnounce

Next == \/ Wallet \/ Page
        \/ \E t \in DOMAIN tasks : Step(t)
        \/ \E i \in DOMAIN txs : Mine(i) \/ Cancel(i)

(* Every await of a handler settles, by an answer, a refusal or a timeout,   *)
(* except a prompt of the browser wallet, which the user may leave open.     *)
AtWalletPrompt(t) == tasks[t].signer = "injected" /\ tasks[t].pc \in {"pay", "announce"}

Fairness == \A t \in 1..MaxTasks :
              WF_vars(t \in DOMAIN tasks /\ ~AtWalletPrompt(t) /\ Step(t))

Spec == Init /\ [][Next]_vars
FairSpec == Spec /\ Fairness
-----------------------------------------------------------------------------
Task == [mounted : BOOLEAN, net : Networks, signer : Signers,
         pc : PayPcs \cup AnnouncePcs, addr : Nat, tx : Nat]

Tx == [kind : {"pay", "announce"}, addr : Nat, net : Networks, asked : Networks,
       signer : Signers, st : {"pending", "mined", "cancelled"}]

Steps == {"idle", "derive", "pay", "announce"}
Tab == [step : Steps, sent : Nat, pending : Nat]

TypeOK ==
  /\ net \in Networks /\ walletNet \in Networks /\ believed \in Networks
  /\ preferred \in Signers /\ key \in BOOLEAN /\ known \in BOOLEAN
  /\ open \in BOOLEAN
  /\ tab \in Tab /\ tab.sent <= Len(txs) /\ tab.pending <= Len(txs)
  /\ tasks \in Seq(Task \cup {Ended}) /\ txs \in Seq(Tx)
  /\ \A t \in DOMAIN tasks : tasks[t].addr <= Len(txs) /\ tasks[t].tx <= Len(txs)
-----------------------------------------------------------------------------
(* What must hold *)

IsPay(i) == i \in DOMAIN txs /\ txs[i].kind = "pay"
Announces(j, i) == j \in DOMAIN txs /\ txs[j].kind = "announce" /\ txs[j].addr = i
Announced(i) == \E j \in DOMAIN txs : Announces(j, i)

Stage(i) == IF ~IsPay(i) THEN "none"
            ELSE IF Announced(i) THEN "announced"
            ELSE IF Settled(i) THEN "settled" ELSE "broadcast"

(* A task broadcasts at most two transactions, so these name every payment.  *)
PaymentNames == 1..2 * MaxTasks

PP == INSTANCE PaymentPromise
        WITH Payments <- PaymentNames, stage <- [i \in PaymentNames |-> Stage(i)]

(* The page keeps the payment promise: an address is announced only after   *)
(* the wallet saw its payment settle, however clicks, tab and network       *)
(* changes and retries interleave (run(), retryAnnounce()).                 *)
Promise == PP!Spec

(* Nothing is broadcast on another network than the one selected when the   *)
(* handler was clicked, although the wallet's network moves under it and    *)
(* the page's belief about it (useWallet's chainId) lags.                   *)
OnClickedNetwork == \A i \in DOMAIN txs : txs[i].net = txs[i].asked

(* No payment is broadcast on a network whose announcer has no code: it     *)
(* could never be announced there (requireAnnouncer before paying).         *)
NoPayToDeadNet == \A i \in DOMAIN txs : IsPay(i) => txs[i].asked \in LiveNets

(* When the page says "Paid ... announcement", an announcement of that      *)
(* address has settled on a network whose announcer emits; it is mined      *)
(* unless the browser wallet replaced it.                                   *)
SentMeansLogged ==
  tab.sent # 0 => \E j \in DOMAIN txs :
                    /\ Announces(j, tab.sent) /\ txs[j].net \in LiveNets
                    /\ \/ txs[j].st = "mined"
                       \/ txs[j].st = "cancelled" /\ txs[j].signer = "injected"

(* The buttons are enabled only when no handler of the mounted instance is  *)
(* in flight, so that no click pays twice; there is never more than one.    *)
QuietWhenIdle ==
  \A t \in DOMAIN tasks : tasks[t].mounted =>
    /\ open /\ tab.step # "idle"
    /\ \A u \in DOMAIN tasks : tasks[u].mounted => u = t

(* A held bundle can be retried: the JSX hides the retry note as soon as the *)
(* receipt of another payment (`sent`) is shown.                             *)
RetryOffered == tab.pending # 0 => tab.sent = 0

(* A bundle's payment has settled, and is mined when an in-page key paid.   *)
BundleSettled ==
  tab.pending # 0 =>
    /\ IsPay(tab.pending) /\ Settled(tab.pending)
    /\ txs[tab.pending].signer \in InPage => txs[tab.pending].st = "mined"

(* While an in-page key signs, the "Sending..." label always goes: every     *)
(* await answers, refuses or times out, and every way out resets the step.   *)
LabelGoes ==
  (tab.step # "idle" /\ \A t \in DOMAIN tasks : tasks[t].mounted => tasks[t].signer \in InPage)
    ~> tab.step = "idle"

(* SendTab.tsx:105-107: announceStealth re-emits "the ERC-5564 announcement *)
(* for an already-paid stealth address": the announcement belongs on the    *)
(* network the payment is on.                                               *)
AnnouncedWherePaid ==
  \A i, j \in DOMAIN txs : Announces(j, i) => txs[j].net = txs[i].net

(* SendTab.tsx:197-199: the bundle is preserved "so a failed announce stays *)
(* retryable": it may go when its announcement is out, when the user starts *)
(* another payment or leaves the tab, and at no other click.                *)
BundleKept ==
  [][tab.pending # 0 /\ open' /\ tab'.step # "derive"
       => tab'.pending = tab.pending \/ Announced(tab.pending)]_vars
=============================================================================
