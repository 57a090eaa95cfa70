--------------------------- MODULE SendFlow_proofs ---------------------------
(***************************************************************************)
(* Proofs about SendFlow, for every set of networks, every choice of       *)
(* announcers that are alive and any number of handlers.                   *)
(***************************************************************************)
EXTENDS SendFlow, TLAPS

(* Replacing one element of a sequence. *)
LEMMA SeqExcept ==
  ASSUME NEW S, NEW seq \in Seq(S), NEW t \in DOMAIN seq, NEW v \in S
  PROVE  /\ [seq EXCEPT ![t] = v] \in Seq(S)
         /\ Len([seq EXCEPT ![t] = v]) = Len(seq)
         /\ \A u \in DOMAIN seq : [seq EXCEPT ![t] = v][u] = IF u = t THEN v ELSE seq[u]
  OBVIOUS

(* Adding one at the end. *)
LEMMA SeqAppend ==
  ASSUME NEW S, NEW seq \in Seq(S), NEW v \in S
  PROVE  /\ Append(seq, v) \in Seq(S)
         /\ Len(Append(seq, v)) = Len(seq) + 1
         /\ DOMAIN Append(seq, v) = DOMAIN seq \cup {Len(seq) + 1}
         /\ \A u \in DOMAIN seq : Append(seq, v)[u] = seq[u]
         /\ Append(seq, v)[Len(seq) + 1] = v
  OBVIOUS

LEMMA ModeIsSigner == TypeOK => Mode \in Signers
  BY DEF TypeOK, Mode, Signers

(* A live handler is a Task, with the network and signer it was clicked on.  *)
LEMMA LiveIsTask ==
  ASSUME TypeOK, NEW t \in DOMAIN tasks, tasks[t].pc # "done"
  PROVE  tasks[t] \in Task
<1>1. tasks[t] \in Task \cup {Ended}
  BY DEF TypeOK
<1> QED
  BY <1>1 DEF Ended

LEMMA EndedIsUnmounted == [Ended EXCEPT !.mounted = FALSE] = Ended
<1>1. Ended = [x \in DOMAIN Ended |-> Ended[x]] /\ Ended.mounted = FALSE
  BY DEF Ended
<1> HIDE DEF Ended
<1> QED
  BY <1>1
-----------------------------------------------------------------------------
(* TypeOK in two halves: what the wallet and the selectors move, and what    *)
(* clicks, handlers and chains move.                                        *)
WalletTypes ==
  /\ net \in Networks /\ walletNet \in Networks /\ believed \in Networks
  /\ preferred \in Signers /\ key \in BOOLEAN /\ known \in BOOLEAN /\ open \in BOOLEAN

FlowTypes ==
  /\ tab \in Tab /\ tab.sent <= Len(txs) /\ tab.pending <= Len(txs)
  /\ tasks \in Seq(Task \cup {Ended}) /\ txs \in Seq(Tx)
  /\ \A t \in DOMAIN tasks : tasks[t].addr <= Len(txs) /\ tasks[t].tx <= Len(txs)

LEMMA Halves == TypeOK <=> WalletTypes /\ FlowTypes
  BY DEF TypeOK, WalletTypes, FlowTypes

LEMMA WalletStep == TypeOK /\ [Next]_vars => WalletTypes'
<1> SUFFICES ASSUME WalletTypes, [Next]_vars PROVE WalletTypes'
  BY Halves
<1> USE DEF WalletTypes, walletVars, pageVars
<1>1. CASE Wallet
  BY <1>1 DEF Wallet, SetMode, ModesFor, GenerateKey, ForgetKey, AccountsChanged, WalletSwitches, ChainChanged
<1>2. CASE Page
  BY <1>2 DEF Page, SelectNetwork, OpenTab, LeaveTab, RunConnect, RunSwitch, RunPay, RetryAnnounce
<1>3. ASSUME NEW t \in DOMAIN tasks, Step(t) PROVE WalletTypes'
  BY <1>3 DEF Step
<1>4. ASSUME NEW i \in DOMAIN txs, Mine(i) \/ Cancel(i) PROVE WalletTypes'
  BY <1>4 DEF Mine, Cancel
<1>5. CASE UNCHANGED vars
  BY <1>5 DEF vars
<1> QED
  BY <1>1, <1>2, <1>3, <1>4, <1>5 DEF Next
-----------------------------------------------------------------------------
LEMMA StartTypes ==
  ASSUME FlowTypes, TypeOK, NEW pc \in PayPcs \cup AnnouncePcs, NEW addr \in 0..Len(txs), Start(pc, addr),
         tab' \in Tab, tab'.sent <= Len(txs), tab'.pending <= Len(txs), txs' = txs
  PROVE  FlowTypes'
<1> DEFINE new == [mounted |-> TRUE, net |-> net, signer |-> Mode, pc |-> pc, addr |-> addr, tx |-> 0]
<1>1. new \in Task
  BY ModeIsSigner DEF Task, TypeOK
<1>2. new.addr <= Len(txs) /\ new.tx <= Len(txs)
  BY DEF FlowTypes
<1>3. tasks' = Append(tasks, new)
  BY DEF Start
<1> HIDE DEF new
<1>4. /\ tasks' \in Seq(Task \cup {Ended})
      /\ \A t \in DOMAIN tasks' : tasks'[t].addr <= Len(txs) /\ tasks'[t].tx <= Len(txs)
  BY <1>1, <1>2, <1>3, SeqAppend DEF FlowTypes
<1> QED
  BY <1>4 DEF FlowTypes

LEMMA PageFlow == TypeOK /\ Page => FlowTypes'
<1> SUFFICES ASSUME TypeOK, FlowTypes, Page PROVE FlowTypes'
  BY Halves
<1>0. tab \in Tab /\ tab.sent \in 0..Len(txs) /\ tab.pending \in 0..Len(txs) /\ Len(txs) \in Nat
  BY DEF FlowTypes, Tab
<1>1. ASSUME NEW n \in Networks, SelectNetwork(n) PROVE FlowTypes'
  BY <1>1 DEF SelectNetwork, FlowTypes
<1>2. CASE OpenTab
  <2>1. FreshTab \in Tab /\ FreshTab.sent = 0 /\ FreshTab.pending = 0
    BY DEF FreshTab, Tab, Steps
  <2> QED
    BY <1>0, <1>2, <2>1 DEF OpenTab, FlowTypes
<1>3. CASE LeaveTab
  <2>1. FreshTab \in Tab /\ FreshTab.sent = 0 /\ FreshTab.pending = 0
    BY DEF FreshTab, Tab, Steps
  <2> DEFINE Left(t) == [tasks[t] EXCEPT !.mounted = FALSE]
  <2>2. ASSUME NEW t \in DOMAIN tasks
        PROVE  Left(t) \in Task \cup {Ended} /\ Left(t).addr = tasks[t].addr /\ Left(t).tx = tasks[t].tx
    <3>1. tasks[t] \in Task \/ tasks[t] = Ended
      BY DEF FlowTypes
    <3>2. CASE tasks[t] \in Task
      BY <3>2 DEF Task
    <3>3. CASE tasks[t] = Ended
      <4>1. Left(t) = Ended
        BY <3>3, EndedIsUnmounted
      <4> HIDE DEF Left
      <4> QED
        BY <3>3, <4>1
    <3> HIDE DEF Left
    <3> QED
      BY <3>1, <3>2, <3>3
  <2>3. /\ tasks' \in Seq(Task \cup {Ended})
        /\ \A t \in DOMAIN tasks' : tasks'[t].addr <= Len(txs) /\ tasks'[t].tx <= Len(txs)
    <3>1. tasks' = [t \in DOMAIN tasks |-> Left(t)]
      BY <1>3 DEF LeaveTab
    <3> HIDE DEF Left
    <3>2. DOMAIN tasks = 1..Len(tasks) /\ Len(tasks) \in Nat
      BY DEF FlowTypes
    <3> QED
      BY <2>2, <3>1, <3>2 DEF FlowTypes
  <2>4. tab' \in Tab /\ tab'.sent = 0 /\ tab'.pending = 0 /\ txs' = txs
    BY <1>3, <2>1 DEF LeaveTab
  <2> QED
    BY <1>0, <2>3, <2>4 DEF FlowTypes
<1>4. CASE RunConnect \/ RunSwitch
  <2>1. [tab EXCEPT !.pending = 0] \in Tab /\ [tab EXCEPT !.pending = 0].sent = tab.sent
    BY <1>0 DEF Tab
  <2> QED
    BY <1>0, <1>4, <2>1 DEF RunConnect, RunSwitch, FlowTypes, Tab
<1>5. CASE RunPay
  <2> DEFINE new == [tab EXCEPT !.pending = 0, !.sent = 0, !.step = "derive"]
  <2>1. new \in Tab /\ new.sent = 0 /\ new.pending = 0
    BY <1>0 DEF Tab, Steps
  <2>2. tab' = new /\ Start("checkPay", 0) /\ txs' = txs
    BY <1>5 DEF RunPay
  <2>3. tab' \in Tab /\ tab'.sent <= Len(txs) /\ tab'.pending <= Len(txs)
    BY <1>0, <2>1, <2>2
  <2>4. "checkPay" \in PayPcs \cup AnnouncePcs /\ 0 \in 0..Len(txs)
    BY <1>0 DEF PayPcs
  <2> QED
    BY <2>2, <2>3, <2>4, StartTypes
<1>6. CASE RetryAnnounce
  <2> DEFINE new == [tab EXCEPT !.step = "announce"]
  <2>1. new \in Tab /\ new.sent = tab.sent /\ new.pending = tab.pending
    BY <1>0 DEF Tab, Steps
  <2>2. tab' = new /\ Start("checkAnnounce", tab.pending) /\ txs' = txs
    BY <1>6 DEF RetryAnnounce
  <2>3. tab' \in Tab /\ tab'.sent <= Len(txs) /\ tab'.pending <= Len(txs)
    BY <1>0, <2>1, <2>2
  <2>4. "checkAnnounce" \in PayPcs \cup AnnouncePcs
    BY DEF AnnouncePcs
  <2> QED
    BY <1>0, <2>2, <2>3, <2>4, StartTypes
<1> QED
  BY <1>1, <1>2, <1>3, <1>4, <1>5, <1>6 DEF Page
-----------------------------------------------------------------------------
(* What a step of handler t does to the handlers: t's record becomes k, the  *)
(* others stay.                                                             *)
Becomes(t, k) == /\ DOMAIN tasks' = DOMAIN tasks
                 /\ tasks' \in Seq(Task \cup {Ended})
                 /\ tasks'[t] = k
                 /\ \A u \in DOMAIN tasks : u # t => tasks'[u] = tasks[u]

LEMMA GotoShape ==
  ASSUME TypeOK, NEW t \in DOMAIN tasks, tasks[t] \in Task, NEW pc \in PayPcs \cup AnnouncePcs, Goto(t, pc)
  PROVE  /\ Becomes(t, [tasks[t] EXCEPT !.pc = pc])
         /\ tasks'[t] \in Task
         /\ tasks'[t].pc = pc /\ tasks'[t].net = tasks[t].net /\ tasks'[t].mounted = tasks[t].mounted
         /\ tasks'[t].signer = tasks[t].signer
         /\ tasks'[t].addr = tasks[t].addr /\ tasks'[t].tx = tasks[t].tx
<1> DEFINE k == [tasks[t] EXCEPT !.pc = pc]
<1>1. /\ k \in Task /\ k.pc = pc /\ k.net = tasks[t].net /\ k.mounted = tasks[t].mounted
      /\ k.signer = tasks[t].signer /\ k.addr = tasks[t].addr /\ k.tx = tasks[t].tx
  BY DEF Task
<1>2. tasks' = [tasks EXCEPT ![t] = k]
  BY DEF Goto
<1> HIDE DEF k
<1>3. Becomes(t, k)
  BY <1>1, <1>2, SeqExcept DEF TypeOK, Becomes
<1> QED
  BY <1>1, <1>3 DEF Becomes, k

LEMMA EndShape ==
  ASSUME TypeOK, NEW t \in DOMAIN tasks, End(t)
  PROVE  Becomes(t, Ended)
<1>1. tasks' = [tasks EXCEPT ![t] = Ended]
  BY DEF End
<1> QED
  BY <1>1, SeqExcept DEF TypeOK, Becomes

LEMMA SubmitShape ==
  ASSUME TypeOK, NEW t \in DOMAIN tasks, tasks[t] \in Task, NEW kind \in {"pay", "announce"}, NEW addr \in Nat,
         NEW pc \in PayPcs \cup AnnouncePcs, Submit(t, kind, addr, pc)
  PROVE  /\ Becomes(t, [tasks[t] EXCEPT !.pc = pc, !.addr = addr, !.tx = Len(txs')])
         /\ tasks'[t] \in Task
         /\ tasks'[t].pc = pc /\ tasks'[t].addr = addr /\ tasks'[t].tx = Len(txs) + 1
         /\ tasks'[t].net = tasks[t].net /\ tasks'[t].mounted = tasks[t].mounted
         /\ tasks'[t].signer = tasks[t].signer
         /\ txs' \in Seq(Tx) /\ Len(txs') = Len(txs) + 1
         /\ DOMAIN txs' = DOMAIN txs \cup {Len(txs) + 1}
         /\ \A i \in DOMAIN txs : txs'[i] = txs[i]
         /\ txs'[Len(txs) + 1].kind = kind /\ txs'[Len(txs) + 1].addr = addr
         /\ txs'[Len(txs) + 1].net = tasks[t].net /\ txs'[Len(txs) + 1].asked = tasks[t].net
         /\ txs'[Len(txs) + 1].signer = tasks[t].signer /\ txs'[Len(txs) + 1].st = "pending"
<1> DEFINE n == Len(txs) + 1
           k == [tasks[t] EXCEPT !.pc = pc, !.addr = addr, !.tx = n]
           x == [kind |-> kind, addr |-> addr, net |-> LandsOn(t), asked |-> tasks[t].net,
                 signer |-> tasks[t].signer, st |-> "pending"]
<1>0. n \in Nat /\ tasks[t].net \in Networks /\ tasks[t].signer \in Signers
  BY DEF TypeOK, Task
<1>1. LandsOn(t) = tasks[t].net
  BY DEF Submit, CanSend, LandsOn
<1>2. x \in Tx
  BY <1>0, <1>1 DEF Tx
<1>3. txs' = Append(txs, x)
  BY DEF Submit
<1>4. Len(txs') = n
  BY <1>3 DEF TypeOK
<1>5. tasks' = [tasks EXCEPT ![t] = k]
  BY <1>4 DEF Submit
<1>6. /\ k \in Task /\ k.pc = pc /\ k.net = tasks[t].net /\ k.mounted = tasks[t].mounted
      /\ k.signer = tasks[t].signer /\ k.addr = addr /\ k.tx = n
  BY <1>0 DEF Task
<1>7. /\ x.kind = kind /\ x.addr = addr /\ x.net = tasks[t].net /\ x.asked = tasks[t].net
      /\ x.signer = tasks[t].signer /\ x.st = "pending"
  BY <1>1
<1> HIDE DEF k, x
<1>8. Becomes(t, k)
  BY <1>5, <1>6, SeqExcept DEF TypeOK, Becomes
<1>9. /\ txs' \in Seq(Tx) /\ DOMAIN txs' = DOMAIN txs \cup {n} /\ \A i \in DOMAIN txs : txs'[i] = txs[i]
      /\ txs'[n] = x
  BY <1>2, <1>3, SeqAppend DEF TypeOK
<1> QED
  BY <1>4, <1>6, <1>7, <1>8, <1>9 DEF Becomes, k
-----------------------------------------------------------------------------
(* The three ways a handler changes the page: a label, a held bundle with a  *)
(* label, a receipt.                                                        *)
LEMMA Shown ==
  ASSUME TypeOK, NEW step \in Steps, NEW new, new = [tab EXCEPT !.step = step]
  PROVE  /\ new \in Tab /\ new.step = step /\ new.sent = tab.sent /\ new.pending = tab.pending
         /\ new.sent <= Len(txs) /\ new.pending <= Len(txs)
  BY DEF TypeOK, Tab

LEMMA Held ==
  ASSUME TypeOK, NEW a \in 0..Len(txs), NEW step \in Steps, NEW new,
         new = [tab EXCEPT !.pending = a, !.step = step]
  PROVE  /\ new \in Tab /\ new.step = step /\ new.sent = tab.sent /\ new.pending = a
         /\ new.sent <= Len(txs) /\ new.pending <= Len(txs)
<1>1. tab \in Tab /\ Len(txs) \in Nat /\ a \in Nat /\ a <= Len(txs) /\ tab.sent <= Len(txs)
  BY DEF TypeOK
<1>2. /\ new \in Tab /\ new.step = step
      /\ new.sent = tab.sent /\ new.pending = a
  BY <1>1 DEF Tab
<1> QED
  BY <1>1, <1>2

LEMMA Done ==
  ASSUME TypeOK, NEW a \in 0..Len(txs), NEW step \in Steps, NEW new,
         new = [tab EXCEPT !.sent = a, !.pending = 0, !.step = step]
  PROVE  /\ new \in Tab /\ new.step = step /\ new.sent = a /\ new.pending = 0
         /\ new.sent <= Len(txs) /\ new.pending <= Len(txs)
<1>1. tab \in Tab /\ Len(txs) \in Nat /\ a \in Nat /\ a <= Len(txs) /\ tab.sent <= Len(txs)
  BY DEF TypeOK
<1>2. /\ new \in Tab /\ new.step = step
      /\ new.sent = a /\ new.pending = 0
  BY <1>1 DEF Tab
<1> QED
  BY <1>1, <1>2

LEMMA StepFlow == \A t \in DOMAIN tasks : TypeOK /\ Step(t) => FlowTypes'
<1> SUFFICES ASSUME NEW t \in DOMAIN tasks, TypeOK, FlowTypes, Step(t) PROVE FlowTypes'
  BY Halves
<1>0. /\ tab \in Tab /\ tab.sent <= Len(txs) /\ tab.pending <= Len(txs) /\ Len(txs) \in Nat
      /\ tasks \in Seq(Task \cup {Ended}) /\ tasks[t].addr <= Len(txs) /\ tasks[t].tx <= Len(txs)
  BY DEF FlowTypes, Tab
<1>a. ASSUME tasks[t].pc # "done" PROVE tasks[t] \in Task /\ tasks[t].addr \in 0..Len(txs)
  <2>1. tasks[t] \in Task
    BY <1>a, LiveIsTask
  <2> QED
    BY <1>0, <2>1 DEF Task
<1>t. ASSUME NEW new, new \in Tab, new.sent <= Len(txs), new.pending <= Len(txs), SetTab(t, new)
      PROVE  tab' \in Tab /\ tab'.sent <= Len(txs) /\ tab'.pending <= Len(txs)
  BY <1>0, <1>t DEF SetTab
<1>b. ASSUME NEW pc \in PayPcs \cup AnnouncePcs, Goto(t, pc), tasks[t].pc # "done", txs' = txs,
             tab' \in Tab, tab'.sent <= Len(txs), tab'.pending <= Len(txs)
      PROVE  FlowTypes'
  BY <1>0, <1>a, <1>b, GotoShape DEF Becomes, FlowTypes
<1>c. ASSUME End(t), txs' = txs, tab' \in Tab, tab'.sent <= Len(txs), tab'.pending <= Len(txs)
      PROVE  FlowTypes'
  <2>1. Becomes(t, Ended)
    BY <1>c, EndShape
  <2>2. Ended.addr = 0 /\ Ended.tx = 0
    BY DEF Ended
  <2> HIDE DEF Ended
  <2>3. \A u \in DOMAIN tasks' : tasks'[u].addr <= Len(txs) /\ tasks'[u].tx <= Len(txs)
    BY <1>0, <2>1, <2>2 DEF Becomes, FlowTypes
  <2>4. tasks' \in Seq(Task \cup {Ended}) /\ txs \in Seq(Tx)
    BY <2>1 DEF Becomes, FlowTypes
  <2> QED
    BY <1>c, <2>3, <2>4 DEF FlowTypes
<1>d. ASSUME NEW kind \in {"pay", "announce"}, NEW addr \in 0..(Len(txs) + 1), tasks[t].pc # "done",
             NEW pc \in PayPcs \cup AnnouncePcs, Submit(t, kind, addr, pc), tab' = tab
      PROVE  FlowTypes'
  <2>1. addr \in Nat /\ addr <= Len(txs) + 1 /\ tasks[t] \in Task
    BY <1>0, <1>a, <1>d
  <2>2. /\ tasks'[t] \in Task /\ tasks'[t].addr = addr /\ tasks'[t].tx = Len(txs) + 1
        /\ DOMAIN tasks' = DOMAIN tasks /\ tasks' \in Seq(Task \cup {Ended})
        /\ \A u \in DOMAIN tasks : u # t => tasks'[u] = tasks[u]
        /\ txs' \in Seq(Tx) /\ Len(txs') = Len(txs) + 1
    <3>1. Becomes(t, [tasks[t] EXCEPT !.pc = pc, !.addr = addr, !.tx = Len(txs')])
      BY <1>d, <2>1, SubmitShape
    <3>2. /\ tasks'[t] \in Task /\ tasks'[t].addr = addr /\ tasks'[t].tx = Len(txs) + 1
          /\ txs' \in Seq(Tx) /\ Len(txs') = Len(txs) + 1
      BY <1>d, <2>1, SubmitShape
    <3> QED
      BY <3>1, <3>2 DEF Becomes
  <2>3. ASSUME NEW u \in DOMAIN tasks'
        PROVE  tasks'[u].addr <= Len(txs') /\ tasks'[u].tx <= Len(txs')
    <3>1. CASE u = t
      BY <1>0, <2>1, <2>2, <3>1
    <3>2. CASE u # t
      <4>1. tasks'[u] = tasks[u] /\ tasks[u] \in Task \cup {Ended}
            /\ tasks[u].addr <= Len(txs) /\ tasks[u].tx <= Len(txs)
        BY <2>2, <3>2 DEF FlowTypes
      <4>2. tasks[u].addr \in Nat /\ tasks[u].tx \in Nat
        BY <4>1 DEF Task, Ended
      <4> QED
        BY <1>0, <2>2, <4>1, <4>2
    <3> QED
      BY <3>1, <3>2
  <2>4. tab' \in Tab /\ tab'.sent <= Len(txs') /\ tab'.pending <= Len(txs')
    BY <1>0, <1>d, <2>2 DEF Tab
  <2> QED
    BY <2>2, <2>3, <2>4 DEF FlowTypes
<1>p. PayPcs \cup AnnouncePcs = {"checkPay", "pay", "payReceipt", "checkAnnounce", "announce", "announceReceipt"}
  BY DEF PayPcs, AnnouncePcs
<1>s. Steps = {"idle", "derive", "pay", "announce"}
  BY DEF Steps
<1>1. CASE CheckedPay(t)
  <2> DEFINE new == [tab EXCEPT !.step = "pay"]
  <2>1. /\ tasks[t].pc # "done" /\ Goto(t, "pay") /\ SetTab(t, new) /\ txs' = txs
    BY <1>1 DEF CheckedPay
  <2>2. new \in Tab /\ new.sent <= Len(txs) /\ new.pending <= Len(txs)
    BY <1>s, Shown
  <2> HIDE DEF new
  <2>3. tab' \in Tab /\ tab'.sent <= Len(txs) /\ tab'.pending <= Len(txs)
    BY <2>1, <2>2, <1>t
  <2> QED
    BY <2>1, <2>3, <1>p, <1>b
<1>2. CASE SendPay(t)
  <2>1. /\ tasks[t].pc # "done" /\ Submit(t, "pay", Len(txs) + 1, "payReceipt") /\ tab' = tab
    BY <1>2 DEF SendPay
  <2> QED
    BY <1>0, <2>1, <1>p, <1>d
<1>3. CASE PayReceipt(t)
  <2> DEFINE new == [tab EXCEPT !.pending = tasks[t].addr, !.step = "announce"]
  <2>1. /\ tasks[t].pc # "done" /\ Goto(t, "checkAnnounce") /\ SetTab(t, new) /\ txs' = txs
    BY <1>3 DEF PayReceipt
  <2>2. new \in Tab /\ new.sent <= Len(txs) /\ new.pending <= Len(txs)
    <3>1. tasks[t].addr \in 0..Len(txs) /\ "announce" \in Steps
      BY <2>1, <1>a, <1>s
    <3> QED
      BY <3>1, Held
  <2> HIDE DEF new
  <2>3. tab' \in Tab /\ tab'.sent <= Len(txs) /\ tab'.pending <= Len(txs)
    BY <2>1, <2>2, <1>t
  <2> QED
    BY <2>1, <2>3, <1>p, <1>b
<1>4. CASE CheckedAnnounce(t)
  <2>1. tasks[t].pc # "done" /\ Goto(t, "announce") /\ tab' = tab /\ txs' = txs
    BY <1>4 DEF CheckedAnnounce
  <2> QED
    BY <1>0, <2>1, <1>p, <1>b
<1>5. CASE SendAnnounce(t)
  <2>1. /\ tasks[t].pc # "done" /\ Submit(t, "announce", tasks[t].addr, "announceReceipt") /\ tab' = tab
    BY <1>5 DEF SendAnnounce
  <2>2. tasks[t].addr \in 0..(Len(txs) + 1)
    BY <1>0, <1>a, <2>1
  <2> QED
    BY <2>1, <2>2, <1>p, <1>d
<1>6. CASE AnnounceReceipt(t)
  <2> DEFINE new == [tab EXCEPT !.sent = tasks[t].addr, !.pending = 0, !.step = "idle"]
  <2>1. /\ tasks[t].pc # "done" /\ End(t) /\ SetTab(t, new) /\ txs' = txs
    BY <1>6 DEF AnnounceReceipt
  <2>2. new \in Tab /\ new.sent <= Len(txs) /\ new.pending <= Len(txs)
    <3>1. tasks[t].addr \in 0..Len(txs) /\ "idle" \in Steps
      BY <2>1, <1>a, <1>s
    <3> QED
      BY <3>1, Done
  <2> HIDE DEF new
  <2>3. tab' \in Tab /\ tab'.sent <= Len(txs) /\ tab'.pending <= Len(txs)
    BY <2>1, <2>2, <1>t
  <2> QED
    BY <2>1, <2>3, <1>c
<1>7. CASE Fail(t)
  <2> DEFINE new == [tab EXCEPT !.step = "idle"]
  <2>1. /\ End(t) /\ SetTab(t, new) /\ txs' = txs
    BY <1>7 DEF Fail
  <2>2. new \in Tab /\ new.sent <= Len(txs) /\ new.pending <= Len(txs)
    BY <1>s, Shown
  <2> HIDE DEF new
  <2>3. tab' \in Tab /\ tab'.sent <= Len(txs) /\ tab'.pending <= Len(txs)
    BY <2>1, <2>2, <1>t
  <2> QED
    BY <2>1, <2>3, <1>c
<1> QED
  BY <1>1, <1>2, <1>3, <1>4, <1>5, <1>6, <1>7 DEF Step

(* What the chain does to a transaction. *)
SettledTo(j) ==
  /\ txs'[j].kind = txs[j].kind /\ txs'[j].addr = txs[j].addr
  /\ txs'[j].net = txs[j].net /\ txs'[j].asked = txs[j].asked
  /\ txs'[j].signer = txs[j].signer
  /\ txs[j].st # "pending" => txs'[j].st = txs[j].st
  /\ txs'[j].st = "cancelled" => txs[j].st = "cancelled" \/ txs[j].signer = "injected"

LEMMA SettleOne ==
  ASSUME TypeOK, NEW i \in DOMAIN txs, NEW st \in {"mined", "cancelled"}, txs[i].st = "pending",
         st = "cancelled" => txs[i].signer = "injected", txs' = [txs EXCEPT ![i].st = st]
  PROVE  /\ txs' \in Seq(Tx) /\ Len(txs') = Len(txs) /\ DOMAIN txs' = DOMAIN txs
         /\ \A j \in DOMAIN txs : SettledTo(j)
<1> DEFINE x == [txs[i] EXCEPT !.st = st]
<1>1. txs[i] \in Tx
  BY DEF TypeOK
<1>2. /\ x \in Tx /\ x.kind = txs[i].kind /\ x.addr = txs[i].addr /\ x.net = txs[i].net
      /\ x.asked = txs[i].asked /\ x.signer = txs[i].signer /\ x.st = st
  BY <1>1 DEF Tx
<1>3. txs' = [txs EXCEPT ![i] = x]
  OBVIOUS
<1> HIDE DEF x
<1>4. /\ txs' \in Seq(Tx) /\ Len(txs') = Len(txs) /\ DOMAIN txs' = DOMAIN txs
      /\ \A j \in DOMAIN txs : txs'[j] = IF j = i THEN x ELSE txs[j]
  <2>1. txs \in Seq(Tx) /\ x \in Tx
    BY <1>2 DEF TypeOK
  <2>2. [txs EXCEPT ![i] = x] \in Seq(Tx) /\ Len([txs EXCEPT ![i] = x]) = Len(txs)
    BY <2>1, SeqExcept
  <2>3. \A j \in DOMAIN txs : [txs EXCEPT ![i] = x][j] = IF j = i THEN x ELSE txs[j]
    BY <2>1, SeqExcept
  <2>4. DOMAIN [txs EXCEPT ![i] = x] = DOMAIN txs
    OBVIOUS
  <2> QED
    BY <1>3, <2>2, <2>3, <2>4
<1>5. ASSUME NEW j \in DOMAIN txs PROVE SettledTo(j)
  BY <1>2, <1>4 DEF SettledTo
<1> QED
  BY <1>4, <1>5

LEMMA SettleShape ==
  ASSUME TypeOK, NEW i \in DOMAIN txs, Mine(i) \/ Cancel(i)
  PROVE  /\ txs' \in Seq(Tx) /\ Len(txs') = Len(txs) /\ DOMAIN txs' = DOMAIN txs
         /\ tab' = tab /\ tasks' = tasks /\ open' = open
         /\ \A j \in DOMAIN txs : SettledTo(j)
<1>1. txs[i] \in Tx
  BY DEF TypeOK
<1>2. txs[i].st = "pending" /\ tab' = tab /\ tasks' = tasks /\ open' = open
  BY <1>1 DEF Mine, Cancel, Settled, pageVars, Tx
<1>3. CASE Mine(i)
  <2>1. txs' = [txs EXCEPT ![i].st = "mined"]
    BY <1>3 DEF Mine
  <2> QED
    BY <1>2, <2>1, SettleOne
<1>4. CASE Cancel(i)
  <2>1. txs' = [txs EXCEPT ![i].st = "cancelled"] /\ txs[i].signer = "injected"
    BY <1>4 DEF Cancel
  <2> QED
    BY <1>2, <2>1, SettleOne
<1> QED
  BY <1>3, <1>4

LEMMA InitTypes == Init => TypeOK
<1> SUFFICES ASSUME Init PROVE TypeOK
  OBVIOUS
<1>1. tab \in Tab /\ tab.sent = 0 /\ tab.pending = 0
  BY DEF Init, FreshTab, Tab, Steps
<1>2. tasks \in Seq(Task \cup {Ended}) /\ txs \in Seq(Tx) /\ Len(txs) = 0 /\ DOMAIN tasks = {}
  BY DEF Init
<1>3. key \in BOOLEAN /\ known \in BOOLEAN /\ open \in BOOLEAN
  BY DEF Init
<1>4. net \in Networks /\ walletNet \in Networks /\ believed \in Networks /\ preferred \in Signers
  BY DEF Init, Signers
<1> QED
  BY <1>1, <1>2, <1>3, <1>4 DEF TypeOK

LEMMA TypesKept == TypeOK /\ [Next]_vars => TypeOK'
<1> SUFFICES ASSUME TypeOK, [Next]_vars PROVE FlowTypes'
  BY WalletStep, Halves DEF TypeOK, WalletTypes, FlowTypes
<1>0. FlowTypes
  BY Halves
<1>1. CASE Wallet
  BY <1>0, <1>1 DEF Wallet, SetMode, GenerateKey, ForgetKey, AccountsChanged, WalletSwitches, ChainChanged,
                    FlowTypes
<1>2. CASE Page
  BY <1>2, PageFlow
<1>3. ASSUME NEW t \in DOMAIN tasks, Step(t) PROVE FlowTypes'
  BY <1>3, StepFlow
<1>4. ASSUME NEW i \in DOMAIN txs, Mine(i) \/ Cancel(i) PROVE FlowTypes'
  BY <1>0, <1>4, SettleShape DEF FlowTypes
<1>5. CASE UNCHANGED vars
  BY <1>0, <1>5 DEF vars, FlowTypes
<1> QED
  BY <1>1, <1>2, <1>3, <1>4, <1>5 DEF Next

(* Every page, wallet, handler and chain step keeps the types.               *)
THEOREM TypeCorrect == Spec => []TypeOK
  BY InitTypes, TypesKept, PTL DEF Spec
-----------------------------------------------------------------------------
(* The inductive invariant: what a handler knows at each await, and what the *)
(* log of transactions can hold.                                            *)
TaskOK(t) ==
  /\ tasks[t].pc \in {"pay", "announce", "announceReceipt"} => tasks[t].net \in LiveNets
  /\ tasks[t].pc = "payReceipt" => IsPay(tasks[t].addr) /\ tasks[t].tx = tasks[t].addr
  /\ tasks[t].pc \in AnnouncePcs => IsPay(tasks[t].addr) /\ Settled(tasks[t].addr)
  /\ tasks[t].pc = "announceReceipt" => Announces(tasks[t].tx, tasks[t].addr)

TxOK(i) ==
  /\ txs[i].net = txs[i].asked /\ txs[i].net \in LiveNets
  /\ txs[i].st = "cancelled" => txs[i].signer = "injected"
  /\ txs[i].kind = "announce" => IsPay(txs[i].addr) /\ Settled(txs[i].addr)

LogInv == /\ \A t \in DOMAIN tasks : TaskOK(t)
          /\ \A i \in DOMAIN txs : TxOK(i)

(* A held bundle still lacks its receipt, and while a payment is under way   *)
(* the page shows none.                                                     *)
PageInv == /\ QuietWhenIdle /\ RetryOffered
           /\ \A t \in DOMAIN tasks :
                tasks[t].mounted /\ tasks[t].pc \in PayPcs => tab.sent = 0

(* The log only grows, and what has settled stays as it is.                  *)
Keeps == \A i \in DOMAIN txs : i \in DOMAIN txs' /\ SettledTo(i)

LEMMA TxsKept == TypeOK /\ [Next]_vars => Keeps
<1> SUFFICES ASSUME TypeOK, [Next]_vars PROVE Keeps
  OBVIOUS
<1>1. ASSUME txs' = txs PROVE Keeps
  BY <1>1 DEF Keeps, SettledTo
<1>2. CASE Wallet \/ Page \/ UNCHANGED vars
  <2>1. txs' = txs
    BY <1>2 DEF vars, Wallet, SetMode, GenerateKey, ForgetKey, AccountsChanged, WalletSwitches, ChainChanged,
                Page, SelectNetwork, OpenTab, LeaveTab, RunConnect, RunSwitch, RunPay, RetryAnnounce
  <2> QED
    BY <1>1, <2>1
<1>3. ASSUME NEW t \in DOMAIN tasks, Step(t) PROVE Keeps
  <2>1. CASE txs' = txs
    BY <1>1, <2>1
  <2>2. CASE SendPay(t) \/ SendAnnounce(t)
    <3>1. PICK x : txs' = Append(txs, x)
      BY <2>2 DEF SendPay, SendAnnounce, Submit
    <3>2. \A i \in DOMAIN txs : i \in DOMAIN txs' /\ txs'[i] = txs[i]
      BY <3>1 DEF TypeOK
    <3> QED
      BY <3>2 DEF Keeps, SettledTo
  <2> QED
    BY <1>3, <2>1, <2>2 DEF Step, CheckedPay, PayReceipt, CheckedAnnounce, AnnounceReceipt, Fail
<1>4. ASSUME NEW i \in DOMAIN txs, Mine(i) \/ Cancel(i) PROVE Keeps
  BY <1>4, SettleShape DEF Keeps
<1> QED
  BY <1>2, <1>3, <1>4 DEF Next

LEMMA Stable ==
  ASSUME Keeps, NEW i, NEW j
  PROVE  /\ IsPay(i) => IsPay(i)'
         /\ IsPay(i) /\ Settled(i) => Settled(i)' /\ txs'[i].st = txs[i].st /\ txs'[i].signer = txs[i].signer
         /\ Announces(j, i) => Announces(j, i)' /\ txs'[j].net = txs[j].net
  BY DEF Keeps, SettledTo, IsPay, Settled, Announces

(* A handler that this step leaves where it was still knows what it knew.    *)
LEMMA TaskKept ==
  ASSUME Keeps, NEW t \in DOMAIN tasks, TaskOK(t),
         tasks'[t].pc = tasks[t].pc, tasks'[t].net = tasks[t].net,
         tasks'[t].addr = tasks[t].addr, tasks'[t].tx = tasks[t].tx
  PROVE  TaskOK(t)'
  BY Stable DEF TaskOK

LEMMA TxKept ==
  ASSUME TypeOK, Keeps, NEW i \in DOMAIN txs, TxOK(i)
  PROVE  TxOK(i)'
<1>1. SettledTo(i)
  BY DEF Keeps
<1> QED
  BY <1>1, Stable DEF TxOK, SettledTo
LEMMA LogInvStep ==
  ASSUME TypeOK, LogInv, BundleSettled, [Next]_vars, TypeOK'
  PROVE  LogInv'
<1>0. Keeps
  BY TxsKept
<1>a. ASSUME txs' = txs PROVE \A i \in DOMAIN txs' : TxOK(i)'
  BY <1>0, <1>a, TxKept DEF LogInv
<1>b. ASSUME NEW t \in DOMAIN tasks, NEW k, Becomes(t, k), TaskOK(t)'
      PROVE  \A u \in DOMAIN tasks' : TaskOK(u)'
  <2>1. ASSUME NEW u \in DOMAIN tasks, u # t PROVE TaskOK(u)'
    <3>1. tasks'[u] = tasks[u] /\ TaskOK(u)
      BY <1>b, <2>1 DEF Becomes, LogInv
    <3> QED
      BY <1>0, <3>1, TaskKept
  <2> QED
    BY <1>b, <2>1 DEF Becomes
<1>c. ASSUME NEW pc \in PayPcs \cup AnnouncePcs, NEW addr, Start(pc, addr), txs' = txs,
             pc \in {"checkPay", "checkAnnounce"},
             pc = "checkAnnounce" => IsPay(addr) /\ Settled(addr)
      PROVE  LogInv'
  <2> DEFINE new == [mounted |-> TRUE, net |-> net, signer |-> Mode, pc |-> pc, addr |-> addr, tx |-> 0]
  <2>1. tasks' = Append(tasks, new) /\ new.pc = pc /\ new.addr = addr
    BY <1>c DEF Start
  <2> HIDE DEF new
  <2>2. PICK n : n = Len(tasks) + 1
    OBVIOUS
  <2>3. /\ DOMAIN tasks' = DOMAIN tasks \cup {n} /\ tasks'[n] = new
        /\ \A u \in DOMAIN tasks : tasks'[u] = tasks[u]
    BY <2>1, <2>2 DEF TypeOK
  <2>4. TaskOK(n)'
    <3>1. pc = "checkAnnounce" => IsPay(addr)' /\ Settled(addr)'
      BY <1>0, <1>c, Stable
    <3>2. tasks'[n].pc = pc /\ tasks'[n].addr = addr
      BY <2>1, <2>3
    <3> QED
      BY <1>c, <3>1, <3>2 DEF TaskOK, AnnouncePcs
  <2>5. ASSUME NEW u \in DOMAIN tasks PROVE TaskOK(u)'
    BY <1>0, <2>3, TaskKept DEF LogInv
  <2> QED
    BY <1>a, <1>c, <2>3, <2>4, <2>5 DEF LogInv
<1>1. CASE Wallet \/ UNCHANGED vars
  <2>1. tasks' = tasks /\ txs' = txs
    BY <1>1 DEF vars, Wallet, SetMode, GenerateKey, ForgetKey, AccountsChanged, WalletSwitches, ChainChanged
  <2> QED
    BY <1>0, <1>a, <2>1, TaskKept DEF LogInv
<1>2. CASE Page
  <2>1. CASE LeaveTab
    <3>1. /\ DOMAIN tasks' = DOMAIN tasks /\ txs' = txs
          /\ \A u \in DOMAIN tasks : tasks'[u] = [tasks[u] EXCEPT !.mounted = FALSE]
      BY <2>1 DEF LeaveTab
    <3>2. ASSUME NEW u \in DOMAIN tasks PROVE TaskOK(u)'
      <4>1. /\ tasks'[u].pc = tasks[u].pc /\ tasks'[u].net = tasks[u].net
            /\ tasks'[u].addr = tasks[u].addr /\ tasks'[u].tx = tasks[u].tx
        <5>1. tasks[u] \in Task \/ tasks[u] = Ended
          BY DEF TypeOK
        <5> QED
          BY <3>1, <5>1 DEF Task, Ended
      <4> QED
        BY <1>0, <4>1, TaskKept DEF LogInv
    <3> QED
      BY <1>a, <3>1, <3>2 DEF LogInv
  <2>2. CASE RunPay
    BY <1>c, <2>2 DEF RunPay, PayPcs
  <2>3. CASE RetryAnnounce
    <3>1. Start("checkAnnounce", tab.pending) /\ txs' = txs /\ tab.pending # 0
      BY <2>3 DEF RetryAnnounce, RetryEnabled
    <3>2. IsPay(tab.pending) /\ Settled(tab.pending)
      BY <3>1 DEF BundleSettled
    <3> QED
      BY <1>c, <3>1, <3>2 DEF AnnouncePcs
  <2>4. CASE tasks' = tasks /\ txs' = txs
    BY <1>0, <1>a, <2>4, TaskKept DEF LogInv
  <2> QED
    BY <1>2, <2>1, <2>2, <2>3, <2>4 DEF Page, SelectNetwork, OpenTab, RunConnect, RunSwitch
<1>3. ASSUME NEW t \in DOMAIN tasks, Step(t) PROVE LogInv'
  <2>0. TaskOK(t)
    BY DEF LogInv
  <2>a. ASSUME NEW pc \in PayPcs \cup AnnouncePcs, Goto(t, pc), txs' = txs, tasks[t].pc # "done",
               pc = "pay" => tasks[t].net \in LiveNets,
               pc = "announce" => tasks[t].net \in LiveNets,
               pc \in {"checkAnnounce", "announce"} => IsPay(tasks[t].addr) /\ Settled(tasks[t].addr),
               pc \in {"pay", "checkAnnounce", "announce"}
        PROVE  LogInv'
    <3>1. tasks[t] \in Task
      BY <2>a, LiveIsTask
    <3>2. PICK k : Becomes(t, k) /\ k.pc = pc /\ k.net = tasks[t].net /\ k.addr = tasks[t].addr
      BY <2>a, <3>1, GotoShape DEF Becomes
    <3>3. TaskOK(t)'
      <4>1. tasks'[t] = k
        BY <3>2 DEF Becomes
      <4>2. IsPay(tasks[t].addr) /\ Settled(tasks[t].addr) => IsPay(tasks[t].addr)' /\ Settled(tasks[t].addr)'
        BY <2>a, <3>2, <4>1 DEF IsPay, Settled
      <4> QED
        BY <2>a, <3>2, <4>1, <4>2 DEF TaskOK, AnnouncePcs, IsPay, Settled
    <3> QED
      BY <1>a, <1>b, <2>a, <3>2, <3>3 DEF LogInv
  <2>b. ASSUME End(t), txs' = txs PROVE LogInv'
    <3>1. Becomes(t, Ended)
      BY <2>b, EndShape
    <3>2. TaskOK(t)'
      <4>1. tasks'[t].pc = "done"
        BY <3>1 DEF Becomes, Ended
      <4> QED
        BY <4>1 DEF TaskOK, AnnouncePcs
    <3> QED
      BY <1>a, <1>b, <2>b, <3>1, <3>2 DEF LogInv
  <2>1. CASE CheckedPay(t)
    BY <2>1, <2>a DEF CheckedPay, RequireAnnouncer, PayPcs
  <2>3. CASE PayReceipt(t)
    BY <2>0, <2>3, <2>a DEF PayReceipt, TaskOK, AnnouncePcs
  <2>4. CASE CheckedAnnounce(t)
    BY <2>0, <2>4, <2>a DEF CheckedAnnounce, RequireAnnouncer, TaskOK, AnnouncePcs
  <2>6. CASE AnnounceReceipt(t) \/ Fail(t)
    BY <2>6, <2>b DEF AnnounceReceipt, Fail
  <2>n. PICK n : n = Len(txs) + 1 /\ n \in Nat
    BY DEF TypeOK
  <2>c. ASSUME NEW kind \in {"pay", "announce"}, NEW addr \in Nat, NEW pc \in {"payReceipt", "announceReceipt"},
               Submit(t, kind, addr, pc), tasks[t] \in Task, tasks[t].net \in LiveNets,
               pc = "payReceipt" => kind = "pay" /\ addr = n,
               pc = "announceReceipt" => kind = "announce" /\ IsPay(addr) /\ Settled(addr)
        PROVE  LogInv'
    <3>0. pc \in PayPcs \cup AnnouncePcs
      BY <2>c DEF PayPcs, AnnouncePcs
    <3>1. PICK k : /\ Becomes(t, k) /\ k.pc = pc /\ k.addr = addr /\ k.tx = n
                   /\ k.net = tasks[t].net
      <4>1. tasks[t] \in Task /\ Submit(t, kind, addr, pc) /\ Len(txs) + 1 = n
        BY <2>c, <2>n
      <4>2. /\ Becomes(t, [tasks[t] EXCEPT !.pc = pc, !.addr = addr, !.tx = Len(txs')])
            /\ tasks'[t].pc = pc /\ tasks'[t].addr = addr /\ tasks'[t].tx = n /\ tasks'[t].net = tasks[t].net
        BY <2>c, <3>0, <4>1, SubmitShape
      <4> QED
        BY <4>2 DEF Becomes
    <3>2. DOMAIN txs' = DOMAIN txs \cup {n}
      BY <2>c, <2>n, <3>0, SubmitShape
    <3>3. /\ txs'[n].kind = kind /\ txs'[n].addr = addr
          /\ txs'[n].net = tasks[t].net /\ txs'[n].asked = tasks[t].net /\ txs'[n].st = "pending"
      BY <2>c, <2>n, <3>0, SubmitShape
    <3>4. IsPay(addr) /\ Settled(addr) => IsPay(addr)' /\ Settled(addr)'
      BY <1>0, Stable
    <3>5. TxOK(n)'
      BY <2>c, <3>3, <3>4 DEF TxOK
    <3>6. TaskOK(t)'
      <4>1. tasks'[t] = k
        BY <3>1 DEF Becomes
      <4>2. CASE pc = "payReceipt"
        BY <2>c, <3>1, <3>2, <3>3, <4>1, <4>2 DEF TaskOK, AnnouncePcs, IsPay
      <4>3. CASE pc = "announceReceipt"
        BY <2>c, <3>1, <3>2, <3>3, <3>4, <4>1, <4>3 DEF TaskOK, AnnouncePcs, Announces
      <4> QED
        BY <2>c, <4>2, <4>3
    <3>7. ASSUME NEW i \in DOMAIN txs PROVE TxOK(i)'
      BY <1>0, TxKept DEF LogInv
    <3> QED
      BY <1>b, <3>1, <3>2, <3>5, <3>6, <3>7 DEF LogInv
  <2>7. CASE SendPay(t)
    <3>1. tasks[t] \in Task /\ tasks[t].net \in LiveNets /\ Submit(t, "pay", n, "payReceipt")
      BY <2>0, <2>7, <2>n, LiveIsTask DEF SendPay, TaskOK
    <3> QED
      BY <2>c, <2>n, <3>1
  <2>8. CASE SendAnnounce(t)
    <3>1. /\ tasks[t] \in Task /\ tasks[t].net \in LiveNets /\ IsPay(tasks[t].addr) /\ Settled(tasks[t].addr)
          /\ Submit(t, "announce", tasks[t].addr, "announceReceipt")
      BY <2>0, <2>8, LiveIsTask DEF SendAnnounce, TaskOK, AnnouncePcs
    <3>2. tasks[t].addr \in Nat
      BY <3>1 DEF Task
    <3> QED
      BY <2>c, <3>1, <3>2
  <2> QED
    BY <1>3, <2>1, <2>3, <2>4, <2>6, <2>7, <2>8 DEF Step
<1>4. ASSUME NEW i \in DOMAIN txs, Mine(i) \/ Cancel(i) PROVE LogInv'
  <2>1. tasks' = tasks /\ DOMAIN txs' = DOMAIN txs /\ \A j \in DOMAIN txs : SettledTo(j)
    BY <1>4, SettleShape
  <2>2. ASSUME NEW u \in DOMAIN tasks PROVE TaskOK(u)'
    BY <1>0, <2>1, TaskKept DEF LogInv
  <2>3. ASSUME NEW j \in DOMAIN txs PROVE TxOK(j)'
    BY <1>0, TxKept DEF LogInv
  <2> QED
    BY <2>1, <2>2, <2>3 DEF LogInv
<1> QED
  BY <1>1, <1>2, <1>3, <1>4 DEF Next

(* What is said of a bundle, or of a receipt, outlives a step that leaves it. *)
LEMMA BundleKeptSettled ==
  ASSUME Keeps, BundleSettled, tab'.pending = tab.pending
  PROVE  BundleSettled'
  BY Stable DEF BundleSettled

LEMMA ReceiptKept ==
  ASSUME Keeps, SentMeansLogged, tab'.sent = tab.sent
  PROVE  SentMeansLogged'
<1> SUFFICES ASSUME tab.sent # 0 PROVE SentMeansLogged'
  BY DEF SentMeansLogged
<1>1. PICK j \in DOMAIN txs : /\ Announces(j, tab.sent) /\ txs[j].net \in LiveNets
                              /\ \/ txs[j].st = "mined"
                                 \/ txs[j].st = "cancelled" /\ txs[j].signer = "injected"
  BY DEF SentMeansLogged
<1>2. /\ Announces(j, tab.sent)' /\ txs'[j].net = txs[j].net /\ j \in DOMAIN txs'
      /\ txs'[j].st = txs[j].st /\ txs'[j].signer = txs[j].signer
  BY <1>1, Stable DEF Keeps, SettledTo
<1> QED
  BY <1>1, <1>2 DEF SentMeansLogged

(* A bundle is held, and a receipt shown, only for what the log confirms.    *)
LEMMA ClaimsStep ==
  ASSUME TypeOK, LogInv, BundleSettled, SentMeansLogged, [Next]_vars
  PROVE  BundleSettled' /\ SentMeansLogged'
<1>0. Keeps
  BY TxsKept
<1>a. ASSUME tab'.pending = 0 PROVE BundleSettled'
  BY <1>a DEF BundleSettled
<1>b. ASSUME tab'.sent = 0 PROVE SentMeansLogged'
  BY <1>b DEF SentMeansLogged
<1>t. tab \in Tab
  BY DEF TypeOK
<1>s. ASSUME NEW i \in DOMAIN txs, Settled(i)
      PROVE  txs[i].st = "mined" \/ (txs[i].st = "cancelled" /\ txs[i].signer = "injected")
  <2>1. txs[i] \in Tx
    BY DEF TypeOK
  <2>2. txs[i].st \in {"pending", "mined", "cancelled"}
    BY <2>1 DEF Tx
  <2>3. TxOK(i)
    BY DEF LogInv
  <2> QED
    BY <1>s, <2>2, <2>3 DEF Settled, TxOK
<1>1. CASE tab' = tab
  BY <1>0, <1>1, BundleKeptSettled, ReceiptKept
<1>2. CASE Page
  <2>1. CASE OpenTab \/ LeaveTab
    BY <1>a, <1>b, <2>1 DEF OpenTab, LeaveTab, FreshTab
  <2>2. CASE RunConnect \/ RunSwitch
    <3>1. tab'.pending = 0 /\ tab'.sent = tab.sent
      BY <1>t, <2>2 DEF RunConnect, RunSwitch, Tab
    <3> QED
      BY <1>0, <1>a, <3>1, ReceiptKept
  <2>3. CASE RunPay
    <3>1. tab'.pending = 0 /\ tab'.sent = 0
      BY <1>t, <2>3 DEF RunPay, Tab
    <3> QED
      BY <1>a, <1>b, <3>1
  <2>4. CASE RetryAnnounce
    <3>1. tab'.pending = tab.pending /\ tab'.sent = tab.sent
      BY <1>t, <2>4 DEF RetryAnnounce, Tab
    <3> QED
      BY <1>0, <3>1, BundleKeptSettled, ReceiptKept
  <2>5. CASE \E n \in Networks : SelectNetwork(n)
    BY <1>1, <2>5 DEF SelectNetwork
  <2> QED
    BY <1>2, <2>1, <2>2, <2>3, <2>4, <2>5 DEF Page
<1>3. ASSUME NEW t \in DOMAIN tasks, Step(t), tasks[t].mounted PROVE BundleSettled' /\ SentMeansLogged'
  <2>0. TaskOK(t)
    BY DEF LogInv
  <2>1. CASE CheckedPay(t) \/ Fail(t)
    <3>1. tab'.pending = tab.pending /\ tab'.sent = tab.sent
      BY <1>t, <1>3, <2>1 DEF CheckedPay, Fail, SetTab, Tab
    <3> QED
      BY <1>0, <3>1, BundleKeptSettled, ReceiptKept
  <2>2. CASE PayReceipt(t)
    <3>1. tab'.pending = tasks[t].addr /\ tab'.sent = tab.sent /\ txs' = txs
      BY <1>t, <1>3, <2>2 DEF PayReceipt, SetTab, Tab
    <3>2. IsPay(tasks[t].addr) /\ Settled(tasks[t].addr) /\ tasks[t].addr \in DOMAIN txs
      BY <2>0, <2>2 DEF PayReceipt, TaskOK, IsPay
    <3>3. BundleSettled'
      BY <1>s, <3>1, <3>2 DEF BundleSettled, IsPay, Settled, InPage
    <3> QED
      BY <1>0, <3>1, <3>3, ReceiptKept
  <2>3. CASE AnnounceReceipt(t)
    <3>1. tab'.sent = tasks[t].addr /\ tab'.pending = 0 /\ txs' = txs
      BY <1>t, <1>3, <2>3 DEF AnnounceReceipt, SetTab, Tab
    <3>2. Announces(tasks[t].tx, tasks[t].addr) /\ Settled(tasks[t].tx) /\ tasks[t].tx \in DOMAIN txs
      BY <2>0, <2>3 DEF AnnounceReceipt, TaskOK, Announces
    <3>3. txs[tasks[t].tx].net \in LiveNets
      BY <3>2 DEF LogInv, TxOK
    <3>4. SentMeansLogged'
      BY <1>s, <3>1, <3>2, <3>3 DEF SentMeansLogged, Announces
    <3> QED
      BY <1>a, <3>1, <3>4
  <2> QED
    BY <1>1, <1>3, <2>1, <2>2, <2>3 DEF Step, SendPay, CheckedAnnounce, SendAnnounce
<1>4. ASSUME NEW t \in DOMAIN tasks, Step(t), ~tasks[t].mounted PROVE tab' = tab
  BY <1>4 DEF Step, CheckedPay, PayReceipt, AnnounceReceipt, Fail, SetTab, SendPay, CheckedAnnounce, SendAnnounce
<1>5. CASE Wallet \/ UNCHANGED vars
  BY <1>1, <1>5 DEF vars, Wallet, SetMode, GenerateKey, ForgetKey, AccountsChanged, WalletSwitches, ChainChanged
<1>6. ASSUME NEW i \in DOMAIN txs, Mine(i) \/ Cancel(i) PROVE tab' = tab
  BY <1>6, SettleShape
<1> QED
  BY <1>1, <1>2, <1>3, <1>4, <1>5, <1>6 DEF Next

(* What a step does to one handler's place on the page. *)
LEMMA PageInvKept ==
  ASSUME PageInv, open' = open, tab' = tab, DOMAIN tasks' = DOMAIN tasks,
         \A u \in DOMAIN tasks :
           /\ tasks'[u].mounted => tasks[u].mounted
           /\ tasks'[u].mounted /\ tasks'[u].pc \in PayPcs => tasks[u].pc \in PayPcs
  PROVE  PageInv'
  BY DEF PageInv, QuietWhenIdle, RetryOffered

LEMMA PageInvStep ==
  ASSUME TypeOK, PageInv, [Next]_vars, TypeOK'
  PROVE  PageInv'
<1>t. tab \in Tab
  BY DEF TypeOK
<1>a. ASSUME DOMAIN tasks' = DOMAIN tasks, \A u \in DOMAIN tasks : ~tasks'[u].mounted, RetryOffered'
      PROVE  PageInv'
  BY <1>a DEF PageInv, QuietWhenIdle
<1>c. ASSUME NEW pc \in PayPcs \cup AnnouncePcs, NEW addr, Start(pc, addr), RunEnabled, open' = open,
             tab'.step # "idle", RetryOffered', pc \in PayPcs => tab'.sent = 0
      PROVE  PageInv'
  <2> DEFINE new == [mounted |-> TRUE, net |-> net, signer |-> Mode, pc |-> pc, addr |-> addr, tx |-> 0]
  <2>1. tasks' = Append(tasks, new) /\ new.mounted = TRUE /\ new.pc = pc
    BY <1>c DEF Start
  <2> HIDE DEF new
  <2>2. PICK n : n = Len(tasks) + 1 /\ n \notin DOMAIN tasks
    BY DEF TypeOK
  <2>3. /\ DOMAIN tasks' = DOMAIN tasks \cup {n} /\ tasks'[n] = new
        /\ \A u \in DOMAIN tasks : tasks'[u] = tasks[u]
    BY <2>1, <2>2 DEF TypeOK
  <2>4. \A u \in DOMAIN tasks : ~tasks'[u].mounted
    BY <1>c, <2>3 DEF RunEnabled, PageInv, QuietWhenIdle
  <2>5. open' = TRUE
    BY <1>c DEF RunEnabled, TypeOK
  <2> QED
    BY <1>c, <2>1, <2>3, <2>4, <2>5 DEF PageInv, QuietWhenIdle
<1>1. CASE Wallet \/ UNCHANGED vars
  <2>1. tasks' = tasks /\ tab' = tab /\ open' = open
    BY <1>1 DEF vars, pageVars, Wallet, SetMode, GenerateKey, ForgetKey, AccountsChanged, WalletSwitches, ChainChanged
  <2> QED
    BY <2>1, PageInvKept
<1>2. CASE Page
  <2>1. CASE OpenTab
    <3>1. tasks' = tasks /\ tab'.pending = 0
      BY <2>1 DEF OpenTab, FreshTab
    <3>2. \A u \in DOMAIN tasks : ~tasks'[u].mounted
      BY <2>1, <3>1 DEF OpenTab, PageInv, QuietWhenIdle
    <3> QED
      BY <1>a, <3>1, <3>2 DEF RetryOffered
  <2>2. CASE LeaveTab
    <3>1. tab'.pending = 0 /\ DOMAIN tasks' = DOMAIN tasks
      BY <2>2 DEF LeaveTab, FreshTab
    <3>2. ASSUME NEW u \in DOMAIN tasks PROVE ~tasks'[u].mounted
      <4>1. tasks'[u] = [tasks[u] EXCEPT !.mounted = FALSE]
        BY <2>2 DEF LeaveTab
      <4>2. tasks[u] \in Task \/ tasks[u] = Ended
        BY DEF TypeOK
      <4> QED
        BY <4>1, <4>2 DEF Task, Ended
    <3> QED
      BY <1>a, <3>1, <3>2 DEF RetryOffered
  <2>3. CASE RunConnect \/ RunSwitch
    <3>1. tab'.pending = 0 /\ tab'.sent = tab.sent /\ tab'.step = tab.step /\ tasks' = tasks /\ open' = open
      BY <1>t, <2>3 DEF RunConnect, RunSwitch, Tab, pageVars
    <3> QED
      BY <3>1 DEF PageInv, QuietWhenIdle, RetryOffered
  <2>4. CASE RunPay
    <3>1. tab'.pending = 0 /\ tab'.sent = 0 /\ tab'.step = "derive"
      BY <1>t, <2>4 DEF RunPay, Tab
    <3>2. Start("checkPay", 0) /\ RunEnabled /\ open' = open
      BY <2>4 DEF RunPay, pageVars
    <3> QED
      BY <1>c, <3>1, <3>2 DEF PayPcs, RetryOffered
  <2>5. CASE RetryAnnounce
    <3>1. tab'.pending = tab.pending /\ tab'.sent = tab.sent /\ tab'.step = "announce"
      BY <1>t, <2>5 DEF RetryAnnounce, Tab
    <3>2. Start("checkAnnounce", tab.pending) /\ RunEnabled /\ open' = open
      BY <2>5 DEF RetryAnnounce, RetryEnabled, pageVars
    <3>3. RetryOffered'
      BY <3>1 DEF PageInv, RetryOffered
    <3>4. "checkAnnounce" \in PayPcs \cup AnnouncePcs /\ "checkAnnounce" \notin PayPcs
      BY DEF PayPcs, AnnouncePcs
    <3> QED
      BY <1>c, <3>1, <3>2, <3>3, <3>4
  <2>6. CASE \E n \in Networks : SelectNetwork(n)
    BY <2>6, PageInvKept DEF SelectNetwork
  <2> QED
    BY <1>2, <2>1, <2>2, <2>3, <2>4, <2>5, <2>6 DEF Page
<1>4. ASSUME NEW i \in DOMAIN txs, Mine(i) \/ Cancel(i) PROVE PageInv'
  BY <1>4, SettleShape, PageInvKept
<1>5. ASSUME NEW t \in DOMAIN tasks, Step(t) PROVE PageInv'
  <2>0. open' = open
    BY <1>5 DEF Step, pageVars
  <2>p. PayPcs = {"checkPay", "pay", "payReceipt"} /\ AnnouncePcs = {"checkAnnounce", "announce", "announceReceipt"}
    BY DEF PayPcs, AnnouncePcs
  <2>u. ~tasks[t].mounted => tab' = tab
    BY <1>5 DEF Step, CheckedPay, PayReceipt, AnnounceReceipt, Fail, SetTab, SendPay, CheckedAnnounce, SendAnnounce
  (* The step ends the handler. *)
  <2>a. ASSUME End(t), RetryOffered' PROVE PageInv'
    <3>1. Becomes(t, Ended) /\ Ended.mounted = FALSE
      BY <2>a, EndShape DEF Ended
    <3>2. CASE tasks[t].mounted
      <4>1. \A u \in DOMAIN tasks : ~tasks'[u].mounted
        BY <3>1, <3>2 DEF Becomes, PageInv, QuietWhenIdle
      <4> QED
        BY <1>a, <2>a, <3>1, <4>1 DEF Becomes
    <3>3. CASE ~tasks[t].mounted
      <4>1. ASSUME NEW u \in DOMAIN tasks
            PROVE  /\ tasks'[u].mounted => tasks[u].mounted
                   /\ tasks'[u].mounted /\ tasks'[u].pc \in PayPcs => tasks[u].pc \in PayPcs
        BY <3>1, <3>3 DEF Becomes
      <4> QED
        BY <2>0, <2>u, <3>1, <3>3, <4>1, PageInvKept DEF Becomes
    <3> QED
      BY <3>2, <3>3
  (* The step moves it on. *)
  <2>b. ASSUME NEW k, Becomes(t, k), k.mounted = tasks[t].mounted,
               k.pc \in PayPcs => tasks[t].pc \in PayPcs,
               tasks[t].mounted => /\ tab'.step # "idle" /\ RetryOffered'
                                   /\ k.pc \in PayPcs => tab'.sent = tab.sent
        PROVE  PageInv'
    <3>1. CASE ~tasks[t].mounted
      <4>1. ASSUME NEW u \in DOMAIN tasks
            PROVE  /\ tasks'[u].mounted => tasks[u].mounted
                   /\ tasks'[u].mounted /\ tasks'[u].pc \in PayPcs => tasks[u].pc \in PayPcs
        BY <2>b, <3>1 DEF Becomes
      <4> QED
        BY <2>0, <2>b, <2>u, <3>1, <4>1, PageInvKept DEF Becomes
    <3>2. CASE tasks[t].mounted
      <4>1. open /\ \A u \in DOMAIN tasks : tasks[u].mounted => u = t
        BY <3>2 DEF PageInv, QuietWhenIdle
      <4>2. \A u \in DOMAIN tasks' : tasks'[u].mounted => u = t
        BY <2>b, <4>1 DEF Becomes
      <4>3. k.pc \in PayPcs => tab'.sent = 0
        BY <2>b, <3>2 DEF PageInv
      <4>4. QuietWhenIdle'
        BY <2>0, <2>b, <3>2, <4>1, <4>2 DEF QuietWhenIdle
      <4> QED
        BY <2>b, <3>2, <4>2, <4>3, <4>4 DEF Becomes, PageInv
    <3> QED
      BY <3>1, <3>2
  <2>k. ASSUME NEW pc \in PayPcs \cup AnnouncePcs, Goto(t, pc), tasks[t].pc # "done"
        PROVE  \E k : Becomes(t, k) /\ k.mounted = tasks[t].mounted /\ k.pc = pc
    <3>1. tasks[t] \in Task
      BY <2>k, LiveIsTask
    <3>2. tasks'[t].pc = pc /\ tasks'[t].mounted = tasks[t].mounted
      BY <2>k, <3>1, GotoShape
    <3>3. Becomes(t, [tasks[t] EXCEPT !.pc = pc])
      BY <2>k, <3>1, GotoShape
    <3>4. Becomes(t, tasks'[t])
      BY <3>3 DEF Becomes
    <3> QED
      BY <3>2, <3>4
  <2>1. CASE CheckedPay(t)
    <3>1. tasks[t].pc = "checkPay" /\ Goto(t, "pay") /\ SetTab(t, [tab EXCEPT !.step = "pay"])
      BY <2>1 DEF CheckedPay
    <3>2. PICK k : Becomes(t, k) /\ k.mounted = tasks[t].mounted /\ k.pc = "pay"
      BY <2>k, <2>p, <3>1
    <3>3. ASSUME tasks[t].mounted PROVE tab'.step = "pay" /\ tab'.sent = tab.sent /\ tab'.pending = tab.pending
      BY <1>t, <3>1, <3>3 DEF SetTab, Tab
    <3>4. tasks[t].mounted => RetryOffered'
      BY <3>3 DEF PageInv, RetryOffered
    <3> QED
      BY <2>b, <2>p, <3>1, <3>2, <3>3, <3>4
  <2>2. CASE PayReceipt(t)
    <3>1. /\ tasks[t].pc = "payReceipt" /\ Goto(t, "checkAnnounce")
          /\ SetTab(t, [tab EXCEPT !.pending = tasks[t].addr, !.step = "announce"])
      BY <2>2 DEF PayReceipt
    <3>2. PICK k : Becomes(t, k) /\ k.mounted = tasks[t].mounted /\ k.pc = "checkAnnounce"
      BY <2>k, <2>p, <3>1
    <3>3. ASSUME tasks[t].mounted PROVE tab'.step = "announce" /\ tab'.sent = tab.sent
      BY <1>t, <3>1, <3>3 DEF SetTab, Tab
    <3>4. tasks[t].mounted => RetryOffered'
      BY <2>p, <3>1, <3>3 DEF PageInv, RetryOffered
    <3> QED
      BY <2>b, <2>p, <3>1, <3>2, <3>3, <3>4
  <2>3. CASE CheckedAnnounce(t)
    <3>1. tasks[t].pc = "checkAnnounce" /\ Goto(t, "announce") /\ tab' = tab
      BY <2>3 DEF CheckedAnnounce
    <3>2. PICK k : Becomes(t, k) /\ k.mounted = tasks[t].mounted /\ k.pc = "announce"
      BY <2>k, <2>p, <3>1
    <3>3. (tasks[t].mounted => tab'.step # "idle") /\ RetryOffered'
      BY <3>1 DEF PageInv, QuietWhenIdle, RetryOffered
    <3> QED
      BY <2>b, <2>p, <3>2, <3>3
  <2>4. CASE SendPay(t) \/ SendAnnounce(t)
    <3>1. PICK pc \in PayPcs \cup AnnouncePcs, addr \in Nat, kind \in {"pay", "announce"} :
            /\ Submit(t, kind, addr, pc) /\ tab' = tab /\ tasks[t] \in Task
            /\ pc \in PayPcs => tasks[t].pc \in PayPcs
      <4>1. tasks[t] \in Task /\ tasks[t].addr \in Nat /\ Len(txs) + 1 \in Nat
        <5>1. tasks[t] \in Task
          BY <2>4, LiveIsTask DEF SendPay, SendAnnounce
        <5> QED
          BY <5>1 DEF Task, TypeOK
      <4>2. CASE SendPay(t)
        BY <2>p, <4>1, <4>2 DEF SendPay
      <4>3. CASE SendAnnounce(t)
        BY <2>p, <4>1, <4>3 DEF SendAnnounce
      <4> QED
        BY <2>4, <4>2, <4>3
    <3>2. PICK k : Becomes(t, k) /\ k.mounted = tasks[t].mounted /\ k.pc = pc
      <4>1. /\ Becomes(t, [tasks[t] EXCEPT !.pc = pc, !.addr = addr, !.tx = Len(txs')])
            /\ tasks'[t].pc = pc /\ tasks'[t].mounted = tasks[t].mounted
        BY <3>1, SubmitShape
      <4> QED
        BY <4>1 DEF Becomes
    <3>3. (tasks[t].mounted => tab'.step # "idle") /\ RetryOffered'
      BY <3>1 DEF PageInv, QuietWhenIdle, RetryOffered
    <3> QED
      BY <2>b, <2>p, <3>1, <3>2, <3>3
  <2>5. CASE AnnounceReceipt(t) \/ Fail(t)
    <3>1. End(t)
      BY <2>5 DEF AnnounceReceipt, Fail
    <3>2. CASE ~tasks[t].mounted
      BY <2>a, <2>u, <3>1, <3>2 DEF PageInv, RetryOffered
    <3>3. CASE tasks[t].mounted
      <4>1. tab'.pending = 0 \/ (tab'.pending = tab.pending /\ tab'.sent = tab.sent)
        BY <1>t, <2>5, <3>3 DEF AnnounceReceipt, Fail, SetTab, Tab
      <4> QED
        BY <2>a, <3>1, <3>3, <4>1 DEF PageInv, RetryOffered
    <3> QED
      BY <3>2, <3>3
  <2> QED
    BY <1>5, <2>1, <2>2, <2>3, <2>4, <2>5 DEF Step
<1> QED
  BY <1>1, <1>2, <1>4, <1>5 DEF Next
-----------------------------------------------------------------------------
IInv == TypeOK /\ LogInv /\ PageInv /\ BundleSettled /\ SentMeansLogged

LEMMA IInvHolds == Spec => []IInv
<1>1. Init => IInv
  <2> SUFFICES ASSUME Init PROVE LogInv /\ PageInv /\ BundleSettled /\ SentMeansLogged
    BY InitTypes DEF IInv
  <2>1. DOMAIN tasks = {} /\ DOMAIN txs = {} /\ tab.sent = 0 /\ tab.pending = 0
    BY DEF Init, FreshTab
  <2> QED
    BY <2>1 DEF LogInv, PageInv, QuietWhenIdle, RetryOffered, BundleSettled, SentMeansLogged
<1>2. IInv /\ [Next]_vars => IInv'
  <2> SUFFICES ASSUME IInv, [Next]_vars PROVE IInv'
    OBVIOUS
  <2>1. TypeOK'
    BY TypesKept DEF IInv
  <2> QED
    BY <2>1, LogInvStep, PageInvStep, ClaimsStep DEF IInv
<1> QED
  BY <1>1, <1>2, PTL DEF Spec

(* Whatever network is selected while a handler runs, what it broadcasts     *)
(* lands where it was clicked.                                              *)
THEOREM ClickedNetwork == Spec => []OnClickedNetwork
<1>1. IInv => OnClickedNetwork
  BY DEF IInv, LogInv, TxOK, OnClickedNetwork
<1> QED
  BY <1>1, IInvHolds, PTL

(* No payment is ever broadcast where it could not be announced.             *)
THEOREM DeadNetsUnpaid == Spec => []NoPayToDeadNet
<1>1. IInv => NoPayToDeadNet
  BY DEF IInv, LogInv, TxOK, NoPayToDeadNet, IsPay
<1> QED
  BY <1>1, IInvHolds, PTL

(* A receipt is shown only for an announcement that settled.                 *)
THEOREM ReceiptsTrue == Spec => []SentMeansLogged
<1>1. IInv => SentMeansLogged
  BY DEF IInv
<1> QED
  BY <1>1, IInvHolds, PTL

(* At most one handler of the shown page is in flight.                       *)
THEOREM OneHandler == Spec => []QuietWhenIdle
<1>1. IInv => QuietWhenIdle
  BY DEF IInv, PageInv
<1> QED
  BY <1>1, IInvHolds, PTL

(* A held bundle is always offered for retry.                                *)
THEOREM BundlesOffered == Spec => []RetryOffered
<1>1. IInv => RetryOffered
  BY DEF IInv, PageInv
<1> QED
  BY <1>1, IInvHolds, PTL

(* A held bundle belongs to a payment that settled.                          *)
THEOREM BundlesSettled == Spec => []BundleSettled
<1>1. IInv => BundleSettled
  BY DEF IInv
<1> QED
  BY <1>1, IInvHolds, PTL
-----------------------------------------------------------------------------
(* The refinement: each step moves at most one payment, one stage on.        *)
bar == [i \in PaymentNames |-> Stage(i)]

LEMMA BarMoves ==
  ASSUME NEW n, NEW from, NEW to, Stage(n) = from, Stage(n)' = to,
         \A i \in PaymentNames : i # n => Stage(i)' = Stage(i),
         \/ from = to
         \/ from = "none" /\ to = "broadcast"
         \/ from = "broadcast" /\ to = "settled"
         \/ from = "settled" /\ to = "announced"
  PROVE  PP!Next \/ bar' = bar
<1>0. bar' = [i \in PaymentNames |-> Stage(i)']
  BY DEF bar, PaymentNames
<1> USE DEF bar
<1>1. CASE n \notin PaymentNames \/ from = to
  BY <1>0, <1>1
<1>2. CASE n \in PaymentNames
  <2>1. bar' = [bar EXCEPT ![n] = to] /\ bar[n] = from
    BY <1>0, <1>2
  <2> QED
    BY <1>1, <1>2, <2>1 DEF PP!Next, PP!Broadcast, PP!Settle, PP!Announce
<1> QED
  BY <1>1, <1>2

LEMMA PayStage ==
  ASSUME IInv, NEW t \in DOMAIN tasks, SendPay(t)
  PROVE  PP!Next \/ bar' = bar
<1>1. PICK n : n = Len(txs) + 1 /\ n \in Nat /\ n \notin DOMAIN txs
  BY DEF IInv, TypeOK
<1>2. tasks[t] \in Task /\ Submit(t, "pay", n, "payReceipt") /\ "payReceipt" \in PayPcs \cup AnnouncePcs
  BY <1>1, LiveIsTask DEF IInv, SendPay, PayPcs
<1>3. /\ DOMAIN txs' = DOMAIN txs \cup {n} /\ \A i \in DOMAIN txs : txs'[i] = txs[i]
      /\ txs'[n].kind = "pay" /\ txs'[n].st = "pending"
  BY <1>1, <1>2, SubmitShape DEF IInv
<1>4. \A j \in DOMAIN txs : txs[j].kind = "announce" => txs[j].addr # n
  BY <1>1 DEF IInv, LogInv, TxOK, IsPay
<1>5. Stage(n) = "none"
  BY <1>1 DEF Stage, IsPay
<1>6. Stage(n)' = "broadcast"
  BY <1>3, <1>4 DEF Stage, IsPay, Announced, Announces, Settled
<1>7. ASSUME NEW i, i # n PROVE Stage(i)' = Stage(i)
  BY <1>3, <1>7 DEF Stage, IsPay, Announced, Announces, Settled
<1> QED
  BY <1>5, <1>6, <1>7, BarMoves

LEMMA AnnounceStage ==
  ASSUME IInv, NEW t \in DOMAIN tasks, SendAnnounce(t)
  PROVE  PP!Next \/ bar' = bar
<1>1. PICK n : n = Len(txs) + 1 /\ n \in Nat /\ n \notin DOMAIN txs
  BY DEF IInv, TypeOK
<1>2. PICK a : a = tasks[t].addr
  OBVIOUS
<1>3. tasks[t] \in Task /\ Submit(t, "announce", a, "announceReceipt") /\ "announceReceipt" \in PayPcs \cup AnnouncePcs
  BY <1>2, LiveIsTask DEF IInv, SendAnnounce, AnnouncePcs
<1>4. a \in Nat
  BY <1>2, <1>3 DEF Task
<1>5. /\ DOMAIN txs' = DOMAIN txs \cup {n} /\ \A i \in DOMAIN txs : txs'[i] = txs[i]
      /\ txs'[n].kind = "announce" /\ txs'[n].addr = a
  BY <1>1, <1>3, <1>4, SubmitShape DEF IInv
<1>6. IsPay(a) /\ Settled(a)
  BY <1>2 DEF IInv, LogInv, TaskOK, SendAnnounce, AnnouncePcs
<1>7. Stage(a) \in {"settled", "announced"}
  BY <1>6 DEF Stage
<1>8. Stage(a)' = "announced"
  BY <1>5, <1>6 DEF Stage, IsPay, Announced, Announces
<1>9. ASSUME NEW i, i # a PROVE Stage(i)' = Stage(i)
  BY <1>1, <1>5, <1>9 DEF Stage, IsPay, Announced, Announces, Settled
<1> QED
  BY <1>7, <1>8, <1>9, BarMoves

LEMMA SettleStage ==
  ASSUME IInv, NEW i \in DOMAIN txs, Mine(i) \/ Cancel(i)
  PROVE  PP!Next \/ bar' = bar
<1>1. TypeOK /\ txs[i].st = "pending"
  BY DEF IInv, Mine, Cancel, Settled
<1>2. /\ DOMAIN txs' = DOMAIN txs
      /\ \A j \in DOMAIN txs : txs'[j].kind = txs[j].kind /\ txs'[j].addr = txs[j].addr
  BY <1>1, SettleShape DEF SettledTo
<1>3. /\ txs'[i].st # "pending"
      /\ \A j \in DOMAIN txs : j # i => txs'[j].st = txs[j].st
  <2>1. PICK st \in {"mined", "cancelled"} : txs' = [txs EXCEPT ![i].st = st]
    BY DEF Mine, Cancel
  <2>2. \A j \in DOMAIN txs : txs[j] \in Tx
    BY <1>1 DEF TypeOK
  <2>3. txs'[i] = [txs[i] EXCEPT !.st = st]
    BY <2>1
  <2>4. txs'[i].st = st
    BY <2>2, <2>3 DEF Tx
  <2>5. \A j \in DOMAIN txs : j # i => txs'[j] = txs[j]
    BY <2>1
  <2> QED
    BY <2>4, <2>5
<1>4. ASSUME NEW j PROVE /\ IsPay(j)' <=> IsPay(j)
                         /\ Announced(j)' <=> Announced(j)
  BY <1>2 DEF IsPay, Announced, Announces
<1>5. ASSUME NEW j, j # i PROVE Stage(j)' = Stage(j)
  <2>1. IsPay(j) => (Settled(j)' <=> Settled(j))
    BY <1>3, <1>5 DEF IsPay, Settled
  <2> QED
    BY <1>4, <2>1 DEF Stage
<1>6. CASE ~IsPay(i)
  <2>1. Stage(i)' = Stage(i)
    BY <1>4, <1>6 DEF Stage
  <2> QED
    BY <1>5, <2>1, BarMoves
<1>7. CASE IsPay(i)
  <2>1. ~Announced(i)
    BY <1>1 DEF IInv, LogInv, TxOK, Announced, Announces, Settled
  <2>2. Stage(i) = "broadcast"
    BY <1>1, <1>7, <2>1 DEF Stage, Settled
  <2>3. Stage(i)' = "settled"
    BY <1>3, <1>4, <1>7, <2>1 DEF Stage, Settled
  <2> QED
    BY <1>5, <2>2, <2>3, BarMoves
<1> QED
  BY <1>6, <1>7

(* The page implements the payment promise.                                  *)
THEOREM PromiseKept == Spec => Promise
<1>1. Init => PP!Init
  <2> SUFFICES ASSUME Init PROVE PP!Init
    OBVIOUS
  <2>1. \A i : Stage(i) = "none"
    BY DEF Init, Stage, IsPay
  <2> QED
    BY <2>1 DEF PP!Init
<1>2. IInv /\ [Next]_vars => [PP!Next]_bar
  <2> SUFFICES ASSUME IInv, [Next]_vars PROVE PP!Next \/ bar' = bar
    OBVIOUS
  <2>1. CASE txs' = txs
    <3>1. \A i : Stage(i)' = Stage(i)
      BY <2>1 DEF Stage, IsPay, Announced, Announces, Settled
    <3> QED
      BY <3>1 DEF bar, PaymentNames
  <2>2. ASSUME NEW t \in DOMAIN tasks, SendPay(t) PROVE PP!Next \/ bar' = bar
    BY <2>2, PayStage
  <2>3. ASSUME NEW t \in DOMAIN tasks, SendAnnounce(t) PROVE PP!Next \/ bar' = bar
    BY <2>3, AnnounceStage
  <2>4. ASSUME NEW i \in DOMAIN txs, Mine(i) \/ Cancel(i) PROVE PP!Next \/ bar' = bar
    BY <2>4, SettleStage
  <2>5. CASE Wallet \/ Page \/ UNCHANGED vars
    BY <2>1, <2>5 DEF vars, Wallet, SetMode, GenerateKey, ForgetKey, AccountsChanged, WalletSwitches, ChainChanged,
                      Page, SelectNetwork, OpenTab, LeaveTab, RunConnect, RunSwitch, RunPay, RetryAnnounce
  <2>6. ASSUME NEW t \in DOMAIN tasks, Step(t) PROVE txs' = txs \/ SendPay(t) \/ SendAnnounce(t)
    BY <2>6 DEF Step, CheckedPay, PayReceipt, CheckedAnnounce, AnnounceReceipt, Fail
  <2> QED
    BY <2>1, <2>2, <2>3, <2>4, <2>5, <2>6 DEF Next
<1> QED
  BY <1>1, <1>2, IInvHolds, PTL DEF Spec, Promise, PP!Spec, bar
=============================================================================
