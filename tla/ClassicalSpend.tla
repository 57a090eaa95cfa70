-------------------------- MODULE ClassicalSpend --------------------------
(***************************************************************************)
(* The classical route of the spend page: component ClassicalSpend of      *)
(* ui/src/components/SpendTab.tsx, over ui/src/lib/classical.ts (keys and  *)
(* stealth addresses), storage.ts (the seeds the browser keeps),           *)
(* registry.ts and contracts/src/StealthKeyRegistry.sol (viewing keys by   *)
(* index).                                                                 *)
(*                                                                         *)
(* An identity stands for its seeds and for every key derived from them; a *)
(* stealth address is the identity and the randomness of the encapsulation.*)
(* A job is one click; it captures the keys, the network and the           *)
(* deployment of the render it was clicked on, and keeps running when the  *)
(* page is left.  Every address is paid, and spends, one unit.             *)
(***************************************************************************)
EXTENDS Integers, Sequences, FiniteSets

CONSTANTS
  Nets, FramesNets,  \* the selectable networks; those with frame transactions
  StartNets,    \* bound: the network selected when the page opens
  Paid0,        \* networks where recipient A was paid before the page opened
  Random,       \* bound: the seeds the generator may draw
  Coins,        \* bound: the randomness encapsulations may draw
  Slots,        \* bound: jobs running at once
  MaxKeys,      \* bound: viewing keys in the registries
  MaxClicks,    \* bound: clicks that start a job
  MaxSelects,   \* bound: network changes and returns to the page
  None

VARIABLES
  net,           \* App: the selected network
  clicks, selects,  \* what the bounds count
  page,          \* ClassicalSpend: keys, busy, compact, hits, pending rows, dep
  fetches,       \* networks whose deployment file is being fetched
  stored,        \* the seeds in localStorage
  jobs,          \* the running handlers
  drawn,         \* seeds and coins drawn so far
  registry, log, funded,  \* chains: viewing keys, announced and funded addresses
  pool           \* transactions broadcast and not mined

app == <<net, selects, fetches>>
chain == <<registry, log, funded>>
classicalVars == <<app, clicks, page, stored, jobs, drawn, chain, pool>>

Ids == {"A"} \cup Random
FreshPage(k) == [keys |-> k, busy |-> None, compact |-> None, hits |-> {}, pending |-> {}, dep |-> None]
-----------------------------------------------------------------------------
(* classical.ts, registry.ts *)

DeriveClassicalKeys(seeds) == seeds
RandomClassicalSeeds == Random \ drawn

(* P = K + t G, from the meta-address alone *)
DeriveStealthAddress(meta, ss) == <<meta, ss>>
(* p = k + t controls P for the spending key of that meta-address only *)
DeriveStealthPrivkey(seeds, ss) == <<seeds, ss>>
CheckClassicalAnnouncement(id, addr) == addr[1] = id

EncodeCompactMeta(id, n, i) == [id |-> id, net |-> n, index |-> i]

(* The viewing key a sender finds on that network, beside the inline spending key. *)
ResolveCompactMeta(c) == IF c.index < Len(registry[c.net]) THEN registry[c.net][c.index + 1] ELSE None
-----------------------------------------------------------------------------
(* Jobs *)

Free == {s \in 1..Slots : jobs[s] = None}

Start(kind, addr, frames, pc) ==
  /\ Free # {} /\ clicks < MaxClicks /\ clicks' = clicks + 1
  /\ jobs' = [jobs EXCEPT ![CHOOSE s \in Free : \A q \in Free : s <= q] =
                [kind |-> kind, id |-> page.keys, net |-> net, frames |-> frames, addr |-> addr,
                 dep |-> page.dep, pc |-> pc, live |-> TRUE, rcpt |-> None]]

At(s, kind, pc) == jobs[s].kind = kind /\ jobs[s].pc = pc
Go(s, pc) == jobs' = [jobs EXCEPT ![s].pc = pc, ![s].rcpt = None]
End(s) == jobs' = [jobs EXCEPT ![s] = None]
SetPage(s, p) == page' = IF jobs[s].live THEN p ELSE page

(* catch and finally: the row of a spend, or the page's busy flag, is cleared. *)
(* A transaction already broadcast stays in the pool, waited for by nobody.   *)
Cleared(s) == IF jobs[s].kind = "spend" THEN [page EXCEPT !.pending = @ \ {jobs[s].addr}]
              ELSE [page EXCEPT !.busy = None]
Disowned(s) == {IF t.slot = s THEN [t EXCEPT !.slot = 0] ELSE t : t \in pool}
Throw(s) == End(s) /\ SetPage(s, Cleared(s)) /\ pool' = Disowned(s) /\ UNCHANGED <<stored, drawn>>

Tx(s, kind) == [slot |-> s, kind |-> kind, net |-> jobs[s].net, id |-> jobs[s].id, addr |-> jobs[s].addr,
                dep |-> jobs[s].dep]
Send(s, t, pc) == pool' = pool \cup {t} /\ Go(s, pc) /\ UNCHANGED <<page, stored, drawn>>

Frames == IF net \in FramesNets THEN BOOLEAN ELSE {FALSE}
Unchosen == UNCHANGED <<app, stored, drawn, chain, pool>>
-----------------------------------------------------------------------------
(* identity: 20 ms later the seeds are derived, saved and shown.  What was   *)
(* registered for the keys before stays on the page.                         *)

IdentityClick ==
  page.busy = None /\ page' = [page EXCEPT !.busy = "identity"] /\ Start("identity", None, FALSE, "derive") /\ Unchosen

Identity(s) ==
  \/ /\ At(s, "identity", "derive")
     /\ \E id \in {"A"} \cup RandomClassicalSeeds :
          /\ stored' = id /\ drawn' = drawn \cup {id}
          /\ SetPage(s, [page EXCEPT !.keys = DeriveClassicalKeys(id), !.hits = {}, !.busy = None])
     /\ End(s) /\ UNCHANGED pool
  \/ At(s, "identity", "derive") /\ Throw(s)

(* registerCompact *)
RegisterClick ==
  /\ page.busy = None /\ page.keys # None /\ page.dep # None
  /\ page' = [page EXCEPT !.busy = "register"] /\ Start("register", None, FALSE, "send") /\ Unchosen

(* Slips this code could have, as every definition named X_Y before X: the   *)
(* index is asked of the registry after the receipt, as its count or its last. *)
RegisteredIndex_Count(s) == Len(registry[jobs[s].net])
RegisteredIndex_Last(s) == Len(registry[jobs[s].net]) - 1
RegisteredIndex(s) == jobs[s].rcpt.index

RegisterCompact(s) ==
  \/ At(s, "register", "send") /\ Send(s, Tx(s, "register"), "receipt")
  \/ /\ At(s, "register", "receipt") /\ jobs[s].rcpt # None /\ jobs[s].rcpt.index # None
     /\ SetPage(s, [page EXCEPT !.busy = None,
                    !.compact = EncodeCompactMeta(jobs[s].id, jobs[s].net, RegisteredIndex(s))])
     /\ End(s) /\ UNCHANGED <<stored, drawn, pool>>
  \/ jobs[s].kind = "register" /\ Throw(s)
-----------------------------------------------------------------------------
(* scan; also the last step of receive and spend *)

Hits(s) == {addr \in log[jobs[s].net] : CheckClassicalAnnouncement(jobs[s].id, addr)}

ScanClick ==
  /\ page.busy = None /\ page.keys # None
  /\ page' = [page EXCEPT !.busy = "scan"] /\ Start("scan", None, FALSE, "scan") /\ Unchosen

Scan(s) ==
  /\ jobs[s].pc = "scan" /\ End(s)
  /\ \E hits \in {page.hits, Hits(s)} : SetPage(s, [page EXCEPT !.busy = None, !.hits = hits])
  /\ UNCHANGED <<stored, drawn, pool>>

(* receive: one frame transaction, or a payment and then its announcement.   *)
(* Only the status of the former is looked at.                               *)
ReceiveClick ==
  /\ page.busy = None /\ page.keys # None
  /\ \E f \in Frames : Start("receive", None, f, "pay")
  /\ page' = [page EXCEPT !.busy = "receive"] /\ Unchosen

Receive(s) ==
  LET j == jobs[s] IN
  \/ /\ At(s, "receive", "pay")
     /\ \E c \in Coins \ drawn :
          LET addr == DeriveStealthAddress(j.id, c) IN
          /\ drawn' = drawn \cup {c}
          /\ jobs' = [jobs EXCEPT ![s].addr = addr, ![s].pc = "paid"]
          /\ pool' = pool \cup {[Tx(s, IF j.frames THEN "both" ELSE "pay") EXCEPT !.addr = addr]}
     /\ UNCHANGED <<page, stored>>
  \/ At(s, "receive", "paid") /\ j.rcpt # None /\ ~j.frames /\ Send(s, Tx(s, "announce"), "announced")
  \/ /\ At(s, "receive", IF j.frames THEN "paid" ELSE "announced")
     /\ j.rcpt # None /\ (j.frames => j.rcpt.ok)
     /\ Go(s, "scan") /\ SetPage(s, [page EXCEPT !.busy = "scan"]) /\ UNCHANGED <<stored, drawn, pool>>
  \/ j.kind = "receive" /\ j.pc # "scan" /\ Throw(s)
-----------------------------------------------------------------------------
(* spend: from the stealth EOA itself *)

Marked_Late(addr) == page
Marked(addr) == [page EXCEPT !.pending = @ \cup {addr}]

SpendClick(addr) ==
  /\ addr \in page.hits \ page.pending
  /\ page' = Marked(addr)
  /\ \E f \in Frames : Start("spend", addr, f, "send")
  /\ Unchosen

(* The destination field writes back the row as it was rendered: typed       *)
(* between the patch and its render, it leaves the row pending.              *)
Unmarked(addr) == {page.pending \ {addr}, page.pending}

Spend(s) ==
  LET j == jobs[s] IN
  \/ /\ At(s, "spend", "send")
     /\ DeriveStealthPrivkey(j.id, j.addr[2]) = j.addr
     /\ <<j.net, j.addr>> \in funded
     /\ Send(s, Tx(s, "spend"), "receipt")
  \/ /\ At(s, "spend", "receipt") /\ j.rcpt # None /\ (j.frames => j.rcpt.ok)
     /\ Go(s, "scan")
     /\ \E pending \in Unmarked(j.addr) : SetPage(s, [page EXCEPT !.pending = pending, !.busy = "scan"])
     /\ UNCHANGED <<stored, drawn, pool>>
  \/ j.kind = "spend" /\ j.pc # "scan" /\ Throw(s)
-----------------------------------------------------------------------------
(* StealthKeyRegistry and the chains *)

(* register: pushed, and the event carries its index *)
Registered(n, key) == [registry EXCEPT ![n] = Append(@, key)]

(* What MaxKeys bounds *)
KeysRegistered == Cardinality({k \in Nets \X (1..MaxKeys) : k[2] \in DOMAIN registry[k[1]]})

OthersRegister(n) ==
  /\ KeysRegistered < MaxKeys /\ registry' = Registered(n, "other")
  /\ UNCHANGED <<app, clicks, page, stored, jobs, drawn, log, funded, pool>>

(* A transaction is mined, and may revert.  The registry of another network  *)
(* is no contract here: the call succeeds without an event.                  *)
Mine(t) ==
  LET at == <<t.net, t.addr>>
      Receipt(ok, index) == jobs' = IF t.slot = 0 THEN jobs
                                    ELSE [jobs EXCEPT ![t.slot].rcpt = [ok |-> ok, index |-> index]]
      Registers == t.kind = "register" /\ t.dep = t.net
  IN /\ pool' = pool \ {t}
     /\ \/ Receipt(FALSE, None) /\ UNCHANGED chain
        \/ /\ Registers /\ KeysRegistered < MaxKeys
           /\ Receipt(TRUE, Len(registry[t.net])) /\ registry' = Registered(t.net, t.id)
           /\ UNCHANGED <<log, funded>>
        \/ /\ ~Registers /\ Receipt(TRUE, None)
           /\ log' = IF t.kind \in {"announce", "both"} THEN [log EXCEPT ![t.net] = @ \cup {t.addr}] ELSE log
           /\ funded' = IF t.kind \in {"pay", "both"} THEN funded \cup {at}
                        ELSE IF t.kind = "spend" THEN funded \ {at} ELSE funded
           /\ UNCHANGED registry
     /\ UNCHANGED <<app, clicks, page, stored, drawn>>
-----------------------------------------------------------------------------
(* The selected network.  The deployment files are answered in any order, and *)
(* a late answer is not dropped.                                              *)
SelectNetwork(n) ==
  /\ n # net /\ selects < MaxSelects
  /\ net' = n /\ selects' = selects + 1 /\ fetches' = fetches \cup {n}
  /\ page' = [page EXCEPT !.compact = None]
  /\ UNCHANGED <<clicks, stored, jobs, drawn, chain, pool>>

FetchDeployment(n) ==
  /\ n \in fetches /\ fetches' = fetches \ {n}
  /\ \E d \in {n, None} : page' = [page EXCEPT !.dep = d]
  /\ UNCHANGED <<net, clicks, selects, stored, jobs, drawn, chain, pool>>

(* The tab is left and opened again: fresh state, the keys from storage. *)
Reopen ==
  /\ selects < MaxSelects /\ selects' = selects + 1
  /\ fetches' = {net} /\ page' = FreshPage(stored)
  /\ jobs' = [s \in 1..Slots |-> IF jobs[s] = None THEN None ELSE [jobs[s] EXCEPT !.live = FALSE]]
  /\ UNCHANGED <<net, clicks, stored, drawn, chain, pool>>

Init ==
  /\ net \in StartNets /\ clicks = 0 /\ selects = 0 /\ fetches = {net}
  /\ stored \in {None, "A"} /\ page = FreshPage(stored)
  /\ jobs = [s \in 1..Slots |-> None] /\ drawn = {} /\ pool = {}
  /\ registry = [n \in Nets |-> <<>>]
  /\ log = [n \in Nets |-> IF n \in Paid0 THEN {<<"A", "before">>} ELSE {}]
  /\ funded = {<<n, <<"A", "before">>>> : n \in Paid0}

Step(s) ==
  /\ jobs[s] # None
  /\ Identity(s) \/ RegisterCompact(s) \/ Receive(s) \/ Scan(s) \/ Spend(s)
  /\ UNCHANGED <<app, clicks, chain>>

Next ==
  \/ IdentityClick \/ RegisterClick \/ ReceiveClick \/ ScanClick \/ \E addr \in page.hits : SpendClick(addr)
  \/ \E s \in 1..Slots : Step(s)
  \/ \E n \in Nets : SelectNetwork(n) \/ FetchDeployment(n) \/ OthersRegister(n)
  \/ \E t \in pool : Mine(t)
  \/ Reopen

Spec == Init /\ [][Next]_classicalVars
-----------------------------------------------------------------------------
Addrs == Ids \X (Coins \cup {"before"})

PageType == [keys : Ids \cup {None}, busy : {None, "identity", "register", "receive", "scan"},
             compact : [id : Ids, net : Nets, index : 0..(MaxKeys - 1)] \cup {None},
             hits : SUBSET Addrs, pending : SUBSET Addrs, dep : Nets \cup {None}]
JobType == [kind : {"identity", "register", "receive", "scan", "spend"}, id : Ids \cup {None}, net : Nets,
            frames : BOOLEAN, addr : Addrs \cup {None}, dep : Nets \cup {None},
            pc : {"derive", "send", "receipt", "pay", "paid", "announced", "scan"}, live : BOOLEAN,
            rcpt : [ok : BOOLEAN, index : Nat \cup {None}] \cup {None}]

TypeOK ==
  /\ net \in Nets /\ fetches \subseteq Nets /\ stored \in Ids \cup {None} /\ page \in PageType
  /\ drawn \subseteq Ids \cup Coins
  /\ registry \in [Nets -> Seq(Ids \cup {"other"})] /\ log \in [Nets -> SUBSET Addrs]
  /\ jobs \in [1..Slots -> JobType \cup {None}]
  /\ \A t \in pool : t.slot # 0 => jobs[t.slot] # None /\ jobs[t.slot].rcpt = None

(* The compact meta-address on the page resolves, on the network it was      *)
(* registered on, to the viewing key of the same identity as the spending    *)
(* key inside it -- whoever else registers, however the deployment answers   *)
(* and the network changes race the registration.                           *)
CompactResolves == page.compact # None => ResolveCompactMeta(page.compact) = page.compact.id

Spending(addr) == {s \in 1..Slots : /\ jobs[s] # None /\ jobs[s].live /\ jobs[s].addr = addr
                                    /\ jobs[s].kind = "spend" /\ jobs[s].pc # "scan"}

(* A row is spent by one click at a time, and shows so while it is, although *)
(* scans replace the rows and the network, the keys and the busy flag change *)
(* meanwhile.                                                               *)
OneSpendPerRow ==
  \A addr \in Addrs :
    Spending(addr) # {} => Cardinality(Spending(addr)) = 1 /\ addr \in page.pending

(* "Share this instead of the 1,218-byte form": the compact meta-address on  *)
(* the page is that of the keys on the page, on the selected network.        *)
CompactIsMine == page.compact # None => page.compact.id = page.keys /\ page.compact.net = net
=============================================================================
