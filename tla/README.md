# TLA+ models of pq-sap

This directory holds a formal model of pq-sap, the post-quantum stealth address
project: TLA+ modules translated from its source, TLC configurations that check
them on small instances, and theorems about them that TLAPS proves for every
value of the constants. `PROJECT.json` names, for every definition, the lines
of the repository it stands for.

    tlc -workers 2 -config SendFlow.cfg SendFlow     # one run
    tlapm SendFlow_proofs.tla                         # the proofs of a module

## 1. The system

A recipient publishes a meta-address (spending half and ML-KEM viewing key). A
sender encapsulates a fresh secret to the viewing key, blinds the spending half
with it into a one-time address, pays that address, and announces the
ciphertext and a one-byte view tag through an ERC-5564 announcer. The recipient
scans the announcements, decapsulates each, and recognises its payments. It
spends through a smart account whose signature check is post-quantum.

| Component | State | Operations | Interacts with | What makes it hard |
|---|---|---|---|---|
| Send page (`ui/src/components/SendTab.tsx`) and wallet hook (`ui/src/lib/useWallet.ts`, `throwaway.ts`) | React hooks: step, receipt, recovery bundle; selected network, signer, wallet chain | send, retry announce, connect, switch, select network or signer | wallet, RPC, announcer | handlers close over a render and run across awaits while the user changes network, signer or tab; a payment without its announcement is lost |
| Scan page (`ScanTab.tsx`, `lib/announcements.ts`, `lib/scan-worker.ts`), scheme check (`js-client/src/scheme.ts`) | fields, scan in flight, worker, results | scan, edit, switch tab or network | RPC, worker, recipient page | chunked reads of a growing chain; results of an older click |
| ML-DSA-44 key registry (`contracts/src/MlDsa44KeyRegistry.sol`) | key to deployed-matrix pointer | register, replace | signer, CREATE2 | the same bytes deployed twice; who may bind what |
| Committed-key account (`Stealth7913Account4337`, `Pq7913Signer`, `MlDsa44CommitSigner7913`) | signer bytes | validateUserOp, execute | EntryPoint, registry, verifier | gas starvation, malformed answers, a matrix replaced between signing and execution |
| Pointer signatures and vault (`PointerSig.sol`) | published keys and signatures, balances, nonces | registerKey, publishSignature, depositFor, withdrawWithSig | payee (reentrant) | nested calls, failed inner payments, reuse of a public signature |
| Key exchange (`StealthKeyExchange.sol`, `ERC5564Announcer.sol`, `js-client/src/key-exchange.ts`) | event log, viewing keys | announce, registerViewingKey | client tables | two length tables in two languages; an announcer open to all |
| Stealth meta-address registry (`StealthKeyRegistry.sol`), account factories | viewing keys by index, deployed accounts | register, createAccount | spend pages | several registrants; idempotent deployment |
| Frame accounts (`contracts/src/frames`, EIP-8141) | signer, verifier | executeFrame, rotate | frame context | approval scope, hash binding, gas floor |
| Frame pages and broadcast (`FramesPqSpend.tsx`, `FramesZkSpend.tsx`, `FramesTab.tsx`, `lib/frames.ts`) | rows, hits, busy flags; one sponsor's nonces | receive, scan, spend, transfer | node, prover, announcer | resends, polls that give up, destinations filled in late, handlers of pages that were left |
| In-browser prover (`preimage-prover.ts`, `preimage-worker.ts`) | worker, pending requests, cached circuit | prove | ZK frame page | a worker that never starts or ends with requests pending, answers out of order, cached failures |
| Classical spend page (`SpendTab.tsx`, `lib/classical.ts`, `registry.ts`, `storage.ts`) | keys, compact meta-address, hits, rows; seeds in the browser | new identity, register, receive, scan, spend | wallet, registry, deployment files | network changes and returns to the page during any of them |
| ERC-4337 spend pages (`SpendTab.tsx`, `spend4337.ts`, `spendHybrid.ts`, `pimlico.ts`) | rows; account nonce, balance, deposit | receive, scan, deploy, build, sign, submit, poll | EntryPoint, bundler, signer service | rows racing for one account, operations included late or dropped, two encodings of one operation |
| Commitment scheme, profiles (`commit-scheme.ts`, `profiles.ts`), frame encoding (`frame-tx/`) | none | derive, check, authorize, hash | pages | recombined announcements, what a signature covers |
| Lattice keys (`mldsa65.ts`, `keygen.ts`, `scheme.ts`), native keys (`native-key.ts`) | none | key generation, blinding, crafted authorizations | pages | rounding, packing, searches that must agree and end |
| Signer service (`ui/scripts/signer-service.mjs`) | proof queue, caches, two files | derive, sign, prove | spend page | check, await, then fill; failed jobs |
| RPC proxy (`js-client/scripts/rpc-proxy.mjs`) | recorded answers | forward, record, replay | node, fork tests | batches, throttling, a killed process |
| Python reference, Lean proofs, Noir circuits, generated verifiers, wiki | - | - | - | outside this project (section 8) |

`PROJECT.json` lists them with their status, and under `hazards` each place of
the code where something hard to test can go wrong, with the property that
would catch it.

What makes each component correct, in one line: the send page never strands or
misdirects a payment and always offers the retry; a scan lists every payment
once and nothing else; the registry never answers with another key's matrix and
never locks a key out; an account executes exactly what its key signed
and never mistakes a malfunction for a verdict; the vault is solvent and pays
only what was signed for, once; whatever the wrapper emits, the client decodes;
a spend page says what happened, pays once per click, reports no payment to a
stealth address that cannot be found, and waits for ever only where something
outside it has no timeout; a stealth key derived from public
bytes is one its recipient can sign for; the helpers answer what they were asked.

## 2. The modules

| Module | Models | Composition |
|---|---|---|
| `PaymentPromise` | abstract: a payment is broadcast, then settles, then is announced, and never goes back | implemented by `SendFlow` |
| `SendFlow` | send page, wallet hook, network selector, announcer check, chains | instantiates `PaymentPromise` |
| `ScanFlow` | scan page, log fetching, worker, scheme check, chains | - |
| `CommitParameters` | constants of the commitment route and their assumptions | extended by the next two |
| `MlDsa44KeyRegistry` | the key registry | extended by `CommitRoute` |
| `CommitRoute` | account, signer, registry and EntryPoint together | extends `MlDsa44KeyRegistry` |
| `PointerSig` | pointer registry, recovery, vault with a call stack | - |
| `AppendOnlyTable` | abstract: a table that only grows | implemented by `KeyExchange` |
| `KeyLengths` | the length tables of the contract and of the client | extended by `KeyExchange` |
| `KeyExchange` | announcer and wrapper contract | extends `KeyLengths`, instantiates `AppendOnlyTable` |
| `FramesSpend` | the three frame pages, the prover worker, the node they broadcast to | - |
| `ClassicalSpend` | classical spend page, registry by index, browser storage | instantiated by `SpendTab` |
| `UserOpSpend` | the two ERC-4337 pages, EntryPoint, bundler, factories | instantiated by `SpendTab` |
| `SpendTab` | the tab that shows one of the routes | instantiates the two above |
| `CommitScheme`, `FrameTx` | commitment scheme, profiles, C13 conventions; frame transactions: operators over terms | extended by `StealthClient` |
| `StealthClient` | payments, forged announcements, scans and sponsored spends with these operators | part of `MCClientTools` |
| `StealthKeys` | ML-DSA-65 key arithmetic, key generation, stealth derivation | part of `MCClientTools` |
| `NativeKey` | EIP-8164 crafted authorizations | part of `MCClientTools` |
| `UserOperation` | the hybrid account's operations as data: both encodings, hashes, signers, prefund and deposit | part of `MCClientTools` |
| `SignerService`, `RpcProxy` | the two local processes | parts of `MCClientTools` |
| `MCContracts` | the contracts side by side, values of constants for TLC | extends `PointerSig`, `CommitRoute` and `KeyExchange` |
| `MCClientTools` | the client library and the local processes side by side | puts six modules together |
| `MCScanFlow` | values of constants for TLC | extends `ScanFlow` |
| `*_proofs` | theorems | extend the component's module |

A definition called `X_Something` is a slip that `X` could have (a dropped
guard, an off-by-one); no specification uses it. Running a model with the slip
in place of `X` shows that the property has teeth.

### SendFlow

A click on a button starts a *task*: a record with the network and signer of
the render it was clicked in, the await it is suspended at (`pc`), the address
and the transaction it is about, and whether the component instance is still
mounted. Each action runs a task from one await to the next: `CheckedPay`
(`requireAnnouncer`), `SendPay`, `PayReceipt`, `CheckedAnnounce`,
`SendAnnounce`, `AnnounceReceipt`, and `Fail` for the catch and finally blocks,
enabled at every await. `tab` holds the `useState` values; a setter of an
unmounted task does nothing (`SetTab`). The wallet's own network (`walletNet`)
and the page's belief about it (`believed`) are two variables, since the page
hears of a change by an event. A payment's one-time address is named by the
index of the transaction that pays it. A transaction is pending, mined, or
cancelled by the user in the browser wallet.

### ScanFlow

A scan is a task as above, with the network and fields of the click. It reads
the head (`GotHead`), then one span after another (`GotLogs`), starts the worker
(`StartWorker`), gets its answer (`WorkerDone`) and shows the result (`Show`);
`FailScan` is the catch block. Chains grow by one block at any time (`Mine`).
`SpanEnd` and `NextSpan` are the span arithmetic of `fetchAnnouncements`, on the
integers. Encapsulated secrets are pairs of recipient and coin; decapsulating
another's ciphertext gives a secret that no one else can name; view tags
collide.

### MlDsa44KeyRegistry and CommitRoute

A pointer is the pair (key, matrix) that CREATE2 derives an address from. The
registrar may bind matrices that are wrong, and matrices for which it holds a
trapdoor (the trust note of the contract). A user operation goes through
`HandleOp`: the nonce, `Validate7913`, `SignerVerify`, the registry's answer and
the external verifier, each with its share of the gas (`Forward` is the 63/64
rule), and the verifier may malfunction. The nonce is the external EntryPoint's, so
no property is about it. A verdict is one of "magic", "other"
or a revert.

### PointerSig

Storage of all contracts is one record `chain`. A withdrawal pushes the storage
to restore on `stack` and leaves the control to the payee, that is, to every
action of the model; `Return` ends the call, `Revert` undoes it. Signatures are
records of who signed which withdrawal; a key or signature pointer is an index.
`PublicKeys` says which keys the contract of a registered key answers: the registry
takes any contract, computes the owner's address from one answer (`RegisterKey`), and
the verifier asks again at each withdrawal (`VerifiesPq`).

### KeyExchange

`log` is the announcer's event log, with the caller of each event: the wrapper
or anyone. The length tables of the contract and of the client are written
separately in `KeyLengths`, each from its source, over all lengths in `Nat`.

### FramesSpend

A job is a click of Receive, Spend or Send on one of the three pages, and runs
from await to await: `PqReceive`, `ZkReceive`, `PqSpend`, `ZkSpend`, `Transfer`, with
`Throw` for the catch blocks. A page that is left bumps `mounts`; its jobs go on,
their patches are ignored (`Live`). `row` is `spendState`: `Edit` types a
destination, `FillFresh` and its late answer `Filled` derive a fresh one, and the
spend announces it only while the row still names it. `BroadcastFrameTx` sends up
to `Attempts` times: a send may be dropped, or accepted with its answer lost, after
which the node refuses the copy. `pool` and `mined` are the node with one sender's
nonces. No builder sets the atomic-batch flag, so after the sponsor's VERIFY frame
each frame of a transaction succeeds or fails on its own (`Frames`, `Mine`). The worker
holds requests in `prover`; `LoadCircuit` decides once whether the circuit loads,
`Answer` and `AnswerError` end requests in any order, and `WorkerError` is the script
that does not start. What is asked of such a worker later is registered and never held
(`Held`): its job waits for ever. A job whose page is gone, and its worker with it, is
"lost": nothing on the screen waits for it.

### ClassicalSpend, UserOpSpend and SpendTab

Jobs as above, in a few slots that are used again. In `ClassicalSpend` an identity
stands for its seeds and all keys derived from them; `compact` records the
network the index was registered on, and `ResolveCompactMeta` reads the registry
there. Deployment files (`FetchDeployment`) are answered in any order. In
`UserOpSpend` an operation is `handleOps` of the page's wallet, or sponsored: then it
may be dropped, or included after the poll has given up (`Include`; `Poll` is a request
and then a pause). `Waits` names the awaits that nothing bounds. On the
hybrid page all rows share the account "demo". `Spent` includes the destination
input whose closure writes the old row back.

### CommitScheme, FrameTx and StealthClient

Byte strings are terms: what was hashed or concatenated, in order. Hashes do not
collide, view tags do, a string of the wrong length is a term of its own.
Functions that throw return `Throws` or `Refused`. `StealthClient` pays, forges
announcements out of parts of others, scans, and spends through the sponsored
frame transaction whose hash leaves out the signatures (`Elided`).

### StealthKeys

The code's arithmetic with its own control: the order of the butterflies and
zetas in `ntt` and `invntt`, the rejection samplers over a stream of bytes, the word
that `bitPack` accumulates in, `power2roundT1` with its sign. The parameters are
small but keep their relations: Q = 2^(3w-1) - 2^D + 1 for bytes of w bits (w = 8
and D = 13 in the code), ROOT of order 2N, three bytes per sampled coefficient.
`StealthKeySpendable` compares the sender's derivation from published bytes with
the recipient's sum of secret vectors, multiplied out by the schoolbook rule for
x^N + 1 and rounded by the definition in FIPS 204.

### NativeKey and UserOperation

`NativeKey` has the field, the group order and Euler's criterion as in the code and
the loop of `craftedR` as a function that has no value where the loop does not
end. `Pow` takes a power of every element of the field at once. keccak of a seed is any
number, chosen when it is first asked. `UserOperation` holds the packed and the unpacked
form of an operation as records, `computeUserOpHash` of the page beside `getUserOpHash`
of the EntryPoint, the merge of the paymaster's optional answers, the signer's challenge
check and the file through which the script signer answers, the account's balance and
its deposit.

### SignerService and RpcProxy

A request of `SignerService` is at the await of its handler: queued, or in one of its
programs, each of which may fail or be killed, or leave output that cannot be parsed, which
ends the process and drops every open request (`Crash`). `toml` and `gz` hold what the two
files of fixed names were last written for. `RpcProxy` handles several HTTP calls at
once, each a batch the node answers in any order with results and errors; the
process is killed in any state, also between the truncation and the end of a write
of the file, which is then `Torn` (`FlushStopped`), and a second one replays the file if
it can be parsed.

## 3. The runs

| Run | Instance | Checks | Distinct states |
|---|---|---|---|
| `send` | two networks, one frames network with a dead announcer and one dev network, two clicks | type, 4 invariants, refinement, liveness | 796,480 |
| `scan` | two recipients, two networks (spans of two over three blocks; a relative window), one scan | exactness of results | 4,663,860 |
| `scan_again` | one recipient, two scans, one block per chain | scans end | 702,300 |
| `contracts` | pointer signatures, the commitment route and the key exchange, one of them per behaviour | type (two), 8 invariants, refinement | 774,296 |
| `frames` | two accounts of each kind, one of each paid; two jobs, two mounts, two broadcasts | type, 5 invariants | 4,512,319 |
| `spend_tab` | two networks, three announcements, three clicks, two jobs at once, one network change or return | type, 3 invariants, liveness | 2,002,524 |
| `client_tools` | the six parts at the bounds below | 7 invariants, liveness | 738,648 |
| `send_retry_net` | as `send`, both announcers alive | violated: announcement where the payment is | - |
| `send_bundle` | same | violated: the bundle is kept | - |
| `compact_stale` | the classical part of `spend_tab`, both networks to start on | violated: the compact meta-address is that of the page | - |
| `frames_prover` | one job of `frames` | violated: a request is with a worker until it is answered | - |
| `spend_moved` | the ERC-4337 part of `spend_tab`, one slot | violated: what is shown as spent has moved | - |

Why the bounds are enough to be interesting. `send`: two clicks give a click on
a page whose earlier handler still runs, a payment and its retry, and an
unmounted handler beside a fresh one; two networks give every kind of mismatch
of network, signer and wallet chain, and one announcer is dead. `scan`: three
blocks in spans of two give a full span, a cut span, and a head that moves
between them. The bounds `MaxTasks`, `MaxScans`, `MaxHead`, `MaxNonce`, `MaxSigned`,
`MaxEth`, `MaxKeys`, `MaxBlobs`, `MaxDepth`, `MaxOps`, `MaxAuthorizations`, `MaxLog` and
`MaxViewingKeys` sit in guards of actions. Deadlock is not checked where the
system stops at a bound or because nothing is left to do.

`contracts`: the three parts share no variable, so each behaviour runs one. Pointer
signatures: two vaults, a key of each kind, a key contract with one answer and one
with two, two signatures; depth two nests a withdrawal in a withdrawal. A key signs for
the owners that some mode takes its scheme for (`SignsFor`), so each owner has a key that
is not its own signing for it. The vaults are symmetric: no property tells them apart,
and the run has no liveness property.
The commitment route: two keys, two accounts of one of them, two operations each;
two matrices and a trapdoored one give correct -> wrong -> correct; the four gas
limits starve the account, the signer, and the verifier by the 63/64 rule only, or
are enough. The key exchange: 30 lengths, each table entry and its neighbours,
where an off-by-one shows (the theorems cover all of `Nat`), one event, three keys.

`frames`: two jobs give two spends, a spend beside a receive or a transfer that
takes its nonce, and two proofs answered in either order; two mounts give a page
that is left and opened again. One page is used per mount (`MaxUsed`): pages share
the sponsor only, whose nonces a job of the earlier mount still takes. Every
account is paid, and spends, one unit. `spend_tab`: three clicks give a spend, the
scan nested in it and a further spend of the same or another row; the two routes
share no state, so a behaviour uses one of them. Amounts are two units for a
payment, one for a spend, one for its gas: enough for a row to find the account
empty. The page starts on the network that has an earlier payment,
and the registries take two keys together: one's own before or after another's.

`client_tools`: the six parts share no variable, so each behaviour runs one.
`StealthClient`: two recipients, two chains, colliding view tags, two payments, three
announcements (so one is forged from two others), two spends. `StealthKeys`: bytes of
four bits, N = 4, K = 3, L = 2, five seeds, two payments, a stream long enough that
every sampler fills its polynomial; the packed word is narrower than a
polynomial, as in the code. `NativeKey`: the field of 43 elements has a group of
prime order 31, so that more than a quarter of the field lies beyond it, seeds go past the
field, and two authorizations are crafted. `UserOperation`: two jobs of one account,
money for less than both, one top-up, two gas prices. `SignerService`: three
requests: one proof failing between two, or a cache asked while it is filled.
`RpcProxy`: three calls of one or two requests at one pinned block.

### What the violation runs show

* `send_retry_net`. `SendTab.tsx:105-107` says the retry re-emits the
  announcement "for an already-paid stealth address". The bundle does not hold
  the network. Pay on network A, let the announcement fail, select network B,
  retry: the announcement is mined on B, the page reports success and drops the
  bundle. The payment on A stays unannounced.
* `send_bundle`. `SendTab.tsx:197-199` says the bundle is preserved so that a
  failed announcement stays retryable. `run()` clears it on entry (line 148),
  also when the button only connects the wallet or switches its chain.
* `compact_stale`. `SpendTab.tsx:494-496` offers the compact meta-address in place
  of the full one, and line 222 drops it when the network changes. A new
  identity leaves the compact form of the old one on the page, and a
  registration that ends after a network change stores the old network's index.
  `CompactResolves`, which holds, says that the form still resolves to the key
  it was registered for, on its own network.
* `frames_prover`. `preimage-worker.ts:3` promises an answer or an error to each message.
  `onerror` (`FramesZkSpend.tsx:139-142`) rejects what is pending and keeps the dead
  worker; the next click posts to it and its row stays at "Proving". `ProofAnswerable`,
  which holds, says that this is the only way to wait for nothing.
* `spend_moved`. `SpendTab.tsx:788-793` and `1127-1132` show "Spent" on the status of the
  `handleOps` transaction, which is a success also when the call of the operation
  reverted; the sponsored path checks the operation (line 1093). `ResultExecuted`, which
  holds, says that the operation shown was executed, and moved the money if sponsored.

Two more things the code does not promise are in the models and have no run of their
own. No builder sets `FLAG_ATOMIC_BATCH`, so the announcement frame of a payment
(`actions.ts:154` calls the two "one atomic frame tx") may fail alone, and the money sits
at an address no scan finds; `FundsFindable`, which holds, says that no handler then
reports a success. And the proxy rewrites its file in place: a kill inside
`writeFileSync` (`rpc-proxy.mjs:56`) leaves text that `JSON.parse` refuses, and with it all
that was saved before; `ReplayAnswers`, which holds, speaks of a replay that starts.

## 4. Fairness

`send` assumes weak fairness of every task at every await except a prompt of the
browser wallet: RPC calls and receipt waits answer or time out (viem's
transport and `waitForTransactionReceipt` both have timeouts), and a key held by
the page signs without asking. A prompt of the browser wallet may stay open for
ever, so `LabelGoes` only speaks of handlers whose signer is in the page.
`scan_again` assumes weak fairness of every step of a scan: RPC calls answer or
time out and the worker answers. `spend_tab` assumes weak fairness of the steps of an
ERC-4337 handler that are not `Waits`: reads of the chain and receipt waits have viem's
timeouts, and the pause between two polls is a timer. `Waits` are the prompts of the
browser wallet (`SpendTab.tsx:974, 981, 1044, 1118`), and the fetches from the signer
service and from Pimlico (`pimlico.ts:63-73`, `SpendTab.tsx:1058`), which set no timeout. So
`HandlersEnd` says that a handler ends or stays for ever at one of these: a poll that
is answered, with an error or with nothing, is counted, and the page never waits
for an inclusion that may not come. Mining and inclusion are not fair. `client_tools`
assumes weak fairness of every step of a request of the signer service, since its
programs run under a timeout (`execFile` with `timeout`); `RequestsEnd` says that a request
is answered, or dropped because the process ended. `frames` has no fairness: its
`ProofAnswerable` is an invariant. Nothing else is fair: the user need not click and
the chains need not mine.

## 5. Theorems

Everything listed under `theorems` in `PROJECT.json` is proved for every value
of the constants allowed by the named assumptions of the modules.

| Module | Theorems |
|---|---|
| `SendFlow_proofs` | `TypeCorrect`, `ClickedNetwork`, `DeadNetsUnpaid`, `ReceiptsTrue`, `OneHandler`, `BundlesOffered`, `BundlesSettled`, `PromiseKept` (refinement) |
| `CommitRoute_proofs` | `TypeCorrect`, `RegistryAnswersOwn`, `Authorization`, `VerdictsTrue`, `RecoveryAlwaysOpen`, `BindingsStay` |
| `KeyExchange_proofs` | `AllLengthsAgree`, `AllMetaAddressesTypeBack`, `TypeCorrect`, `WrapperDecodes`, `RecordedKem`, `LoggedLengthsAgree`, `RegisteredTypesBack`, `IndicesPermanent` (refinement) |
| `ScanFlow_proofs` | `TypeCorrect`, `ResultsExact`, `OneScanAtATime` |
| `PointerSig_proofs` | `TypeCorrect`, `SolventCorrect`, `NonceCorrect`, `AuthorizedCorrect` |
| `FramesSpend_proofs` | `Invariant`, `TypeCorrect`, `OutcomeCorrect`, `PaidOnce`, `ProofsMatch`, `FundsFound`, `ProofsAnswered` |
| `SpendTab_proofs` | `Invariant`, `TypeCorrect`, `MetaAddressResolves`, `RowSpentOnce`, `ShownIsExecuted` |
| `ClientTools_proofs` | `Invariant`, `AnswersOwn`, `ReplaysTrue`, `OpsAreFunded`, `ScanFindsAll`, `OwnersOnly`, `NativesAgree`, `ValidOnCurve`, `PartsTyped` |

The inductive invariants, and why the properties alone are not inductive:

* `SendFlow`: `TypeOK /\ LogInv /\ PageInv /\ BundleSettled /\ SentMeansLogged`.
  `LogInv` says of each task what its await has already established (its
  announcer was found alive, its transaction is of the right kind, address and
  network), and of each transaction that it sits where it was asked for.
  `PageInv` ties the page's step to the one mounted task. Without `LogInv` a task
  waiting for a receipt could name any transaction. `TxsKept` (the log only
  grows, a settled transaction stays) carries the facts over a step.
* `ScanFlow`: `TypeOK /\ ScanInv /\ ShownInv /\ PageInv`. `ScanInv` says of a scan at
  each await that what it has fetched is exactly what the chain holds between
  its first block and its cursor. `SpansTile` (consecutive spans meet without gap
  or overlap), `CheckIsHonest` (`checkAnnouncement` accepts exactly what an honest
  sender announces) and `ExactGrows` (mining does not disturb an exact result)
  are the lemmas it rests on.
* `CommitRoute`: `RouteTypeOK /\ AnswersOwnDeployment /\ SpendsAuthorized`. A verdict is only
  about the right key because the registry answers with a deployment of that key;
  `Verdicts` is the case analysis over gas and malfunction.
* `KeyExchange`: `ExchangeTypeOK /\ WrapperEntriesDecode /\ Recorded`; `AllLengthsAgree` is a
  statement about the tables for every natural number.
* `PointerSig`: `TypeOK`, and solvency, counted nonces and warranted payouts for
  *every* storage, the current one and each that the call stack would restore.
  Said of the current storage alone it is not inductive: a reverting withdrawal
  brings back an older one. A payout in the pure ML-DSA mode is warranted for the
  owner when the contract of its key has one answer (`OneAnswer`), a hybrid one always,
  by the EOA that registered it. Solvency is a sum over the owners, so a deposit and
  a withdrawal must change exactly one summand (`SumChange`); a fold over a set
  has a value only by induction, and the lemmas about it take a least
  counterexample with the well-foundedness of `<`.
* `FramesSpend`: ten conjuncts beside the outcome and funds properties. `JobsFit`
  says what a job of each kind remembers at each await; `TxsFit` that what the node
  accepted says what its job said; `NoncesInOrder` and `SentOnce` that nonces are used
  once and a job has one accepted transaction besides its deployment, which is why
  a resend cannot pay again; `ReceiptsTrue` carries a mined receipt to the row that
  reports it, and `FreshDerived`, `RowsFit` and `HitsFit` tie the pages to the
  accounts; `ProverFits` says that the registered promises are those the jobs of the
  mounted page wait for, and that the worker holds them unless it failed. What a
  mined transaction did is said per frame: the money moved, or the announcement
  was made, or both, and only all of them together are a receipt of success.
* `SpendTab`: `CInv` and `UInv`, one per route; they share no variable. Each says
  what the receipt a handler holds means (the index in it resolves to the key the
  handler registered; its operation was executed) and which handler each
  transaction of the pool belongs to. A slot may be reused by a later handler
  while the pool still holds the earlier one's transaction, so a transaction that
  no handler waits for any more has no slot.
* `ClientTools_proofs`: one invariant per part of `MCClientTools`. `SignerInv`: a
  proof that runs heads the queue, and the file a step is about to read was
  written for it; `QueueInv`: the queue holds the proofs that are not answered, in
  the order they were asked. `ProxyInv`: what is recorded is true, and what was
  seen by a recording client is in the file; the save comes before the answer, so
  a crash cannot separate the two unless it tears the file. `OpInv`: an operation whose
  nonce is next is covered by the balance (only a payment in, or an operation that uses
  the nonce, moves money), both forms of an operation hash alike, and the hash covers
  everything but the signature. `LogInv`: every announcement is put together from parts
  of honest payments, and the address names commitment, chain and profile, so a forged
  one is listed only as the copy of a payment. `Authorized`: a commitment binds the key,
  and the signed hash leaves out the signatures only. `NativeInv`: what was crafted for
  a key and chain is made from the oracle's answer for them, which never changes. The
  rest is what the recursive functions of `NativeKey` compute, for any odd prime field:
  `RecursionExists` says that a function defined by recursion on smaller numbers exists,
  `RisesAlone` that it is the only one, both from a least counterexample (`LeastNat`,
  from the well-foundedness of `<`), so that each function satisfies its equation
  (`PowEquation`, `SearchEquation`, `HexEquation`). `EulerCriterion` pairs each unit x
  with the y for which x y = a: the product of all units is then a to the power (p - 1)
  / 2 when a has no root, and its negative when it has one; with a = 1 it is -1.
  `SearchFinds` says the loop of `craftedR` stops at the first x that passes, and
  `HexInjective` that minimal hex tells chain ids and nonces apart.

The abstract specifications are implemented step by step: `Stage(i)` maps a
payment's transactions to its stage, and each step of `SendFlow` moves at most one
payment one stage (`PayStage`, `AnnounceStage`, `SettleStage`) or none.

Proved and in no run: the type invariants of `ScanFlow` and `KeyExchange`,
`NoPayToDeadNet` and `RetryOffered` of `SendFlow`, `NeverUnbound` of the key registry,
`OneScan` of `ScanFlow`, and `MetaAddressTypesBack`, `WrapperEntriesDecode` and
`RecordedKemIsClients` of `KeyExchange`.

`PartsTyped` states the type invariants of `StealthClient`, `SignerService` and
`RpcProxy`, which no run checks on their own.

Model-checked only: the liveness properties `LabelGoes`, `ScanEnds`, `HandlersEnd` and
`RequestsEnd` (liveness under fairness is out of the prover's reach), and one
invariant, `StealthKeySpendable`. It speaks of transforms, samplers and packed words
computed by folds over powers of two, of which the prover knows no facts.

## 6. Assumptions

* keccak256, commitments, CREATE2 addresses and blinding are injective;
  signatures are unforgeable, except by the registrar under a matrix it chose.
* viem refuses to send when the wallet's chain differs from the one asked, and
  the wallet checks the chain id it signs for.
* `waitForTransactionReceipt` resolves with the receipt of a replacement.
* Deployed code never changes. The pointer registry takes any contract as a key; what
  the pure ML-DSA mode promises its owner rests on a contract with one answer, as the
  PKContract of the library is. ETH enters the vault only
  through its deposit functions.
* The secret an implicit rejection yields is not known to anyone.
* Blocks are not reorganized, and a block holds at most one announcement.
* RLP and ABI encodings are injective; a transaction or operation is known by its
  bytes, and a node refuses a second one with the same nonce.
* A node's answers at one pinned block do not change. An EntryPoint executes only
  operations with the account's current nonce.
* ML-KEM decapsulation under another key yields a secret of its own.
* The receipt of a frame transaction says success only when all of its frames
  succeeded: the pages look at the receipt's one status (`frames.ts:54-59`).
* Each chain has its own factory and frame context: `accountAddress`
  (`commit-scheme.ts:136-141`) hashes no chain id, so the same deployment on two chains
  would give a payment one address on both.
* The signer service is modelled for one life of its process: a second one beside
  programs the first left running shares their files and is not considered.
* The registrar's trapdoor is the exception the contract's trust note states.

The modules state as named `ASSUME`s what they need of their constants, and TLC
evaluates each in the runs. They are of three kinds: bounds and amounts are
natural numbers, and sets that are summed or counted are finite
(`InputsAssumption` of `PointerSig`, `TabAssumption`, `BoundAssumption`, ...); values the
code tells apart by their type are apart (null, an exception, an address typed by
hand and the name of an account: `PagesAssumption`, `PaymasterAssumption`,
`ResultsAssumption`, `ProfilesAssumption`, `SecretsAssumption`, `AnswersAssumption`); and the
deployments have well-formed fields (`DeploymentsAssumption`). `CurveAssumption` says that
the field is an odd prime (secp256k1's is) and the group order below it, `GasAssumption`
gives the range of gas prices, and `NativeAssumption` says nonces are numbers.

## 7. Plan

Done, the most important behaviour first: `SendFlow`, `CommitRoute` over
`MlDsa44KeyRegistry`, `PointerSig`, `KeyExchange`, `ScanFlow`; then `FramesSpend` with the
prover, `ClassicalSpend` and `UserOpSpend` under `SpendTab`, and the client library and
helper processes under `MCClientTools`; the proofs of all of these. Next:

1. `FrameAccount`: `Stealth8141Account` and its ZK variant with the frame verifier:
   only the bound hash is approved, a rotation opens no window, the gas floor is
   not a verdict.
2. A second browser tab (the storage event of the in-page key) and a chain that
   reorganizes.
3. Lemmas about the pieces of `StealthKeys` (one butterfly, one rounding).

## 8. Not modelled

* ML-DSA and SPHINCS signing and verification, the NTT and Honk contracts, the
  Noir circuits and the SPHINCS assembly: used as oracles. Their arithmetic at
  full size is out of a model checker's reach and covered by the vectors and the
  Lean development of the repository.
* The frame account contracts beyond what the pages see of them (plan, 1).
* The Python reference: sequential code for the same scheme.
* Wiki, documents, deployment, documentation and benchmark scripts.
* Form validation, balances shown, prices, notes and wording of the pages.
* A second browser tab, and a chain that reorganizes (listed as hazards), and two
  different pages that spend from one account at once.
