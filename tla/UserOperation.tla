--------------------------- MODULE UserOperation ---------------------------
(***************************************************************************)
(* The user operations of the hybrid account as data: the packed form that *)
(* the EntryPoint hashes and the unpacked one of the bundler's JSON-RPC    *)
(* (ui/src/lib/spendHybrid.ts, pimlico.ts), the two signers (the signer    *)
(* service, and for the fork tests the Python script of js-client/src/     *)
(* spend.ts, which answers through a file of a fixed name), and the           *)
(* account's money: value, prefund and deposit.                            *)
(*                                                                         *)
(* A bytes32 of two uint128 is its pair of halves; hashes and encodings    *)
(* are terms that name what they are made of.  Gas amounts are scaled down *)
(* and one unit of value moves.                                            *)
(***************************************************************************)
EXTENDS Integers, FiniteSets

CONSTANTS
  Jobs,         \* spends of the one demo account, possibly of several tabs or processes
  Dests,        \* each job pays one of them
  GasPrices,    \* what the node may answer
  Funds0, MaxTopUps, \* bounds: the account's balance at first, payments it gets later
  None

VARIABLES
  script,   \* the Python script signs, not the service
  jobs,     \* what each spend has read and built
  sigFile,     \* zknox_spend_sig.json
  sent,     \* the operations submitted, in the EntryPoint's form; they are public
  bal, deposit, topUps, nonce, \* of the account; deposit is its credit at the EntryPoint
  executed  \* operations executed, with whether their value was there

opVars == <<script, jobs, sigFile, sent, bal, deposit, topUps, nonce, executed>>

Chain == 11155111
Empty == <<"0x">>
Keccak(x) == <<"keccak", x>>
-----------------------------------------------------------------------------
(* Both forms of an operation and its hash *)

packPair(hi, lo) == <<hi, lo>>

(* maxFeePerGas times all gas limits.  A slip the code could have precedes    *)
(* its definition as X_Y, here and below.                                     *)
requiredPrefund_NoCallGas(op) == op.gasFees[2] * (op.accountGasLimits[1] + op.preVerificationGas)
requiredPrefund(op) ==
  op.gasFees[2] * (op.accountGasLimits[1] + op.accountGasLimits[2] + op.preVerificationGas)

Execute(dest) == <<"execute", dest, 1>>

(* 1.5 gwei is 3 units, 1 gwei of priority fee is 2. *)
buildSpendUserOp(n, gasPrice, dest) ==
  [sender |-> "account", nonce |-> n, initCode |-> Empty, callData |-> Execute(dest),
   accountGasLimits |-> packPair(2, 1), preVerificationGas |-> 1,
   gasFees |-> packPair(2, IF 2 * gasPrice < 3 THEN 3 ELSE 2 * gasPrice),
   paymasterAndData |-> Empty, signature |-> Empty]

(* What the EntryPoint hashes (external): everything but the signature. *)
getUserOpHash(op) ==
  Keccak(<<Keccak(<<op.sender, op.nonce, Keccak(op.initCode), Keccak(op.callData), op.accountGasLimits,
                    op.preVerificationGas, op.gasFees, Keccak(op.paymasterAndData)>>), "EntryPoint", Chain>>)

Or(v, default) == IF v = None THEN default ELSE v

packPaymasterAndData(op) ==
  IF op.paymaster = None THEN Empty
  ELSE <<op.paymaster, Or(op.paymasterVerificationGasLimit, 0), Or(op.paymasterPostOpGasLimit, 0),
         Or(op.paymasterData, Empty)>>

computeUserOpHash_Unsponsored(op, chainId) ==
  Keccak(<<Keccak(<<op.sender, op.nonce, Keccak(Empty), Keccak(op.callData),
                    packPair(op.verificationGasLimit, op.callGasLimit), op.preVerificationGas,
                    packPair(op.maxPriorityFeePerGas, op.maxFeePerGas), Keccak(Empty)>>),
           "EntryPoint", chainId>>)
computeUserOpHash(op, chainId) ==
  Keccak(<<Keccak(<<op.sender, op.nonce, Keccak(Empty), Keccak(op.callData),
                    packPair(op.verificationGasLimit, op.callGasLimit), op.preVerificationGas,
                    packPair(op.maxPriorityFeePerGas, op.maxFeePerGas),
                    Keccak(packPaymasterAndData(op))>>), "EntryPoint", chainId>>)

(* The fields of the JSON; those of a paymaster are there only when it is. *)
Plain == {"sender", "nonce", "callData", "callGasLimit", "verificationGasLimit", "preVerificationGas",
          "maxFeePerGas", "maxPriorityFeePerGas", "signature"}
PaymasterFields == {"paymaster", "paymasterVerificationGasLimit", "paymasterPostOpGasLimit", "paymasterData"}

toRpc(op) ==
  [f \in Plain \cup (IF op.paymaster = None THEN {} ELSE PaymasterFields) |->
     IF f \in PaymasterFields THEN Or(op[f], IF f = "paymasterData" THEN Empty ELSE 0) ELSE op[f]]

(* The bundler packs what it gets (external). *)
Bundled(r) ==
  [sender |-> r.sender, nonce |-> r.nonce, initCode |-> Empty, callData |-> r.callData,
   accountGasLimits |-> <<r.verificationGasLimit, r.callGasLimit>>,
   preVerificationGas |-> r.preVerificationGas, gasFees |-> <<r.maxPriorityFeePerGas, r.maxFeePerGas>>,
   paymasterAndData |-> IF "paymaster" \notin DOMAIN r THEN Empty
                        ELSE <<r.paymaster, r.paymasterVerificationGasLimit,
                               r.paymasterPostOpGasLimit, r.paymasterData>>,
   signature |-> r.signature]

(* Signatures: the ECDSA key is derived from a public string. *)

Ecdsa(hash) == <<"demo key", hash>>
Blinded(hash) == <<"blinded key", hash>>
packHybridSignature(hash, blinded) == <<Ecdsa(hash), blinded>>
dummyHybridSignature == <<Ecdsa("zero"), "zeros">>

(* submitSponsoredUserOp before the sponsorship *)
UnsponsoredOp(n, callData, gp) ==
  [sender |-> "account", nonce |-> n, callData |-> callData, callGasLimit |-> 1,
   verificationGasLimit |-> 2, preVerificationGas |-> 1, maxFeePerGas |-> gp + 1,
   maxPriorityFeePerGas |-> gp, paymaster |-> None, paymasterVerificationGasLimit |-> None,
   paymasterPostOpGasLimit |-> None, paymasterData |-> None, signature |-> dummyHybridSignature]

(* The paymaster's answer: any optional field may be missing; the limits for  *)
(* verification and pre-verification gas are as the one for the call.         *)
SponsorResult ==
  [paymaster : {"paymaster"}, paymasterData : {<<"sponsored">>}, callGasLimit : {None, 3},
   paymasterVerificationGasLimit : {None, 1}, paymasterPostOpGasLimit : {None, 1}]

sponsorUserOp(op, r) ==
  [op EXCEPT !.paymaster = r.paymaster, !.paymasterData = r.paymasterData,
             !.paymasterVerificationGasLimit = Or(r.paymasterVerificationGasLimit, @),
             !.paymasterPostOpGasLimit = Or(r.paymasterPostOpGasLimit, @),
             !.callGasLimit = Or(r.callGasLimit, @)]

(* The account requires both halves (external). *)
ValidSignature(op) ==
  op.signature = <<Ecdsa(getUserOpHash(op)), Blinded(getUserOpHash(op))>>
-----------------------------------------------------------------------------
Idle == [pc |-> "start", sponsored |-> FALSE, dest |-> None, op |-> None, hash |-> None]

Go(j, pc) == jobs' = [jobs EXCEPT ![j].pc = pc]
Fail(j) == Go(j, "failed") /\ UNCHANGED <<script, sigFile, sent, bal, deposit, topUps, nonce, executed>>
Local == <<script, sigFile, sent, bal, deposit, topUps, nonce, executed>>

ensureFunded(value, prefund) == bal >= value + prefund

(* Self-bundled: the operation with its nonce and gas price, then the balance. *)
Build(j, dest, gasPrice) ==
  /\ jobs[j].pc = "start"
  /\ jobs' = [jobs EXCEPT ![j] = [Idle EXCEPT !.pc = "built", !.dest = dest,
                                    !.op = buildSpendUserOp(nonce, gasPrice, dest)]]
  /\ UNCHANGED Local

Hash(j) ==
  /\ jobs[j].pc = "built"
  /\ IF ensureFunded(1, requiredPrefund(jobs[j].op))
     THEN jobs' = [jobs EXCEPT ![j].pc = "sign", ![j].hash = getUserOpHash(jobs[j].op)]
     ELSE Go(j, "failed")
  /\ UNCHANGED Local

(* Sponsored (the page only): the balance, then nonce, gas price and the      *)
(* paymaster's answer.                                                        *)
Fund(j, dest) ==
  /\ ~script /\ jobs[j].pc = "start" /\ ensureFunded(1, 0)
  /\ jobs' = [jobs EXCEPT ![j] = [Idle EXCEPT !.pc = "funded", !.sponsored = TRUE, !.dest = dest]]
  /\ UNCHANGED Local

GetNonce(j, gasPrice) ==
  /\ jobs[j].pc = "funded"
  /\ jobs' = [jobs EXCEPT ![j].pc = "sponsor",
                          ![j].op = UnsponsoredOp(nonce, Execute(jobs[j].dest), gasPrice)]
  /\ UNCHANGED Local

Sponsor(j, r) ==
  LET op == sponsorUserOp(jobs[j].op, r) IN
  /\ jobs[j].pc = "sponsor"
  /\ jobs' = [jobs EXCEPT ![j].pc = "sign", ![j].op = op, ![j].hash = computeUserOpHash(op, Chain)]
  /\ UNCHANGED Local

Submit(j, blinded) ==
  LET op == [jobs[j].op EXCEPT !.signature = packHybridSignature(jobs[j].hash, blinded)] IN
  /\ sent' = sent \cup {IF jobs[j].sponsored THEN Bundled(toRpc(op)) ELSE op}
  /\ Go(j, "sent")
  /\ UNCHANGED <<script, sigFile, bal, deposit, topUps, nonce, executed>>

(* The service answers the request it got. *)
SignWithService(j) == ~script /\ jobs[j].pc = "sign" /\ Submit(j, Blinded(jobs[j].hash))

(* signWithBlindedKey: the script writes its answer, then the caller reads    *)
(* whatever the file holds by then.                                              *)
RunScript(j) ==
  /\ script /\ jobs[j].pc = "sign" /\ Go(j, "read")
  /\ sigFile' = [challenge |-> jobs[j].hash, sig |-> Blinded(jobs[j].hash)]
  /\ UNCHANGED <<script, sent, bal, deposit, topUps, nonce, executed>>

ChallengeMatches_Unchecked(j) == TRUE
ChallengeMatches(j) == sigFile.challenge = jobs[j].hash

ReadScript(j) ==
  /\ jobs[j].pc = "read"
  /\ IF ChallengeMatches(j) THEN Submit(j, sigFile.sig) ELSE Fail(j)

(* Any call of a job fails. *)
CallFails(j) == jobs[j].pc \notin {"sent", "failed"} /\ Fail(j)
-----------------------------------------------------------------------------
(* EntryPoint (external): the account pays what its deposit lacks of the      *)
(* prefund, the rest of the prefund stays its deposit, then its call moves    *)
(* the value if it is there.  A paymaster pays for the gas of its operations. *)
MaxCost(op) ==
  LET gas == op.accountGasLimits[1] + op.accountGasLimits[2] + op.preVerificationGas IN op.gasFees[2] * gas

Lacking(op) ==
  IF op.paymasterAndData # Empty \/ deposit >= MaxCost(op) THEN 0 ELSE MaxCost(op) - deposit

HandleOps(op) ==
  LET missing == Lacking(op)
      there == bal - missing >= 1 IN
  /\ op.nonce = nonce /\ ValidSignature(op) /\ bal >= missing
  /\ nonce' = nonce + 1
  /\ bal' = bal - missing - (IF there THEN 1 ELSE 0)
  /\ IF op.paymasterAndData # Empty THEN UNCHANGED deposit
     ELSE \E cost \in {1, MaxCost(op)} : deposit' = deposit + missing - cost
  /\ executed' = executed \cup {[op |-> op, moved |-> there]}
  /\ UNCHANGED <<script, jobs, sigFile, sent, topUps>>

TopUp ==
  /\ topUps < MaxTopUps /\ topUps' = topUps + 1 /\ bal' = bal + 1
  /\ UNCHANGED <<script, jobs, sigFile, sent, deposit, nonce, executed>>

Init ==
  /\ script \in BOOLEAN /\ jobs = [j \in Jobs |-> Idle]
  /\ sigFile = [challenge |-> None, sig |-> None] /\ sent = {}
  /\ bal = Funds0 /\ deposit = 0 /\ topUps = 0 /\ nonce = 0 /\ executed = {}

Next ==
  \/ \E j \in Jobs :
       \/ \E dest \in Dests : Fund(j, dest) \/ \E g \in GasPrices : Build(j, dest, g)
       \/ Hash(j) \/ \E g \in GasPrices : GetNonce(j, g)
       \/ \E r \in SponsorResult : Sponsor(j, r)
       \/ SignWithService(j) \/ RunScript(j) \/ ReadScript(j) \/ CallFails(j)
  \/ \E op \in sent : HandleOps(op)
  \/ TopUp

Spec == Init /\ [][Next]_opVars
-----------------------------------------------------------------------------
(* The account accepts the signature of every operation that is submitted --  *)
(* the page's hash of the unpacked form is the EntryPoint's of the packed one *)
(* whichever fields the paymaster left out, and a signature left in the file     *)
(* by another run is not used -- and accepts nothing put together from parts  *)
(* of public operations by one who can sign with the demo key: another call,  *)
(* nonce, gas, fee or paymaster.                                              *)
WithoutSignature(op) == [op EXCEPT !.signature = Empty]

Resigned(op, by) == [op EXCEPT !.signature = <<Ecdsa(getUserOpHash(op)), by.signature[2]>>]

Mixed(o1, o2) ==
  {[o1 EXCEPT ![f] = o2[f]] : f \in DOMAIN o1 \ {"signature"}}
    \cup {[o1 EXCEPT !.callData = Execute(d)] : d \in Dests}
    \cup {[o1 EXCEPT !.callData = Execute(d), !.paymasterAndData = Empty] : d \in Dests}

OwnersSpendsOnly ==
  /\ \A op \in sent : ValidSignature(op)
  /\ \A o1, o2, by \in sent : \A op \in Mixed(o1, o2) :
       ValidSignature(Resigned(op, by)) => \E o \in sent : WithoutSignature(o) = WithoutSignature(op)

(* A self-bundled operation that executes finds its value in the account:     *)
(* nobody else spends between the balance read and its execution, for the     *)
(* nonce was read before the balance.  Of a sponsored one, whose balance is   *)
(* read first, this is not promised.                                          *)
OpsFunded == \A e \in executed : e.op.paymasterAndData = Empty => e.moved
=============================================================================
