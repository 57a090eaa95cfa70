--------------------------- MODULE SignerService ---------------------------
(***************************************************************************)
(* The local signer service (ui/scripts/signer-service.mjs): each request  *)
(* runs external programs, several requests at once.  Keys and derived     *)
(* material are cached; proofs pass two files with fixed names, so their   *)
(* jobs are chained on one promise, proveQueue.  A program may fail or be  *)
(* killed at its timeout at any await.  What a program computes is named   *)
(* by its input.  One life of the process is modelled.                     *)
(***************************************************************************)
EXTENDS Naturals, Sequences

CONSTANTS
  Inputs,        \* well-formed shared secrets, challenges, statements
  Bad,           \* an input that is not 32 bytes of hex
  MaxRequests,   \* bound
  None, Error

Kinds == {"c13key", "prove", "derive", "sign", "hybridDerive", "hybridSign"}
Fixed == {"c13key", "hybridDerive"}     \* of the demo identity: no input

VARIABLES
  signerC13,     \* the environment: whether SIGNER_C13 is set
  reqs,          \* the requests, in order: what is asked, the await its handler is at, its answer
  proveQueue,    \* the proof jobs not settled yet; the first one runs
  c13KeyCache, deriveCache, hybridDemo,
  toml, gz       \* Prover_spend.toml and target/spend.gz

caches == <<c13KeyCache, deriveCache, hybridDemo>>
vars == <<signerC13, reqs, proveQueue, caches, toml, gz>>

Init == /\ signerC13 \in BOOLEAN
        /\ reqs = <<>> /\ proveQueue = <<>>
        /\ c13KeyCache = None /\ deriveCache = {} /\ hybridDemo = None
        /\ toml = None /\ gz = None
-----------------------------------------------------------------------------
Request(kind, arg, pc, answer) == [kind |-> kind, arg |-> arg, pc |-> pc, answer |-> answer, failed |-> FALSE]
Go(i, pc) == reqs' = [reqs EXCEPT ![i].pc = pc]
Answer(i, a) == reqs' = [reqs EXCEPT ![i].pc = "answered", ![i].answer = a]

(* What the answer to a request is about *)
Asked(kind, arg) == IF kind \in Fixed THEN <<kind>> ELSE <<kind, arg>>

Cached(kind, arg) == \/ kind = "c13key" /\ c13KeyCache # None
                     \/ kind = "derive" /\ arg \in deriveCache
                     \/ kind = "hybridDerive" /\ hybridDemo # None

Ended == \E i \in DOMAIN reqs : reqs[i].pc = "dropped"

(* The handler up to its first await: the checks, and the cache *)
Arrive(kind, arg) ==
  /\ Len(reqs) < MaxRequests /\ ~Ended
  /\ arg = None <=> kind \in Fixed
  /\ reqs' = Append(reqs,
       IF arg = Bad \/ (kind \in {"c13key", "prove"} /\ ~signerC13) THEN Request(kind, arg, "answered", Error)
       ELSE IF Cached(kind, arg) THEN Request(kind, arg, "answered", Asked(kind, arg))
       ELSE Request(kind, arg, IF kind = "prove" THEN "queued" ELSE "program", None))
  /\ proveQueue' = IF reqs'[Len(reqs')].pc = "queued" THEN Append(proveQueue, Len(reqs')) ELSE proveQueue
  /\ UNCHANGED <<signerC13, caches, toml, gz>>

(* c13Key, runHelper, runHybridHelper end: the cache is filled after the await *)
ProgramDone(i) ==
  LET q == reqs[i] IN
  /\ q.pc = "program"
  /\ Answer(i, Asked(q.kind, q.arg))
  /\ c13KeyCache' = IF q.kind = "c13key" THEN "key" ELSE c13KeyCache
  /\ deriveCache' = IF q.kind = "derive" THEN deriveCache \cup {q.arg} ELSE deriveCache
  /\ hybridDemo' = IF q.kind = "hybridDerive" THEN "demo" ELSE hybridDemo
  /\ UNCHANGED <<signerC13, proveQueue, toml, gz>>

(* proveQueue.then(job, job): a job starts when the one before it has settled, *)
(* either way.  A name ending in _Something is a slip the next definition      *)
(* could have.                                                                 *)
MayStart_Concurrent(i) == TRUE
MayStart(i) == Head(proveQueue) = i

StartJob(i) ==
  /\ reqs[i].pc = "queued" /\ MayStart(i)
  /\ Go(i, IF c13KeyCache = None THEN "keygen" ELSE "signing")
  /\ UNCHANGED <<signerC13, proveQueue, caches, toml, gz>>

JobStep(i) ==
  LET q == reqs[i] IN
  \/ /\ q.pc = "keygen"
     /\ c13KeyCache' = "key" /\ Go(i, "signing")
     /\ UNCHANGED <<signerC13, proveQueue, deriveCache, hybridDemo, toml, gz>>
  \/ /\ q.pc = "signing"                     \* inputs.json goes to a fresh directory
     /\ Go(i, "inputs") /\ UNCHANGED <<signerC13, proveQueue, caches, toml, gz>>
  \/ /\ q.pc = "inputs"                      \* generate_prover.py
     /\ toml' = q.arg /\ Go(i, "witness") /\ UNCHANGED <<signerC13, proveQueue, caches, gz>>
  \/ /\ q.pc = "witness"                     \* nargo execute
     /\ gz' = toml /\ Go(i, "proving") /\ UNCHANGED <<signerC13, proveQueue, caches, toml>>
  \/ /\ q.pc = "proving"                     \* bb prove, into the job's own directory
     /\ Answer(i, Asked(q.kind, gz))
     /\ proveQueue' = Tail(proveQueue)
     /\ UNCHANGED <<signerC13, caches, toml, gz>>

(* An external program fails or times out: this request is answered with the  *)
(* error; the job after it starts, since then(job, job) takes both outcomes.  *)
AfterFailure_Waiting(i) == proveQueue
AfterFailure(i) == IF reqs[i].kind = "prove" THEN Tail(proveQueue) ELSE proveQueue

Fail(i) ==
  /\ reqs[i].pc \in {"program", "keygen", "signing", "inputs", "witness", "proving"}
  /\ reqs' = [reqs EXCEPT ![i].pc = "answered", ![i].answer = Error, ![i].failed = TRUE]
  /\ proveQueue' = AfterFailure(i)
  /\ UNCHANGED <<signerC13, caches, toml, gz>>

(* runHelper and runHybridHelper parse the output in the callback of execFile, *)
(* where a throw is caught by nobody: output that cannot be read ends the      *)
(* process, and every open request with it.                                    *)
Crash(i) ==
  /\ reqs[i].pc = "program" /\ reqs[i].kind # "c13key"
  /\ reqs' = [j \in DOMAIN reqs |-> IF reqs[j].pc = "answered" THEN reqs[j] ELSE [reqs[j] EXCEPT !.pc = "dropped"]]
  /\ proveQueue' = <<>>
  /\ UNCHANGED <<signerC13, caches, toml, gz>>

Step(i) == i \in DOMAIN reqs /\ (ProgramDone(i) \/ StartJob(i) \/ JobStep(i) \/ Fail(i) \/ Crash(i))

Next == \/ \E kind \in Kinds, arg \in Inputs \cup {Bad, None} : Arrive(kind, arg)
        \/ \E i \in DOMAIN reqs : Step(i)

(* Every program has a timeout. *)
Fairness == \A i \in 1..MaxRequests : WF_vars(Step(i))

Spec == Init /\ [][Next]_vars /\ Fairness
-----------------------------------------------------------------------------
(* The queue holds the proof requests that are not answered, in order. *)
TypeOK ==
  /\ \A i \in DOMAIN reqs : reqs[i].kind \in Kinds /\ (reqs[i].pc = "answered" <=> reqs[i].answer # None)
  /\ \A k \in DOMAIN proveQueue : reqs[proveQueue[k]].kind = "prove" /\ reqs[proveQueue[k]].pc # "answered"
  /\ \A k, l \in DOMAIN proveQueue : k < l => proveQueue[k] < proveQueue[l]
  /\ deriveCache \subseteq Inputs

(* A request is answered with what it asked for, although proofs share two    *)
(* files and may fail half way; or with an error, but only if one of its own   *)
(* programs failed: neither a cache nor the queue of proofs passes on another  *)
(* request's failure.                                                          *)
AnswersOwnInput ==
  \A i \in DOMAIN reqs : LET q == reqs[i] IN
    q.pc = "answered" =>
      \/ q.answer = Asked(q.kind, q.arg)
      \/ q.answer = Error /\ \/ q.failed
                             \/ q.arg = Bad
                             \/ q.kind \in {"c13key", "prove"} /\ ~signerC13

(* Every request is answered, or dropped with the process: a failed or killed *)
(* proof does not block the queue behind it.                                  *)
RequestsEnd ==
  \A i \in 1..MaxRequests :
    i \in DOMAIN reqs ~> i \in DOMAIN reqs /\ reqs[i].pc \in {"answered", "dropped"}
=============================================================================
