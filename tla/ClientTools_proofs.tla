------------------------ MODULE ClientTools_proofs ------------------------
(***************************************************************************)
(* Proofs about the client library, the signer service and the replay      *)
(* proxy, for every number of requests, calls, payments and spends.        *)
(*                                                                         *)
(* The parts share no variable, so the invariant is a conjunction of one   *)
(* invariant per part and a step of one part keeps the others'.  SignerInv *)
(* says which request heads the proof queue and whose the two files are,   *)
(* QueueInv in which order the others wait;                                *)
(* ProxyInv that what was answered while recording is in the file; OpInv   *)
(* that an operation whose nonce is next is covered, and what a signature  *)
(* over it covers; LogInv that an announcement is put together from those  *)
(* of payments; Authorized what a broadcast spend carries; NativeInv that  *)
(* a crafted authorization comes from the oracle's answer for its key and  *)
(* chain.  What the recursive functions of NativeKey compute is proved     *)
(* from a least counterexample, and Euler's criterion from the pairs of    *)
(* units whose product is the number asked about.                          *)
(* Bytes are terms, so hashes do not collide: that is the model's          *)
(* assumption about the hash functions, and the proofs use it.             *)
(***************************************************************************)
EXTENDS MCClientTools, Integers, Sequences, FiniteSetTheorems, SequenceTheorems,
        WellFoundedInduction, TLAPS
-----------------------------------------------------------------------------
(* The signer service *)

Args == Inputs \cup {Bad, None}
Running == {"keygen", "signing", "inputs", "witness", "proving"}
Given == {Signer!Asked(kind, arg) : kind \in Signer!Kinds, arg \in Args}

RequestType == [kind : Signer!Kinds, arg : Args, pc : Running \cup {"queued", "program", "answered", "dropped"},
                answer : Given \cup {None, Error}, failed : BOOLEAN]

(* Request i holds the queue when it runs, and waits in it before; the files  *)
(* are its own from the step that writes them to the one that reads them.     *)
RequestOk(q, i) ==
  /\ q.pc = "program" => q.kind # "prove"
  /\ q.pc = "queued" => q.kind = "prove" /\ \E k \in 1..Len(proveQueue) : proveQueue[k] = i
  /\ q.pc \in Running => q.kind = "prove" /\ proveQueue # <<>> /\ proveQueue[1] = i
  /\ q.pc = "witness" => toml = q.arg
  /\ q.pc = "proving" => gz = q.arg
  /\ q.pc = "answered" => \/ q.answer = Signer!Asked(q.kind, q.arg)
                          \/ q.answer = Error /\ \/ q.failed
                                                 \/ q.arg = Bad
                                                 \/ q.kind \in {"c13key", "prove"} /\ ~signerC13

SignerInv ==
  /\ reqs \in Seq(RequestType) /\ proveQueue \in Seq(Nat)
  /\ toml \in Args /\ gz \in Args
  /\ \A i \in 1..Len(reqs) : RequestOk(reqs[i], i)

LEMMA SignerInit == Signer!Init => SignerInv
  BY DEF Signer!Init, SignerInv, Args

(* A request moves on and nothing else of its own changes. *)
LEMMA SignerGo ==
  ASSUME SignerInv, NEW i \in 1..Len(reqs), NEW pc \in Running \cup {"queued", "program", "answered"},
         Signer!Go(i, pc)
  PROVE  /\ reqs' \in Seq(RequestType) /\ Len(reqs') = Len(reqs)
         /\ reqs'[i].pc = pc /\ reqs'[i].kind = reqs[i].kind /\ reqs'[i].arg = reqs[i].arg
         /\ reqs'[i].answer = reqs[i].answer
         /\ \A j \in 1..Len(reqs) : j # i => reqs'[j] = reqs[j]
<1>1. reqs[i] \in RequestType
  BY DEF SignerInv
<1> DEFINE r == [reqs[i] EXCEPT !.pc = pc]
<1>2. /\ r \in RequestType /\ r.pc = pc /\ r.kind = reqs[i].kind /\ r.arg = reqs[i].arg
      /\ r.answer = reqs[i].answer
  BY <1>1 DEF RequestType
<1>3. reqs' = [reqs EXCEPT ![i] = r]
  BY DEF Signer!Go
<1> HIDE DEF r
<1> QED
  BY <1>2, <1>3, ExceptSeq DEF SignerInv

(* The handler of request i moves it to pc; the files may be written.  The    *)
(* rest of the queue sees nothing of it, as long as i is alone in using them. *)
LEMMA SignerMoves ==
  ASSUME SignerInv, NEW i \in 1..Len(reqs), NEW pc \in Running \cup {"queued", "program", "answered"},
         Signer!Go(i, pc), reqs[i].pc \in Running \cup {"queued"}, proveQueue # <<>>, proveQueue[1] = i,
         toml' \in Args, gz' \in Args, proveQueue' = proveQueue, signerC13' = signerC13,
         RequestOk(reqs[i], i)  => RequestOk(reqs[i], i)'
  PROVE  SignerInv'
<1>1. \A j \in 1..Len(reqs) : j # i => RequestOk(reqs[j], j)'
  <2> SUFFICES ASSUME NEW j \in 1..Len(reqs), j # i PROVE RequestOk(reqs[j], j)'
    OBVIOUS
  <2>1. RequestOk(reqs[j], j) /\ reqs'[j] = reqs[j]
    BY SignerGo DEF SignerInv
  <2>2. reqs[j].pc \notin Running
    BY <2>1 DEF RequestOk
  <2> QED
    BY <2>1, <2>2 DEF RequestOk, Running, Signer!Asked
<1> QED
  BY <1>1, SignerGo DEF SignerInv

LEMMA SignerArrive ==
  ASSUME SignerInv, NEW kind \in Signer!Kinds, NEW arg \in Args, Signer!Arrive(kind, arg)
  PROVE  SignerInv'
<1> DEFINE q == reqs'[Len(reqs) + 1]
<1>1. PICK r : /\ reqs' = Append(reqs, r) /\ r \in RequestType
               /\ r.kind = kind /\ r.arg = arg
               /\ \/ r.pc = "answered" /\ RequestOk(r, 0)
                  \/ r.pc = "queued" /\ kind = "prove"
                  \/ r.pc = "program" /\ kind # "prove"
  <2>1. Signer!Asked(kind, arg) \in Given
    BY DEF Given
  <2>2. Signer!Request(kind, arg, "answered", Error) \in RequestType
    BY DEF Signer!Request, RequestType, Running
  <2>3. Signer!Request(kind, arg, "answered", Signer!Asked(kind, arg)) \in RequestType
    BY <2>1 DEF Signer!Request, RequestType, Running
  <2>4. Signer!Request(kind, arg, IF kind = "prove" THEN "queued" ELSE "program", None) \in RequestType
    BY DEF Signer!Request, RequestType, Running
  <2>5. CASE arg = Bad \/ (kind \in {"c13key", "prove"} /\ ~signerC13)
    BY <2>2, <2>5 DEF Signer!Arrive, Signer!Request, RequestOk, Running
  <2>6. CASE ~(arg = Bad \/ (kind \in {"c13key", "prove"} /\ ~signerC13)) /\ Signer!Cached(kind, arg)
    BY <2>3, <2>6 DEF Signer!Arrive, Signer!Request, RequestOk, Running
  <2>7. CASE ~(arg = Bad \/ (kind \in {"c13key", "prove"} /\ ~signerC13)) /\ ~Signer!Cached(kind, arg)
    BY <2>4, <2>7 DEF Signer!Arrive, Signer!Request
  <2> QED
    BY <2>5, <2>6, <2>7
<1>2. /\ reqs' \in Seq(RequestType) /\ Len(reqs') = Len(reqs) + 1 /\ q = r
      /\ \A j \in 1..Len(reqs) : reqs'[j] = reqs[j]
  BY <1>1 DEF SignerInv
<1>3. /\ proveQueue' \in Seq(Nat)
      /\ \A k \in 1..Len(proveQueue) : k \in 1..Len(proveQueue') /\ proveQueue'[k] = proveQueue[k]
      /\ r.pc = "queued" => \E k \in 1..Len(proveQueue') : proveQueue'[k] = Len(reqs')
  <2>1. Len(reqs') \in Nat /\ proveQueue \in Seq(Nat)
    BY <1>2 DEF SignerInv
  <2>2. CASE r.pc = "queued"
    <3>1. proveQueue' = Append(proveQueue, Len(reqs'))
      BY <1>2, <2>2 DEF Signer!Arrive
    <3>2. Len(proveQueue') = Len(proveQueue) + 1 /\ proveQueue'[Len(proveQueue) + 1] = Len(reqs')
      BY <3>1, <2>1
    <3> QED
      BY <3>1, <3>2, <2>1
  <2>3. CASE r.pc # "queued"
    <3>1. proveQueue' = proveQueue
      BY <1>2, <2>3 DEF Signer!Arrive
    <3> QED
      BY <3>1, <2>1, <2>3
  <2> QED
    BY <2>2, <2>3
<1>4. UNCHANGED <<signerC13, toml, gz>>
  BY DEF Signer!Arrive
<1>5. \A j \in 1..Len(reqs) : RequestOk(reqs[j], j)'
  <2> SUFFICES ASSUME NEW j \in 1..Len(reqs) PROVE RequestOk(reqs[j], j)'
    OBVIOUS
  <2>1. RequestOk(reqs[j], j) /\ reqs'[j] = reqs[j]
    BY <1>2 DEF SignerInv
  <2>2. proveQueue # <<>> => proveQueue' # <<>> /\ proveQueue'[1] = proveQueue[1]
    BY <1>3 DEF SignerInv
  <2> QED
    BY <2>1, <2>2, <1>3, <1>4 DEF RequestOk, Signer!Asked
<1>6. RequestOk(reqs[Len(reqs)], Len(reqs))'
  BY <1>1, <1>2, <1>3, <1>4 DEF RequestOk, Signer!Asked, Running
<1>7. \A j \in 1..Len(reqs') : RequestOk(reqs[j], j)'
  <2>1. \A j \in 1..Len(reqs') : j \in 1..Len(reqs) \/ j = Len(reqs')
    BY <1>2
  <2> QED
    BY <2>1, <1>5, <1>6
<1> QED
  BY <1>2, <1>3, <1>4, <1>7 DEF SignerInv

(* The job of request i, which runs, settles: the next one holds the queue. *)
LEMMA SignerSettles ==
  ASSUME SignerInv, NEW i \in 1..Len(reqs), reqs'[i] \in RequestType,
         reqs' = [reqs EXCEPT ![i] = reqs'[i]], RequestOk(reqs[i], i)', reqs'[i].pc = "answered",
         reqs[i].pc \in Running, proveQueue' = Tail(proveQueue),
         UNCHANGED <<signerC13, toml, gz>>
  PROVE  SignerInv'
<1>1. /\ reqs' \in Seq(RequestType) /\ Len(reqs') = Len(reqs)
      /\ \A j \in 1..Len(reqs) : j # i => reqs'[j] = reqs[j]
  BY ExceptSeq DEF SignerInv
<1>2. proveQueue \in Seq(Nat) /\ proveQueue # <<>> /\ proveQueue[1] = i
  BY DEF SignerInv, RequestOk
<1>3. /\ proveQueue' \in Seq(Nat) /\ Len(proveQueue') = Len(proveQueue) - 1
      /\ \A k \in 1..Len(proveQueue) : k # 1 => k - 1 \in 1..Len(proveQueue') /\ proveQueue'[k - 1] = proveQueue[k]
  BY <1>2, HeadTailProperties
<1>4. ASSUME NEW j \in 1..Len(reqs), j # i PROVE RequestOk(reqs[j], j)'
  <2>1. RequestOk(reqs[j], j) /\ reqs'[j] = reqs[j]
    BY <1>1, <1>4 DEF SignerInv
  <2>2. reqs[j].pc \notin Running
    BY <2>1, <1>2, <1>4 DEF RequestOk
  <2>3. reqs[j].pc = "queued" => \E k \in 1..Len(proveQueue') : proveQueue'[k] = j
    BY <2>1, <1>2, <1>3, <1>4 DEF RequestOk
  <2> QED
    BY <2>1, <2>2, <2>3 DEF RequestOk, Running, Signer!Asked
<1> QED
  BY <1>1, <1>3, <1>4 DEF SignerInv

(* A request that runs no job is answered. *)
LEMMA SignerAnswers ==
  ASSUME SignerInv, NEW i \in 1..Len(reqs), reqs'[i] \in RequestType,
         reqs' = [reqs EXCEPT ![i] = reqs'[i]], RequestOk(reqs[i], i)',
         UNCHANGED <<signerC13, proveQueue, toml, gz>>
  PROVE  SignerInv'
<1>1. /\ reqs' \in Seq(RequestType) /\ Len(reqs') = Len(reqs)
      /\ \A j \in 1..Len(reqs) : j # i => reqs'[j] = reqs[j]
  BY ExceptSeq DEF SignerInv
<1>2. ASSUME NEW j \in 1..Len(reqs), j # i PROVE RequestOk(reqs[j], j)'
  BY <1>1, <1>2 DEF RequestOk, Signer!Asked, SignerInv
<1> QED
  BY <1>1, <1>2 DEF SignerInv

LEMMA ExceptAt ==
  ASSUME NEW f, NEW i \in DOMAIN f, NEW x
  PROVE  [f EXCEPT ![i] = x][i] = x
  OBVIOUS

Answered(q, a) == [[q EXCEPT !.pc = "answered"] EXCEPT !.answer = a]

LEMMA AnsweredType ==
  ASSUME NEW q \in RequestType, NEW a \in Given \cup {None, Error}
  PROVE  /\ Answered(q, a) \in RequestType /\ Answered(q, a).pc = "answered"
         /\ Answered(q, a).answer = a /\ Answered(q, a).kind = q.kind /\ Answered(q, a).arg = q.arg
<1> HIDE DEF Given
<1> QED
  BY DEF RequestType, Answered

LEMMA SignerProgramDone ==
  ASSUME SignerInv, NEW i \in 1..Len(reqs), Signer!ProgramDone(i)
  PROVE  SignerInv'
<1> DEFINE a == Signer!Asked(reqs[i].kind, reqs[i].arg)
<1>1. reqs[i] \in RequestType /\ RequestOk(reqs[i], i)
  BY DEF SignerInv
<1>2. a \in Given
  BY <1>1 DEF Given, RequestType
<1>3. reqs' = [reqs EXCEPT ![i] = [[reqs[i] EXCEPT !.pc = "answered"] EXCEPT !.answer = a]]
  BY DEF Signer!ProgramDone, Signer!Answer
<1>4. reqs'[i] = Answered(reqs[i], a)
  <2>1. i \in DOMAIN reqs
    BY DEF SignerInv
  <2> QED
    BY <2>1, <1>3, ExceptAt DEF Answered
<1>5. /\ reqs'[i] \in RequestType
      /\ reqs'[i].pc = "answered" /\ reqs'[i].answer = a
      /\ reqs'[i].kind = reqs[i].kind /\ reqs'[i].arg = reqs[i].arg
  <2> HIDE DEF a
  <2> QED
    BY <1>1, <1>2, <1>4, AnsweredType
<1>6. RequestOk(reqs[i], i)'
  BY <1>5 DEF RequestOk, Running, Signer!Asked
<1> QED
  BY <1>3, <1>4, <1>5, <1>6, SignerAnswers DEF Signer!ProgramDone

LEMMA SignerFail ==
  ASSUME SignerInv, NEW i \in 1..Len(reqs), Signer!Fail(i)
  PROVE  SignerInv'
<1> DEFINE r == [reqs[i] EXCEPT !.pc = "answered", !.answer = Error, !.failed = TRUE]
<1>1. reqs[i] \in RequestType /\ RequestOk(reqs[i], i)
  BY DEF SignerInv
<1>2. reqs' = [reqs EXCEPT ![i] = r] /\ reqs'[i] = r
  <2>1. i \in DOMAIN reqs
    BY DEF SignerInv
  <2>2. reqs' = [reqs EXCEPT ![i] = r]
    BY DEF Signer!Fail
  <2> QED
    BY <2>1, <2>2, ExceptAt
<1>3. reqs'[i] \in RequestType /\ reqs'[i].pc = "answered" /\ reqs'[i].answer = Error /\ reqs'[i].failed
  <2>1. r \in RequestType /\ r.pc = "answered" /\ r.answer = Error /\ r.failed
    <3> HIDE DEF Given
    <3> QED
      BY <1>1 DEF RequestType
  <2> QED
    BY <1>2, <2>1
<1>4. RequestOk(reqs[i], i)'
  BY <1>3 DEF RequestOk, Running, Signer!Asked
<1>5. reqs' = [reqs EXCEPT ![i] = reqs'[i]] /\ UNCHANGED <<signerC13, toml, gz>>
  BY <1>2 DEF Signer!Fail
<1>6. CASE reqs[i].pc = "program"
  <2>1. proveQueue' = proveQueue
    BY <1>1, <1>6 DEF Signer!Fail, Signer!AfterFailure, RequestOk
  <2> QED
    BY <1>3, <1>4, <1>5, <2>1, SignerAnswers
<1>7. CASE reqs[i].pc \in Running
  <2>1. proveQueue' = Tail(proveQueue)
    BY <1>1, <1>7 DEF Signer!Fail, Signer!AfterFailure, RequestOk
  <2> QED
    BY <1>3, <1>4, <1>5, <1>7, <2>1, SignerSettles
<1> QED
  BY <1>6, <1>7 DEF Signer!Fail, Running

LEMMA SignerJob ==
  ASSUME SignerInv, NEW i \in 1..Len(reqs), Signer!StartJob(i) \/ Signer!JobStep(i)
  PROVE  SignerInv'
<1>1. reqs[i] \in RequestType /\ RequestOk(reqs[i], i)
  BY DEF SignerInv
<1>2. CASE Signer!StartJob(i)
  <2>1. proveQueue # <<>> /\ proveQueue[1] = i
    BY <1>1, <1>2 DEF Signer!StartJob, Signer!MayStart, RequestOk, SignerInv
  <2>2. PICK pc \in {"keygen", "signing"} : Signer!Go(i, pc)
    BY <1>2 DEF Signer!StartJob
  <2>3. reqs'[i].pc = pc /\ reqs'[i].kind = reqs[i].kind
    BY <2>2, SignerGo DEF Running
  <2>4. RequestOk(reqs[i], i)'
    BY <1>1, <1>2, <2>1, <2>3 DEF RequestOk, Running, Signer!StartJob
  <2> QED
    BY <1>2, <2>1, <2>2, <2>4, SignerMoves DEF Signer!StartJob, SignerInv, Running
<1>3. CASE reqs[i].pc \in {"keygen", "signing", "inputs", "witness"} /\ Signer!JobStep(i)
  <2>1. reqs[i].kind = "prove" /\ proveQueue # <<>> /\ proveQueue[1] = i
    BY <1>1, <1>3 DEF RequestOk, Running
  <2>2. PICK pc \in {"signing", "inputs", "witness", "proving"} :
          /\ Signer!Go(i, pc)
          /\ pc = "witness" => toml' = reqs[i].arg
          /\ pc = "proving" => reqs[i].pc = "witness" /\ gz' = toml
          /\ toml' \in {toml, reqs[i].arg} /\ gz' \in {gz, toml}
    BY <1>3 DEF Signer!JobStep
  <2>3. reqs'[i].pc = pc /\ reqs'[i].kind = reqs[i].kind /\ reqs'[i].arg = reqs[i].arg
    BY <2>2, SignerGo DEF Running
  <2>4. proveQueue' = proveQueue /\ signerC13' = signerC13
    BY <1>3 DEF Signer!JobStep
  <2>5. RequestOk(reqs[i], i)'
    BY <1>1, <2>1, <2>2, <2>3, <2>4 DEF RequestOk, Running
  <2>6. toml' \in Args /\ gz' \in Args
    BY <1>1, <2>2 DEF SignerInv, RequestType
  <2> QED
    BY <1>3, <2>1, <2>2, <2>4, <2>5, <2>6, SignerMoves DEF Running
<1>4. CASE reqs[i].pc = "proving" /\ Signer!JobStep(i)
  <2> DEFINE a == Signer!Asked(reqs[i].kind, reqs[i].arg)
  <2>1. gz = reqs[i].arg
    BY <1>1, <1>4 DEF RequestOk
  <2>2. reqs' = [reqs EXCEPT ![i] = Answered(reqs[i], a)] /\ reqs'[i] = Answered(reqs[i], a)
    <3>1. i \in DOMAIN reqs
      BY DEF SignerInv
    <3>2. reqs' = [reqs EXCEPT ![i] = Answered(reqs[i], a)]
      BY <1>4, <2>1 DEF Signer!JobStep, Signer!Answer, Answered
    <3> QED
      BY <3>1, <3>2, ExceptAt
  <2>3. a \in Given
    BY <1>1 DEF Given, RequestType
  <2>4. /\ reqs'[i] \in RequestType
        /\ reqs'[i].pc = "answered" /\ reqs'[i].answer = a
        /\ reqs'[i].kind = reqs[i].kind /\ reqs'[i].arg = reqs[i].arg
    <3> HIDE DEF a
    <3> QED
      BY <1>1, <2>2, <2>3, AnsweredType
  <2>5. RequestOk(reqs[i], i)'
    BY <2>4 DEF RequestOk, Running, Signer!Asked
  <2>6. reqs' = [reqs EXCEPT ![i] = reqs'[i]]
    BY <2>2
  <2>7. proveQueue' = Tail(proveQueue) /\ UNCHANGED <<signerC13, toml, gz>>
    BY <1>4 DEF Signer!JobStep
  <2> QED
    BY <1>4, <2>4, <2>5, <2>6, <2>7, SignerSettles DEF Running
<1> QED
  BY <1>2, <1>3, <1>4 DEF Signer!JobStep

(* What a crash leaves of a request *)
Dropped(q) == IF q.pc = "answered" THEN q ELSE [q EXCEPT !.pc = "dropped"]

LEMMA SignerCrashed ==
  ASSUME SignerInv, NEW i \in 1..Len(reqs), Signer!Crash(i)
  PROVE  /\ reqs' \in Seq(RequestType) /\ Len(reqs') = Len(reqs)
         /\ \A j \in 1..Len(reqs) :
              /\ reqs'[j].kind = reqs[j].kind /\ reqs'[j].arg = reqs[j].arg /\ reqs'[j].answer = reqs[j].answer
              /\ reqs'[j].failed = reqs[j].failed
              /\ reqs'[j].pc = IF reqs[j].pc = "answered" THEN "answered" ELSE "dropped"
<1>1. reqs \in Seq(RequestType) /\ Len(reqs) \in Nat /\ DOMAIN reqs = 1..Len(reqs)
  BY DEF SignerInv
<1>2. reqs' = [j \in 1..Len(reqs) |-> Dropped(reqs[j])]
  BY <1>1 DEF Signer!Crash, Dropped
<1>3. ASSUME NEW j \in 1..Len(reqs)
      PROVE  /\ Dropped(reqs[j]) \in RequestType /\ Dropped(reqs[j]).kind = reqs[j].kind
             /\ Dropped(reqs[j]).arg = reqs[j].arg /\ Dropped(reqs[j]).answer = reqs[j].answer
             /\ Dropped(reqs[j]).failed = reqs[j].failed
             /\ Dropped(reqs[j]).pc = IF reqs[j].pc = "answered" THEN "answered" ELSE "dropped"
  <2>1. reqs[j] \in RequestType
    BY <1>1
  <2> HIDE DEF Given
  <2> QED
    BY <2>1 DEF RequestType, Dropped
<1>4. \A j \in 1..Len(reqs) : reqs'[j] = Dropped(reqs[j])
  BY <1>2
<1>5. reqs' \in [1..Len(reqs) -> RequestType]
  <2> HIDE DEF Dropped
  <2> QED
    BY <1>2, <1>3
<1>6. reqs' \in Seq(RequestType) /\ Len(reqs') = Len(reqs)
  BY <1>1, <1>5
<1> QED
  BY <1>3, <1>4, <1>6

LEMMA SignerCrash ==
  ASSUME SignerInv, NEW i \in 1..Len(reqs), Signer!Crash(i)
  PROVE  SignerInv'
<1>1. ASSUME NEW j \in 1..Len(reqs) PROVE RequestOk(reqs[j], j)'
  <2>1. RequestOk(reqs[j], j) /\ signerC13' = signerC13
    BY DEF SignerInv, Signer!Crash
  <2> QED
    BY <2>1, SignerCrashed DEF RequestOk, Running, Signer!Asked
<1>2. proveQueue' \in Seq(Nat) /\ UNCHANGED <<toml, gz>>
  BY DEF Signer!Crash
<1> QED
  BY <1>1, <1>2, SignerCrashed DEF SignerInv

LEMMA SignerNext == SignerInv /\ [Signer!Next]_signerVars => SignerInv'
<1> SUFFICES ASSUME SignerInv, [Signer!Next]_signerVars PROVE SignerInv'
  OBVIOUS
<1>1. ASSUME NEW kind \in Signer!Kinds, NEW arg \in Inputs \cup {Bad, None}, Signer!Arrive(kind, arg)
      PROVE  SignerInv'
  BY <1>1, SignerArrive DEF Args
<1>2. ASSUME NEW i \in DOMAIN reqs, Signer!Step(i) PROVE SignerInv'
  <2>1. i \in 1..Len(reqs)
    BY DEF SignerInv
  <2> QED
    BY <2>1, <1>2, SignerProgramDone, SignerJob, SignerFail, SignerCrash DEF Signer!Step
<1>3. CASE UNCHANGED signerVars
  BY <1>3 DEF signerVars, SignerInv, RequestOk, Signer!Asked
<1> QED
  BY <1>1, <1>2, <1>3 DEF Signer!Next

LEMMA SignerAnswersOwn == SignerInv => AnswersOwnInput
  BY DEF SignerInv, RequestOk, AnswersOwnInput, Signer!AnswersOwnInput

(* The queue holds the proofs asked for and not answered, in the order they   *)
(* were asked; what is not answered was not refused.                          *)
QueueInv ==
  /\ \A k \in 1..Len(proveQueue) : /\ proveQueue[k] \in 1..Len(reqs)
                                   /\ reqs[proveQueue[k]].kind = "prove"
                                   /\ reqs[proveQueue[k]].pc \in Running \cup {"queued"}
  /\ \A k, l \in 1..Len(proveQueue) : k < l => proveQueue[k] < proveQueue[l]
  /\ \A i \in 1..Len(reqs) :
       /\ reqs[i].pc = "answered" <=> reqs[i].answer # None
       /\ reqs[i].pc # "answered" => reqs[i].arg # Bad /\ (reqs[i].arg = None <=> reqs[i].kind \in Signer!Fixed)
  /\ deriveCache \subseteq Inputs

LEMMA QueueInit == Signer!Init => QueueInv
  BY DEF Signer!Init, QueueInv

(* The handler of request i goes on: it runs, or it is answered and leaves    *)
(* the queue if it was in it.                                                 *)
LEMMA QueueMoves ==
  ASSUME SignerInv, QueueInv, NEW i \in 1..Len(reqs),
         Len(reqs') = Len(reqs), \A j \in 1..Len(reqs) : j # i => reqs'[j] = reqs[j],
         reqs'[i].kind = reqs[i].kind, reqs'[i].arg = reqs[i].arg,
         reqs'[i].pc = "answered" <=> reqs'[i].answer # None, reqs[i].pc # "answered",
         \/ /\ reqs[i].pc \in Running \cup {"queued"} /\ reqs'[i].pc \in Running
            /\ proveQueue' = proveQueue
         \/ /\ reqs[i].pc = "program" /\ reqs'[i].pc = "answered"
            /\ proveQueue' = proveQueue
         \/ /\ reqs[i].pc \in Running /\ reqs'[i].pc = "answered"
            /\ proveQueue' = Tail(proveQueue),
         deriveCache' = deriveCache \/ (deriveCache' = deriveCache \cup {reqs[i].arg} /\ reqs[i].kind = "derive")
  PROVE  QueueInv'
<1>1. deriveCache' \subseteq Inputs
  <2>0. reqs[i] \in RequestType
    BY DEF SignerInv
  <2>1. reqs[i].arg \in Args
    BY <2>0 DEF RequestType
  <2> QED
    BY <2>1 DEF QueueInv, Args, Signer!Fixed
<1>2. \A j \in 1..Len(reqs') :
        /\ reqs'[j].pc = "answered" <=> reqs'[j].answer # None
        /\ reqs'[j].pc # "answered" => /\ reqs'[j].arg # Bad
                                       /\ reqs'[j].arg = None <=> reqs'[j].kind \in Signer!Fixed
  BY DEF QueueInv
<1>3. proveQueue \in Seq(Nat) /\ Len(proveQueue) \in Nat
  BY DEF SignerInv
<1>4. CASE proveQueue' = proveQueue /\ (reqs'[i].pc \in Running \/ reqs[i].pc = "program")
  <2>1. ASSUME NEW k \in 1..Len(proveQueue)
        PROVE  /\ proveQueue[k] \in 1..Len(reqs) /\ reqs'[proveQueue[k]].kind = "prove"
               /\ reqs'[proveQueue[k]].pc \in Running \cup {"queued"}
    BY <1>4 DEF QueueInv, Running
  <2> QED
    BY <1>1, <1>2, <1>4, <2>1 DEF QueueInv
<1>5. CASE proveQueue' = Tail(proveQueue) /\ reqs[i].pc \in Running
  <2>1. proveQueue # <<>> /\ proveQueue[1] = i
    BY <1>5 DEF SignerInv, RequestOk
  <2>2. /\ Len(proveQueue') = Len(proveQueue) - 1
        /\ \A k \in 1..Len(proveQueue') : k + 1 \in 1..Len(proveQueue) /\ proveQueue'[k] = proveQueue[k + 1]
    BY <1>3, <1>5, <2>1, HeadTailProperties
  <2>3. ASSUME NEW k \in 1..Len(proveQueue')
        PROVE  /\ proveQueue'[k] \in 1..Len(reqs) /\ reqs'[proveQueue'[k]].kind = "prove"
               /\ reqs'[proveQueue'[k]].pc \in Running \cup {"queued"}
    <3>1. PICK m \in 1..Len(proveQueue) : m = k + 1 /\ proveQueue'[k] = proveQueue[m]
      BY <2>2
    <3>2. 1 \in 1..Len(proveQueue) /\ 1 < m
      BY <1>3, <3>1, <2>2
    <3>3. proveQueue[m] \in 1..Len(reqs) /\ proveQueue[1] < proveQueue[m]
      BY <3>2 DEF QueueInv
    <3>4. proveQueue[m] # i
      BY <2>1, <3>3
    <3> QED
      BY <3>1, <3>3, <3>4 DEF QueueInv
  <2>4. ASSUME NEW k \in 1..Len(proveQueue'), NEW l \in 1..Len(proveQueue'), k < l
        PROVE  proveQueue'[k] < proveQueue'[l]
    <3>1. PICK m \in 1..Len(proveQueue), n \in 1..Len(proveQueue) :
            m < n /\ proveQueue'[k] = proveQueue[m] /\ proveQueue'[l] = proveQueue[n]
      BY <2>2, <2>4
    <3> QED
      BY <3>1 DEF QueueInv
  <2> QED
    BY <1>1, <1>2, <2>3, <2>4 DEF QueueInv
<1> QED
  BY <1>4, <1>5

LEMMA QueueArrive ==
  ASSUME SignerInv, QueueInv, NEW kind \in Signer!Kinds, NEW arg \in Args, Signer!Arrive(kind, arg)
  PROVE  QueueInv'
<1>1. PICK r : /\ reqs' = Append(reqs, r) /\ r.kind = kind /\ r.arg = arg
               /\ r.pc = "answered" <=> r.answer # None
               /\ r.pc # "answered" => arg # Bad
               /\ r.pc = "queued" => kind = "prove"
  BY AnswersAssumption DEF Signer!Arrive, Signer!Request, Args
<1>2. Len(reqs) \in Nat /\ Len(proveQueue) \in Nat /\ reqs \in Seq(RequestType) /\ proveQueue \in Seq(Nat)
  BY DEF SignerInv
<1>3. /\ Len(reqs') = Len(reqs) + 1 /\ reqs'[Len(reqs')] = r
      /\ \A j \in 1..Len(reqs) : reqs'[j] = reqs[j]
  BY <1>1, <1>2
<1>4. \A j \in 1..Len(reqs') : j \in 1..Len(reqs) \/ j = Len(reqs')
  BY <1>2, <1>3
<1>5. arg = None <=> kind \in Signer!Fixed
  BY DEF Signer!Arrive
<1>6. \A j \in 1..Len(reqs') :
        /\ reqs'[j].pc = "answered" <=> reqs'[j].answer # None
        /\ reqs'[j].pc # "answered" => /\ reqs'[j].arg # Bad
                                       /\ reqs'[j].arg = None <=> reqs'[j].kind \in Signer!Fixed
  BY <1>1, <1>3, <1>4, <1>5 DEF QueueInv
<1>7. \A k \in 1..Len(proveQueue) : /\ proveQueue[k] \in 1..Len(reqs') /\ proveQueue[k] < Len(reqs')
                                    /\ reqs'[proveQueue[k]].kind = "prove"
                                    /\ reqs'[proveQueue[k]].pc \in Running \cup {"queued"}
  BY <1>2, <1>3 DEF QueueInv
<1>8. deriveCache' = deriveCache
  BY DEF Signer!Arrive, Signer!caches
<1>9. CASE proveQueue' = proveQueue
  BY <1>6, <1>7, <1>8, <1>9 DEF QueueInv
<1>10. CASE proveQueue' = Append(proveQueue, Len(reqs')) /\ r.pc = "queued"
  <2>1. /\ Len(proveQueue') = Len(proveQueue) + 1 /\ proveQueue'[Len(proveQueue')] = Len(reqs')
        /\ \A k \in 1..Len(proveQueue) : proveQueue'[k] = proveQueue[k]
    BY <1>2, <1>3, <1>10
  <2>2. \A k \in 1..Len(proveQueue') : k \in 1..Len(proveQueue) \/ k = Len(proveQueue')
    BY <1>2, <2>1
  <2>3. ASSUME NEW k \in 1..Len(proveQueue')
        PROVE  /\ proveQueue'[k] \in 1..Len(reqs') /\ reqs'[proveQueue'[k]].kind = "prove"
               /\ reqs'[proveQueue'[k]].pc \in Running \cup {"queued"}
    <3>1. Len(reqs') \in 1..Len(reqs')
      BY <1>2, <1>3
    <3> QED
      BY <1>1, <1>3, <1>7, <1>10, <2>1, <2>2, <3>1
  <2>4. ASSUME NEW k \in 1..Len(proveQueue'), NEW l \in 1..Len(proveQueue'), k < l
        PROVE  proveQueue'[k] < proveQueue'[l]
    <3>1. k \in 1..Len(proveQueue)
      BY <1>2, <2>1, <2>4
    <3> QED
      BY <1>7, <2>1, <2>2, <2>4, <3>1 DEF QueueInv
  <2> QED
    BY <1>6, <1>8, <2>3, <2>4 DEF QueueInv
<1> QED
  BY <1>3, <1>9, <1>10 DEF Signer!Arrive

LEMMA QueueStep ==
  ASSUME SignerInv, QueueInv, NEW i \in 1..Len(reqs), Signer!Step(i)
  PROVE  QueueInv'
<1>1. reqs[i] \in RequestType /\ RequestOk(reqs[i], i) /\ i \in DOMAIN reqs
  BY DEF SignerInv
<1>2. reqs[i].pc # "answered" => reqs[i].answer = None
  BY DEF QueueInv
<1>3. ASSUME NEW pc \in Running, Signer!Go(i, pc), reqs[i].pc \in Running \cup {"queued"},
             proveQueue' = proveQueue, deriveCache' = deriveCache
      PROVE  QueueInv'
  <2>1. /\ Len(reqs') = Len(reqs) /\ reqs'[i].pc = pc /\ reqs'[i].kind = reqs[i].kind
        /\ reqs'[i].arg = reqs[i].arg /\ reqs'[i].answer = reqs[i].answer
        /\ \A j \in 1..Len(reqs) : j # i => reqs'[j] = reqs[j]
    BY <1>3, SignerGo
  <2>2. pc # "answered" /\ reqs[i].pc # "answered"
    BY <1>3 DEF Running
  <2> QED
    BY <1>2, <1>3, <2>1, <2>2, QueueMoves
<1>4. ASSUME NEW r, r \in RequestType, r.pc = "answered", r.answer # None, r.kind = reqs[i].kind,
             r.arg = reqs[i].arg, reqs' = [reqs EXCEPT ![i] = r], reqs[i].pc # "answered",
             \/ reqs[i].pc = "program" /\ proveQueue' = proveQueue
             \/ reqs[i].pc \in Running /\ proveQueue' = Tail(proveQueue),
             deriveCache' = deriveCache \/ (deriveCache' = deriveCache \cup {reqs[i].arg} /\ reqs[i].kind = "derive")
      PROVE  QueueInv'
  <2>1. Len(reqs') = Len(reqs) /\ reqs'[i] = r /\ \A j \in 1..Len(reqs) : j # i => reqs'[j] = reqs[j]
    BY <1>4, ExceptSeq DEF SignerInv
  <2> QED
    BY <1>4, <2>1, QueueMoves
<1>5. CASE Signer!StartJob(i)
  BY <1>3, <1>5 DEF Signer!StartJob, Signer!caches, Running
<1>6. CASE Signer!JobStep(i) /\ reqs[i].pc # "proving"
  BY <1>3, <1>6 DEF Signer!JobStep, Signer!caches, Running
<1>7. ASSUME NEW a \in Given, reqs' = [reqs EXCEPT ![i] = Answered(reqs[i], a)], reqs[i].pc # "answered",
             \/ reqs[i].pc = "program" /\ proveQueue' = proveQueue
             \/ reqs[i].pc \in Running /\ proveQueue' = Tail(proveQueue),
             deriveCache' = deriveCache \/ (deriveCache' = deriveCache \cup {reqs[i].arg} /\ reqs[i].kind = "derive")
      PROVE  QueueInv'
  <2>1. a # None
    BY AnswersAssumption DEF Given, Args
  <2>2. PICK r : r = Answered(reqs[i], a)
    OBVIOUS
  <2>3. r \in RequestType /\ r.pc = "answered" /\ r.answer = a /\ r.kind = reqs[i].kind /\ r.arg = reqs[i].arg
    BY <1>1, <2>2, AnsweredType
  <2>4. reqs' = [reqs EXCEPT ![i] = r]
    BY <1>7, <2>2
  <2> QED
    BY <1>4, <1>7, <2>1, <2>3, <2>4
<1>8. CASE Signer!JobStep(i) /\ reqs[i].pc = "proving"
  <2>1. PICK a : a = Signer!Asked(reqs[i].kind, gz)
    OBVIOUS
  <2>2. a \in Given
    BY <1>1, <2>1 DEF SignerInv, Given, RequestType
  <2> QED
    BY <1>7, <1>8, <2>1, <2>2 DEF Signer!JobStep, Signer!Answer, Answered, Signer!caches, Running
<1>9. CASE Signer!ProgramDone(i)
  <2>1. PICK a : a = Signer!Asked(reqs[i].kind, reqs[i].arg)
    OBVIOUS
  <2>2. a \in Given
    BY <1>1, <2>1 DEF Given, RequestType
  <2> QED
    BY <1>7, <1>9, <2>1, <2>2 DEF Signer!ProgramDone, Signer!Answer, Answered
<1>10. CASE Signer!Fail(i)
  <2>1. PICK r : r = [reqs[i] EXCEPT !.pc = "answered", !.answer = Error, !.failed = TRUE]
    OBVIOUS
  <2>2. /\ r \in RequestType /\ r.pc = "answered" /\ r.answer = Error /\ r.kind = reqs[i].kind
        /\ r.arg = reqs[i].arg
    <3> HIDE DEF Given
    <3> QED
      BY <1>1, <2>1 DEF RequestType
  <2>3. \/ reqs[i].pc = "program" /\ proveQueue' = proveQueue
        \/ reqs[i].pc \in Running /\ proveQueue' = Tail(proveQueue)
    BY <1>1, <1>10 DEF Signer!Fail, Signer!AfterFailure, RequestOk, Running
  <2>4. reqs' = [reqs EXCEPT ![i] = r] /\ reqs[i].pc # "answered" /\ deriveCache' = deriveCache
    BY <1>10, <2>1 DEF Signer!Fail, Signer!caches
  <2> QED
    BY <1>4, <2>2, <2>3, <2>4, AnswersAssumption
<1>11. CASE Signer!Crash(i)
  <2>1. proveQueue' = <<>> /\ deriveCache' = deriveCache
    BY <1>11 DEF Signer!Crash, Signer!caches
  <2>2. \A j \in 1..Len(reqs') :
          /\ reqs'[j].pc = "answered" <=> reqs'[j].answer # None
          /\ reqs'[j].pc # "answered" => /\ reqs'[j].arg # Bad
                                         /\ reqs'[j].arg = None <=> reqs'[j].kind \in Signer!Fixed
    BY <1>11, SignerCrashed DEF QueueInv
  <2> QED
    BY <2>1, <2>2 DEF QueueInv
<1> QED
  BY <1>5, <1>6, <1>8, <1>9, <1>10, <1>11 DEF Signer!Step

LEMMA QueueNext == SignerInv /\ QueueInv /\ [Signer!Next]_signerVars => QueueInv'
<1> SUFFICES ASSUME SignerInv, QueueInv, [Signer!Next]_signerVars PROVE QueueInv'
  OBVIOUS
<1>1. CASE UNCHANGED signerVars
  BY <1>1 DEF signerVars, QueueInv
<1>2. DOMAIN reqs = 1..Len(reqs)
  BY DEF SignerInv
<1> QED
  BY <1>1, <1>2, QueueArrive, QueueStep DEF Signer!Next, Args

LEMMA SignerTyped == SignerInv /\ QueueInv => Signer!TypeOK
<1> SUFFICES ASSUME SignerInv, QueueInv PROVE Signer!TypeOK
  OBVIOUS
<1>1. DOMAIN reqs = 1..Len(reqs) /\ DOMAIN proveQueue = 1..Len(proveQueue)
  BY DEF SignerInv
<1>2. ASSUME NEW i \in 1..Len(reqs) PROVE reqs[i].kind \in Signer!Kinds
  <2>1. reqs[i] \in RequestType
    BY DEF SignerInv
  <2> QED
    BY <2>1 DEF RequestType
<1> QED
  BY <1>1, <1>2 DEF QueueInv, Running, Signer!TypeOK
-----------------------------------------------------------------------------
(* The record and replay proxy *)

(* A cache of true results *)
Truthful(e) == DOMAIN e \subseteq Proxy!Requests /\ \A req \in DOMAIN e : e[req] = Proxy!True(req)

CallOk(c) ==
  /\ c = [id |-> c.id, batch |-> c.batch, answers |-> c.answers]
  /\ c.batch \in Proxy!Batches
  /\ \A k \in DOMAIN c.batch : c.batch[k] \in Proxy!Requests
  /\ ~Proxy!Waiting(c) =>
       /\ DOMAIN c.answers = DOMAIN c.batch
       /\ mode \notin {"forward", "record"}
       /\ \A k \in DOMAIN c.batch : /\ c.answers[k] \in {Proxy!True(c.batch[k]), Error}
                                    /\ c.batch[k] \in seen => c.answers[k] = Proxy!True(c.batch[k])

(* What was answered while recording is in the file as it is now, unless that *)
(* is torn: a kill that does not flush loses nothing of it.                   *)
ProxyInv ==
  /\ Truthful(entries)
  /\ file \notin {None, Torn} => Truthful(file)
  /\ seen \subseteq DOMAIN entries
  /\ seen # {} /\ file # Torn => seen \subseteq DOMAIN file
  /\ \A c \in calls : CallOk(c)

LEMMA ProxyInit == Proxy!Init => ProxyInv
  BY DEF Proxy!Init, Proxy!Nothing, ProxyInv, Truthful

LEMMA ProxyCall ==
  ASSUME ProxyInv, NEW batch \in Proxy!Batches, Proxy!Call(batch)
  PROVE  ProxyInv'
<1> PICK d : d = [id |-> made, batch |-> batch, answers |-> None]
  OBVIOUS
<1>1. \A k \in DOMAIN batch : batch[k] \in Proxy!Requests
  BY DEF Proxy!Batches
<1>2. calls' = calls \cup {d} /\ UNCHANGED <<mode, entries, dirty, file, seen>>
  BY DEF Proxy!Call
<1>3. CallOk(d)'
  BY <1>1 DEF CallOk, Proxy!Waiting
<1>4. \A c \in calls : CallOk(c)'
  BY <1>2 DEF ProxyInv, CallOk
<1>5. \A c \in calls' : CallOk(c)'
  BY <1>2, <1>3, <1>4
<1> QED
  BY <1>2, <1>5 DEF ProxyInv, Truthful

(* Recording a batch adds true results of its own requests. *)
LEMMA ProxyRecords ==
  ASSUME ProxyInv, NEW c \in calls, NEW good \in SUBSET DOMAIN c.batch, NEW o, Proxy!Record(c, good, o)
  PROVE  /\ Truthful(entries)'
         /\ DOMAIN entries' = DOMAIN entries \cup {c.batch[k] : k \in {g \in good : mode = "record"}}
<1> DEFINE recorded == {k \in DOMAIN c.batch : mode = "record" /\ k \in good}
           Found(q) == {k \in recorded : c.batch[k] = q}
           names == {c.batch[k] : k \in recorded}
<1>1. entries' = [q \in DOMAIN entries \cup {c.batch[k] : k \in recorded} |->
                   IF Found(q) = {} THEN entries[q]
                   ELSE Proxy!True(c.batch[CHOOSE k \in Found(q) : TRUE])]
  BY DEF Proxy!Record, Proxy!Recorded, Proxy!FoundFor
<1>2. /\ DOMAIN entries' = DOMAIN entries \cup names
      /\ \A q \in DOMAIN entries \cup names :
           entries'[q] = IF Found(q) = {} THEN entries[q] ELSE Proxy!True(c.batch[CHOOSE k \in Found(q) : TRUE])
  BY <1>1
<1>3. names \subseteq Proxy!Requests
  BY DEF ProxyInv, CallOk
<1>4. Truthful(entries)'
  <2>0. DOMAIN entries' \subseteq Proxy!Requests
    <3>1. DOMAIN entries \subseteq Proxy!Requests
      BY DEF ProxyInv, Truthful
    <3> HIDE DEF names
    <3> QED
      BY <3>1, <1>2, <1>3
  <2> SUFFICES ASSUME NEW q \in DOMAIN entries' PROVE entries'[q] = Proxy!True(q)
    BY <2>0 DEF Truthful
  <2>1. CASE Found(q) = {}
    <3>1. q \notin names
      BY <2>1
    <3>2. \A r \in DOMAIN entries : entries[r] = Proxy!True(r)
      BY DEF ProxyInv, Truthful
    <3> HIDE DEF names, Found
    <3> QED
      BY <2>1, <3>1, <3>2, <1>2
  <2>2. CASE Found(q) # {}
    <3>1. c.batch[CHOOSE k \in Found(q) : TRUE] = q
      BY <2>2
    <3> QED
      BY <2>2, <3>1, <1>2
  <2> QED
    BY <2>1, <2>2
<1>5. names = {c.batch[k] : k \in {g \in good : mode = "record"}}
  OBVIOUS
<1> QED
  BY <1>2, <1>4, <1>5

LEMMA ProxyForward ==
  ASSUME ProxyInv, NEW c \in calls, Proxy!Forward(c)
  PROVE  ProxyInv'
<1>1. PICK good \in SUBSET DOMAIN c.batch, o \in Proxy!Permutations(DOMAIN c.batch) :
        /\ Proxy!Record(c, good, o)
        /\ Proxy!Flush(entries', dirty \/ Proxy!Recorded(c, good, o) # {})
        /\ seen' = seen \cup {c.batch[k] : k \in {g \in good : mode = "record"}}
  BY DEF Proxy!Forward
<1> DEFINE names == {c.batch[k] : k \in {g \in good : mode = "record"}}
<1>2. Truthful(entries)' /\ DOMAIN entries' = DOMAIN entries \cup names /\ seen' = seen \cup names
  BY <1>1, ProxyRecords
<1>3. Proxy!Recorded(c, good, o) = {} => names = {}
  BY DEF Proxy!Recorded, Proxy!FoundFor
<1>4. UNCHANGED mode /\ calls' = calls \ {c} /\ mode \in {"forward", "record"}
  BY DEF Proxy!Forward
<1>5. /\ file' \notin {None, Torn} => Truthful(file)'
      /\ seen' # {} /\ file' # Torn => seen' \subseteq DOMAIN file'
  <2>1. CASE file' = entries'
    <3> HIDE DEF names
    <3> QED
      BY <2>1, <1>2 DEF ProxyInv, Truthful
  <2>2. CASE ~(file' = entries')
    <3>1. file' = file /\ ~(mode = "record" /\ Proxy!Recorded(c, good, o) # {})
      BY <1>1, <2>2 DEF Proxy!Flush
    <3>2. names = {}
      BY <1>3, <3>1
    <3>3. seen' = seen
      BY <1>2, <3>2
    <3> QED
      BY <3>1, <3>3 DEF ProxyInv, Truthful
  <2> QED
    BY <2>1, <2>2
<1>6. \A d \in calls' : CallOk(d)'
  BY <1>4 DEF ProxyInv, CallOk
<1>7. seen' \subseteq DOMAIN entries'
  BY <1>2 DEF ProxyInv
<1> QED
  BY <1>2, <1>5, <1>6, <1>7 DEF ProxyInv

LEMMA ProxyForwardStopped ==
  ASSUME ProxyInv, NEW c \in calls, Proxy!ForwardStopped(c)
  PROVE  ProxyInv'
<1>1. PICK good \in SUBSET DOMAIN c.batch, o \in Proxy!Permutations(DOMAIN c.batch) : Proxy!Record(c, good, o)
  BY DEF Proxy!ForwardStopped
<1>2. Truthful(entries)' /\ DOMAIN entries \subseteq DOMAIN entries'
  BY <1>1, ProxyRecords
<1>3. file' = Torn /\ seen' = seen /\ mode = "record"
  BY DEF Proxy!ForwardStopped, Proxy!FlushStopped
<1>4. calls' = {} \/ (mode' = mode /\ calls' \subseteq calls)
  BY DEF Proxy!ForwardStopped
<1>5. \A d \in calls' : CallOk(d)'
  BY <1>3, <1>4 DEF ProxyInv, CallOk
<1> QED
  BY <1>2, <1>3, <1>5 DEF ProxyInv

LEMMA ProxyStop ==
  ASSUME ProxyInv, NEW flushes \in BOOLEAN, Proxy!Stop(flushes)
  PROVE  ProxyInv'
<1>1. file' \in {file, entries, Torn} /\ calls' = {} /\ UNCHANGED <<entries, seen>>
  BY DEF Proxy!Stop, Proxy!Flush, Proxy!FlushStopped
<1> QED
  BY <1>1 DEF ProxyInv, Truthful

LEMMA ProxyStart ==
  ASSUME ProxyInv, Proxy!StartReplay
  PROVE  ProxyInv'
<1>1. /\ file \notin {None, Torn} /\ mode' = "replay" /\ entries' = file
      /\ UNCHANGED <<calls, file, seen>>
  BY DEF Proxy!StartReplay
<1>2. \A c \in calls : CallOk(c)'
  BY <1>1 DEF ProxyInv, CallOk
<1> QED
  BY <1>1, <1>2 DEF ProxyInv, Truthful

(* One shape of an account answers the other. *)
LEMMA Shapes ==
  /\ Proxy!Fields = {"balance", "nonce", "code"}
  /\ DOMAIN Proxy!ACCOUNT_FIELD = {"eth_getBalance", "eth_getTransactionCount", "eth_getCode"}
  /\ Proxy!ACCOUNT_FIELD["eth_getBalance"] = "balance"
  /\ Proxy!ACCOUNT_FIELD["eth_getTransactionCount"] = "nonce"
  /\ Proxy!ACCOUNT_FIELD["eth_getCode"] = "code"
  /\ Proxy!AccountInfo = "eth_getAccountInfo"
  BY DEF Proxy!Fields, Proxy!ACCOUNT_FIELD, Proxy!AccountInfo

LEMMA EquivalentTrue ==
  ASSUME ProxyInv, NEW req \in Proxy!Requests
  PROVE  Proxy!fromEquivalentAccountEntry(req) \in {Proxy!True(req), None}
<1> DEFINE info == [req EXCEPT !.method = "eth_getAccountInfo"]
           method(f) == CHOOSE m \in DOMAIN Proxy!ACCOUNT_FIELD : Proxy!ACCOUNT_FIELD[m] = f
           of(f) == [req EXCEPT !.method = method(f)]
<1>1. req = [method |-> req.method, params |-> req.params]
  BY DEF Proxy!Requests
<1>2. CASE req.method \in DOMAIN Proxy!ACCOUNT_FIELD /\ info \in DOMAIN entries
  <2> DEFINE f == Proxy!ACCOUNT_FIELD[req.method]
  <2>1. f \in Proxy!Fields /\ req.method # Proxy!AccountInfo
    BY <1>2, Shapes
  <2>2. entries[info] = [g \in Proxy!Fields |-> req.params]
    <3>1. info.method = Proxy!AccountInfo /\ info.params = req.params
      BY <1>1, Shapes
    <3>2. entries[info] = Proxy!True(info)
      <4> HIDE DEF info
      <4> QED
        BY <1>2 DEF ProxyInv, Truthful
    <3> HIDE DEF info
    <3> QED
      BY <3>1, <3>2 DEF Proxy!True
  <2>3. Proxy!fromEquivalentAccountEntry(req) = [g \in {f} |-> entries[info][g]]
    BY <1>2, Shapes DEF Proxy!fromEquivalentAccountEntry
  <2>4. Proxy!True(req) = [g \in {f} |-> req.params]
    BY <1>2, <2>1 DEF Proxy!True
  <2> QED
    BY <2>1, <2>2, <2>3, <2>4
<1>3. CASE /\ req.method = Proxy!AccountInfo
           /\ \A f \in Proxy!Fields : of(f) \in DOMAIN entries
  <2>1. ASSUME NEW f \in Proxy!Fields PROVE entries[of(f)][f] = req.params
    <3>1. method(f) \in DOMAIN Proxy!ACCOUNT_FIELD /\ Proxy!ACCOUNT_FIELD[method(f)] = f
      BY Shapes
    <3>2. of(f).method = method(f) /\ of(f).params = req.params
      BY <1>1
    <3>3. method(f) # Proxy!AccountInfo
      BY <3>1, Shapes
    <3>4. entries[of(f)] = Proxy!True(of(f))
      <4>1. of(f) \in DOMAIN entries
        BY <1>3
      <4> HIDE DEF of
      <4> QED
        BY <4>1 DEF ProxyInv, Truthful
    <3>5. Proxy!True(of(f)) = [g \in {f} |-> req.params]
      BY <3>1, <3>2, <3>3 DEF Proxy!True
    <3> QED
      BY <3>4, <3>5
  <2>2. Proxy!fromEquivalentAccountEntry(req) = [f \in Proxy!Fields |-> entries[of(f)][f]]
    BY <1>3, Shapes DEF Proxy!fromEquivalentAccountEntry
  <2>3. Proxy!True(req) = [f \in Proxy!Fields |-> req.params]
    BY <1>3 DEF Proxy!True
  <2> HIDE DEF of
  <2> QED
    BY <2>1, <2>2, <2>3
<1>4. CASE /\ ~(req.method \in DOMAIN Proxy!ACCOUNT_FIELD /\ info \in DOMAIN entries)
           /\ ~(/\ req.method = Proxy!AccountInfo
                /\ \A f \in Proxy!Fields : of(f) \in DOMAIN entries)
  BY <1>4, Shapes DEF Proxy!fromEquivalentAccountEntry
<1> QED
  BY <1>2, <1>3, <1>4

LEMMA ProxyReplay ==
  ASSUME ProxyInv, NEW c \in calls, Proxy!Replay(c)
  PROVE  ProxyInv'
<1> DEFINE ans(fetched) ==
      [k \in DOMAIN c.batch |->
         IF Proxy!Local(c.batch[k]) # None THEN Proxy!Local(c.batch[k])
         ELSE IF c.batch[k].method = "eth_getCode" /\ fetched THEN Proxy!True(c.batch[k]) ELSE Error]
<1>1. PICK fetched \in BOOLEAN : calls' = (calls \ {c}) \cup {[c EXCEPT !.answers = ans(fetched)]}
  BY DEF Proxy!Replay
<1>2. mode = "replay" /\ UNCHANGED <<mode, entries, file, seen>>
  BY DEF Proxy!Replay
<1>3. ASSUME NEW k \in DOMAIN c.batch
      PROVE  /\ ans(fetched)[k] \in {Proxy!True(c.batch[k]), Error}
             /\ c.batch[k] \in seen => ans(fetched)[k] = Proxy!True(c.batch[k])
  <2>1. c.batch[k] \in Proxy!Requests
    BY DEF ProxyInv, CallOk
  <2> DEFINE q == c.batch[k]
  <2>5. q \in DOMAIN entries => entries[q] = Proxy!True(q)
    <3> HIDE DEF q
    <3> QED
      BY DEF ProxyInv, Truthful
  <2>2. Proxy!Local(q) \in {Proxy!True(q), None}
    BY <2>1, <2>5, EquivalentTrue DEF Proxy!Local
  <2>3. q \in seen => Proxy!Local(q) = Proxy!True(q)
    <3>1. q \in seen => q \in DOMAIN entries
      BY DEF ProxyInv
    <3> QED
      BY <3>1, <2>5 DEF Proxy!Local
  <2>4. Proxy!True(c.batch[k]) # None
    BY <2>1, ResultsAssumption
  <2> QED
    BY <2>2, <2>3, <2>4
<1> PICK d : d = [c EXCEPT !.answers = ans(fetched)]
  OBVIOUS
<1>4. d.batch = c.batch /\ d.answers = ans(fetched) /\ d = [id |-> d.id, batch |-> d.batch, answers |-> d.answers]
  <2>1. c = [id |-> c.id, batch |-> c.batch, answers |-> c.answers]
    BY DEF ProxyInv, CallOk
  <2> HIDE DEF ans
  <2> QED
    BY <2>1
<1>5. CallOk(d)'
  <2>1. d.batch \in Proxy!Batches /\ \A k \in DOMAIN d.batch : d.batch[k] \in Proxy!Requests
    BY <1>4 DEF ProxyInv, CallOk
  <2>2. DOMAIN ans(fetched) = DOMAIN c.batch
    OBVIOUS
  <2> HIDE DEF ans
  <2> QED
    BY <1>2, <1>3, <1>4, <2>1, <2>2 DEF CallOk
<1>6. \A e \in calls : CallOk(e)'
  BY <1>2 DEF ProxyInv, CallOk
<1>7. \A e \in calls' : CallOk(e)'
  BY <1>1, <1>5, <1>6
<1> QED
  BY <1>2, <1>7 DEF ProxyInv, Truthful

LEMMA ProxyNext == ProxyInv /\ [Proxy!Next]_proxyVars => ProxyInv'
<1> SUFFICES ASSUME ProxyInv, [Proxy!Next]_proxyVars PROVE ProxyInv'
  OBVIOUS
<1>1. ASSUME NEW c \in calls, Proxy!ForwardFails(c) PROVE ProxyInv'
  BY <1>1 DEF Proxy!ForwardFails, ProxyInv, CallOk, Truthful
<1>2. CASE UNCHANGED proxyVars
  BY <1>2 DEF proxyVars, ProxyInv, CallOk, Truthful
<1> QED
  BY <1>1, <1>2, ProxyCall, ProxyForward, ProxyForwardStopped, ProxyReplay, ProxyStop, ProxyStart DEF Proxy!Next

LEMMA ProxyTyped == ProxyInv => Proxy!TypeOK
  BY DEF ProxyInv, Truthful, CallOk, Proxy!TypeOK, Proxy!Waiting

LEMMA ProxyAnswers == ProxyInv => ReplayAnswers
  BY DEF ProxyInv, CallOk, ReplayAnswers, Proxy!ReplayAnswers
-----------------------------------------------------------------------------
(* The operations of the hybrid account *)

(* op is a packed operation, or one in the form of the JSON-RPC. *)
Packed(op) ==
  op = [sender |-> op.sender, nonce |-> op.nonce, initCode |-> op.initCode, callData |-> op.callData,
        accountGasLimits |-> op.accountGasLimits, preVerificationGas |-> op.preVerificationGas,
        gasFees |-> op.gasFees, paymasterAndData |-> op.paymasterAndData, signature |-> op.signature]

Unpacked(op) ==
  op = [sender |-> op.sender, nonce |-> op.nonce, callData |-> op.callData, callGasLimit |-> op.callGasLimit,
        verificationGasLimit |-> op.verificationGasLimit, preVerificationGas |-> op.preVerificationGas,
        maxFeePerGas |-> op.maxFeePerGas, maxPriorityFeePerGas |-> op.maxPriorityFeePerGas,
        paymaster |-> op.paymaster, paymasterVerificationGasLimit |-> op.paymasterVerificationGasLimit,
        paymasterPostOpGasLimit |-> op.paymasterPostOpGasLimit, paymasterData |-> op.paymasterData,
        signature |-> op.signature]

(* An operation the page or script built to bundle itself *)
SelfBundled(op) ==
  /\ Packed(op) /\ op.accountGasLimits = <<2, 1>> /\ op.preVerificationGas = 1
  /\ op.gasFees[2] \in Nat /\ op.gasFees[2] >= 1
  /\ op.paymasterAndData = Op!Empty

(* While its nonce is the next one, the account still holds value and prefund *)
Covered(op) == op.nonce = nonce => bal >= 1 + Op!MaxCost(op)

JobOk(q) ==
  /\ q = [pc |-> q.pc, sponsored |-> q.sponsored, dest |-> q.dest, op |-> q.op, hash |-> q.hash]
  /\ q.pc \in {"funded", "sponsor"} => q.sponsored = TRUE
  /\ q.pc = "built" => q.sponsored = FALSE
  /\ q.pc \in {"built", "sponsor", "sign", "read"} => q.op.nonce \in Nat /\ q.op.nonce <= nonce
  /\ q.pc \in {"built", "sign", "read"} /\ q.sponsored = FALSE => SelfBundled(q.op)
  /\ q.pc \in {"sign", "read"} /\ q.sponsored = FALSE => q.hash = Op!getUserOpHash(q.op) /\ Covered(q.op)
  /\ q.pc \in {"sponsor", "sign", "read"} /\ q.sponsored = TRUE => Unpacked(q.op)
  /\ q.pc \in {"sign", "read"} /\ q.sponsored = TRUE =>
       q.op.paymaster # None /\ q.hash = Op!computeUserOpHash(q.op, Op!Chain)
  /\ q.pc \in {"sign", "read"} => q.sponsored \in BOOLEAN

SentOk(op) ==
  /\ Packed(op) /\ Op!ValidSignature(op)
  /\ op.nonce \in Nat /\ op.nonce <= nonce
  /\ op.paymasterAndData = Op!Empty => SelfBundled(op) /\ Covered(op)

OpInv ==
  /\ bal \in Nat /\ deposit \in Nat /\ nonce \in Nat
  /\ DOMAIN jobs = Jobs /\ \A j \in Jobs : JobOk(jobs[j])
  /\ (\E j \in Jobs : jobs[j].pc = "read") => sigFile.sig = Op!Blinded(sigFile.challenge)
  /\ \A op \in sent : SentOk(op)
  /\ Op!OpsFunded

LEMMA OpInit == Op!Init => OpInv
<1> SUFFICES ASSUME Op!Init PROVE OpInv
  OBVIOUS
<1>1. Op!Idle.pc = "start" /\ JobOk(Op!Idle)
  BY DEF Op!Idle, JobOk
<1>2. DOMAIN jobs = Jobs /\ \A j \in Jobs : jobs[j] = Op!Idle
  BY DEF Op!Init
<1>3. bal \in Nat /\ deposit \in Nat /\ nonce \in Nat /\ sent = {} /\ executed = {}
  BY GasAssumption DEF Op!Init
<1> QED
  BY <1>1, <1>2, <1>3 DEF OpInv, Op!OpsFunded

(* Signing changes neither what is hashed nor what an operation costs. *)
LEMMA Signed ==
  ASSUME NEW op, Packed(op), NEW sig
  PROVE  LET o == [op EXCEPT !.signature = sig] IN
         /\ Packed(o) /\ o.signature = sig /\ o.nonce = op.nonce
         /\ o.paymasterAndData = op.paymasterAndData
         /\ Op!getUserOpHash(o) = Op!getUserOpHash(op) /\ Op!MaxCost(o) = Op!MaxCost(op)
         /\ SelfBundled(op) => SelfBundled(o)
<1> DEFINE o == [op EXCEPT !.signature = sig]
<1>1. /\ o.sender = op.sender /\ o.nonce = op.nonce /\ o.initCode = op.initCode /\ o.callData = op.callData
      /\ o.accountGasLimits = op.accountGasLimits /\ o.preVerificationGas = op.preVerificationGas
      /\ o.gasFees = op.gasFees /\ o.paymasterAndData = op.paymasterAndData /\ o.signature = sig
      /\ Packed(o)
  BY DEF Packed
<1> HIDE DEF o
<1>2. Op!getUserOpHash(o) = Op!getUserOpHash(op)
  BY <1>1 DEF Op!getUserOpHash
<1>3. Op!MaxCost(o) = Op!MaxCost(op)
  BY <1>1 DEF Op!MaxCost
<1>4. SelfBundled(op) => SelfBundled(o)
  BY <1>1 DEF SelfBundled
<1> QED
  BY <1>1, <1>2, <1>3, <1>4 DEF o

(* The bundler packs the JSON of a sponsored operation into one whose hash is *)
(* the one the page computed from its own form.                               *)
LEMMA BundledHash ==
  ASSUME NEW op, Unpacked(op), op.paymaster # None, NEW sig
  PROVE  LET o == Op!Bundled(Op!toRpc([op EXCEPT !.signature = sig])) IN
         /\ Packed(o) /\ o.signature = sig /\ o.nonce = op.nonce
         /\ o.paymasterAndData # Op!Empty
         /\ Op!getUserOpHash(o) = Op!computeUserOpHash(op, Op!Chain)
<1> DEFINE u == [op EXCEPT !.signature = sig]
           r == Op!toRpc(u)
           o == Op!Bundled(r)
<1>1. /\ u.sender = op.sender /\ u.nonce = op.nonce /\ u.callData = op.callData
      /\ u.callGasLimit = op.callGasLimit /\ u.verificationGasLimit = op.verificationGasLimit
      /\ u.preVerificationGas = op.preVerificationGas /\ u.maxFeePerGas = op.maxFeePerGas
      /\ u.maxPriorityFeePerGas = op.maxPriorityFeePerGas /\ u.paymaster = op.paymaster
      /\ u.paymasterVerificationGasLimit = op.paymasterVerificationGasLimit
      /\ u.paymasterPostOpGasLimit = op.paymasterPostOpGasLimit /\ u.paymasterData = op.paymasterData
      /\ u.signature = sig
  BY DEF Unpacked
<1> HIDE DEF u
<1>2. /\ DOMAIN r = Op!Plain \cup Op!PaymasterFields
      /\ \A f \in Op!Plain : r[f] = u[f]
      /\ r["paymaster"] = Op!Or(u.paymaster, 0)
      /\ r["paymasterVerificationGasLimit"] = Op!Or(u.paymasterVerificationGasLimit, 0)
      /\ r["paymasterPostOpGasLimit"] = Op!Or(u.paymasterPostOpGasLimit, 0)
      /\ r["paymasterData"] = Op!Or(u.paymasterData, Op!Empty)
  BY <1>1 DEF Op!toRpc, Op!PaymasterFields, Op!Plain
<1>3. r["paymaster"] = op.paymaster /\ "paymaster" \in DOMAIN r
  BY <1>1, <1>2 DEF Op!Or, Op!PaymasterFields
<1> HIDE DEF r
<1>4. /\ o.sender = op.sender /\ o.nonce = op.nonce /\ o.initCode = Op!Empty /\ o.callData = op.callData
      /\ o.accountGasLimits = <<op.verificationGasLimit, op.callGasLimit>>
      /\ o.preVerificationGas = op.preVerificationGas
      /\ o.gasFees = <<op.maxPriorityFeePerGas, op.maxFeePerGas>>
      /\ o.paymasterAndData = Op!packPaymasterAndData(op) /\ o.signature = sig
      /\ Packed(o)
  BY <1>1, <1>2, <1>3 DEF Op!Bundled, Op!Plain, Op!packPaymasterAndData, Packed
<1>5. o.paymasterAndData # Op!Empty
  BY <1>4 DEF Op!packPaymasterAndData, Op!Empty
<1> HIDE DEF o
<1>6. Op!getUserOpHash(o) = Op!computeUserOpHash(op, Op!Chain)
  BY <1>4 DEF Op!getUserOpHash, Op!computeUserOpHash, Op!packPair
<1> QED
  BY <1>4, <1>5, <1>6 DEF o, r, u

(* A job moves on, and nothing is submitted or executed. *)
LEMMA OpJobMoves ==
  ASSUME OpInv, NEW j \in Jobs, DOMAIN jobs' = Jobs, \A i \in Jobs : i # j => jobs'[i] = jobs[i],
         JobOk(jobs[j])', UNCHANGED <<sent, bal, deposit, nonce, executed>>,
         jobs'[j].pc = "read" => sigFile'.sig = Op!Blinded(sigFile'.challenge),
         jobs'[j].pc # "read" => sigFile' = sigFile
  PROVE  OpInv'
<1>1. ASSUME NEW i \in Jobs, i # j PROVE JobOk(jobs[i])'
  BY <1>1 DEF OpInv, JobOk, Covered
<1>2. \A op \in sent : SentOk(op)'
  BY DEF OpInv, SentOk, Covered
<1>3. (\E i \in Jobs : jobs'[i].pc = "read") => sigFile'.sig = Op!Blinded(sigFile'.challenge)
  BY DEF OpInv
<1>4. Op!OpsFunded'
  BY DEF OpInv, Op!OpsFunded
<1> QED
  BY <1>1, <1>2, <1>3, <1>4 DEF OpInv

LEMMA OpBuild ==
  ASSUME OpInv, NEW j \in Jobs, NEW dest \in Dests, NEW gasPrice \in GasPrices, Op!Build(j, dest, gasPrice)
  PROVE  OpInv'
<1> PICK op : op = Op!buildSpendUserOp(nonce, gasPrice, dest)
  OBVIOUS
<1>1. SelfBundled(op) /\ op.nonce = nonce
  <2>1. gasPrice \in Nat /\ gasPrice >= 1
    BY GasAssumption
  <2> QED
    BY <2>1 DEF Op!buildSpendUserOp, Op!packPair, SelfBundled, Packed
<1> PICK q : q = [Op!Idle EXCEPT !.pc = "built", !.dest = dest, !.op = op]
  OBVIOUS
<1>2. jobs' = [jobs EXCEPT ![j] = q]
  BY DEF Op!Build
<1>5. /\ q.pc = "built" /\ q.sponsored = FALSE /\ q.op = op
      /\ q = [pc |-> q.pc, sponsored |-> q.sponsored, dest |-> q.dest, op |-> q.op, hash |-> q.hash]
  BY DEF Op!Idle
<1>3. JobOk(q)'
  BY <1>1, <1>5 DEF JobOk, Op!Build, Op!Local, OpInv
<1>4. DOMAIN jobs' = Jobs /\ jobs'[j] = q /\ \A i \in Jobs : i # j => jobs'[i] = jobs[i]
  BY <1>2 DEF OpInv
<1> QED
  BY <1>3, <1>4, <1>5, OpJobMoves DEF Op!Build, Op!Local

LEMMA OpFund ==
  ASSUME OpInv, NEW j \in Jobs, NEW dest \in Dests, Op!Fund(j, dest)
  PROVE  OpInv'
<1> PICK q : q = [Op!Idle EXCEPT !.pc = "funded", !.sponsored = TRUE, !.dest = dest]
  OBVIOUS
<1>1. jobs' = [jobs EXCEPT ![j] = q]
  BY DEF Op!Fund
<1>4. /\ q.pc = "funded" /\ q.sponsored = TRUE
      /\ q = [pc |-> q.pc, sponsored |-> q.sponsored, dest |-> q.dest, op |-> q.op, hash |-> q.hash]
  BY DEF Op!Idle
<1>2. JobOk(q)'
  BY <1>4 DEF JobOk
<1>3. DOMAIN jobs' = Jobs /\ jobs'[j] = q /\ \A i \in Jobs : i # j => jobs'[i] = jobs[i]
  BY <1>1 DEF OpInv
<1> QED
  BY <1>2, <1>3, <1>4, OpJobMoves DEF Op!Fund, Op!Local

LEMMA OpGetNonce ==
  ASSUME OpInv, NEW j \in Jobs, NEW gasPrice \in GasPrices, Op!GetNonce(j, gasPrice)
  PROVE  OpInv'
<1> PICK op : op = Op!UnsponsoredOp(nonce, Op!Execute(jobs[j].dest), gasPrice)
  OBVIOUS
<1>1. Unpacked(op) /\ op.nonce = nonce
  BY DEF Op!UnsponsoredOp, Unpacked
<1> PICK q : q = [jobs[j] EXCEPT !.pc = "sponsor", !.op = op]
  OBVIOUS
<1>2. q.pc = "sponsor" /\ q.sponsored = TRUE /\ q.op = op
      /\ q = [pc |-> q.pc, sponsored |-> q.sponsored, dest |-> q.dest, op |-> q.op, hash |-> q.hash]
  <2>1. JobOk(jobs[j]) /\ jobs[j].pc = "funded"
    BY DEF OpInv, Op!GetNonce
  <2> QED
    BY <2>1 DEF JobOk
<1>3. JobOk(q)'
  BY <1>1, <1>2 DEF JobOk, Op!GetNonce, Op!Local, OpInv
<1>4. jobs' = [jobs EXCEPT ![j] = q]
  BY DEF Op!GetNonce
<1>5. DOMAIN jobs' = Jobs /\ jobs'[j] = q /\ \A i \in Jobs : i # j => jobs'[i] = jobs[i]
  BY <1>4 DEF OpInv
<1> QED
  BY <1>2, <1>3, <1>5, OpJobMoves DEF Op!GetNonce, Op!Local

(* A job ends or fails. *)
LEMMA OpStops ==
  ASSUME OpInv, NEW j \in Jobs, NEW pc \in {"sent", "failed"}, Op!Go(j, pc)
  PROVE  /\ DOMAIN jobs' = Jobs /\ jobs'[j].pc = pc
         /\ \A i \in Jobs : i # j => jobs'[i] = jobs[i]
         /\ JobOk(jobs[j])'
<1> PICK q : q = [jobs[j] EXCEPT !.pc = pc]
  OBVIOUS
<1>1. q.pc = pc /\ q = [pc |-> q.pc, sponsored |-> q.sponsored, dest |-> q.dest, op |-> q.op, hash |-> q.hash]
  BY DEF OpInv, JobOk
<1>2. jobs' = [jobs EXCEPT ![j] = q]
  BY DEF Op!Go
<1>3. DOMAIN jobs' = Jobs /\ jobs'[j] = q /\ \A i \in Jobs : i # j => jobs'[i] = jobs[i]
  BY <1>2 DEF OpInv
<1>4. JobOk(q)'
  BY <1>1 DEF JobOk
<1> QED
  BY <1>1, <1>3, <1>4

LEMMA OpFail ==
  ASSUME OpInv, NEW j \in Jobs, Op!Fail(j)
  PROVE  OpInv'
  BY OpStops, OpJobMoves DEF Op!Fail

LEMMA OpHash ==
  ASSUME OpInv, NEW j \in Jobs, Op!Hash(j)
  PROVE  OpInv'
<1>1. CASE Op!ensureFunded(1, Op!requiredPrefund(jobs[j].op))
  <2> PICK h : h = Op!getUserOpHash(jobs[j].op)
    OBVIOUS
  <2> PICK q : q = [jobs[j] EXCEPT !.pc = "sign", !.hash = h]
    OBVIOUS
  <2>1. JobOk(jobs[j]) /\ jobs[j].pc = "built"
    BY DEF OpInv, Op!Hash
  <2>2. /\ q.pc = "sign" /\ q.sponsored = FALSE /\ q.op = jobs[j].op /\ q.hash = h
        /\ q = [pc |-> q.pc, sponsored |-> q.sponsored, dest |-> q.dest, op |-> q.op, hash |-> q.hash]
    BY <2>1 DEF JobOk
  <2>3. Covered(q.op)
    <3>1. bal >= 1 + Op!requiredPrefund(jobs[j].op)
      BY <1>1 DEF Op!ensureFunded
    <3>2. Op!requiredPrefund(jobs[j].op) = Op!MaxCost(jobs[j].op)
      BY DEF Op!requiredPrefund, Op!MaxCost
    <3> QED
      BY <3>1, <3>2, <2>2 DEF Covered
  <2>4. UNCHANGED Op!Local
    BY DEF Op!Hash
  <2>5. JobOk(q)'
    BY <2>1, <2>2, <2>3, <2>4 DEF JobOk, Covered, Op!Local
  <2>6. jobs' = [jobs EXCEPT ![j] = q]
    BY <1>1 DEF Op!Hash
  <2>7. DOMAIN jobs' = Jobs /\ jobs'[j] = q /\ \A i \in Jobs : i # j => jobs'[i] = jobs[i]
    BY <2>6 DEF OpInv
  <2> QED
    BY <2>2, <2>4, <2>5, <2>7, OpJobMoves DEF Op!Local
<1>2. CASE ~Op!ensureFunded(1, Op!requiredPrefund(jobs[j].op))
  BY <1>2, OpStops, OpJobMoves DEF Op!Hash, Op!Local
<1> QED
  BY <1>1, <1>2

LEMMA OpSponsor ==
  ASSUME OpInv, NEW j \in Jobs, NEW r \in Op!SponsorResult, Op!Sponsor(j, r)
  PROVE  OpInv'
<1> PICK op : op = Op!sponsorUserOp(jobs[j].op, r)
  OBVIOUS
<1> PICK h : h = Op!computeUserOpHash(op, Op!Chain)
  OBVIOUS
<1> PICK q : q = [jobs[j] EXCEPT !.pc = "sign", !.op = op, !.hash = h]
  OBVIOUS
<1>1. JobOk(jobs[j]) /\ jobs[j].pc = "sponsor"
  BY DEF OpInv, Op!Sponsor
<1>2. Unpacked(op) /\ op.nonce = jobs[j].op.nonce /\ op.paymaster = "paymaster"
  <2>1. Unpacked(jobs[j].op) /\ r.paymaster = "paymaster"
    BY <1>1 DEF JobOk, Op!SponsorResult
  <2> QED
    BY <2>1 DEF Op!sponsorUserOp, Unpacked
<1>3. /\ q.pc = "sign" /\ q.sponsored = TRUE /\ q.op = op /\ q.hash = h
      /\ q = [pc |-> q.pc, sponsored |-> q.sponsored, dest |-> q.dest, op |-> q.op, hash |-> q.hash]
  BY <1>1 DEF JobOk
<1>4. UNCHANGED Op!Local
  BY DEF Op!Sponsor
<1>5. JobOk(q)'
  BY <1>1, <1>2, <1>3, <1>4, PaymasterAssumption DEF JobOk, Op!Local
<1>6. jobs' = [jobs EXCEPT ![j] = q]
  BY DEF Op!Sponsor
<1>7. DOMAIN jobs' = Jobs /\ jobs'[j] = q /\ \A i \in Jobs : i # j => jobs'[i] = jobs[i]
  BY <1>6 DEF OpInv
<1> QED
  BY <1>3, <1>4, <1>5, <1>7, OpJobMoves DEF Op!Local

(* Every operation is submitted with a signature the account accepts. *)
LEMMA OpSubmit ==
  ASSUME OpInv, NEW j \in Jobs, jobs[j].pc \in {"sign", "read"},
         NEW blinded, blinded = Op!Blinded(jobs[j].hash), Op!Submit(j, blinded)
  PROVE  OpInv'
<1> PICK sig : sig = Op!packHybridSignature(jobs[j].hash, blinded)
  OBVIOUS
<1> PICK o : o = IF jobs[j].sponsored THEN Op!Bundled(Op!toRpc([jobs[j].op EXCEPT !.signature = sig]))
                 ELSE [jobs[j].op EXCEPT !.signature = sig]
  OBVIOUS
<1>1. JobOk(jobs[j])
  BY DEF OpInv
<1>2. sent' = sent \cup {o} /\ Op!Go(j, "sent") /\ UNCHANGED <<sigFile, bal, deposit, nonce, executed>>
  BY DEF Op!Submit
<1>3. sig = <<Op!Ecdsa(jobs[j].hash), Op!Blinded(jobs[j].hash)>>
  BY DEF Op!packHybridSignature
<1>4. SentOk(o)
  <2>1. CASE jobs[j].sponsored = TRUE
    <3>1. Unpacked(jobs[j].op) /\ jobs[j].op.paymaster # None
          /\ jobs[j].hash = Op!computeUserOpHash(jobs[j].op, Op!Chain)
          /\ jobs[j].op.nonce \in Nat /\ jobs[j].op.nonce <= nonce
      BY <1>1, <2>1 DEF JobOk
    <3>2. /\ Packed(o) /\ o.signature = sig /\ o.nonce = jobs[j].op.nonce
          /\ o.paymasterAndData # Op!Empty /\ Op!getUserOpHash(o) = jobs[j].hash
      BY <2>1, <3>1, BundledHash
    <3> QED
      BY <1>3, <3>1, <3>2 DEF SentOk, Op!ValidSignature
  <2>2. CASE jobs[j].sponsored = FALSE
    <3>1. SelfBundled(jobs[j].op) /\ Packed(jobs[j].op) /\ Covered(jobs[j].op)
          /\ jobs[j].hash = Op!getUserOpHash(jobs[j].op)
          /\ jobs[j].op.nonce \in Nat /\ jobs[j].op.nonce <= nonce
      BY <1>1, <2>2 DEF JobOk, SelfBundled
    <3>2. /\ Packed(o) /\ o.signature = sig /\ o.nonce = jobs[j].op.nonce
          /\ Op!getUserOpHash(o) = jobs[j].hash /\ Op!MaxCost(o) = Op!MaxCost(jobs[j].op)
          /\ SelfBundled(o)
      BY <2>2, <3>1, Signed
    <3> QED
      BY <1>3, <3>1, <3>2 DEF SentOk, Op!ValidSignature, Covered
  <2> QED
    BY <1>1, <2>1, <2>2 DEF JobOk
<1>5. \A op \in sent' : SentOk(op)'
  BY <1>2, <1>4 DEF OpInv, SentOk, Covered
<1>6. /\ DOMAIN jobs' = Jobs /\ jobs'[j].pc = "sent"
      /\ \A i \in Jobs : i # j => jobs'[i] = jobs[i]
      /\ JobOk(jobs[j])'
  BY <1>2, OpStops
<1>7. ASSUME NEW i \in Jobs, i # j PROVE JobOk(jobs[i])'
  BY <1>2, <1>6, <1>7 DEF OpInv, JobOk, Covered
<1>8. (\E i \in Jobs : jobs'[i].pc = "read") => sigFile'.sig = Op!Blinded(sigFile'.challenge)
  BY <1>2, <1>6 DEF OpInv
<1>9. Op!OpsFunded'
  BY <1>2 DEF OpInv, Op!OpsFunded
<1> QED
  BY <1>2, <1>5, <1>6, <1>7, <1>8, <1>9 DEF OpInv

LEMMA OpRunScript ==
  ASSUME OpInv, NEW j \in Jobs, Op!RunScript(j)
  PROVE  OpInv'
<1> PICK q : q = [jobs[j] EXCEPT !.pc = "read"]
  OBVIOUS
<1>1. JobOk(jobs[j]) /\ jobs[j].pc = "sign"
  BY DEF OpInv, Op!RunScript
<1>2. /\ q.pc = "read" /\ q.sponsored = jobs[j].sponsored /\ q.op = jobs[j].op /\ q.hash = jobs[j].hash
      /\ q = [pc |-> q.pc, sponsored |-> q.sponsored, dest |-> q.dest, op |-> q.op, hash |-> q.hash]
  BY <1>1 DEF JobOk
<1>3. UNCHANGED <<sent, bal, deposit, nonce, executed>>
  BY DEF Op!RunScript
<1>4. JobOk(q)'
  BY <1>1, <1>2, <1>3 DEF JobOk, Covered
<1>5. jobs' = [jobs EXCEPT ![j] = q]
  BY DEF Op!RunScript, Op!Go
<1>6. DOMAIN jobs' = Jobs /\ jobs'[j] = q /\ \A i \in Jobs : i # j => jobs'[i] = jobs[i]
  BY <1>5 DEF OpInv
<1>7. sigFile'.sig = Op!Blinded(sigFile'.challenge)
  BY DEF Op!RunScript
<1> QED
  BY <1>2, <1>3, <1>4, <1>6, <1>7, OpJobMoves

LEMMA OpReadScript ==
  ASSUME OpInv, NEW j \in Jobs, Op!ReadScript(j)
  PROVE  OpInv'
<1>1. CASE Op!ChallengeMatches(j) /\ Op!Submit(j, sigFile.sig)
  <2>1. jobs[j].pc = "read" /\ sigFile.sig = Op!Blinded(jobs[j].hash)
    BY <1>1 DEF OpInv, Op!ReadScript, Op!ChallengeMatches
  <2> QED
    BY <1>1, <2>1, OpSubmit
<1>2. CASE Op!Fail(j)
  BY <1>2, OpFail
<1> QED
  BY <1>1, <1>2 DEF Op!ReadScript

LEMMA SelfBundledCost ==
  ASSUME NEW op, SelfBundled(op)
  PROVE  Op!MaxCost(op) \in Nat /\ Op!MaxCost(op) >= 1
<1>1. /\ op.accountGasLimits[1] = 2 /\ op.accountGasLimits[2] = 1 /\ op.preVerificationGas = 1
      /\ op.gasFees[2] \in Nat /\ op.gasFees[2] >= 1
  BY DEF SelfBundled
<1>2. Op!MaxCost(op) = op.gasFees[2] * 4
  BY <1>1 DEF Op!MaxCost
<1> QED
  BY <1>1, <1>2

(* An operation is executed: the next nonce is no submitted operation's that  *)
(* was built before, and the money of a self-bundled one is still there.      *)
LEMMA OpHandle ==
  ASSUME OpInv, NEW op \in sent, Op!HandleOps(op)
  PROVE  OpInv'
<1> DEFINE missing == Op!Lacking(op)
           there == bal - missing >= 1
<1>1. SentOk(op) /\ bal \in Nat /\ deposit \in Nat /\ nonce \in Nat
  BY DEF OpInv
<1>2. /\ op.nonce = nonce /\ bal >= missing /\ nonce' = nonce + 1
      /\ bal' = bal - missing - (IF there THEN 1 ELSE 0)
      /\ executed' = executed \cup {[op |-> op, moved |-> there]}
      /\ UNCHANGED <<jobs, sigFile, sent>>
  BY DEF Op!HandleOps
<1>3. bal' \in Nat /\ deposit' \in Nat /\ Op!OpsFunded'
  <2>1. CASE op.paymasterAndData # Op!Empty
    <3>1. missing = 0 /\ deposit' = deposit
      BY <2>1 DEF Op!HandleOps, Op!Lacking
    <3>2. bal' \in Nat /\ deposit' \in Nat
      BY <1>1, <1>2, <3>1
    <3>3. Op!OpsFunded'
      BY <1>2, <2>1 DEF OpInv, Op!OpsFunded
    <3> QED
      BY <3>2, <3>3
  <2>2. CASE op.paymasterAndData = Op!Empty
    <3> PICK max : max = Op!MaxCost(op)
      OBVIOUS
    <3>1. max \in Nat /\ max >= 1
      BY <1>1, <2>2, SelfBundledCost DEF SentOk
    <3>2. bal >= 1 + max
      BY <1>1, <1>2, <2>2 DEF SentOk, Covered
    <3>3. missing = IF deposit >= max THEN 0 ELSE max - deposit
      BY <2>2 DEF Op!Lacking
    <3>4. PICK cost \in {1, max} : deposit' = deposit + missing - cost
      BY <2>2 DEF Op!HandleOps
    <3>5. missing \in Nat /\ missing <= max /\ deposit + missing >= max
      BY <1>1, <3>1, <3>3
    <3>6. bal' \in Nat /\ deposit' \in Nat /\ there
      <4> HIDE DEF missing
      <4> QED
        BY <1>1, <1>2, <3>1, <3>2, <3>4, <3>5
    <3>7. Op!OpsFunded'
      <4>1. executed' = executed \cup {[op |-> op, moved |-> TRUE]}
        BY <1>2, <3>6
      <4> QED
        BY <4>1 DEF OpInv, Op!OpsFunded
    <3> QED
      BY <3>6, <3>7
  <2> QED
    BY <2>1, <2>2
<1>4. \A o \in sent' : SentOk(o)'
  BY <1>1, <1>2 DEF OpInv, SentOk, Covered
<1>5. \A j \in Jobs : JobOk(jobs[j])'
  BY <1>1, <1>2 DEF OpInv, JobOk, Covered
<1>6. DOMAIN jobs' = Jobs /\ nonce' \in Nat
  BY <1>1, <1>2 DEF OpInv
<1>7. (\E i \in Jobs : jobs'[i].pc = "read") => sigFile'.sig = Op!Blinded(sigFile'.challenge)
  BY <1>2 DEF OpInv
<1> QED
  BY <1>3, <1>4, <1>5, <1>6, <1>7 DEF OpInv

LEMMA OpTopUp ==
  ASSUME OpInv, Op!TopUp
  PROVE  OpInv'
<1>1. bal \in Nat /\ bal' = bal + 1 /\ UNCHANGED <<jobs, sigFile, sent, deposit, nonce, executed>>
  BY DEF OpInv, Op!TopUp
<1>2. ASSUME NEW o, SelfBundled(o), Covered(o) PROVE Covered(o)'
  <2>1. Op!MaxCost(o) \in Nat
    BY <1>2, SelfBundledCost
  <2> QED
    BY <1>1, <1>2, <2>1 DEF Covered
<1>3. \A o \in sent' : SentOk(o)'
  <2> SUFFICES ASSUME NEW o \in sent PROVE SentOk(o)'
    BY <1>1
  <2>1. SentOk(o)
    BY DEF OpInv
  <2> QED
    BY <1>1, <1>2, <2>1 DEF SentOk
<1>4. \A j \in Jobs : JobOk(jobs[j])'
  <2> SUFFICES ASSUME NEW j \in Jobs PROVE JobOk(jobs[j])'
    OBVIOUS
  <2>1. JobOk(jobs[j])
    BY DEF OpInv
  <2> PICK o : o = jobs[j].op
    OBVIOUS
  <2>2. SelfBundled(o) /\ Covered(o) => Covered(o)'
    BY <1>2
  <2> QED
    BY <1>1, <2>1, <2>2 DEF JobOk
<1> QED
  BY <1>1, <1>3, <1>4 DEF OpInv, Op!OpsFunded

LEMMA OpNext == OpInv /\ [Op!Next]_opVars => OpInv'
<1> SUFFICES ASSUME OpInv, [Op!Next]_opVars PROVE OpInv'
  OBVIOUS
<1>1. ASSUME NEW j \in Jobs, Op!SignWithService(j) PROVE OpInv'
  BY <1>1, OpSubmit DEF Op!SignWithService
<1>2. ASSUME NEW j \in Jobs, Op!CallFails(j) PROVE OpInv'
  BY <1>2, OpFail DEF Op!CallFails
<1>3. CASE UNCHANGED opVars
  BY <1>3 DEF opVars, OpInv, JobOk, SentOk, Covered, Op!OpsFunded
<1> QED
  BY <1>1, <1>2, <1>3, OpFund, OpBuild, OpHash, OpGetNonce, OpSponsor, OpRunScript, OpReadScript,
     OpHandle, OpTopUp DEF Op!Next

(* The hash covers every field but the signature. *)
LEMMA HashCoversAll ==
  ASSUME NEW a, NEW b, Packed(a), Packed(b), Op!getUserOpHash(a) = Op!getUserOpHash(b)
  PROVE  Op!WithoutSignature(a) = Op!WithoutSignature(b)
<1> DEFINE fields(op) == <<op.sender, op.nonce, Op!Keccak(op.initCode), Op!Keccak(op.callData),
                          op.accountGasLimits, op.preVerificationGas, op.gasFees,
                          Op!Keccak(op.paymasterAndData)>>
<1>1. \A x, y : Op!Keccak(x) = Op!Keccak(y) => x = y
  BY DEF Op!Keccak
<1>2. Op!Keccak(fields(a)) = Op!Keccak(fields(b))
  <2> PICK x : x = Op!Keccak(fields(a))
    OBVIOUS
  <2> PICK y : y = Op!Keccak(fields(b))
    OBVIOUS
  <2>1. /\ Op!getUserOpHash(a) = Op!Keccak(<<x, "EntryPoint", Op!Chain>>)
        /\ Op!getUserOpHash(b) = Op!Keccak(<<y, "EntryPoint", Op!Chain>>)
    BY DEF Op!getUserOpHash
  <2>2. <<x, "EntryPoint", Op!Chain>> = <<y, "EntryPoint", Op!Chain>>
    BY <1>1, <2>1
  <2> QED
    BY <2>2
<1>3. fields(a) = fields(b)
  <2> HIDE DEF fields
  <2> QED
    BY <1>1, <1>2
<1>4. /\ a.sender = b.sender /\ a.nonce = b.nonce /\ a.initCode = b.initCode /\ a.callData = b.callData
      /\ a.accountGasLimits = b.accountGasLimits /\ a.preVerificationGas = b.preVerificationGas
      /\ a.gasFees = b.gasFees /\ a.paymasterAndData = b.paymasterAndData
  BY <1>1, <1>3
<1> QED
  BY <1>4 DEF Packed, Op!WithoutSignature

LEMMA FieldPacked ==
  ASSUME NEW o1, Packed(o1), NEW f, NEW v, NEW o, o = [o1 EXCEPT ![f] = v]
  PROVE  Packed(o)
<1>1. DOMAIN o1 = {"sender", "nonce", "initCode", "callData", "accountGasLimits", "preVerificationGas",
                   "gasFees", "paymasterAndData", "signature"}
  BY DEF Packed
<1>2. DOMAIN o = DOMAIN o1 /\ o = [g \in DOMAIN o |-> o[g]]
  OBVIOUS
<1> QED
  BY <1>1, <1>2 DEF Packed

LEMMA MixedPacked ==
  ASSUME NEW o1, NEW o2, Packed(o1), NEW op \in Op!Mixed(o1, o2)
  PROVE  Packed(op)
<1>1. CASE \E f \in DOMAIN o1 \ {"signature"} : op = [o1 EXCEPT ![f] = o2[f]]
  <2> PICK f \in DOMAIN o1 : op = [o1 EXCEPT ![f] = o2[f]]
    BY <1>1
  <2> QED
    BY FieldPacked
<1>2. CASE \E d \in Dests : op = [o1 EXCEPT !.callData = Op!Execute(d)]
  <2> PICK d \in Dests : op = [o1 EXCEPT !.callData = Op!Execute(d)]
    BY <1>2
  <2> QED
    BY FieldPacked
<1>3. CASE \E d \in Dests : op = [o1 EXCEPT !.callData = Op!Execute(d), !.paymasterAndData = Op!Empty]
  <2> PICK d \in Dests : op = [o1 EXCEPT !.callData = Op!Execute(d), !.paymasterAndData = Op!Empty]
    BY <1>3
  <2> PICK o : o = [o1 EXCEPT !.callData = Op!Execute(d)]
    OBVIOUS
  <2>1. Packed(o)
    BY FieldPacked
  <2>2. op = [o EXCEPT !.paymasterAndData = Op!Empty]
    OBVIOUS
  <2> QED
    BY <2>1, <2>2, FieldPacked
<1> QED
  BY <1>1, <1>2, <1>3, Zenon DEF Op!Mixed

LEMMA OpOwners == OpInv => Op!OwnersSpendsOnly
<1> SUFFICES ASSUME OpInv PROVE Op!OwnersSpendsOnly
  OBVIOUS
<1>1. \A op \in sent : Packed(op) /\ Op!ValidSignature(op)
  BY DEF OpInv, SentOk
<1>2. ASSUME NEW o1 \in sent, NEW o2 \in sent, NEW by \in sent, NEW op \in Op!Mixed(o1, o2),
             Op!ValidSignature(Op!Resigned(op, by))
      PROVE  \E o \in sent : Op!WithoutSignature(o) = Op!WithoutSignature(op)
  <2>1. Packed(op)
    BY <1>1, MixedPacked
  <2> PICK h : h = Op!getUserOpHash(op)
    OBVIOUS
  <2> PICK sig : sig = <<Op!Ecdsa(h), by.signature[2]>>
    OBVIOUS
  <2> PICK o : o = [op EXCEPT !.signature = sig]
    OBVIOUS
  <2>2. o.signature = sig /\ Op!getUserOpHash(o) = h
    BY <2>1, Signed
  <2>3. Op!ValidSignature(o)
    BY <1>2 DEF Op!Resigned
  <2>4. by.signature[2] = Op!Blinded(h)
    BY <2>2, <2>3 DEF Op!ValidSignature
  <2>5. by.signature[2] = Op!Blinded(Op!getUserOpHash(by))
    BY <1>1 DEF Op!ValidSignature
  <2>6. Op!getUserOpHash(by) = h
    <3>1. \A x, y : Op!Blinded(x) = Op!Blinded(y) => x = y
      BY DEF Op!Blinded
    <3> QED
      BY <2>4, <2>5, <3>1
  <2> QED
    BY <1>1, <2>1, <2>6, HashCoversAll
<1> QED
  BY <1>1, <1>2 DEF Op!OwnersSpendsOnly
-----------------------------------------------------------------------------
(* The commitment scheme *)

(* Terms name what they are made of. *)
LEMMA Terms ==
  /\ \A x, y : Client!Keccak(x) = Client!Keccak(y) => x = y
  /\ \A x, y : Client!Sha256(x) = Client!Sha256(y) => x = y
  /\ \A x : Client!Is32(Client!Keccak(x)) /\ Client!Is32(Client!Sha256(x))
  /\ \A x : Client!EncapsKey(x) # <<"short">> /\ Client!Is32(<<"sk", x>>)
  BY DEF Client!Keccak, Client!Sha256, Client!Is32, Client!EncapsKey

MlDsa == Client!ML_DSA_44_COMMIT_V0

LEMMA MlDsaProfile ==
  /\ MlDsa.dsa = TRUE /\ MlDsa.keyDomain = "ml-dsa-44/key" /\ MlDsa.pkBytes = 1 /\ MlDsa.sigBytes = 1
  /\ MlDsa.domains = Client!ML_DSA_44_DOMAINS
  /\ MlDsa \in Client!PROFILES
  BY DEF MlDsa, Client!ML_DSA_44_COMMIT_V0, Client!ML_DSA_44_KEY_DOMAIN, Client!PROFILES

(* Every profile commits to key and opener under domains of its own. *)
LEMMA Commits ==
  ASSUME NEW p \in Client!PROFILES, NEW key, NEW ss, NEW opener
  PROVE  /\ Client!deriveOpener(ss, p.domains) = Client!Sha256(<<p.domains.open, ss>>)
         /\ Client!deriveCommitment(key, opener, p.domains) = Client!Keccak(<<p.domains.commit, key, opener>>)
<1>1. p.domains # None
  BY ProfilesAssumption
<1>2. CASE p.domains = Client!SPHINCS_C13_DOMAINS
  <2>1. p.domains.open = Client!SPHINCS_C13.openDomain /\ p.domains.commit = Client!SPHINCS_C13.commitDomain
    BY <1>2 DEF Client!SPHINCS_C13_DOMAINS, Client!SPHINCS_C13
  <2> QED
    BY <1>1, <1>2, <2>1 DEF Client!deriveOpener, Client!deriveCommitment, Client!sphincsC13Opener,
       Client!sphincsC13Commitment
<1>3. CASE p.domains # Client!SPHINCS_C13_DOMAINS
  BY <1>1, <1>3 DEF Client!deriveOpener, Client!deriveCommitment
<1> QED
  BY <1>2, <1>3

MlDsaKey(r) == Client!Keccak(<<"ml-dsa-44/key", <<"pk", r>>>>)

LEMMA MlDsaKeys ==
  ASSUME NEW r
  PROVE  /\ Client!spendKeyFromMlDsaPk(<<"pk", r>>, MlDsa) = MlDsaKey(r)
         /\ Client!mlDsaRecipient(r, MlDsa).publicKey = <<"pk", r>>
         /\ Client!mlDsaRecipient(r, MlDsa).spendKey = MlDsaKey(r)
<1>1. Client!spendKeyFromMlDsaPk(<<"pk", r>>, MlDsa) = MlDsaKey(r)
  BY MlDsaProfile, ProfilesAssumption DEF Client!spendKeyFromMlDsaPk, MlDsaKey, Client!ML_DSA_44_KEY_DOMAIN
<1>2. Client!mlDsaRecipient(r, MlDsa) =
        [publicKey |-> <<"pk", r>>, spendKey |-> Client!spendKeyFromMlDsaPk(<<"pk", r>>, MlDsa)]
  BY MlDsaProfile DEF Client!mlDsaRecipient
<1> QED
  BY <1>1, <1>2

LEMMA MetaOf ==
  ASSUME NEW r, NEW key, Client!Is32(key)
  PROVE  /\ Client!MetaAddress(r, key) = [spendKey |-> key, kemEk |-> Client!EncapsKey(r)]
         /\ Client!MetaFits(Client!MetaAddress(r, key))
<1> PICK ek : ek = Client!EncapsKey(r)
  OBVIOUS
<1> PICK ma : ma = [spendKey |-> key, kemEk |-> ek]
  OBVIOUS
<1>1. Client!encodeCommitMetaAddress(key, ek) = <<2, key, ek>>
  BY Terms DEF Client!encodeCommitMetaAddress, Client!COMMIT_META_ADDRESS_VERSION
<1>2. Client!decodeCommitMetaAddress(<<2, key, ek>>) = ma
  BY DEF Client!decodeCommitMetaAddress, Client!COMMIT_META_ADDRESS_VERSION
<1>3. Client!MetaFits(ma)
  BY Terms DEF Client!MetaFits
<1> QED
  BY <1>1, <1>2, <1>3 DEF Client!MetaAddress

(* The hash to sign is that of the placeholder transaction: it covers neither *)
(* signature.                                                                 *)
LEMMA HashElides ==
  ASSUME NEW sponsor, NEW chainId, NEW frames, NEW s1, NEW s2
  PROVE  /\ Client!frameTxSigHash(Client!SponsoredTx(sponsor, chainId, 0, frames, s1, s2))
              = Client!frameTxSigHash(Client!UnsignedTx(sponsor, chainId, 0, frames))
         /\ Client!SponsoredTx(sponsor, chainId, 0, frames, s1, s2).signatures[2].signature = s2
         /\ Client!SponsoredTx(sponsor, chainId, 0, frames, s1, s2).chainId = chainId
<1> DEFINE secp(x) == [scheme |-> Client!SECP256K1, signer |-> sponsor, msg |-> <<>>, signature |-> x]
           arb(x) == [scheme |-> Client!ARBITRARY, signer |-> Client!null, msg |-> <<>>, signature |-> x]
<1>1. PICK a : a = Client!SponsoredTx(sponsor, chainId, 0, frames, s1, s2)
  OBVIOUS
<1>2. PICK b : b = Client!UnsignedTx(sponsor, chainId, 0, frames)
  OBVIOUS
<1>3. PICK fs : fs = <<Client!verifyFrame(sponsor)>> \o frames
  OBVIOUS
<1>4. PICK sa : sa = <<secp(s1), arb(s2)>>
  OBVIOUS
<1>5. PICK sb : sb = <<secp(<<>>), arb(<<>>)>>
  OBVIOUS
<1>6. /\ a = [chainId |-> chainId, nonce |-> 0, sender |-> sponsor, frames |-> fs,
              signatures |-> sa, maxPriorityFeePerGas |-> 1, maxFeePerGas |-> 2]
      /\ b = [chainId |-> chainId, nonce |-> 0, sender |-> sponsor, frames |-> fs,
              signatures |-> sb, maxPriorityFeePerGas |-> 1, maxFeePerGas |-> 2]
  BY <1>1, <1>2, <1>3, <1>4, <1>5 DEF Client!SponsoredTx, Client!UnsignedTx, Client!secp256k1Signature,
     Client!arbitrarySignature, Client!Empty
<1>7. /\ a.chainId = chainId /\ b.chainId = chainId /\ a.nonce = b.nonce /\ a.sender = b.sender
      /\ a.frames = b.frames /\ a.maxPriorityFeePerGas = b.maxPriorityFeePerGas
      /\ a.maxFeePerGas = b.maxFeePerGas /\ a.signatures = sa /\ b.signatures = sb
  BY <1>6
<1>8. ASSUME NEW x, NEW y
      PROVE  Client!Elided(<<secp(x), arb(y)>>) = <<secp(<<>>), arb(<<>>)>>
  BY DEF Client!Elided, Client!Empty
<1>9. Client!Elided(a.signatures) = Client!Elided(b.signatures)
  <2> HIDE DEF secp, arb
  <2> QED
    BY <1>4, <1>5, <1>7, <1>8
<1>10. ASSUME NEW sigs PROVE Client!bodyTree(a, sigs) = Client!bodyTree(b, sigs)
  BY <1>7 DEF Client!bodyTree
<1>11. a.signatures[2].signature = s2
  BY <1>4, <1>7
<1> QED
  BY <1>1, <1>2, <1>7, <1>9, <1>10, <1>11 DEF Client!frameTxSigHash

(* What the check of an announcement answers when it answers *)
LEMMA CheckOpens ==
  ASSUME NEW ma, NEW r, NEW ann, NEW binding, NEW p \in Client!PROFILES, binding.profile = p,
         Client!MetaFits(ma), Client!checkWithProfile(ma, r, ann, binding) # None,
         NEW ss, ss = Client!Decapsulate(ann.ephemeralPubKey, r),
         NEW opener, opener = Client!Sha256(<<p.domains.open, ss>>),
         NEW commitment, commitment = Client!Keccak(<<p.domains.commit, ma.spendKey, opener>>)
  PROVE  /\ Client!checkWithProfile(ma, r, ann, binding) = [opener |-> opener, commitment |-> commitment]
         /\ ss # Throws /\ Client!computeViewTag(ss) = ann.viewTag
         /\ Client!accountAddress(commitment, binding.deployment) = ann.stealthAddress
<1>1. p.domains # None
  BY ProfilesAssumption
<1>2. Client!checkWithProfile(ma, r, ann, binding)
        = Client!checkCommitAnnouncement(ma, r, ann, binding.deployment, p.domains)
  BY DEF Client!checkWithProfile
<1>3. Client!deriveOpener(ss, p.domains) = opener
  BY Commits
<1>4. Client!deriveCommitment(ma.spendKey, opener, p.domains) = commitment
  BY Commits
<1> QED
  BY <1>1, <1>2, <1>3, <1>4 DEF Client!checkCommitAnnouncement

(* A spend carries its owner's key, the opening of the account's commitment   *)
(* and a signature of its own hash.                                           *)
Authorized(b) ==
  /\ b.owner \in Recipients /\ b.to \in Recipients
  /\ \E opener :
       /\ b.commitment = Client!Keccak(<<"ml-dsa-44/commit", MlDsaKey(b.owner), opener>>)
       /\ b.tx.signatures[2].signature =
            <<<<"pk", b.owner>>, opener, Client!Signature(b.owner, Client!frameTxSigHash(b.tx))>>

LEMMA SpendAuthorized ==
  ASSUME NEW r \in Recipients, NEW binding \in Client!Bindings, NEW i \in DOMAIN log, NEW to \in Recipients,
         Client!Spend(r, binding, i, to), \A b \in broadcast : Authorized(b)
  PROVE  \A b \in broadcast' : Authorized(b)
<1>1. PICK ma : ma = Client!MlDsaMeta(r)
  OBVIOUS
<1>2. PICK found : found = Client!checkWithProfile(ma, r, log[i], binding)
  OBVIOUS
<1>3. ma.spendKey = MlDsaKey(r) /\ Client!MetaFits(ma)
  <2>1. Client!Is32(MlDsaKey(r))
    BY Terms DEF MlDsaKey
  <2>2. ma = Client!MetaAddress(r, MlDsaKey(r))
    BY <1>1, MlDsaKeys DEF Client!MlDsaMeta, MlDsa
  <2> QED
    BY <2>1, <2>2, MetaOf
<1>4. binding.profile = MlDsa /\ found # None
  BY <1>1, <1>2 DEF Client!Spend, Client!scanCommit, MlDsa
<1>5. PICK opener : found.opener = opener
        /\ found.commitment = Client!Keccak(<<"ml-dsa-44/commit", MlDsaKey(r), opener>>)
  <2>1. PICK ss : ss = Client!Decapsulate(log[i].ephemeralPubKey, r)
    OBVIOUS
  <2>2. PICK o : o = Client!Sha256(<<MlDsa.domains.open, ss>>)
    OBVIOUS
  <2>3. PICK c : c = Client!Keccak(<<MlDsa.domains.commit, ma.spendKey, o>>)
    OBVIOUS
  <2>4. found = [opener |-> o, commitment |-> c]
    BY <1>2, <1>3, <1>4, <2>1, <2>2, <2>3, CheckOpens, MlDsaProfile
  <2>5. MlDsa.domains.commit = "ml-dsa-44/commit"
    BY MlDsaProfile DEF Client!ML_DSA_44_DOMAINS
  <2> QED
    BY <1>3, <2>3, <2>4, <2>5
<1>6. PICK account, sponsor, frames, h, sig, auth, tx :
        /\ sponsor = <<"eoa", r>> /\ frames = Client!ExecuteFrame(account, to)
        /\ h = Client!frameTxSigHash(Client!UnsignedTx(sponsor, binding.chainId, 0, frames))
        /\ auth = Client!buildAuthorization(r, Client!mlDsaRecipient(r, MlDsa).publicKey, opener, h, MlDsa)
        /\ sig = <<"ecdsa", r, h>>
        /\ tx = Client!SponsoredTx(sponsor, binding.chainId, 0, frames, sig, auth)
        /\ broadcast' = broadcast \cup {[owner |-> r, commitment |-> found.commitment, account |-> account,
                                         to |-> to, tx |-> tx]}
  <2>1. Client!bindingForChain(binding, binding.chainId) = binding
    BY DEF Client!bindingForChain
  <2> QED
    BY <1>1, <1>2, <1>5, <2>1 DEF Client!Spend, MlDsa
<1>7. auth = <<<<"pk", r>>, opener, Client!Signature(r, h)>>
  BY <1>6, MlDsaKeys, MlDsaProfile DEF Client!buildAuthorization
<1>8. Client!frameTxSigHash(tx) = h /\ tx.signatures[2].signature = auth
  BY <1>6, HashElides
<1>9. PICK b : b = [owner |-> r, commitment |-> found.commitment, account |-> account, to |-> to, tx |-> tx]
  OBVIOUS
<1>10. b.owner = r /\ b.commitment = found.commitment /\ b.to = to /\ b.tx = tx
  BY <1>9
<1>11. Authorized(b)
  BY <1>5, <1>7, <1>8, <1>10 DEF Authorized
<1> QED
  BY <1>6, <1>9, <1>11

(* What an account accepts: the opening of its commitment and a signature of  *)
(* the hash by the key committed to                                           *)
LEMMA AcceptsAuth ==
  ASSUME NEW b, NEW tx, NEW z, NEW opener, NEW sig
  PROVE  Client!Accepts(b, tx, <<<<"pk", z>>, opener, sig>>) <=>
           /\ b.commitment = Client!Keccak(<<"ml-dsa-44/commit", MlDsaKey(z), opener>>)
           /\ Client!Verifies(sig, Client!frameTxSigHash(tx), <<"pk", z>>)
<1>1. PICK auth : auth = <<<<"pk", z>>, opener, sig>>
  OBVIOUS
<1>2. Len(auth) = 3 /\ auth[1] = <<"pk", z>> /\ auth[2] = opener /\ auth[3] = sig
  BY <1>1
<1>3. Client!payloadBytes(MlDsa) = 3
  BY MlDsaProfile, ProfilesAssumption DEF Client!payloadBytes
<1>4. Client!Parses(auth, MlDsa)
  BY <1>2, <1>3, ProfilesAssumption DEF Client!Parses
<1>5. PICK parts : parts = [pk |-> <<"pk", z>>, opener |-> opener, sig |-> sig]
  OBVIOUS
<1>6. Client!parseAuthorization(auth, MlDsa) = parts
  BY <1>2, <1>4, <1>5 DEF Client!parseAuthorization
<1>7. parts.pk = <<"pk", z>> /\ parts.opener = opener /\ parts.sig = sig
  BY <1>5
<1>8. Client!deriveCommitment(MlDsaKey(z), opener, MlDsa.domains)
        = Client!Keccak(<<"ml-dsa-44/commit", MlDsaKey(z), opener>>)
  <2>1. MlDsa.domains.commit = "ml-dsa-44/commit"
    BY MlDsaProfile DEF Client!ML_DSA_44_DOMAINS
  <2>2. Client!deriveCommitment(MlDsaKey(z), opener, MlDsa.domains)
          = Client!Keccak(<<MlDsa.domains.commit, MlDsaKey(z), opener>>)
    BY Commits, MlDsaProfile
  <2> QED
    BY <2>1, <2>2
<1>9. Client!Accepts(b, tx, auth) <=>
        /\ Client!deriveCommitment(Client!spendKeyFromMlDsaPk(parts.pk, MlDsa), parts.opener, MlDsa.domains)
             = b.commitment
        /\ Client!Verifies(parts.sig, Client!frameTxSigHash(tx), parts.pk)
  BY <1>4, <1>6, MlDsaProfile DEF Client!Accepts, Client!verifyAuthorization, MlDsa
<1> QED
  BY <1>1, <1>7, <1>8, <1>9, MlDsaKeys

(* What an account accepts is what its owner signed. *)
LEMMA ClientOwners == (\A b \in broadcast : Authorized(b)) => Client!OwnersSpendsOnly
<1> SUFFICES ASSUME \A b \in broadcast : Authorized(b) PROVE Client!OwnersSpendsOnly
  OBVIOUS
<1>1. ASSUME NEW b \in broadcast PROVE Client!Accepts(b, b.tx, b.tx.signatures[2].signature)
  <2>1. PICK opener :
          /\ b.commitment = Client!Keccak(<<"ml-dsa-44/commit", MlDsaKey(b.owner), opener>>)
          /\ b.tx.signatures[2].signature =
               <<<<"pk", b.owner>>, opener, Client!Signature(b.owner, Client!frameTxSigHash(b.tx))>>
    BY <1>1 DEF Authorized
  <2>2. PICK sig, h, z : /\ sig = Client!Signature(b.owner, Client!frameTxSigHash(b.tx))
                         /\ h = Client!frameTxSigHash(b.tx) /\ z = b.owner
    OBVIOUS
  <2>3. Client!Verifies(sig, h, <<"pk", z>>)
    BY <2>2 DEF Client!Verifies, Client!Signature
  <2> QED
    BY <2>1, <2>2, <2>3, AcceptsAuth
<1>2. ASSUME NEW b \in broadcast, NEW z \in Recipients \ {b.owner}, NEW k \in Recipients, NEW tx,
             NEW sig \in Client!Usable(z, Client!frameTxSigHash(tx)),
             Client!Accepts(b, tx, <<<<"pk", k>>, b.tx.signatures[2].signature[2], sig>>)
      PROVE  \E own \in broadcast : /\ own.owner = b.owner
                                    /\ Client!frameTxSigHash(own.tx) = Client!frameTxSigHash(tx)
  <2>1. PICK opener :
          /\ b.commitment = Client!Keccak(<<"ml-dsa-44/commit", MlDsaKey(b.owner), opener>>)
          /\ b.tx.signatures[2].signature =
               <<<<"pk", b.owner>>, opener, Client!Signature(b.owner, Client!frameTxSigHash(b.tx))>>
    BY DEF Authorized
  <2>2. b.tx.signatures[2].signature[2] = opener
    BY <2>1
  <2>3. PICK h : h = Client!frameTxSigHash(tx)
    OBVIOUS
  <2>4. /\ b.commitment = Client!Keccak(<<"ml-dsa-44/commit", MlDsaKey(k), opener>>)
        /\ Client!Verifies(sig, h, <<"pk", k>>)
    BY <1>2, <2>2, <2>3, AcceptsAuth
  <2>5. k = b.owner
    <3>1. MlDsaKey(k) = MlDsaKey(b.owner)
      BY <2>1, <2>4, Terms
    <3> QED
      BY <3>1, Terms DEF MlDsaKey
  <2>6. sig[2] = b.owner /\ sig[3] = h
    BY <2>4, <2>5 DEF Client!Verifies
  <2>7. sig # Client!Signature(z, h)
    BY <2>6 DEF Client!Signature
  <2>8. PICK own \in broadcast : sig = own.tx.signatures[2].signature[3]
    BY <2>3, <2>7 DEF Client!Usable
  <2>9. PICK o : own.tx.signatures[2].signature =
                   <<<<"pk", own.owner>>, o, Client!Signature(own.owner, Client!frameTxSigHash(own.tx))>>
    BY <2>8 DEF Authorized
  <2>10. sig = Client!Signature(own.owner, Client!frameTxSigHash(own.tx))
    BY <2>8, <2>9
  <2>11. own.owner = b.owner /\ Client!frameTxSigHash(own.tx) = h
    BY <2>6, <2>10 DEF Client!Signature
  <2> QED
    BY <2>3, <2>8, <2>11
<1>3. ASSUME NEW k PROVE Client!mlDsaRecipient(k, Client!ML_DSA_44_COMMIT_V0).publicKey = <<"pk", k>>
  BY MlDsaKeys DEF MlDsa
<1> QED
  BY <1>1, <1>2, <1>3 DEF Client!OwnersSpendsOnly

LEMMA ClientNext ==
  (\A b \in broadcast : Authorized(b)) /\ [Client!Next]_clientVars => (\A b \in broadcast : Authorized(b))'
<1> SUFFICES ASSUME \A b \in broadcast : Authorized(b), [Client!Next]_clientVars
             PROVE  \A b \in broadcast' : Authorized(b)
  BY DEF Authorized
<1>1. CASE broadcast' = broadcast
  BY <1>1
<1>2. CASE broadcast' # broadcast
  <2>1. \E r \in Recipients, binding \in Client!Bindings, i \in DOMAIN log, to \in Recipients :
          Client!Spend(r, binding, i, to)
    BY <1>2 DEF Client!Next, Client!Pay, Client!Forge, clientVars
  <2> QED
    BY <2>1, SpendAuthorized
<1> QED
  BY <1>1, <1>2
-----------------------------------------------------------------------------
(* What is announced: the scan *)

LEMMA KeysOf ==
  ASSUME NEW r
  PROVE  Client!SpendKeys(r) = {MlDsaKey(r), Client!Keccak(<<"preimage/key", <<"sk", r>>>>),
                                <<"||", <<"seed", r>>, <<"root", r>>>>}
<1>1. Client!spendKeyFromSecret(<<"sk", r>>) = Client!Keccak(<<"preimage/key", <<"sk", r>>>>)
  BY Terms DEF Client!spendKeyFromSecret, Client!PREIMAGE_KEY_DOMAIN
<1>2. Client!sphincsC13Key(<<<<"seed", r>>, 0>>, <<<<"root", r>>, 0>>) = <<"||", <<"seed", r>>, <<"root", r>>>>
  BY DEF Client!sphincsC13Key
<1> QED
  BY <1>1, <1>2, MlDsaKeys DEF Client!SpendKeys, MlDsa

(* A spend key is of the right length and names its recipient. *)
LEMMA KeysFit ==
  ASSUME NEW r, NEW key \in Client!SpendKeys(r)
  PROVE  Client!Is32(key)
<1>1. CASE key = <<"||", <<"seed", r>>, <<"root", r>>>>
  BY <1>1 DEF Client!Is32
<1>2. Client!Is32(MlDsaKey(r)) /\ Client!Is32(Client!Keccak(<<"preimage/key", <<"sk", r>>>>))
  BY Terms DEF MlDsaKey
<1> QED
  BY <1>1, <1>2, KeysOf

LEMMA KeysOwn ==
  ASSUME NEW r1, NEW r2, NEW key, key \in Client!SpendKeys(r1), key \in Client!SpendKeys(r2)
  PROVE  r1 = r2
  BY KeysOf DEF MlDsaKey, Client!Keccak

LEMMA ProfileNames ==
  ASSUME NEW p \in Client!PROFILES, NEW q \in Client!PROFILES, p.name = q.name
  PROVE  p = q
<1>1. /\ Client!SPHINCS_C13_COMMIT_V0.name = "sphincs-c13-commit/v0"
      /\ Client!PREIMAGE_V0.name = "preimage/v0"
      /\ Client!ML_DSA_44_COMMIT_V0.name = "ml-dsa-44-commit/v0"
  BY DEF Client!SPHINCS_C13_COMMIT_V0, Client!PREIMAGE_V0, Client!ML_DSA_44_COMMIT_V0
<1> QED
  BY <1>1 DEF Client!PROFILES

(* A configured binding is well formed. *)
LEMMA BindingOf ==
  ASSUME NEW p \in Client!PROFILES, NEW chain \in Chains
  PROVE  Client!selectProfile(p.name, chain, Client!DeploymentOf(p, chain))
           = [profile |-> p, chainId |-> chain, deployment |-> Client!DeploymentOf(p, chain)]
<1>1. chain > 0 /\ ~(chain <= 0)
  BY ChainsAssumption
<1>2. \A q \in Client!PROFILES : q.name = p.name => q = p
  BY ProfileNames
<1>3. (CHOOSE q \in Client!PROFILES : q.name = p.name) = p
  BY <1>2
<1>4. ~\E f \in {"factory", "verifier", "frameCtx", "creationCode", "salt"} :
         Client!DeploymentOf(p, chain)[f] = "malformed"
  BY DeploymentsAssumption
<1> QED
  BY <1>1, <1>3, <1>4 DEF Client!selectProfile

BindingFor(b, p, chain) ==
  b = [profile |-> p, chainId |-> chain, deployment |-> Client!DeploymentOf(p, chain)]

LEMMA BindingsOf ==
  ASSUME NEW binding \in Client!Bindings
  PROVE  \E p \in Client!PROFILES, chain \in Chains : BindingFor(binding, p, chain)
<1>1. PICK p \in Client!PROFILES, chain \in Chains :
        binding = Client!selectProfile(p.name, chain, Client!DeploymentOf(p, chain))
  BY DEF Client!Bindings
<1> QED
  BY <1>1, BindingOf DEF BindingFor

(* An address names the commitment, the chain and the profile. *)
LEMMA AddressNames ==
  ASSUME NEW p1 \in Client!PROFILES, NEW p2 \in Client!PROFILES, NEW ch1, NEW ch2, NEW c1, NEW c2,
         Client!accountAddress(c1, Client!DeploymentOf(p1, ch1))
           = Client!accountAddress(c2, Client!DeploymentOf(p2, ch2))
  PROVE  c1 = c2 /\ ch1 = ch2 /\ p1 = p2
<1>1. ASSUME NEW p, NEW ch, NEW c
      PROVE  Client!accountAddress(c, Client!DeploymentOf(p, ch))
               = <<"create2", <<"factory", ch>>, 0,
                   Client!Keccak(<<<<"account", 0>>, c, <<"verifier", p.name>>, <<"ctx", ch>>>>)>>
  <2>1. PICK d : d = Client!DeploymentOf(p, ch)
    OBVIOUS
  <2>2. /\ d.factory = <<"factory", ch>> /\ d.creationCode = <<"account", 0>>
        /\ d.verifier = <<"verifier", p.name>> /\ d.frameCtx = <<"ctx", ch>> /\ d.salt = None
    BY <2>1 DEF Client!DeploymentOf
  <2> QED
    BY <2>1, <2>2 DEF Client!accountAddress
<1>2. PICK args1, args2 :
        /\ args1 = <<<<"account", 0>>, c1, <<"verifier", p1.name>>, <<"ctx", ch1>>>>
        /\ args2 = <<<<"account", 0>>, c2, <<"verifier", p2.name>>, <<"ctx", ch2>>>>
  OBVIOUS
<1>3. <<"create2", <<"factory", ch1>>, 0, Client!Keccak(args1)>>
        = <<"create2", <<"factory", ch2>>, 0, Client!Keccak(args2)>>
  BY <1>1, <1>2
<1>4. <<"factory", ch1>> = <<"factory", ch2>> /\ Client!Keccak(args1) = Client!Keccak(args2)
  BY <1>3
<1>5. ch1 = ch2 /\ args1 = args2
  BY <1>4, Terms
<1>6. c1 = c2 /\ <<"verifier", p1.name>> = <<"verifier", p2.name>>
  BY <1>2, <1>5
<1>7. p1.name = p2.name
  BY <1>6
<1> QED
  BY <1>5, <1>6, <1>7, ProfileNames

(* The commitment of a payment, and the announcement of it *)
Secret(r, coin) == <<"ss", Client!EncapsKey(r), coin>>
CommitOf(p, key, ss) == Client!Keccak(<<p.domains.commit, key, Client!Sha256(<<p.domains.open, ss>>)>>)
AnnOf(p, chain, r, key, coin) ==
  [stealthAddress |-> Client!accountAddress(CommitOf(p, key, Secret(r, coin)), Client!DeploymentOf(p, chain)),
   ephemeralPubKey |-> <<"ct", Client!EncapsKey(r), coin>>,
   viewTag |-> Client!computeViewTag(Secret(r, coin))]

LEMMA SendOf ==
  ASSUME NEW p \in Client!PROFILES, NEW chain, NEW binding, BindingFor(binding, p, chain),
         NEW r, NEW key \in Client!SpendKeys(r), NEW coin
  PROVE  Client!sendWithProfile(Client!MetaAddress(r, key), binding, coin) = AnnOf(p, chain, r, key, coin)
<1>1. PICK ma : ma = Client!MetaAddress(r, key)
  OBVIOUS
<1>2. ma.spendKey = key /\ ma.kemEk = Client!EncapsKey(r) /\ Client!MetaFits(ma)
  BY <1>1, KeysFit, MetaOf
<1>3. PICK d : d = Client!DeploymentOf(p, chain)
  OBVIOUS
<1>4. binding.profile = p /\ binding.deployment = d
  BY <1>3 DEF BindingFor
<1>5. p.domains # None
  BY ProfilesAssumption
<1>6. PICK e : e = Client!Encapsulate(Client!EncapsKey(r), coin)
  OBVIOUS
<1>7. e.cipherText = <<"ct", Client!EncapsKey(r), coin>> /\ e.sharedSecret = Secret(r, coin)
  BY <1>6 DEF Client!Encapsulate, Secret
<1>8. Client!deriveCommitment(key, Client!deriveOpener(Secret(r, coin), p.domains), p.domains)
        = CommitOf(p, key, Secret(r, coin))
  BY Commits DEF CommitOf
<1>9. Client!sendWithProfile(ma, binding, coin) = Client!sendCommit(ma, d, p.domains, coin)
  BY <1>2, <1>4 DEF Client!sendWithProfile
<1> QED
  BY <1>1, <1>2, <1>3, <1>5, <1>6, <1>7, <1>8, <1>9 DEF Client!sendCommit, AnnOf

(* A payment is an honest one, and what is announced is put together from     *)
(* payments.                                                                  *)
Honest(u) ==
  \E p \in Client!PROFILES, chain \in Chains, r \in Recipients, coin \in Coins :
    \E key \in Client!SpendKeys(r) : \E binding :
      /\ BindingFor(binding, p, chain)
      /\ u = [key |-> key, binding |-> binding, ann |-> AnnOf(p, chain, r, key, coin)]

Composed(a) ==
  /\ a = [stealthAddress |-> a.stealthAddress, ephemeralPubKey |-> a.ephemeralPubKey, viewTag |-> a.viewTag]
  /\ \E u \in paid : a.stealthAddress = u.ann.stealthAddress
  /\ a.ephemeralPubKey = <<"short">> \/ \E u \in paid : a.ephemeralPubKey = u.ann.ephemeralPubKey

LogInv ==
  /\ \E S : log \in Seq(S)
  /\ Len(log) <= MaxLog
  /\ \A u \in paid : Honest(u)
  /\ \A i \in 1..Len(log) : Composed(log[i])

(* What the check of an announcement answers for a payment's own keys *)
LEMMA CheckIff ==
  ASSUME LogInv, NEW r \in Recipients, NEW p \in Client!PROFILES, NEW chain \in Chains, NEW binding,
         BindingFor(binding, p, chain), NEW key \in Client!SpendKeys(r), NEW i \in 1..Len(log)
  PROVE  Client!checkWithProfile(Client!MetaAddress(r, key), r, log[i], binding) # None
           <=> [key |-> key, binding |-> binding, ann |-> log[i]] \in paid
<1>1. PICK ma : ma = Client!MetaAddress(r, key)
  OBVIOUS
<1>2. ma.spendKey = key /\ Client!MetaFits(ma)
  BY <1>1, KeysFit, MetaOf
<1>3. PICK a : a = log[i]
  OBVIOUS
<1>4. PICK ss, c : ss = Client!Decapsulate(a.ephemeralPubKey, r) /\ c = CommitOf(p, key, ss)
  OBVIOUS
<1>5. binding.profile = p /\ binding.deployment = Client!DeploymentOf(p, chain)
  BY DEF BindingFor
<1>6. ASSUME Client!checkWithProfile(ma, r, a, binding) # None
      PROVE  [key |-> key, binding |-> binding, ann |-> a] \in paid
  <2>1. /\ ss # Throws /\ Client!computeViewTag(ss) = a.viewTag
        /\ Client!accountAddress(c, Client!DeploymentOf(p, chain)) = a.stealthAddress
    BY <1>2, <1>4, <1>5, <1>6, CheckOpens DEF CommitOf
  <2>2. Composed(a)
    BY <1>3 DEF LogInv
  <2>3. PICK u \in paid : a.stealthAddress = u.ann.stealthAddress
    BY <2>2 DEF Composed
  <2>4. PICK p2 \in Client!PROFILES, ch2 \in Chains, r2 \in Recipients, coin \in Coins :
          \E k2 \in Client!SpendKeys(r2) : \E b2 :
            /\ BindingFor(b2, p2, ch2)
            /\ u = [key |-> k2, binding |-> b2, ann |-> AnnOf(p2, ch2, r2, k2, coin)]
    BY <2>3 DEF LogInv, Honest
  <2>5. PICK k2, b2 :
            /\ k2 \in Client!SpendKeys(r2)
            /\ BindingFor(b2, p2, ch2)
            /\ u = [key |-> k2, binding |-> b2, ann |-> AnnOf(p2, ch2, r2, k2, coin)]
    BY <2>4
  <2>6. a.stealthAddress = Client!accountAddress(CommitOf(p2, k2, Secret(r2, coin)), Client!DeploymentOf(p2, ch2))
    BY <2>3, <2>5 DEF AnnOf
  <2>7. c = CommitOf(p2, k2, Secret(r2, coin)) /\ ch2 = chain /\ p2 = p
    BY <2>1, <2>6, AddressNames
  <2>8. b2 = binding
    BY <2>5, <2>7 DEF BindingFor
  <2>9. k2 = key /\ ss = Secret(r2, coin)
    <3>1. /\ key = k2
          /\ Client!Sha256(<<p.domains.open, ss>>) = Client!Sha256(<<p.domains.open, Secret(r2, coin)>>)
      BY <1>4, <2>7, Terms DEF CommitOf
    <3> QED
      BY <3>1, Terms
  <2>10. a.viewTag = Client!computeViewTag(Secret(r2, coin))
    BY <2>1, <2>9
  <2>11. a.ephemeralPubKey = <<"ct", Client!EncapsKey(r2), coin>>
    <3>1. a.ephemeralPubKey # <<"short">>
      BY <1>4, <2>1 DEF Client!Decapsulate
    <3>2. PICK v \in paid : a.ephemeralPubKey = v.ann.ephemeralPubKey
      BY <2>2, <3>1 DEF Composed
    <3>3. PICK r3, coin3 : v.ann.ephemeralPubKey = <<"ct", Client!EncapsKey(r3), coin3>>
      BY <3>2 DEF LogInv, Honest, AnnOf
    <3>4. ss = <<"ss", Client!EncapsKey(r3), coin3>>
      BY <1>4, <2>9, <3>1, <3>2, <3>3 DEF Client!Decapsulate, Secret
    <3> QED
      BY <2>9, <3>2, <3>3, <3>4 DEF Secret
  <2>12. a = AnnOf(p2, ch2, r2, k2, coin)
    BY <2>2, <2>6, <2>10, <2>11 DEF Composed, AnnOf
  <2> QED
    BY <2>5, <2>8, <2>9, <2>12
<1>7. ASSUME [key |-> key, binding |-> binding, ann |-> a] \in paid
      PROVE  Client!checkWithProfile(ma, r, a, binding) # None
  <2>1. PICK u : u = [key |-> key, binding |-> binding, ann |-> a]
    OBVIOUS
  <2>2. PICK p2 \in Client!PROFILES, ch2 \in Chains, r2 \in Recipients, coin \in Coins :
          \E k2 \in Client!SpendKeys(r2) : \E b2 :
            /\ BindingFor(b2, p2, ch2)
            /\ u = [key |-> k2, binding |-> b2, ann |-> AnnOf(p2, ch2, r2, k2, coin)]
    BY <1>7, <2>1 DEF LogInv, Honest
  <2>3. /\ key \in Client!SpendKeys(r2) /\ BindingFor(binding, p2, ch2)
        /\ a = AnnOf(p2, ch2, r2, key, coin)
    BY <2>1, <2>2
  <2>4. r2 = r
    BY <2>3, KeysOwn
  <2>5. p2 = p /\ ch2 = chain
    BY <2>3 DEF BindingFor
  <2>6. /\ a.stealthAddress = Client!accountAddress(CommitOf(p, key, Secret(r, coin)), Client!DeploymentOf(p, chain))
        /\ a.ephemeralPubKey = <<"ct", Client!EncapsKey(r), coin>>
        /\ a.viewTag = Client!computeViewTag(Secret(r, coin))
    BY <2>3, <2>4, <2>5 DEF AnnOf
  <2>7. ss = Secret(r, coin)
    BY <1>4, <2>6 DEF Client!Decapsulate, Secret
  <2>8. ss # Throws
    BY <2>2, <2>4, <2>7, SecretsAssumption DEF Secret
  <2>9. PICK o : o = Client!deriveOpener(ss, p.domains)
    OBVIOUS
  <2>10. Client!deriveCommitment(key, o, p.domains) = c
    BY <1>4, <2>9, Commits DEF CommitOf
  <2>11. [opener |-> o, commitment |-> c] # None
    BY <2>2, <2>4, <2>7, <2>9, <2>10, SecretsAssumption DEF Secret
  <2>12. Client!checkCommitAnnouncement(ma, r, a, binding.deployment, p.domains) = [opener |-> o, commitment |-> c]
    BY <1>2, <1>4, <1>5, <2>6, <2>7, <2>8, <2>9, <2>10, ProfilesAssumption DEF Client!checkCommitAnnouncement
  <2> QED
    BY <1>2, <1>5, <2>11, <2>12 DEF Client!checkWithProfile
<1> QED
  BY <1>1, <1>3, <1>6, <1>7

LEMMA ScanFinds == LogInv => ScanFindsPayments
<1> SUFFICES ASSUME LogInv, NEW r \in Recipients, NEW binding \in Client!Bindings,
                    NEW key \in Client!SpendKeys(r)
             PROVE  Client!scanCommit(Client!MetaAddress(r, key), r, binding)
                      = {i \in DOMAIN log : [key |-> key, binding |-> binding, ann |-> log[i]] \in paid}
  BY DEF ScanFindsPayments, Client!ScanFindsPayments
<1>1. PICK p \in Client!PROFILES, chain \in Chains : BindingFor(binding, p, chain)
  BY BindingsOf
<1>2. DOMAIN log = 1..Len(log)
  BY DEF LogInv
<1> QED
  BY <1>1, <1>2, CheckIff DEF Client!scanCommit

LEMMA Appended ==
  ASSUME NEW S, NEW s \in Seq(S), NEW x, NEW t, t = Append(s, x)
  PROVE  /\ \E T : t \in Seq(T)
         /\ Len(t) = Len(s) + 1 /\ Len(s) \in Nat
         /\ \A k \in 1..Len(t) : t[k] = x \/ (k \in 1..Len(s) /\ t[k] = s[k])
<1>1. PICK T : T = S \cup {x}
  OBVIOUS
<1>2. s \in Seq(T) /\ x \in T
  BY <1>1, SeqMonotonic
<1>3. /\ t \in Seq(T) /\ Len(t) = Len(s) + 1 /\ t[Len(s) + 1] = x
      /\ \A k \in 1..Len(s) : t[k] = s[k]
  BY <1>2, AppendProperties
<1>4. Len(s) \in Nat
  BY <1>2
<1>5. ASSUME NEW k \in 1..Len(t) PROVE t[k] = x \/ (k \in 1..Len(s) /\ t[k] = s[k])
  <2>1. k = Len(s) + 1 \/ k \in 1..Len(s)
    BY <1>3, <1>4
  <2> QED
    BY <1>3, <2>1
<1> QED
  BY <1>3, <1>4, <1>5

LEMMA ClientTyped == LogInv /\ (\A b \in broadcast : Authorized(b)) => Client!TypeOK
<1> SUFFICES ASSUME LogInv, \A b \in broadcast : Authorized(b) PROVE Client!TypeOK
  OBVIOUS
<1>1. ASSUME NEW i \in DOMAIN log PROVE DOMAIN log[i] = {"stealthAddress", "ephemeralPubKey", "viewTag"}
  <2>1. PICK a : a = log[i]
    OBVIOUS
  <2>0. i \in 1..Len(log)
    BY DEF LogInv
  <2>2. a = [stealthAddress |-> a.stealthAddress, ephemeralPubKey |-> a.ephemeralPubKey, viewTag |-> a.viewTag]
    BY <2>0, <2>1 DEF LogInv, Composed
  <2>3. \A x, y, z : DOMAIN [stealthAddress |-> x, ephemeralPubKey |-> y, viewTag |-> z]
                      = {"stealthAddress", "ephemeralPubKey", "viewTag"}
    OBVIOUS
  <2> QED
    BY <2>1, <2>2, <2>3
<1> QED
  BY <1>1 DEF LogInv, Authorized, Client!TypeOK

LEMMA LogPay ==
  ASSUME LogInv, NEW r \in Recipients, NEW binding \in Client!Bindings, NEW coin \in Coins,
         NEW key \in Client!SpendKeys(r), Client!Pay(r, key, binding, coin)
  PROVE  LogInv'
<1>1. PICK p \in Client!PROFILES, chain \in Chains : BindingFor(binding, p, chain)
  BY BindingsOf
<1>2. PICK ann : ann = AnnOf(p, chain, r, key, coin)
  OBVIOUS
<1>3. PICK u : u = [key |-> key, binding |-> binding, ann |-> ann]
  OBVIOUS
<1>4. log' = Append(log, ann) /\ paid' = paid \cup {u}
  BY <1>1, <1>2, <1>3, SendOf DEF Client!Pay
<1>5. Honest(u) /\ u.ann = ann
  BY <1>1, <1>2, <1>3 DEF Honest
<1>6. \A v \in paid' : Honest(v)
  BY <1>4, <1>5 DEF LogInv
<1>7. ann = [stealthAddress |-> ann.stealthAddress, ephemeralPubKey |-> ann.ephemeralPubKey,
             viewTag |-> ann.viewTag]
  BY <1>2 DEF AnnOf
<1>8. PICK S : log \in Seq(S)
  BY DEF LogInv
<1>9. /\ \E T : log' \in Seq(T)
      /\ Len(log') = Len(log) + 1 /\ Len(log) \in Nat
      /\ \A i \in 1..Len(log') : log'[i] = ann \/ (i \in 1..Len(log) /\ log'[i] = log[i])
  BY <1>4, <1>8, Appended
<1>10. \A i \in 1..Len(log') : Composed(log[i])'
  BY <1>4, <1>5, <1>7, <1>9 DEF LogInv, Composed
<1>11. Len(log') <= MaxLog
  BY <1>9, BoundAssumption DEF Client!Pay
<1> QED
  BY <1>6, <1>9, <1>10, <1>11 DEF LogInv, Honest

LEMMA LogForge ==
  ASSUME LogInv, NEW i \in DOMAIN log, NEW j \in DOMAIN log, NEW tag,
         NEW ct \in {<<"short">>, log[j].ephemeralPubKey}, Client!Forge(log[i].stealthAddress, ct, tag)
  PROVE  LogInv'
<1>1. PICK a : a = [stealthAddress |-> log[i].stealthAddress, ephemeralPubKey |-> ct, viewTag |-> tag]
  OBVIOUS
<1>2. log' = Append(log, a) /\ paid' = paid
  BY <1>1 DEF Client!Forge
<1>3. PICK S : log \in Seq(S)
  BY DEF LogInv
<1>4. PICK t : t = log'
  OBVIOUS
<1>5. /\ \E T : log' \in Seq(T)
      /\ Len(log') = Len(log) + 1 /\ Len(log) \in Nat
      /\ \A k \in 1..Len(log') : log'[k] = a \/ (k \in 1..Len(log) /\ log'[k] = log[k])
  <2>1. t = Append(log, a)
    BY <1>2, <1>4
  <2>2. /\ \E T : t \in Seq(T)
        /\ Len(t) = Len(log) + 1 /\ Len(log) \in Nat
        /\ \A k \in 1..Len(t) : t[k] = a \/ (k \in 1..Len(log) /\ t[k] = log[k])
    BY <1>3, <2>1, Appended, SMTT(30)
  <2> QED
    BY <1>4, <2>2
<1>6. Composed(log[i]) /\ Composed(log[j])
  BY <1>3 DEF LogInv
<1>7. a.stealthAddress = log[i].stealthAddress /\ a.ephemeralPubKey = ct /\ a.viewTag = tag
  BY <1>1
<1>8. Composed(a)
  BY <1>1, <1>6, <1>7 DEF Composed
<1>9. \A k \in 1..Len(log') : Composed(log[k])'
  BY <1>2, <1>5, <1>8 DEF LogInv, Composed
<1>10. Len(log') <= MaxLog
  BY <1>5, BoundAssumption DEF Client!Forge
<1> QED
  BY <1>2, <1>5, <1>9, <1>10 DEF LogInv, Honest

LEMMA LogNext == LogInv /\ [Client!Next]_clientVars => LogInv'
<1> SUFFICES ASSUME LogInv, [Client!Next]_clientVars PROVE LogInv'
  OBVIOUS
<1>1. CASE UNCHANGED <<log, paid>>
  BY <1>1 DEF LogInv, Honest, Composed
<1>2. CASE ~UNCHANGED <<log, paid>>
  BY <1>2, LogPay, LogForge DEF Client!Next, Client!Spend, clientVars
<1> QED
  BY <1>1, <1>2
-----------------------------------------------------------------------------
(* Native keys: recursion over the naturals *)

(* A set of naturals has a least element. *)
LEMMA LeastNat ==
  ASSUME NEW T, T \subseteq Nat, T # {}
  PROVE  \E n \in T : \A m \in T : ~(m < n)
<1> DEFINE R == OpToRel(<, Nat)
<1>1. IsWellFoundedOn(R, Nat)
  BY NatLessThanWellFounded
<1>2. \E n \in T : \A m \in T : ~(<<m, n>> \in R)
  <2> HIDE DEF R
  <2> QED
    BY <1>1, WFMin
<1> QED
  BY <1>2 DEF OpToRel

(* A function defined by recursion exists: what f has at n comes from what it *)
(* has at h[n], below n.                                                      *)
Falls(h) == h \in [Nat -> Nat] /\ \A n \in Nat \ {0} : h[n] < n

Recursive(X, c, h, G, f) == f \in [Nat -> X] /\ f[0] = c /\ \A n \in Nat \ {0} : f[n] = G[n][f[h[n]]]

Rises(c, h, G, f, m) == f[0] = c /\ \A n \in 1..m : f[n] = G[n][f[h[n]]]

LEMMA RisesTo ==
  ASSUME NEW X, NEW c \in X, NEW h \in [Nat -> Nat], \A n \in Nat \ {0} : h[n] < n,
         NEW G \in [Nat -> [X -> X]], NEW m \in Nat
  PROVE  \E f \in [0..m -> X] : Rises(c, h, G, f, m)
<1> DEFINE T == {k \in Nat : ~ \E f \in [0..k -> X] : Rises(c, h, G, f, k)}
<1>1. SUFFICES ASSUME T # {} PROVE FALSE
  OBVIOUS
<1>2. PICK k \in T : \A j \in T : ~(j < k)
  <2> HIDE DEF T
  <2>1. T \subseteq Nat
    BY DEF T
  <2> QED
    BY <1>1, <2>1, LeastNat
<1>3. k # 0
  <2>1. [i \in 0..0 |-> c] \in [0..0 -> X] /\ Rises(c, h, G, [i \in 0..0 |-> c], 0)
    BY DEF Rises
  <2> QED
    BY <2>1
<1>4. PICK f \in [0..k - 1 -> X] : Rises(c, h, G, f, k - 1)
  BY <1>2, <1>3
<1> DEFINE g == [n \in 0..k |-> IF n = k THEN G[k][f[h[k]]] ELSE f[n]]
<1>5. g \in [0..k -> X]
  BY <1>2, <1>3
<1>6. ASSUME NEW n \in 1..k PROVE g[n] = G[n][g[h[n]]]
  <2>1. h[n] \in 0..k - 1 /\ g[h[n]] = f[h[n]]
    BY <1>2
  <2>2. CASE n = k
    BY <2>1, <2>2
  <2>3. CASE n \in 1..k - 1
    BY <2>1, <2>3, <1>4 DEF Rises
  <2> QED
    BY <1>2, <2>2, <2>3
<1>7. g[0] = c
  BY <1>2, <1>3, <1>4 DEF Rises
<1>8. Rises(c, h, G, g, k)
  <2> HIDE DEF g
  <2> QED
    BY <1>6, <1>7 DEF Rises
<1> QED
  BY <1>2, <1>5, <1>8

LEMMA RisesAlone ==
  ASSUME NEW c, NEW h \in [Nat -> Nat], \A n \in Nat \ {0} : h[n] < n,
         NEW G, NEW m \in Nat, NEW k \in Nat, NEW f, NEW g,
         Rises(c, h, G, f, m), Rises(c, h, G, g, k), NEW n \in Nat, n <= m, n <= k
  PROVE  f[n] = g[n]
<1> DEFINE T == {j \in 0..n : f[j] # g[j]}
<1>1. SUFFICES ASSUME T # {} PROVE FALSE
  OBVIOUS
<1>2. PICK j \in T : \A i \in T : ~(i < j)
  <2> HIDE DEF T
  <2>1. T \subseteq Nat
    BY DEF T
  <2> QED
    BY <1>1, <2>1, LeastNat
<1>3. j # 0
  BY DEF Rises
<1>4. f[h[j]] = g[h[j]]
  BY <1>2, <1>3
<1>5. j \in 1..m /\ j \in 1..k
  BY <1>2, <1>3
<1> QED
  BY <1>2, <1>4, <1>5 DEF Rises

LEMMA RecursionExists ==
  \A X, c, h, G : c \in X /\ Falls(h) /\ G \in [Nat -> [X -> X]] => \E f : Recursive(X, c, h, G, f)
<1> SUFFICES ASSUME NEW X, NEW c \in X, NEW h, Falls(h), NEW G \in [Nat -> [X -> X]]
             PROVE  \E f : Recursive(X, c, h, G, f)
  OBVIOUS
<1>0. h \in [Nat -> Nat] /\ \A n \in Nat \ {0} : h[n] < n
  BY DEF Falls
<1> DEFINE F(m) == CHOOSE f \in [0..m -> X] : Rises(c, h, G, f, m)
<1>1. \A m \in Nat : F(m) \in [0..m -> X] /\ Rises(c, h, G, F(m), m)
  BY <1>0, RisesTo
<1> HIDE DEF F
<1> DEFINE f == [n \in Nat |-> F(n)[n]]
<1>2. f \in [Nat -> X]
  BY <1>1
<1>3. f[0] = c
  BY <1>1 DEF Rises
<1>4. ASSUME NEW n \in Nat \ {0} PROVE f[n] = G[n][f[h[n]]]
  <2>1. F(n)[n] = G[n][F(n)[h[n]]]
    BY <1>0, <1>1 DEF Rises
  <2>2. h[n] \in Nat /\ h[n] <= n /\ h[n] <= h[n]
    BY <1>0
  <2>3. Rises(c, h, G, F(n), n) /\ Rises(c, h, G, F(h[n]), h[n])
    BY <1>1, <2>2
  <2>4. F(n)[h[n]] = F(h[n])[h[n]]
    <3> DEFINE a == F(n)
               b == F(h[n])
               k == h[n]
    <3>1. Rises(c, h, G, a, n) /\ Rises(c, h, G, b, k) /\ k \in Nat /\ k <= n /\ k <= k
      BY <2>2, <2>3
    <3> HIDE DEF a, b, k
    <3>2. a[k] = b[k]
      BY <1>0, <3>1, RisesAlone
    <3> QED
      BY <3>2 DEF a, b, k
  <2> QED
    BY <2>1, <2>2, <2>4
<1> QED
  <2> HIDE DEF f
  <2>1. Recursive(X, c, h, G, f)
    BY <1>2, <1>3, <1>4 DEF Recursive
  <2> QED
    BY <2>1
-----------------------------------------------------------------------------
(* The field *)

Field == 0..SECP_P - 1
Units == 1..SECP_P - 1
Mul(a, b) == (a * b) % SECP_P
Half == (SECP_P - 1) \div 2

LEMMA ModIs ==
  ASSUME NEW p \in Nat \ {0}, NEW a \in Int, NEW q \in Int, NEW r \in 0..p - 1, a = p * q + r
  PROVE  a % p = r
  OBVIOUS

LEMMA ModSplits ==
  ASSUME NEW p \in Nat \ {0}, NEW a \in Int
  PROVE  a % p \in 0..p - 1 /\ a \div p \in Int /\ a = p * (a \div p) + (a % p)
  OBVIOUS

LEMMA ModAdds ==
  ASSUME NEW p \in Nat \ {0}, NEW a \in Int, NEW b \in Int
  PROVE  ((a % p) + b) % p = (a + b) % p
<1> DEFINE q == a \div p
           t == ((a % p) + b) \div p
           r == ((a % p) + b) % p
<1>1. a % p \in Int /\ q \in Int /\ a = p * q + (a % p)
  BY ModSplits
<1>2. r \in 0..p - 1 /\ t \in Int /\ (a % p) + b = p * t + r
  BY <1>1, ModSplits
<1>3. a + b = p * (q + t) + r
  <2> HIDE DEF q, t, r
  <2>1. p * (q + t) = p * q + p * t
    BY <1>1, <1>2
  <2> QED
    BY <1>1, <1>2, <2>1
<1> QED
  <2> HIDE DEF q, t, r
  <2>1. q + t \in Int /\ a + b \in Int
    BY <1>1, <1>2
  <2>2. (a + b) % p = r
    BY <1>2, <1>3, <2>1, ModIs
  <2> QED
    BY <2>2 DEF r

LEMMA ModMultiplies ==
  ASSUME NEW p \in Nat \ {0}, NEW a \in Int, NEW b \in Int
  PROVE  ((a % p) * b) % p = (a * b) % p
<1> DEFINE q == a \div p
           m == a % p
           t == (m * b) \div p
           r == (m * b) % p
<1>1. m \in Int /\ q \in Int /\ a = p * q + m
  BY ModSplits
<1>2. m * b \in Int
  BY <1>1
<1>3. r \in 0..p - 1 /\ t \in Int /\ m * b = p * t + r
  BY <1>2, ModSplits
<1>4. a * b = p * (q * b + t) + r
  <2> HIDE DEF q, t, r, m
  <2>1. a * b = (p * q) * b + m * b
    BY <1>1
  <2>2. (p * q) * b = p * (q * b) /\ p * (q * b + t) = p * (q * b) + p * t
    BY <1>1, <1>3
  <2> QED
    BY <1>1, <1>3, <2>1, <2>2
<1> QED
  <2> HIDE DEF q, t, r, m
  <2>1. q * b + t \in Int /\ a * b \in Int
    BY <1>1, <1>3
  <2>2. (a * b) % p = r
    BY <1>3, <1>4, <2>1, ModIs
  <2> QED
    BY <2>2 DEF r, m

LEMMA FieldIs ==
  SECP_P \in Nat \ {0, 1} /\ 0 \in Field /\ 1 \in Units /\ Units = Field \ {0} /\ Field \subseteq Nat
  BY CurveAssumption DEF Field, Units

LEMMA MulType == \A a, b \in Int : Mul(a, b) \in Field
  BY FieldIs DEF Field, Mul

LEMMA MulCommutes == \A a, b \in Int : Mul(a, b) = Mul(b, a)
  BY DEF Mul

LEMMA MulOne == \A a \in Field : Mul(a, 1) = a /\ Mul(1, a) = a
  BY FieldIs, ModIs DEF Field, Mul

LEMMA MulAssociates == \A a, b, c \in Int : Mul(Mul(a, b), c) = Mul(a, Mul(b, c))
<1> SUFFICES ASSUME NEW a \in Int, NEW b \in Int, NEW c \in Int
             PROVE  Mul(Mul(a, b), c) = Mul(a, Mul(b, c))
  OBVIOUS
<1>1. a * b \in Int /\ b * c \in Int /\ SECP_P \in Nat \ {0} /\ (a * b) * c = (b * c) * a
  BY FieldIs
<1>2. Mul(Mul(a, b), c) = ((a * b) * c) % SECP_P
  BY <1>1, ModMultiplies DEF Mul
<1>3. Mul(Mul(b, c), a) = ((b * c) * a) % SECP_P
  BY <1>1, ModMultiplies DEF Mul
<1>4. Mul(Mul(b, c), a) = Mul(a, Mul(b, c))
  <2>1. Mul(b, c) \in Int
    BY MulType DEF Field
  <2> QED
    BY <2>1, MulCommutes
<1> QED
  BY <1>1, <1>2, <1>3, <1>4

LEMMA PowEquation ==
  \A e \in Nat, b \in Field :
    Native!Pow[e][b] = IF e = 0 THEN 1
                       ELSE Mul(Native!Pow[e \div 2][Mul(b, b)], IF e % 2 = 1 THEN b ELSE 1)
<1> DEFINE X == [Field -> Field]
           c == [b \in Field |-> 1]
           h == [n \in Nat |-> n \div 2]
           Rise(n, row) == [b \in Field |-> Mul(row[Mul(b, b)], IF n % 2 = 1 THEN b ELSE 1)]
           G == [n \in Nat |-> [row \in X |-> Rise(n, row)]]
<1>1. c \in X
  BY FieldIs
<1>2. h \in [Nat -> Nat] /\ \A n \in Nat \ {0} : h[n] < n
  OBVIOUS
<1>3. G \in [Nat -> [X -> X]]
  <2>1. ASSUME NEW n \in Nat, NEW row \in X PROVE Rise(n, row) \in X
    <3>1. ASSUME NEW b \in Field PROVE Mul(row[Mul(b, b)], IF n % 2 = 1 THEN b ELSE 1) \in Field
      <4>1. b \in Int /\ Mul(b, b) \in Field
        BY FieldIs, MulType
      <4>2. row[Mul(b, b)] \in Field
        BY <4>1
      <4>3. \A v \in Field : v \in Int
        BY FieldIs
      <4>4. \A v \in Field, w \in Int : Mul(v, w) \in Field
        BY <4>3, MulType
      <4>5. PICK v \in Field : v = row[Mul(b, b)]
        BY <4>2
      <4>6. PICK w \in Int : w = IF n % 2 = 1 THEN b ELSE 1
        BY <4>1
      <4> QED
        BY <4>4, <4>5, <4>6
    <3> QED
      BY <3>1
  <2> QED
    BY <2>1
<1>4. PICK f \in [Nat -> X] : f[0] = c /\ \A n \in Nat \ {0} : f[n] = G[n][f[h[n]]]
  <2>1. Falls(h)
    BY <1>2 DEF Falls
  <2>2. \E f : Recursive(X, c, h, G, f)
    <3> HIDE DEF X, c, h, G
    <3> QED
      BY <1>1, <1>3, <2>1, RecursionExists
  <2> QED
    BY <2>2 DEF Recursive
<1> DEFINE P(g) == g = [e \in Nat |-> [b \in Field |->
                          IF e = 0 THEN 1 ELSE Mul(g[e \div 2][Mul(b, b)], IF e % 2 = 1 THEN b ELSE 1)]]
<1>5. P(f)
  <2>1. ASSUME NEW e \in Nat
        PROVE  f[e] = [b \in Field |-> IF e = 0 THEN 1
                                        ELSE Mul(f[e \div 2][Mul(b, b)], IF e % 2 = 1 THEN b ELSE 1)]
    <3>1. CASE e = 0
      BY <1>4, <3>1
    <3>2. CASE e # 0
      <4>1. e \div 2 \in Nat /\ f[e \div 2] \in X
        OBVIOUS
      <4>2. f[e] = Rise(e, f[e \div 2])
        BY <1>4, <3>2, <4>1
      <4> QED
        BY <3>2, <4>2
    <3> QED
      BY <3>1, <3>2
  <2> QED
    BY <2>1
<1>6. Native!Pow = CHOOSE k : P(k)
  BY DEF Native!Pow, Mul, Field
<1>7. P(Native!Pow)
  <2> HIDE DEF P
  <2> QED
    BY <1>5, <1>6
<1> QED
  BY <1>7

LEMMA PowType == \A e \in Nat, b \in Field : Native!Pow[e][b] \in Field
<1> DEFINE T == {e \in Nat : \E b \in Field : Native!Pow[e][b] \notin Field}
<1>1. SUFFICES ASSUME T # {} PROVE FALSE
  OBVIOUS
<1>2. PICK e \in T : \A i \in T : ~(i < e)
  <2> HIDE DEF T
  <2>1. T \subseteq Nat
    BY DEF T
  <2> QED
    BY <1>1, <2>1, LeastNat
<1>3. PICK b \in Field : Native!Pow[e][b] \notin Field
  OBVIOUS
<1>4. e # 0
  BY <1>3, PowEquation, FieldIs
<1>5. e \div 2 \in Nat /\ e \div 2 < e /\ b \in Int /\ Mul(b, b) \in Field
  BY <1>4, FieldIs, MulType
<1>9. Native!Pow[e \div 2][Mul(b, b)] \in Field
  BY <1>2, <1>5
<1>6. PICK v \in Int : v = Native!Pow[e \div 2][Mul(b, b)]
  BY <1>9 DEF Field
<1>7. PICK w \in Int : w = IF e % 2 = 1 THEN b ELSE 1
  BY <1>5
<1>8. Native!Pow[e][b] = Mul(v, w)
  BY <1>4, <1>6, <1>7, PowEquation
<1> QED
  BY <1>3, <1>8, MulType

LEMMA PowTypeInt == \A e \in Nat, b \in Field : Native!Pow[e][b] \in Int
  BY PowType, FieldIs

(* One more factor *)
LEMMA PowStep == \A e \in Nat, b \in Field : Native!Pow[e + 1][b] = Mul(Native!Pow[e][b], b)
<1> DEFINE T == {e \in Nat : \E b \in Field : Native!Pow[e + 1][b] # Mul(Native!Pow[e][b], b)}
<1>1. SUFFICES ASSUME T # {} PROVE FALSE
  OBVIOUS
<1>2. PICK e \in T : \A i \in T : ~(i < e)
  <2> HIDE DEF T
  <2>1. T \subseteq Nat
    BY DEF T
  <2> QED
    BY <1>1, <2>1, LeastNat
<1>3. PICK b \in Field : Native!Pow[e + 1][b] # Mul(Native!Pow[e][b], b)
  OBVIOUS
<1>8. \A x \in Field : x \in Int
  BY FieldIs
<1>4. b \in Int /\ Mul(b, b) \in Field /\ Mul(b, b) \in Int
  BY <1>8, MulType
<1> DEFINE k == e \div 2
           v == Native!Pow[k][Mul(b, b)]
<1>5. k \in Nat /\ v \in Field /\ v \in Int
  <2>1. k \in Nat
    OBVIOUS
  <2>2. v \in Field
    BY <1>4, <2>1, PowType
  <2> QED
    BY <2>1, <2>2 DEF Field
<1>6. CASE e % 2 = 0
  <2>1. (e + 1) % 2 = 1 /\ (e + 1) \div 2 = k /\ e + 1 # 0
    BY <1>6
  <2>2. Native!Pow[e + 1][b] = Mul(v, b)
    BY <2>1, PowEquation
  <2>3. Native!Pow[e][b] = v
    <3>1. CASE e = 0
      BY <1>4, <3>1, PowEquation
    <3>2. CASE e # 0
      <4>1. Native!Pow[e][b] = Mul(v, 1)
        BY <1>6, <3>2, PowEquation
      <4> QED
        BY <1>5, <4>1, MulOne
    <3> QED
      BY <3>1, <3>2
  <2> QED
    BY <1>3, <2>2, <2>3
<1>7. CASE e % 2 = 1
  <2>1. (e + 1) % 2 = 0 /\ (e + 1) \div 2 = k + 1 /\ e # 0 /\ e + 1 # 0 /\ k < e
    BY <1>7
  <2>2. Native!Pow[e][b] = Mul(v, b)
    BY <1>7, <2>1, PowEquation
  <2>3. PICK w : w = Native!Pow[k + 1][Mul(b, b)]
    OBVIOUS
  <2>4. w \in Field
    BY <1>4, <1>5, <2>3, PowType
  <2>5. Native!Pow[e + 1][b] = w
    <3>1. Native!Pow[e + 1][b] = Mul(w, 1)
      BY <2>1, <2>3, PowEquation
    <3> QED
      BY <2>4, <3>1, MulOne
  <2>6. w = Mul(v, Mul(b, b))
    BY <1>2, <1>4, <1>5, <2>1, <2>3
  <2>7. Mul(v, Mul(b, b)) = Mul(Mul(v, b), b)
    BY <1>4, <1>5, MulAssociates
  <2> QED
    BY <1>3, <2>2, <2>5, <2>6, <2>7
<1> QED
  BY <1>6, <1>7

(* The field has no zero divisors: of the multiples of b that vanish, the     *)
(* least divides the prime.                                                   *)
LEMMA UnitsClosed == \A a, b \in Units : Mul(a, b) \in Units
<1> SUFFICES ASSUME NEW a0 \in Units, NEW b \in Units, Mul(a0, b) = 0 PROVE FALSE
  BY FieldIs, MulType
<1> DEFINE T == {a \in Units : Mul(a, b) = 0}
<1>1. PICK a \in T : \A i \in T : ~(i < a)
  <2>1. T \subseteq Nat /\ T # {}
    BY FieldIs
  <2> HIDE DEF T
  <2> QED
    BY <2>1, LeastNat
<1>2. a \in Nat \ {0} /\ a < SECP_P /\ b \in Nat \ {0} /\ b < SECP_P /\ SECP_P \in Nat
  BY FieldIs DEF Units
<1> DEFINE r == SECP_P % a
           q == SECP_P \div a
           k == (a * b) \div SECP_P
<1>3. r \in 0..a - 1 /\ q \in Int /\ SECP_P = a * q + r
  BY <1>2, ModSplits
<1>4. k \in Int /\ a * b = SECP_P * k
  <2>1. PICK m \in Int : m = a * b
    BY <1>2
  <2>2. m % SECP_P = 0 /\ k = m \div SECP_P
    BY <2>1 DEF Mul
  <2>3. k \in Int /\ m = SECP_P * k + (m % SECP_P)
    BY <1>2, <2>1, <2>2, ModSplits
  <2>4. m = SECP_P * k
    BY <1>2, <2>2, <2>3
  <2> QED
    BY <2>1, <2>3, <2>4
<1>5. Mul(r, b) = 0
  <2> HIDE DEF r, q, k
  <2>1. r * b = SECP_P * b - (a * q) * b
    BY <1>2, <1>3
  <2>2. (a * q) * b = (a * b) * q /\ (SECP_P * k) * q = SECP_P * (k * q)
    BY <1>2, <1>3, <1>4
  <2>3. SECP_P * b - SECP_P * (k * q) = SECP_P * (b - k * q)
    BY <1>2, <1>3, <1>4
  <2>4. r * b = SECP_P * (b - k * q) + 0
    BY <1>2, <1>3, <1>4, <2>1, <2>2, <2>3
  <2>5. b - k * q \in Int /\ r * b \in Int /\ 0 \in 0..SECP_P - 1 /\ SECP_P \in Nat \ {0}
    BY <1>2, <1>3, <1>4
  <2>6. (r * b) % SECP_P = 0
    BY <2>4, <2>5, ModIs
  <2> QED
    BY <2>6 DEF Mul
<1>6. r = 0
  <2>1. r \in Units \/ r = 0
    BY <1>2, <1>3 DEF Units
  <2>2. r < a
    BY <1>2, <1>3
  <2> QED
    BY <1>1, <1>5, <2>1, <2>2
<1>7. a = 1
  BY <1>2, <1>6, CurveAssumption
<1>8. Mul(a, b) = b
  BY <1>7, MulOne, FieldIs
<1> QED
  BY <1>1, <1>2, <1>8

LEMMA Cancels == \A a \in Units, b, c \in Field : Mul(a, b) = Mul(a, c) => b = c
<1>1. ASSUME NEW a \in Units, NEW b \in Field, NEW c \in Field, Mul(a, b) = Mul(a, c), c < b
      PROVE  FALSE
  <2>1. b - c \in Units
    BY <1>1, FieldIs DEF Field, Units
  <2>2. Mul(a, b - c) = 0
    <3>1. a \in Int /\ b \in Int /\ c \in Int /\ SECP_P \in Nat \ {0} /\ a * b \in Int /\ a * c \in Int
      BY FieldIs DEF Field, Units
    <3> DEFINE k == (a * b) \div SECP_P
               l == (a * c) \div SECP_P
               r == (a * b) % SECP_P
    <3>2. k \in Int /\ l \in Int /\ r \in Int /\ a * b = SECP_P * k + r /\ a * c = SECP_P * l + r
      BY <1>1, <3>1, ModSplits DEF Mul
    <3> HIDE DEF k, l, r
    <3>3. a * (b - c) = a * b - a * c /\ SECP_P * (k - l) = SECP_P * k - SECP_P * l
      BY <3>1, <3>2
    <3>4. a * (b - c) = SECP_P * (k - l) + 0
      BY <3>1, <3>2, <3>3
    <3>5. a * (b - c) \in Int /\ k - l \in Int /\ 0 \in 0..SECP_P - 1
      BY <3>1, <3>2
    <3>6. (a * (b - c)) % SECP_P = 0
      BY <3>1, <3>4, <3>5, ModIs
    <3> QED
      BY <3>6 DEF Mul
  <2>3. Mul(a, b - c) \in Units
    BY <2>1, UnitsClosed
  <2> QED
    BY <2>2, <2>3, FieldIs
<1> SUFFICES ASSUME NEW a \in Units, NEW b \in Field, NEW c \in Field, Mul(a, b) = Mul(a, c) PROVE b = c
  OBVIOUS
<1>2. ~(c < b) /\ ~(b < c)
  BY <1>1
<1> QED
  BY <1>2, FieldIs

LEMMA UnitsFinite == IsFiniteSet(Units) /\ Cardinality(Units) = SECP_P - 1
  BY FieldIs, FS_Interval DEF Units

(* Multiplying by a unit is one to one, hence onto: quotients exist. *)
LEMMA Divides == \A a, b \in Units : \E x \in Units : Mul(a, x) = b
<1> SUFFICES ASSUME NEW a \in Units, NEW b \in Units PROVE \E x \in Units : Mul(a, x) = b
  OBVIOUS
<1> DEFINE f == [x \in Units |-> Mul(a, x)]
<1>1. f \in [Units -> Units]
  BY UnitsClosed
<1>2. \A x, y \in Units : f[x] = f[y] => x = y
  BY Cancels, FieldIs
<1> HIDE DEF f
<1>3. f \in Injection(Units, Units)
  BY <1>1, <1>2 DEF Injection, IsInjective
<1>4. f \in Surjection(Units, Units)
  BY <1>3, UnitsFinite, FS_Injection
<1>5. \E x \in Units : f[x] = b
  BY <1>4 DEF Surjection
<1> QED
  BY <1>5 DEF f

LEMMA PowUnits == \A e \in Nat, b \in Units : Native!Pow[e][b] \in Units
<1> SUFFICES ASSUME NEW b \in Units PROVE \A e \in Nat : Native!Pow[e][b] \in Units
  OBVIOUS
<1> DEFINE T == {e \in Nat : Native!Pow[e][b] \notin Units}
<1>1. SUFFICES ASSUME T # {} PROVE FALSE
  OBVIOUS
<1>2. PICK e \in T : \A i \in T : ~(i < e)
  <2> HIDE DEF T
  <2>1. T \subseteq Nat
    BY DEF T
  <2> QED
    BY <1>1, <2>1, LeastNat
<1>3. b \in Field
  BY FieldIs
<1>4. e # 0
  BY <1>3, PowEquation, FieldIs
<1>5. e - 1 \in Nat /\ Native!Pow[e - 1][b] \in Units /\ (e - 1) + 1 = e
  BY <1>2, <1>4
<1>6. Native!Pow[e][b] = Mul(Native!Pow[e - 1][b], b)
  BY <1>3, <1>5, PowStep
<1> QED
  BY <1>5, <1>6, UnitsClosed

LEMMA PowOne == \A e \in Nat : Native!Pow[e][1] = 1
<1> DEFINE T == {e \in Nat : Native!Pow[e][1] # 1}
<1>1. SUFFICES ASSUME T # {} PROVE FALSE
  OBVIOUS
<1>2. PICK e \in T : \A i \in T : ~(i < e)
  <2> HIDE DEF T
  <2>1. T \subseteq Nat
    BY DEF T
  <2> QED
    BY <1>1, <2>1, LeastNat
<1>3. 1 \in Field
  BY FieldIs
<1>4. e # 0
  BY <1>3, PowEquation
<1>5. e - 1 \in Nat /\ Native!Pow[e - 1][1] = 1 /\ (e - 1) + 1 = e
  BY <1>2, <1>4
<1>6. Native!Pow[e][1] = Mul(1, 1)
  BY <1>3, <1>5, PowStep
<1> QED
  BY <1>3, <1>6, MulOne

(* Negatives *)
Neg(a) == SECP_P - a

LEMMA NegIs == \A a \in Units : Neg(a) \in Units /\ Neg(Neg(a)) = a /\ Neg(a) # a
  BY CurveAssumption DEF Neg, Units

LEMMA NegMul == \A a, b \in Units : Mul(a, Neg(b)) = Neg(Mul(a, b))
<1> SUFFICES ASSUME NEW a \in Units, NEW b \in Units PROVE Mul(a, Neg(b)) = Neg(Mul(a, b))
  OBVIOUS
<1>1. a \in Int /\ b \in Int /\ SECP_P \in Nat \ {0}
  BY FieldIs DEF Units
<1>2. PICK m \in Int : m = a * b
  BY <1>1
<1>3. PICK k, r : k = m \div SECP_P /\ r = m % SECP_P
  OBVIOUS
<1>4. k \in Int /\ m = SECP_P * k + r /\ r \in 1..SECP_P - 1
  <2>1. k \in Int /\ m = SECP_P * k + r
    BY <1>1, <1>3, ModSplits
  <2>2. r \in Units
    BY <1>2, <1>3, UnitsClosed DEF Mul
  <2> QED
    BY <2>1, <2>2 DEF Units
<1>5. a * (SECP_P - b) = SECP_P * (a - k - 1) + (SECP_P - r)
  <2>1. a * (SECP_P - b) = SECP_P * a - m
    BY <1>1, <1>2
  <2>2. SECP_P * (a - k - 1) = SECP_P * a - SECP_P * k - SECP_P
    BY <1>1, <1>4
  <2> QED
    BY <1>1, <1>4, <2>1, <2>2
<1>6. a * (SECP_P - b) \in Int /\ a - k - 1 \in Int /\ SECP_P - r \in 0..SECP_P - 1
  BY <1>1, <1>4
<1>7. (a * (SECP_P - b)) % SECP_P = SECP_P - r
  BY <1>1, <1>5, <1>6, ModIs
<1> QED
  BY <1>2, <1>3, <1>7 DEF Mul, Neg

(* An element has two square roots or none. *)
LEMMA Roots == \A x, y \in Units : Mul(x, x) = Mul(y, y) => x = y \/ x = Neg(y)
<1>1. ASSUME NEW x \in Units, NEW y \in Units, Mul(x, x) = Mul(y, y), y < x, x + y # SECP_P PROVE FALSE
  <2>1. x \in Int /\ y \in Int /\ SECP_P \in Nat \ {0} /\ x * x \in Int /\ y * y \in Int
    BY FieldIs DEF Units
  <2>2. x - y \in Units /\ x + y \in Int
    BY <1>1, <2>1 DEF Units
  <2>3. (x + y) % SECP_P \in Units
    <3>1. CASE x + y < SECP_P
      <4>1. x + y \in 0..SECP_P - 1 /\ x + y = SECP_P * 0 + (x + y)
        BY <2>1, <3>1 DEF Units
      <4>2. (x + y) % SECP_P = x + y
        BY <2>1, <2>2, <4>1, ModIs
      <4>3. x + y \in Units
        BY <2>1, <3>1 DEF Units
      <4> QED
        BY <4>2, <4>3
    <3>2. CASE x + y > SECP_P
      <4>1. (x + y) - SECP_P \in 0..SECP_P - 1 /\ x + y = SECP_P * 1 + ((x + y) - SECP_P)
        BY <2>1, <3>2 DEF Units
      <4>2. (x + y) % SECP_P = (x + y) - SECP_P
        BY <2>1, <2>2, <4>1, ModIs
      <4>3. (x + y) - SECP_P \in Units
        BY <2>1, <3>2 DEF Units
      <4> QED
        BY <4>2, <4>3
    <3> QED
      BY <1>1, <2>1, <3>1, <3>2
  <2>4. Mul((x + y) % SECP_P, x - y) = 0
    <3>1. ((x + y) * (x - y)) % SECP_P = 0
      <4>1. PICK m \in Int, n \in Int : m = x * x /\ n = y * y
        BY <2>1
      <4>2. PICK k, l, r : k = m \div SECP_P /\ l = n \div SECP_P /\ r = m % SECP_P
        OBVIOUS
      <4>3. n % SECP_P = r
        BY <1>1, <4>1, <4>2 DEF Mul
      <4>4. k \in Int /\ l \in Int /\ r \in Int /\ m = SECP_P * k + r /\ n = SECP_P * l + r
        BY <2>1, <4>1, <4>2, <4>3, ModSplits
      <4>5. (x + y) * (x - y) = m - n
        BY <2>1, <4>1
      <4>6. SECP_P * (k - l) = SECP_P * k - SECP_P * l
        BY <2>1, <4>4
      <4>7. m - n = SECP_P * (k - l) + 0 /\ k - l \in Int /\ m - n \in Int /\ 0 \in 0..SECP_P - 1
        BY <2>1, <4>1, <4>4, <4>6
      <4>8. (m - n) % SECP_P = 0
        BY <2>1, <4>7, ModIs
      <4> QED
        BY <4>5, <4>8
    <3>2. x - y \in Int
      BY <2>1
    <3>3. (((x + y) % SECP_P) * (x - y)) % SECP_P = ((x + y) * (x - y)) % SECP_P
      BY <2>1, <2>2, <3>2, ModMultiplies
    <3> QED
      BY <3>1, <3>3 DEF Mul
  <2>5. Mul((x + y) % SECP_P, x - y) \in Units
    BY <2>2, <2>3, UnitsClosed
  <2> QED
    BY <2>4, <2>5, FieldIs
<1> SUFFICES ASSUME NEW x \in Units, NEW y \in Units, Mul(x, x) = Mul(y, y), x # y PROVE x = Neg(y)
  OBVIOUS
<1>2. x + y = SECP_P
  <2>1. CASE y < x
    BY <1>1, <2>1
  <2>2. CASE x < y
    <3>1. y + x = SECP_P
      BY <1>1, <2>2
    <3> QED
      BY <3>1, FieldIs
  <2> QED
    BY <2>1, <2>2, FieldIs
<1> QED
  BY <1>2, FieldIs DEF Neg

(* The product of a set of units, factor by factor *)
IsFactors(S, f) == /\ f \in [Nat -> Field] /\ f[0] = 1
                   /\ \A n \in Nat \ {0} : f[n] = IF n \in S THEN Mul(f[n - 1], n) ELSE f[n - 1]
Factors(S) == CHOOSE f : IsFactors(S, f)
Prod(S) == Factors(S)[SECP_P - 1]

LEMMA FactorsAre == \A S : IsFactors(S, Factors(S))
<1> SUFFICES ASSUME NEW S PROVE \E f : IsFactors(S, f)
  BY DEF Factors
<1> DEFINE h == [n \in Nat |-> IF n = 0 THEN 0 ELSE n - 1]
           G == [n \in Nat |-> [v \in Field |-> IF n \in S THEN Mul(v, n) ELSE v]]
<1>1. 1 \in Field
  BY FieldIs
<1>2. Falls(h)
  BY DEF Falls
<1>3. G \in [Nat -> [Field -> Field]]
  <2>1. ASSUME NEW n \in Nat, NEW v \in Field PROVE Mul(v, n) \in Field
    <3>1. v \in Int /\ n \in Int
      BY DEF Field
    <3> QED
      BY <3>1, MulType
  <2> QED
    BY <2>1
<1>4. PICK f : Recursive(Field, 1, h, G, f)
  <2> HIDE DEF h, G
  <2> QED
    BY <1>1, <1>2, <1>3, RecursionExists
<1>5. f \in [Nat -> Field] /\ f[0] = 1
  BY <1>4 DEF Recursive
<1>6. ASSUME NEW n \in Nat \ {0} PROVE f[n] = IF n \in S THEN Mul(f[n - 1], n) ELSE f[n - 1]
  <2>1. f[n] = G[n][f[h[n]]]
    BY <1>4 DEF Recursive
  <2>2. h[n] = n - 1 /\ n - 1 \in Nat
    OBVIOUS
  <2>3. PICK v \in Field : v = f[n - 1]
    BY <1>5, <2>2
  <2>4. G[n][v] = IF n \in S THEN Mul(v, n) ELSE v
    OBVIOUS
  <2> HIDE DEF G, h
  <2> QED
    BY <2>1, <2>2, <2>3, <2>4
<1> QED
  BY <1>5, <1>6 DEF IsFactors

LEMMA ProdEmpty == Prod({}) = 1
<1> DEFINE f == Factors({})
           T == {n \in Nat : f[n] # 1}
<1>1. IsFactors({}, f)
  BY FactorsAre
<1> HIDE DEF f
<1>2. SUFFICES ASSUME T # {} PROVE FALSE
  <2>1. SECP_P - 1 \in Nat
    BY FieldIs
  <2> QED
    BY <1>2, <2>1 DEF f, Prod
<1>3. PICK n \in T : \A i \in T : ~(i < n)
  <2> HIDE DEF T
  <2>1. T \subseteq Nat
    BY DEF T
  <2> QED
    BY <1>2, <2>1, LeastNat
<1>4. n # 0
  BY <1>1 DEF IsFactors
<1>5. n - 1 \in Nat /\ f[n - 1] = 1
  BY <1>3, <1>4
<1> QED
  BY <1>1, <1>4, <1>5 DEF IsFactors

LEMMA ProdTake == \A S : \A x \in Units \cap S : Prod(S) = Mul(Prod(S \ {x}), x)
<1> SUFFICES ASSUME NEW S, NEW x \in Units, x \in S PROVE Prod(S) = Mul(Prod(S \ {x}), x)
  OBVIOUS
<1> DEFINE f == Factors(S)
           g == Factors(S \ {x})
           T == {n \in Nat : f[n] # IF n < x THEN g[n] ELSE Mul(g[n], x)}
<1>1. IsFactors(S, f) /\ IsFactors(S \ {x}, g)
  BY FactorsAre
<1>2. x \in Nat \ {0} /\ x <= SECP_P - 1 /\ SECP_P - 1 \in Nat
  BY FieldIs DEF Units
<1> HIDE DEF f, g
<1>3. SUFFICES ASSUME T # {} PROVE FALSE
  <2>1. ~(SECP_P - 1 < x) /\ SECP_P - 1 \in Nat
    BY <1>2
  <2>2. f[SECP_P - 1] = Mul(g[SECP_P - 1], x)
    BY <1>3, <2>1
  <2> QED
    BY <2>2 DEF f, g, Prod
<1>4. PICK n \in T : \A i \in T : ~(i < n)
  <2> HIDE DEF T
  <2>1. T \subseteq Nat
    BY DEF T
  <2> QED
    BY <1>3, <2>1, LeastNat
<1>5. n # 0
  BY <1>1, <1>2 DEF IsFactors
<1>6. n - 1 \in Nat /\ f[n - 1] = IF n - 1 < x THEN g[n - 1] ELSE Mul(g[n - 1], x)
  BY <1>4, <1>5
<1>7. /\ f[n] = IF n \in S THEN Mul(f[n - 1], n) ELSE f[n - 1]
      /\ g[n] = IF n \in S /\ n # x THEN Mul(g[n - 1], n) ELSE g[n - 1]
  BY <1>1, <1>5 DEF IsFactors
<1>8. PICK v \in Int : v = g[n - 1]
  <2>1. g[n - 1] \in Field
    BY <1>1, <1>6 DEF IsFactors
  <2> QED
    BY <2>1 DEF Field
<1>9. CASE n < x
  BY <1>6, <1>7, <1>9, <1>2
<1>10. CASE n = x
  BY <1>6, <1>7, <1>10, <1>2
<1>11. CASE x < n
  <2>1. f[n - 1] = Mul(v, x)
    BY <1>2, <1>6, <1>8, <1>11
  <2>2. Mul(Mul(v, x), n) = Mul(Mul(v, n), x)
    <3>1. Mul(Mul(v, x), n) = Mul(v, Mul(x, n)) /\ Mul(Mul(v, n), x) = Mul(v, Mul(n, x))
      BY <1>2, MulAssociates
    <3>2. Mul(x, n) = Mul(n, x)
      BY <1>2, MulCommutes
    <3> QED
      BY <3>1, <3>2
  <2>3. f[n] = Mul(g[n], x)
    <3>1. CASE n \in S
      <4>1. f[n] = Mul(Mul(v, x), n) /\ g[n] = Mul(v, n)
        BY <1>2, <1>7, <1>8, <1>11, <2>1, <3>1
      <4> QED
        BY <2>2, <4>1
    <3>2. CASE n \notin S
      BY <1>7, <1>8, <2>1, <3>2
    <3> QED
      BY <3>1, <3>2
  <2> QED
    BY <1>2, <1>11, <2>3
<1> QED
  BY <1>2, <1>9, <1>10, <1>11

(* Units that pair off to the product a *)
Pairs(a, S) == S \subseteq Units /\ \A x \in S : \E y \in S : x # y /\ Mul(x, y) = a

LEMMA PairsProd ==
  ASSUME NEW a \in Units, NEW S, Pairs(a, S)
  PROVE  \E k \in Nat : Cardinality(S) = 2 * k /\ Prod(S) = Native!Pow[k][a]
<1> DEFINE Good(s) == \E k \in Nat : Cardinality(s) = 2 * k /\ Prod(s) = Native!Pow[k][a]
           T == {Cardinality(s) : s \in {u \in SUBSET Units : Pairs(a, u) /\ ~Good(u)}}
<1>0. \A s \in SUBSET Units : IsFiniteSet(s) /\ Cardinality(s) \in Nat
  BY UnitsFinite, FS_Subset, FS_CardinalityType
<1>1. SUFFICES ASSUME T # {} PROVE FALSE
  BY <1>1 DEF Pairs
<1>2. PICK n \in T : \A i \in T : ~(i < n)
  <2>1. T \subseteq Nat
    BY <1>0
  <2> HIDE DEF T
  <2> QED
    BY <1>1, <2>1, LeastNat
<1>3. PICK s \in SUBSET Units : Pairs(a, s) /\ ~Good(s) /\ Cardinality(s) = n
  OBVIOUS
<1>4. a \in Field /\ a \in Int /\ \A x \in Units : x \in Field /\ x \in Int
  BY FieldIs DEF Units
<1>5. s # {}
  <2>1. Cardinality({}) = 2 * 0 /\ Prod({}) = Native!Pow[0][a]
    BY <1>4, FS_EmptySet, ProdEmpty, PowEquation
  <2> QED
    BY <1>3, <2>1
<1>6. PICK x \in s, y \in s : x # y /\ Mul(x, y) = a
  BY <1>3, <1>5 DEF Pairs
<1> DEFINE u == (s \ {x}) \ {y}
<1>7. x \in Units /\ y \in Units /\ u \in SUBSET Units /\ Mul(y, x) = a
  BY <1>3, <1>4, <1>6, MulCommutes
<1>8. Pairs(a, u)
  <2> SUFFICES ASSUME NEW z \in u PROVE \E w \in u : z # w /\ Mul(z, w) = a
    BY <1>7 DEF Pairs
  <2>1. PICK w \in s : z # w /\ Mul(z, w) = a
    BY <1>3 DEF Pairs
  <2>2. w \in Units /\ z \in Units /\ Mul(w, z) = a
    BY <1>3, <1>4, <2>1, MulCommutes
  <2>3. w # x
    BY <1>4, <1>6, <1>7, <2>2, Cancels
  <2>4. w # y
    BY <1>4, <1>6, <1>7, <2>2, Cancels
  <2> QED
    BY <2>1, <2>3, <2>4
<1>9. Cardinality(u) = n - 2 /\ n - 2 \in Nat /\ n \in Nat
  <2>1. IsFiniteSet(s) /\ Cardinality(s) \in Nat /\ IsFiniteSet(s \ {x}) /\ Cardinality(s \ {x}) = n - 1
    BY <1>0, <1>3, <1>6, FS_RemoveElement
  <2>2. Cardinality(u) = (n - 1) - 1
    BY <1>6, <2>1, FS_RemoveElement
  <2> QED
    BY <1>0, <1>3, <1>7, <2>1, <2>2
<1> HIDE DEF u
<1>10. PICK k \in Nat : Cardinality(u) = 2 * k /\ Prod(u) = Native!Pow[k][a]
  BY <1>2, <1>7, <1>8, <1>9
<1>11. Prod(s) = Mul(Mul(Prod(u), y), x)
  <2>1. Prod(s) = Mul(Prod(s \ {x}), x)
    BY <1>6, <1>7, ProdTake
  <2>2. Prod(s \ {x}) = Mul(Prod(u), y)
    BY <1>6, <1>7, ProdTake DEF u
  <2> QED
    BY <2>1, <2>2
<1>12. Mul(Mul(Prod(u), y), x) = Mul(Prod(u), a)
  <2>1. Prod(u) \in Int
    BY <1>4, <1>10, PowTypeInt
  <2> QED
    BY <1>4, <1>7, <2>1, MulAssociates
<1>13. Prod(s) = Native!Pow[k + 1][a]
  BY <1>4, <1>10, <1>11, <1>12, PowStep
<1>14. Cardinality(s) = 2 * (k + 1)
  BY <1>3, <1>9, <1>10
<1> QED
  BY <1>3, <1>13, <1>14

(* Euler's criterion.  Where a is no square all units pair off to it, and     *)
(* where a is one all but its two roots do: the product of all units is a to  *)
(* the power Half, or the negative of that.  For a = 1 it is -1.              *)
IsSquare(a) == \E y \in Field : Mul(y, y) = a

LEMMA HalfIs == Half \in Nat \ {0} /\ SECP_P - 1 = 2 * Half
  BY CurveAssumption DEF Half

LEMMA NotSquare ==
  ASSUME NEW a \in Units, ~IsSquare(a)
  PROVE  Prod(Units) = Native!Pow[Half][a]
<1>1. Pairs(a, Units)
  <2> SUFFICES ASSUME NEW x \in Units PROVE \E y \in Units : x # y /\ Mul(x, y) = a
    BY DEF Pairs
  <2>1. PICK y \in Units : Mul(x, y) = a
    BY Divides
  <2>2. x # y
    BY <2>1, FieldIs DEF IsSquare
  <2> QED
    BY <2>1, <2>2
<1>2. PICK k \in Nat : Cardinality(Units) = 2 * k /\ Prod(Units) = Native!Pow[k][a]
  BY <1>1, PairsProd
<1>3. k = Half
  BY <1>2, HalfIs, UnitsFinite
<1> QED
  BY <1>2, <1>3

LEMMA SquareProd ==
  ASSUME NEW y \in Units
  PROVE  Prod(Units) = Neg(Native!Pow[Half][Mul(y, y)])
<1> DEFINE a == Mul(y, y)
           m == Neg(y)
           S == (Units \ {y}) \ {m}
<1>1. a \in Units /\ m \in Units /\ m # y /\ Neg(m) = y
  BY NegIs, UnitsClosed
<1>2. \A x \in Units : x \in Field /\ x \in Int
  BY FieldIs DEF Units
<1>3. Mul(y, m) = Neg(a) /\ Mul(m, y) = Neg(a) /\ Mul(m, m) = a
  <2>1. Mul(y, m) = Neg(a)
    BY NegMul
  <2>2. Mul(m, y) = Neg(a)
    BY <1>1, <1>2, <2>1, MulCommutes
  <2>3. Mul(m, m) = Neg(Mul(m, y))
    BY <1>1, NegMul
  <2> QED
    BY <1>1, <2>1, <2>2, <2>3, NegIs
<1> HIDE DEF a, m
<1>4. Pairs(a, S)
  <2> SUFFICES ASSUME NEW z \in S PROVE \E w \in S : z # w /\ Mul(z, w) = a
    BY DEF Pairs
  <2>1. z \in Units /\ z # y /\ z # m
    OBVIOUS
  <2>2. PICK w \in Units : Mul(z, w) = a
    BY <1>1, <2>1, Divides
  <2>3. Mul(w, z) = a
    BY <1>2, <2>1, <2>2, MulCommutes
  <2>4. w # y
    <3>1. CASE w = y
      <4>1. Mul(y, z) = Mul(y, y)
        BY <2>3, <3>1 DEF a
      <4> QED
        BY <1>2, <2>1, <4>1, Cancels
    <3> QED
      BY <3>1
  <2>5. w # m
    <3>1. CASE w = m
      <4>1. Mul(m, z) = Mul(m, m)
        BY <1>3, <2>3, <3>1
      <4> QED
        BY <1>1, <1>2, <2>1, <4>1, Cancels
    <3> QED
      BY <3>1
  <2>6. z # w
    <3>1. CASE z = w
      <4>1. Mul(z, z) = Mul(y, y)
        BY <2>2, <3>1 DEF a
      <4> QED
        BY <2>1, <4>1, Roots DEF m
    <3> QED
      BY <3>1
  <2> QED
    BY <2>2, <2>4, <2>5, <2>6
<1>5. Cardinality(S) = SECP_P - 3
  <2>1. IsFiniteSet(Units \ {y}) /\ Cardinality(Units \ {y}) = (SECP_P - 1) - 1
    BY UnitsFinite, FS_RemoveElement
  <2>2. m \in Units \ {y}
    BY <1>1
  <2>3. Cardinality(S) = ((SECP_P - 1) - 1) - 1
    BY <2>1, <2>2, FS_RemoveElement
  <2> QED
    BY <2>3, FieldIs
<1>6. Prod(Units) = Mul(Mul(Prod(S), m), y)
  <2>1. Prod(Units) = Mul(Prod(Units \ {y}), y)
    BY ProdTake
  <2>2. Prod(Units \ {y}) = Mul(Prod(S), m)
    BY <1>1, ProdTake
  <2> QED
    BY <2>1, <2>2
<1> HIDE DEF S
<1>7. PICK k \in Nat : Cardinality(S) = 2 * k /\ Prod(S) = Native!Pow[k][a]
  BY <1>1, <1>4, PairsProd
<1>8. k + 1 = Half
  BY <1>5, <1>7, HalfIs, FieldIs
<1>9. PICK v \in Units : v = Native!Pow[k][a]
  BY <1>1, <1>7, PowUnits
<1>10. Mul(Mul(v, m), y) = Mul(v, Neg(a))
  BY <1>1, <1>2, <1>3, MulAssociates
<1>11. Mul(v, Neg(a)) = Neg(Mul(v, a))
  BY <1>1, NegMul
<1>12. Mul(v, a) = Native!Pow[Half][a]
  BY <1>1, <1>2, <1>7, <1>8, <1>9, PowStep
<1> QED
  BY <1>6, <1>7, <1>9, <1>10, <1>11, <1>12 DEF a

LEMMA EulerCriterion == \A a \in Units : Native!Pow[Half][a] = 1 <=> IsSquare(a)
<1>1. Prod(Units) = Neg(1)
  <2>1. 1 \in Units /\ Mul(1, 1) = 1
    BY MulOne, FieldIs
  <2>2. Native!Pow[Half][1] = 1
    BY HalfIs, PowOne
  <2>3. Prod(Units) = Neg(Native!Pow[Half][Mul(1, 1)])
    BY <2>1, SquareProd
  <2> QED
    BY <2>1, <2>2, <2>3
<1>2. 1 \in Units /\ Neg(1) # 1 /\ Neg(Neg(1)) = 1
  BY FieldIs, NegIs
<1>3. ASSUME NEW a \in Units, ~IsSquare(a) PROVE Native!Pow[Half][a] # 1
  BY <1>1, <1>2, <1>3, NotSquare
<1>4. ASSUME NEW a \in Units, IsSquare(a) PROVE Native!Pow[Half][a] = 1
  <2>1. PICK y \in Field : Mul(y, y) = a
    BY <1>4 DEF IsSquare
  <2>2. y \in Units
    <3>1. CASE y = 0
      <4>1. Mul(0, 0) = 0
        BY FieldIs, ModIs DEF Mul
      <4> QED
        BY <2>1, <3>1, <4>1, FieldIs
    <3> QED
      BY <3>1, FieldIs
  <2>3. PICK v \in Units : v = Native!Pow[Half][a]
    BY HalfIs, PowUnits
  <2>4. Prod(Units) = Neg(v)
    BY <2>1, <2>2, <2>3, SquareProd
  <2>5. Neg(Neg(v)) = v
    BY NegIs
  <2> QED
    BY <1>1, <1>2, <2>3, <2>4, <2>5
<1> QED
  BY <1>3, <1>4

-----------------------------------------------------------------------------
(* Native keys *)

(* The x that js-client's isValidX accepts are those of the points of the     *)
(* curve, whatever the odd prime: Euler's criterion for x^3 + 7.               *)
THEOREM ValidOnCurve == \A x \in Field : Native!isValidX(x) <=> Native!OnCurve(x)
<1> SUFFICES ASSUME NEW x \in Field PROVE Native!isValidX(x) <=> Native!OnCurve(x)
  OBVIOUS
<1>1. x \in Int /\ x * x \in Int /\ x * x * x \in Int /\ SECP_P \in Nat \ {0, 1} /\ x \in 0..SECP_P - 1
  BY FieldIs DEF Field
<1>2. \A y \in Field : y % SECP_P = y
  BY ModIs, FieldIs DEF Field
<1>3. Native!modPow(x, 3) = Mul(Mul(x, x), x)
  <2>1. Native!Pow[0][x] = 1 /\ 0 \in Nat /\ 1 \in Nat /\ 2 \in Nat
    BY PowEquation
  <2>2. Native!Pow[0 + 1][x] = Mul(1, x) /\ Mul(1, x) = x
    BY <2>1, PowStep, MulOne
  <2>3. Native!Pow[1 + 1][x] = Mul(x, x)
    BY <2>1, <2>2, PowStep
  <2>4. Native!Pow[2 + 1][x] = Mul(Mul(x, x), x)
    BY <2>1, <2>3, PowStep
  <2> QED
    BY <1>2, <2>4 DEF Native!modPow
<1> DEFINE rhs == (Native!modPow(x, 3) + 7) % SECP_P
<1>4. rhs = (x * x * x + 7) % SECP_P
  <2>1. Mul(Mul(x, x), x) = (x * x * x) % SECP_P
    BY <1>1, ModMultiplies DEF Mul
  <2>2. PICK m \in Int : m = x * x * x
    BY <1>1
  <2>3. ((m % SECP_P) + 7) % SECP_P = (m + 7) % SECP_P
    <3>1. SECP_P \in Nat \ {0} /\ 7 \in Int
      BY <1>1
    <3> QED
      BY <3>1, ModAdds
  <2> QED
    BY <1>3, <2>1, <2>2, <2>3
<1>5. rhs \in Field
  <2>1. PICK m \in Int : m = x * x * x + 7
    BY <1>1
  <2>2. m % SECP_P \in 0..SECP_P - 1
    BY <1>1, ModSplits
  <2> QED
    BY <1>4, <2>1, <2>2 DEF Field
<1>6. Native!OnCurve(x) <=> IsSquare(rhs)
  BY <1>4 DEF Native!OnCurve, IsSquare, Mul, Field
<1>7. Native!isValidX(x) <=> rhs = 0 \/ Native!Pow[Half][rhs] = 1
  <2>1. rhs % SECP_P = rhs
    BY <1>2, <1>5
  <2> QED
    BY <1>1, <2>1 DEF Native!isValidX, Native!modPow, Half
<1> HIDE DEF rhs
<1>8. CASE rhs = 0
  <2>1. Mul(0, 0) = 0 /\ 0 \in Field
    BY FieldIs, ModIs DEF Mul
  <2>2. IsSquare(0)
    BY <2>1 DEF IsSquare
  <2> QED
    BY <1>6, <1>7, <1>8, <2>2
<1>9. CASE rhs # 0
  <2>1. rhs \in Units
    BY <1>5, <1>9, FieldIs
  <2> QED
    BY <1>6, <1>7, <1>9, <2>1, EulerCriterion
<1> QED
  BY <1>8, <1>9

(* What the search returns for a start: the first valid x below the order. *)
First(x, y) == y \in x..SECP_N - 1 /\ Native!isValidX(y) /\ \A z \in x..y - 1 : ~Native!isValidX(z)
NoneLeft(x) == \A y \in x..SECP_N - 1 : ~Native!isValidX(y)

LEMMA OrderIs == SECP_N \in Nat /\ SECP_N < SECP_P /\ 0 < SECP_N
  BY CurveAssumption

LEMMA FirstExists == \A x \in Nat : ~NoneLeft(x) => \E y : First(x, y)
<1> SUFFICES ASSUME NEW x \in Nat, ~NoneLeft(x) PROVE \E y : First(x, y)
  OBVIOUS
<1> DEFINE T == {y \in x..SECP_N - 1 : Native!isValidX(y)}
<1>1. PICK y \in T : \A i \in T : ~(i < y)
  <2>1. T \subseteq Nat /\ T # {}
    BY OrderIs DEF NoneLeft
  <2> HIDE DEF T
  <2> QED
    BY <2>1, LeastNat
<1>2. \A z \in x..y - 1 : ~Native!isValidX(z)
  BY <1>1, OrderIs
<1> QED
  BY <1>1, <1>2 DEF First

LEMMA SearchEquation ==
  \A x \in Nat : Native!Search[x] = IF x >= SECP_N THEN None
                                    ELSE IF Native!isValidX(x) THEN x ELSE Native!Search[x + 1]
<1> DEFINE P(g) == g = [x \in Nat |-> IF x >= SECP_N THEN None
                                      ELSE IF Native!isValidX(x) THEN x ELSE g[x + 1]]
           L1(x) == CHOOSE y : First(x, y)
           g == [x \in Nat |-> IF NoneLeft(x) THEN None ELSE L1(x)]
<1>1. \A x \in Nat : ~NoneLeft(x) => First(x, L1(x))
  BY FirstExists
<1>2. \A x \in Nat : \A y, z : First(x, y) /\ First(x, z) => y = z
  BY OrderIs DEF First
<1>3. P(g)
  <2>1. ASSUME NEW x \in Nat
        PROVE  (IF NoneLeft(x) THEN None ELSE L1(x)) =
               IF x >= SECP_N THEN None ELSE IF Native!isValidX(x) THEN x ELSE g[x + 1]
    <3> HIDE DEF L1
    <3>1. CASE x >= SECP_N
      BY <3>1, OrderIs DEF NoneLeft
    <3>2. CASE x < SECP_N /\ Native!isValidX(x)
      <4>1. First(x, x) /\ ~NoneLeft(x)
        BY <3>2, OrderIs DEF First, NoneLeft
      <4>2. L1(x) = x
        BY <1>1, <1>2, <4>1
      <4> QED
        BY <3>2, <4>1, <4>2, OrderIs
    <3>3. CASE x < SECP_N /\ ~Native!isValidX(x)
      <4>1. NoneLeft(x) <=> NoneLeft(x + 1)
        BY <3>3, OrderIs DEF NoneLeft
      <4>2. \A y : First(x + 1, y) => First(x, y)
        BY <3>3, OrderIs DEF First
      <4>3. ~NoneLeft(x) => L1(x) = L1(x + 1)
        BY <1>1, <1>2, <4>1, <4>2
      <4> QED
        BY <3>3, <4>1, <4>3, OrderIs
    <3> QED
      BY <3>1, <3>2, <3>3, OrderIs
  <2> HIDE DEF L1
  <2> QED
    BY <2>1
<1>4. Native!Search = CHOOSE k : P(k)
  BY DEF Native!Search
<1>5. P(Native!Search)
  <2> HIDE DEF P, g
  <2> QED
    BY <1>3, <1>4
<1> QED
  BY <1>5

LEMMA SearchFinds ==
  \A x \in Nat : IF NoneLeft(x) THEN Native!Search[x] = None ELSE First(x, Native!Search[x])
<1> DEFINE Good(x) == IF NoneLeft(x) THEN Native!Search[x] = None ELSE First(x, Native!Search[x])
           T == {k \in Nat : \E x \in Nat : x + k = SECP_N /\ ~Good(x)}
<1>1. ASSUME NEW x \in Nat, x >= SECP_N PROVE Good(x)
  BY <1>1, SearchEquation, OrderIs DEF NoneLeft
<1>2. T = {}
  <2> SUFFICES ASSUME T # {} PROVE FALSE
    OBVIOUS
  <2>1. PICK k \in T : \A i \in T : ~(i < k)
    <3>1. T \subseteq Nat
      OBVIOUS
    <3> HIDE DEF T
    <3> QED
      BY <3>1, LeastNat
  <2>2. PICK x \in Nat : x + k = SECP_N /\ ~Good(x)
    OBVIOUS
  <2> HIDE DEF Good
  <2>3. x < SECP_N
    BY <1>1, <2>2, OrderIs
  <2>4. Good(x + 1)
    <3>1. k - 1 \in Nat /\ (x + 1) + (k - 1) = SECP_N /\ x + 1 \in Nat /\ k - 1 < k
      BY <2>2, <2>3, OrderIs
    <3> QED
      BY <2>1, <3>1
  <2>5. CASE Native!isValidX(x)
    <3>1. Native!Search[x] = x
      BY <2>3, <2>5, SearchEquation, OrderIs
    <3>2. First(x, x) /\ ~NoneLeft(x)
      BY <2>3, <2>5, OrderIs DEF First, NoneLeft
    <3> QED
      BY <2>2, <3>1, <3>2 DEF Good
  <2>6. CASE ~Native!isValidX(x)
    <3>1. Native!Search[x] = Native!Search[x + 1]
      BY <2>3, <2>6, SearchEquation, OrderIs
    <3>2. NoneLeft(x) <=> NoneLeft(x + 1)
      BY <2>3, <2>6, OrderIs DEF NoneLeft
    <3>3. \A y : First(x + 1, y) => First(x, y)
      BY <2>3, <2>6, OrderIs DEF First
    <3> QED
      BY <2>2, <2>4, <3>1, <3>2, <3>3 DEF Good
  <2> QED
    BY <2>5, <2>6
<1> SUFFICES ASSUME NEW x \in Nat PROVE Good(x)
  OBVIOUS
<1>3. CASE x < SECP_N
  <2>1. SECP_N - x \in Nat /\ x + (SECP_N - x) = SECP_N
    BY <1>3, OrderIs
  <2> HIDE DEF Good
  <2> QED
    BY <1>2, <2>1
<1> QED
  BY <1>1, <1>3, OrderIs

(* Minimal hex digits: no leading zero, and no two numbers share them. *)
LEMMA HexEquation ==
  /\ Native!HexDigits[0] = <<>>
  /\ \A v \in Nat \ {0} : Native!HexDigits[v] = Append(Native!HexDigits[v \div 16], v % 16)
<1> DEFINE X == Seq(Nat)
           h == [n \in Nat |-> n \div 16]
           G == [n \in Nat |-> [s \in X |-> Append(s, n % 16)]]
           P(g) == g = [v \in Nat |-> IF v = 0 THEN <<>> ELSE Append(g[v \div 16], v % 16)]
<1>1. <<>> \in X
  OBVIOUS
<1>2. Falls(h)
  BY DEF Falls
<1>3. G \in [Nat -> [X -> X]]
  <2>1. ASSUME NEW n \in Nat, NEW s \in X PROVE Append(s, n % 16) \in X
    OBVIOUS
  <2> QED
    BY <2>1
<1>4. PICK f : Recursive(X, <<>>, h, G, f)
  <2> HIDE DEF X, h, G
  <2> QED
    BY <1>1, <1>2, <1>3, RecursionExists
<1>5. P(f)
  <2>1. f \in [Nat -> X] /\ f[0] = <<>>
    BY <1>4 DEF Recursive
  <2>2. ASSUME NEW v \in Nat \ {0} PROVE f[v] = Append(f[v \div 16], v % 16)
    <3>1. f[v] = G[v][f[h[v]]]
      <4> HIDE DEF X, h, G
      <4> QED
        BY <1>4 DEF Recursive
    <3>2. h[v] = v \div 16 /\ v \div 16 \in Nat
      OBVIOUS
    <3> QED
      BY <2>1, <3>1, <3>2
  <2> QED
    BY <2>1, <2>2
<1>6. Native!HexDigits = CHOOSE k : P(k)
  BY DEF Native!HexDigits
<1>7. P(Native!HexDigits)
  <2> HIDE DEF P
  <2> QED
    BY <1>5, <1>6
<1> QED
  BY <1>7

LEMMA HexType ==
  \A v \in Nat : /\ Native!HexDigits[v] \in Seq(Nat)
                 /\ v # 0 => Native!HexDigits[v] # <<>> /\ Native!HexDigits[v][1] # 0
<1> DEFINE H == Native!HexDigits
           T == {v \in Nat : ~(H[v] \in Seq(Nat) /\ (v # 0 => H[v] # <<>> /\ H[v][1] # 0))}
<1>1. SUFFICES ASSUME T # {} PROVE FALSE
  OBVIOUS
<1>2. PICK v \in T : \A i \in T : ~(i < v)
  <2>1. T \subseteq Nat
    OBVIOUS
  <2> HIDE DEF T
  <2> QED
    BY <1>1, <2>1, LeastNat
<1>3. v # 0
  <2>1. <<>> \in Seq(Nat)
    OBVIOUS
  <2> QED
    BY <2>1, HexEquation
<1>4. PICK w \in Nat, d \in Nat : w = v \div 16 /\ d = v % 16 /\ w < v /\ v = 16 * w + d
  BY <1>3
<1>5. H[w] \in Seq(Nat) /\ (w # 0 => H[w] # <<>> /\ H[w][1] # 0)
  BY <1>2, <1>4
<1>6. H[v] = Append(H[w], d)
  BY <1>3, <1>4, HexEquation
<1> HIDE DEF H
<1>7. Append(H[w], d) \in Seq(Nat) /\ Append(H[w], d) # <<>>
  BY <1>5
<1>8. CASE w = 0
  <2>1. H[w] = <<>> /\ d # 0
    BY <1>3, <1>4, <1>8, HexEquation DEF H
  <2>2. Append(H[w], d)[1] = d
    BY <2>1
  <2> QED
    BY <1>3, <1>6, <1>7, <2>1, <2>2
<1>9. CASE w # 0
  <2>1. PICK s \in Seq(Nat) : s = H[w]
    BY <1>5
  <2>2. Len(s) >= 1
    BY <1>5, <1>9, <2>1
  <2>3. Append(s, d)[1] = s[1]
    BY <2>1, <2>2
  <2> QED
    BY <1>5, <1>6, <1>7, <1>9, <2>1, <2>3
<1> QED
  BY <1>8, <1>9

LEMMA HexInjective == \A v, w \in Nat : Native!HexDigits[v] = Native!HexDigits[w] => v = w
<1> DEFINE H == Native!HexDigits
           T == {v \in Nat : \E w \in Nat : H[v] = H[w] /\ v # w}
<1>1. SUFFICES ASSUME T # {} PROVE FALSE
  OBVIOUS
<1>2. PICK v \in T : \A i \in T : ~(i < v)
  <2>1. T \subseteq Nat
    OBVIOUS
  <2> HIDE DEF T
  <2> QED
    BY <1>1, <2>1, LeastNat
<1>3. PICK w \in Nat : H[v] = H[w] /\ v # w
  OBVIOUS
<1>4. v # 0 /\ w # 0
  BY <1>3, HexType, HexEquation
<1>5. PICK a \in Nat, d \in Nat : a = v \div 16 /\ d = v % 16 /\ a < v /\ v = 16 * a + d
  BY <1>4
<1>6. PICK b \in Nat, e \in Nat : b = w \div 16 /\ e = w % 16 /\ w = 16 * b + e
  BY <1>4
<1>7. Append(H[a], d) = Append(H[b], e)
  BY <1>3, <1>4, <1>5, <1>6, HexEquation
<1>8. PICK s \in Seq(Nat), t \in Seq(Nat) : s = H[a] /\ t = H[b]
  BY HexType
<1>9. s = t /\ d = e
  <2>1. Append(s, d) = Append(t, e)
    BY <1>7, <1>8
  <2> HIDE DEF H
  <2> QED
    BY <2>1, AppendInjective
<1>10. a = b
  BY <1>2, <1>5, <1>8, <1>9
<1> QED
  BY <1>3, <1>5, <1>6, <1>9, <1>10

LEMMA MinimalHexInjective ==
  \A v, w \in Nat : Native!intToMinimalHex(v) = Native!intToMinimalHex(w) => v = w
<1> SUFFICES ASSUME NEW v \in Nat, NEW w \in Nat,
                    Native!intToMinimalHex(v) = Native!intToMinimalHex(w)
             PROVE  v = w
  OBVIOUS
<1>1. PICK s \in Seq(Nat), t \in Seq(Nat) : s = Native!HexDigits[v] /\ t = Native!HexDigits[w]
  BY HexType
<1> DEFINE padded(q) == IF Len(q) % 2 = 1 THEN <<0>> \o q ELSE q
<1>2. padded(s) = padded(t)
  BY <1>1 DEF Native!intToMinimalHex
<1>3. (s = <<>> \/ s[1] # 0) /\ (t = <<>> \/ t[1] # 0)
  BY <1>1, HexType, HexEquation
<1>4. ASSUME NEW q \in Seq(Nat)
      PROVE  <<0>> \o q # <<>> /\ (<<0>> \o q)[1] = 0 /\ Tail(<<0>> \o q) = q
  <2>1. <<0>> \in Seq(Nat) /\ Len(<<0>>) = 1
    OBVIOUS
  <2>2. <<0>> \o q \in Seq(Nat) /\ Len(<<0>> \o q) = 1 + Len(q)
    BY <2>1
  <2>3. \A i \in 1..Len(q) : (<<0>> \o q)[i + 1] = q[i]
    BY <2>1
  <2>4. Tail(<<0>> \o q) \in Seq(Nat) /\ Len(Tail(<<0>> \o q)) = Len(q)
    BY <2>2
  <2>5. \A i \in 1..Len(q) : Tail(<<0>> \o q)[i] = q[i]
    BY <2>2, <2>3
  <2>6. Tail(<<0>> \o q) = q
    BY <2>4, <2>5
  <2> QED
    BY <2>1, <2>2, <2>6
<1>5. s = t
  <2>1. CASE Len(s) % 2 = 1 /\ Len(t) % 2 = 1
    BY <1>2, <1>4, <2>1
  <2>2. CASE ~(Len(s) % 2 = 1) /\ ~(Len(t) % 2 = 1)
    BY <1>2, <2>2
  <2>3. CASE Len(s) % 2 = 1 /\ ~(Len(t) % 2 = 1)
    BY <1>2, <1>3, <1>4, <2>3
  <2>4. CASE ~(Len(s) % 2 = 1) /\ Len(t) % 2 = 1
    BY <1>2, <1>3, <1>4, <2>4
  <2> QED
    BY <2>1, <2>2, <2>3, <2>4
<1> QED
  BY <1>1, <1>5, HexInjective

(* Where the oracle was asked, an authorization is crafted from its answer. *)
SeedOf(a) == rSeed[<<a.chainId, a.pubkey>>]

CraftOk(a) ==
  /\ a.pubkey \in Pubkeys /\ a.chainId \in Chains /\ a.nonce \in Nonces
  /\ \/ a.outcome = "throws" /\ a.pubkey = Native!Short
     \/ /\ SeedOf(a) \in Nat
        /\ \/ a.outcome = "hangs" /\ Native!craftedR(SeedOf(a)) = None
           \/ /\ Native!craftedR(SeedOf(a)) # None
              /\ a = Native!Authorization(a.pubkey, a.chainId, a.nonce, Native!craftedR(SeedOf(a)))

NativeInv ==
  /\ rSeed = [k \in Chains \X Pubkeys |-> rSeed[k]]
  /\ \A k \in Chains \X Pubkeys : rSeed[k] \in Nat \cup {None}
  /\ \A a \in crafted : CraftOk(a)

LEMMA NativeInit == Native!Init => NativeInv
  BY DEF Native!Init, NativeInv

LEMMA NativeNext == NativeInv /\ [Native!Next]_nativeVars => NativeInv'
<1> SUFFICES ASSUME NativeInv, [Native!Next]_nativeVars PROVE NativeInv'
  OBVIOUS
<1>1. CASE UNCHANGED nativeVars
  BY <1>1 DEF NativeInv, nativeVars, CraftOk, SeedOf
<1>2. CASE Native!Next
  <2>1. PICK pubkey \in Pubkeys, chainId \in Chains, nonce_ \in Nonces :
          Native!craftAuthorization(pubkey, chainId, nonce_)
    BY <1>2 DEF Native!Next
  <2>2. CASE pubkey = Native!Short
    <3>1. rSeed' = rSeed /\ crafted' = crafted \cup {Native!Call(pubkey, chainId, nonce_, "throws")}
      BY <2>1, <2>2 DEF Native!craftAuthorization
    <3>2. CraftOk(Native!Call(pubkey, chainId, nonce_, "throws"))
      BY <2>2 DEF CraftOk, Native!Call
    <3> QED
      BY <3>1, <3>2 DEF NativeInv, CraftOk, SeedOf
  <2>3. CASE pubkey # Native!Short
    <3> DEFINE k == <<chainId, pubkey>>
    <3>1. k \in Chains \X Pubkeys
      OBVIOUS
    <3>2. PICK seed \in Nat :
            /\ rSeed[k] = None \/ rSeed[k] = seed
            /\ rSeed' = [rSeed EXCEPT ![k] = seed]
            /\ crafted' = crafted \cup
                 {IF Native!craftedR(seed) = None THEN Native!Call(pubkey, chainId, nonce_, "hangs")
                  ELSE Native!Authorization(pubkey, chainId, nonce_, Native!craftedR(seed))}
      <4>1. PICK seed \in IF rSeed[k] = None THEN 0..MaxSeed ELSE {rSeed[k]} :
              /\ rSeed' = [rSeed EXCEPT ![k] = seed]
              /\ crafted' = crafted \cup
                   {IF Native!craftedR(seed) = None THEN Native!Call(pubkey, chainId, nonce_, "hangs")
                    ELSE Native!Authorization(pubkey, chainId, nonce_, Native!craftedR(seed))}
        BY <2>1, <2>3 DEF Native!craftAuthorization
      <4>2. seed \in Nat /\ (rSeed[k] = None \/ rSeed[k] = seed)
        BY <3>1, <4>1, NativeAssumption DEF NativeInv
      <4> QED
        BY <4>1, <4>2
    <3> HIDE DEF k
    <3>3. /\ rSeed' = [i \in Chains \X Pubkeys |-> rSeed'[i]]
          /\ rSeed'[k] = seed
          /\ \A i \in Chains \X Pubkeys : rSeed'[i] = rSeed[i] \/ (i = k /\ rSeed[k] = None)
      BY <3>1, <3>2 DEF NativeInv
    <3>4. \A i \in Chains \X Pubkeys : rSeed'[i] \in Nat \cup {None}
      BY <3>2, <3>3 DEF NativeInv
    <3>5. ASSUME NEW a \in crafted PROVE CraftOk(a)'
      <4>1. CraftOk(a)
        BY DEF NativeInv
      <4>2. CASE a.outcome = "throws" /\ a.pubkey = Native!Short
        BY <4>1, <4>2 DEF CraftOk
      <4>3. CASE SeedOf(a) \in Nat
        <5>1. PICK i \in Chains \X Pubkeys : i = <<a.chainId, a.pubkey>>
          BY <4>1 DEF CraftOk
        <5>2. rSeed'[i] = rSeed[i] \/ rSeed[i] = None
          BY <3>3, <5>1
        <5>3. SeedOf(a)' = SeedOf(a)
          BY <4>3, <5>1, <5>2, NativeAssumption DEF SeedOf
        <5> QED
          BY <4>1, <5>3 DEF CraftOk
      <4> QED
        BY <4>1, <4>2, <4>3 DEF CraftOk
    <3>6. ASSUME NEW a, a = IF Native!craftedR(seed) = None
                            THEN Native!Call(pubkey, chainId, nonce_, "hangs")
                            ELSE Native!Authorization(pubkey, chainId, nonce_, Native!craftedR(seed))
          PROVE  CraftOk(a)'
      <4>1. a.chainId = chainId /\ a.pubkey = pubkey /\ a.nonce = nonce_
        BY <3>6 DEF Native!Call, Native!Authorization
      <4>2. SeedOf(a)' = seed
        BY <3>3, <4>1 DEF SeedOf, k
      <4>3. CASE Native!craftedR(seed) = None
        BY <3>6, <4>1, <4>2, <4>3 DEF CraftOk, Native!Call
      <4>4. CASE Native!craftedR(seed) # None
        BY <3>6, <4>1, <4>2, <4>4 DEF CraftOk
      <4> QED
        BY <4>3, <4>4
    <3> QED
      BY <3>2, <3>3, <3>4, <3>5, <3>6 DEF NativeInv
  <2> QED
    BY <2>2, <2>3
<1> QED
  BY <1>1, <1>2

LEMMA NativeRight == NativeInv => NativeAddresses
<1> SUFFICES ASSUME NativeInv, NEW a \in crafted
             PROVE  /\ a.outcome \in {"throws", "hangs", "crafted"}
                    /\ a.outcome = "throws" => a.pubkey = Native!Short
                    /\ a.outcome = "hangs" =>
                         \A x \in (SeedOf(a) % SECP_P)..SECP_N - 1 : ~Native!OnCurve(x)
                    /\ a.outcome = "crafted" =>
                         /\ a.r \in (SeedOf(a) % SECP_P)..SECP_N - 1 /\ Native!OnCurve(a.r)
                         /\ \A x \in (SeedOf(a) % SECP_P)..a.r - 1 : ~Native!OnCurve(x)
                         /\ \A b \in crafted : b.outcome = "crafted" /\ b.address = a.address => b = a
  BY DEF NativeAddresses, Native!NativeAddresses, SeedOf
<1>1. CraftOk(a)
  BY DEF NativeInv
<1>2. CASE a.outcome = "throws" /\ a.pubkey = Native!Short
  BY <1>2
<1> DEFINE start == SeedOf(a) % SECP_P
<1>3. ASSUME SeedOf(a) \in Nat
      PROVE  /\ start \in Field /\ start \in Nat
             /\ IF NoneLeft(start) THEN Native!craftedR(SeedOf(a)) = None
                ELSE First(start, Native!craftedR(SeedOf(a)))
  <2>1. start \in Field
    <3>1. PICK m \in Int : m = SeedOf(a)
      BY <1>3
    <3>2. SECP_P \in Nat \ {0}
      BY CurveAssumption
    <3> HIDE DEF start
    <3>3. start = m % SECP_P
      BY <3>1 DEF start
    <3>4. start \in 0..SECP_P - 1
      BY <3>2, <3>3, ModSplits
    <3> QED
      BY <3>4 DEF Field
  <2>2. start \in Nat
    BY <2>1, FieldIs
  <2> QED
    BY <2>1, <2>2, SearchFinds DEF Native!craftedR
<1>4. ASSUME SeedOf(a) \in Nat, NEW x \in start..SECP_N - 1 PROVE Native!isValidX(x) <=> Native!OnCurve(x)
  <2>1. start \in Nat
    BY <1>3, <1>4
  <2> HIDE DEF start
  <2>2. x \in Nat /\ x <= SECP_N - 1 /\ SECP_N \in 1..SECP_P - 1 /\ SECP_P \in Nat
    BY <1>4, <2>1, CurveAssumption
  <2>3. x \in Field
    BY <2>2 DEF Field
  <2> QED
    BY <2>3, ValidOnCurve
<1> HIDE DEF start
<1>5. CASE SeedOf(a) \in Nat /\ a.outcome = "hangs" /\ Native!craftedR(SeedOf(a)) = None
  <2>1. NoneLeft(start)
    BY <1>3, <1>5, NativeAssumption, OrderIs DEF First
  <2> QED
    BY <1>4, <1>5, <2>1 DEF NoneLeft, start
<1>6. CASE /\ SeedOf(a) \in Nat /\ Native!craftedR(SeedOf(a)) # None
           /\ a = Native!Authorization(a.pubkey, a.chainId, a.nonce, Native!craftedR(SeedOf(a)))
  <2>1. a.outcome = "crafted" /\ a.r = Native!craftedR(SeedOf(a))
    BY <1>6 DEF Native!Authorization
  <2>2. First(start, a.r)
    BY <1>3, <1>6, <2>1
  <2>3. a.r \in start..SECP_N - 1 /\ Native!OnCurve(a.r)
    BY <1>4, <1>6, <2>2 DEF First
  <2>4. \A x \in start..a.r - 1 : x \in start..SECP_N - 1 /\ ~Native!OnCurve(x)
    <3> SUFFICES ASSUME NEW x \in start..a.r - 1 PROVE x \in start..SECP_N - 1 /\ ~Native!OnCurve(x)
      OBVIOUS
    <3>1. x \in start..SECP_N - 1
      BY <1>3, <1>6, <2>3, OrderIs
    <3> QED
      BY <1>4, <1>6, <2>2, <3>1 DEF First
  <2>5. ASSUME NEW b \in crafted, b.outcome = "crafted", b.address = a.address PROVE b = a
    <3>1. CraftOk(b)
      BY DEF NativeInv
    <3>2. b = Native!Authorization(b.pubkey, b.chainId, b.nonce, Native!craftedR(SeedOf(b)))
      BY <2>5, <3>1 DEF CraftOk
    <3>3. /\ a.address = Native!recoverAddress(Native!authorizationMsgHash(a.chainId, a.pubkey, a.nonce),
                                              Native!craftedR(SeedOf(a)))
          /\ b.address = Native!recoverAddress(Native!authorizationMsgHash(b.chainId, b.pubkey, b.nonce),
                                              Native!craftedR(SeedOf(b)))
      BY <1>6, <3>2 DEF Native!Authorization
    <3>4. /\ Native!authorizationMsgHash(a.chainId, a.pubkey, a.nonce) =
               Native!authorizationMsgHash(b.chainId, b.pubkey, b.nonce)
          /\ Native!craftedR(SeedOf(a)) = Native!craftedR(SeedOf(b))
      BY <2>5, <3>3 DEF Native!recoverAddress
    <3>5. /\ a.pubkey = b.pubkey
          /\ Native!intToMinimalHex(a.chainId) = Native!intToMinimalHex(b.chainId)
          /\ Native!intToMinimalHex(a.nonce) = Native!intToMinimalHex(b.nonce)
      BY <3>4 DEF Native!authorizationMsgHash
    <3>6. a.chainId \in Nat /\ b.chainId \in Nat /\ a.nonce \in Nat /\ b.nonce \in Nat
      BY <1>1, <3>1, ChainsAssumption, NativeAssumption DEF CraftOk
    <3>7. a.chainId = b.chainId /\ a.nonce = b.nonce
      BY <3>5, <3>6, MinimalHexInjective
    <3> QED
      BY <1>6, <3>2, <3>4, <3>5, <3>7
  <2> QED
    BY <2>1, <2>3, <2>4, <2>5 DEF start
<1> QED
  BY <1>1, <1>2, <1>5, <1>6 DEF CraftOk
-----------------------------------------------------------------------------
(* The parts together *)

IInv ==
  /\ SignerInv /\ QueueInv /\ ProxyInv /\ OpInv /\ NativeInv
  /\ LogInv /\ \A b \in broadcast : Authorized(b)

(* In every reachable state the invariant of every part holds. *)
THEOREM Invariant == Spec => []IInv
<1>1. Init => IInv
  <2>1. Client!Init => \A b \in broadcast : Authorized(b)
    BY DEF Client!Init
  <2>2. Client!Init => LogInv
    <3>1. <<>> \in Seq({})
      OBVIOUS
    <3> QED
      BY <3>1, BoundAssumption DEF Client!Init, LogInv
  <2> QED
    BY <2>1, <2>2, SignerInit, QueueInit, ProxyInit, OpInit, NativeInit DEF Init, IInv
<1>2. IInv /\ [Next]_vars => IInv'
  <2> SUFFICES ASSUME IInv, [Next]_vars PROVE IInv'
    OBVIOUS
  <2>1. SignerInv'
    <3>1. [Signer!Next]_signerVars
      BY DEF Next, vars
    <3> QED
      BY <3>1, SignerNext DEF IInv
  <2>2. ProxyInv'
    <3>1. [Proxy!Next]_proxyVars
      BY DEF Next, vars
    <3> QED
      BY <3>1, ProxyNext DEF IInv
  <2>3. OpInv'
    <3>1. [Op!Next]_opVars
      BY DEF Next, vars
    <3> QED
      BY <3>1, OpNext DEF IInv
  <2>4. (\A b \in broadcast : Authorized(b))'
    <3>1. [Client!Next]_clientVars
      BY DEF Next, vars
    <3> QED
      BY <3>1, ClientNext DEF IInv
  <2>5. LogInv'
    <3>1. [Client!Next]_clientVars
      BY DEF Next, vars
    <3> QED
      BY <3>1, LogNext DEF IInv
  <2>6. QueueInv'
    <3>1. [Signer!Next]_signerVars
      BY DEF Next, vars
    <3> QED
      BY <3>1, QueueNext DEF IInv
  <2>7. NativeInv'
    <3>1. [Native!Next]_nativeVars
      BY DEF Next, vars
    <3> QED
      BY <3>1, NativeNext DEF IInv
  <2> QED
    BY <2>1, <2>2, <2>3, <2>4, <2>5, <2>6, <2>7 DEF IInv
<1> QED
  BY <1>1, <1>2, PTL DEF Spec

(* Announcements and calls keep their shape, and the queue of proofs holds    *)
(* only requests that are not answered, once each and in the order they were  *)
(* asked (proveQueue of signer-service.mjs).                                  *)
THEOREM PartsTyped == Spec => [](Client!TypeOK /\ Signer!TypeOK /\ Proxy!TypeOK)
<1>1. IInv => Client!TypeOK /\ Signer!TypeOK /\ Proxy!TypeOK
  BY ClientTyped, SignerTyped, ProxyTyped DEF IInv
<1> QED
  BY <1>1, Invariant, PTL

(* Every request to the signer service is answered about its own input: two   *)
(* proofs asked for at once never get each other's files, and an error comes  *)
(* only from a failed program or a refused input (proveQueue and the caches   *)
(* of signer-service.mjs).                                                    *)
THEOREM AnswersOwn == Spec => []AnswersOwnInput
<1>1. IInv => AnswersOwnInput
  BY SignerAnswersOwn DEF IInv
<1> QED
  BY <1>1, Invariant, PTL

(* A replay that starts gives the true result of the request or an error, and *)
(* never an error for what was answered while recording.  From the file a     *)
(* kill in the middle of writeFileSync leaves, no replay starts: that the     *)
(* file is never left so is not true of the code (rpc-proxy.mjs).             *)
THEOREM ReplaysTrue == Spec => []ReplayAnswers
<1>1. IInv => ReplayAnswers
  BY ProxyAnswers DEF IInv
<1> QED
  BY <1>1, Invariant, PTL

(* A self-bundled operation that executes finds its value in the account: its *)
(* balance was read after its nonce, and nobody else spends in between        *)
(* (buildSpendUserOp, requiredPrefund and the checks of the demo's spend).    *)
THEOREM OpsAreFunded == Spec => []OpsFunded
<1>1. IInv => OpsFunded
  BY DEF IInv, OpInv, OpsFunded
<1> QED
  BY <1>1, Invariant, PTL

(* An account of either kind accepts what its owner signed and nothing else   *)
(* that can be put together from public parts: the commitment binds the key,  *)
(* and the hash that is signed covers every other field                       *)
(* (verifyAuthorization, frameTxSigHash, the user operation hash).            *)
THEOREM OwnersOnly == Spec => []OwnersSpendsOnly
<1>1. IInv => OwnersSpendsOnly
  BY ClientOwners, OpOwners DEF IInv, OwnersSpendsOnly
<1> QED
  BY <1>1, Invariant, PTL

(* A scan for a spend key under a profile and chain lists exactly what was    *)
(* paid to that key under them, copies included, whatever else is announced   *)
(* (sendWithProfile, checkWithProfile, scanCommit).                           *)
THEOREM ScanFindsAll == Spec => []ScanFindsPayments
<1>1. IInv => ScanFindsPayments
  BY ScanFinds DEF IInv
<1> QED
  BY <1>1, Invariant, PTL

(* An authorization crafted for a native key is a signature of the first point *)
(* from its seed on, everybody who derives it finds the same one, its address  *)
(* is no other authorization's, and the search never ends only where no point  *)
(* below the group order is left (craftAuthorization, isValidX).               *)
THEOREM NativesAgree == Spec => []NativeAddresses
<1>1. IInv => NativeAddresses
  BY NativeRight DEF IInv
<1> QED
  BY <1>1, Invariant, PTL
=============================================================================
