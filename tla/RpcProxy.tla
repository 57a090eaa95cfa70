------------------------------ MODULE RpcProxy ------------------------------
(***************************************************************************)
(* The record and replay proxy in front of a node, used by the fork tests  *)
(* (js-client/scripts/rpc-proxy.mjs).  A first process forwards, and       *)
(* records if told so; it is killed at any time; a second one replays the  *)
(* file.  Requests read the state at one pinned block, so a request has    *)
(* one true result, and the node may answer it with an error (throttling)  *)
(* instead, not at all, or with an HTTP error.  The file is truncated and  *)
(* then written, and the process may be killed in between.                 *)
(***************************************************************************)
EXTENDS Naturals, Sequences, FiniteSets, TLC

CONSTANTS
  Params,        \* the parameters (an account and the block) requests are made with
  MaxCalls,      \* bound: HTTP requests
  MaxBatch,      \* bound: JSON-RPC requests in one
  None, Error,
  Torn           \* a file that holds the beginning of a cache only

Fields == {"balance", "nonce", "code"}
ACCOUNT_FIELD == [eth_getBalance |-> "balance", eth_getTransactionCount |-> "nonce", eth_getCode |-> "code"]
AccountInfo == "eth_getAccountInfo"
Methods == DOMAIN ACCOUNT_FIELD \cup {AccountInfo, "eth_getStorageAt"}
Requests == [method : Methods, params : Params]

(* What the node holds: results are functions from the fields they report *)
True(req) ==
  LET fields == IF req.method = AccountInfo THEN Fields
                ELSE IF req.method \in DOMAIN ACCOUNT_FIELD THEN {ACCOUNT_FIELD[req.method]} ELSE {"storage"}
  IN [f \in fields |-> req.params]

VARIABLES
  mode,     \* forward, record, or replay; None between the two processes
  made,     \* HTTP requests so far
  calls,    \* those being handled, and those replayed: batch and answers
  entries,  \* the recorded results by request (keyOf)
  dirty,    \* something recorded since the last flush
  file,     \* the cache file
  seen      \* requests answered with a result while recording

vars == <<mode, made, calls, entries, dirty, file, seen>>

Nothing == [req \in {} |-> None]

Init == /\ mode \in {"forward", "record"} /\ made = 0 /\ calls = {}
        /\ entries = Nothing /\ dirty = FALSE /\ file = None /\ seen = {}
-----------------------------------------------------------------------------
Batches == UNION {[1..n -> Requests] : n \in 1..MaxBatch}
Waiting(c) == c.answers = None

Call(batch) ==
  /\ mode # None /\ made < MaxCalls
  /\ made' = made + 1
  /\ calls' = calls \cup {[id |-> made, batch |-> batch, answers |-> None]}
  /\ UNCHANGED <<mode, entries, dirty, file, seen>>

(* flush: the whole file is written, so it holds everything recorded; nothing *)
(* is written when there is nothing new.  writeFileSync that is killed, or    *)
(* fails (a full disk), leaves what it had written so far.                    *)
Flush(e, d) == IF mode = "record" /\ d THEN file' = e /\ dirty' = FALSE ELSE dirty' = d /\ UNCHANGED file
FlushStopped(d) == mode = "record" /\ d /\ file' = Torn /\ dirty' = TRUE

(* resps.find(x => x.id === r.id), where o is the order the node answers in.  *)
(* A name ending in _Something is a slip the next definition could have.      *)
FoundFor_Position(o, k) == o[k]
FoundFor(o, k) == k

(* The node answers a batch: each request with its result or an error, in     *)
(* some order.  The results are recorded, each under its request; errors are  *)
(* not.                                                                       *)
Recorded(c, good, o) == {k \in DOMAIN c.batch : mode = "record" /\ FoundFor(o, k) \in good}

Record(c, good, o) ==
  LET Found(q) == {k \in Recorded(c, good, o) : c.batch[k] = q} IN
  entries' = [q \in DOMAIN entries \cup {c.batch[k] : k \in Recorded(c, good, o)} |->
               IF Found(q) = {} THEN entries[q]
               ELSE True(c.batch[FoundFor(o, CHOOSE k \in Found(q) : TRUE)])]

(* The file is written before the body is passed on, as it is. *)
Forward(c) ==
  /\ Waiting(c) /\ mode \in {"forward", "record"}
  /\ \E good \in SUBSET DOMAIN c.batch, o \in Permutations(DOMAIN c.batch) :
       /\ Record(c, good, o)
       /\ Flush(entries', dirty \/ Recorded(c, good, o) # {})
       /\ seen' = seen \cup {c.batch[k] : k \in {g \in good : mode = "record"}}
  /\ calls' = calls \ {c}
  /\ UNCHANGED <<mode, made>>

(* The write stops half way: the process is killed, or this request gets a 502. *)
ForwardStopped(c) ==
  /\ Waiting(c) /\ mode = "record"
  /\ \E good \in SUBSET DOMAIN c.batch, o \in Permutations(DOMAIN c.batch) :
       Record(c, good, o) /\ FlushStopped(dirty \/ Recorded(c, good, o) # {})
  /\ \/ mode' = None /\ calls' = {}
     \/ mode' = mode /\ calls' = calls \ {c}
  /\ UNCHANGED <<made, seen>>

(* An HTTP error is passed on, a node out of reach is a 502; neither is recorded. *)
ForwardFails(c) ==
  /\ Waiting(c) /\ mode \in {"forward", "record"}
  /\ calls' = calls \ {c}
  /\ UNCHANGED <<mode, made, entries, dirty, file, seen>>

(* SIGTERM flushes, unless it is stopped; SIGKILL does not.  Requests in       *)
(* flight are lost.                                                            *)
Stop(flushes) ==
  /\ mode \in {"forward", "record"}
  /\ mode' = None /\ calls' = {}
  /\ IF flushes THEN Flush(entries, dirty) \/ FlushStopped(dirty) ELSE UNCHANGED <<dirty, file>>
  /\ UNCHANGED <<made, entries, seen>>

(* A file that does not exist, or that JSON.parse refuses, ends the process at *)
(* once.                                                                       *)
StartReplay ==
  /\ mode = None /\ file \notin {None, Torn}
  /\ mode' = "replay" /\ entries' = file /\ dirty' = FALSE
  /\ UNCHANGED <<made, calls, file, seen>>
-----------------------------------------------------------------------------
(* Replay *)

(* An account is fetched in one request or in three; one shape answers the other. *)
fromEquivalentAccountEntry(req) ==
  LET infoReq == [req EXCEPT !.method = AccountInfo]
      part(f) == CHOOSE m \in DOMAIN ACCOUNT_FIELD : ACCOUNT_FIELD[m] = f IN
  IF req.method \in DOMAIN ACCOUNT_FIELD /\ infoReq \in DOMAIN entries
  THEN [f \in {ACCOUNT_FIELD[req.method]} |-> entries[infoReq][f]]
  ELSE IF req.method = AccountInfo /\ \A f \in Fields : [req EXCEPT !.method = part(f)] \in DOMAIN entries
  THEN [f \in Fields |-> entries[[req EXCEPT !.method = part(f)]][f]]
  ELSE None

(* fromCache, up to its await *)
Local(req) == IF req \in DOMAIN entries THEN entries[req] ELSE fromEquivalentAccountEntry(req)

(* eth_getCode alone goes to the node when nothing is recorded. *)
Replay(c) ==
  /\ mode = "replay" /\ Waiting(c)
  /\ \E fetched \in BOOLEAN :
       calls' = (calls \ {c}) \cup {[c EXCEPT !.answers =
         [k \in DOMAIN c.batch |->
            IF Local(c.batch[k]) # None THEN Local(c.batch[k])
            ELSE IF c.batch[k].method = "eth_getCode" /\ fetched THEN True(c.batch[k]) ELSE Error]]}
  /\ UNCHANGED <<mode, made, entries, dirty, file, seen>>

Next ==
  \/ \E batch \in Batches : Call(batch)
  \/ \E c \in calls : Forward(c) \/ ForwardStopped(c) \/ ForwardFails(c) \/ Replay(c)
  \/ \E flushes \in BOOLEAN : Stop(flushes)
  \/ StartReplay

Spec == Init /\ [][Next]_vars
-----------------------------------------------------------------------------
(* The file is a set of recorded requests; a call has one answer per request. *)
TypeOK ==
  /\ DOMAIN entries \subseteq Requests /\ seen \subseteq Requests
  /\ file \notin {None, Torn} => DOMAIN file \subseteq Requests
  /\ \A c \in calls : c.batch \in Batches /\ (Waiting(c) \/ DOMAIN c.answers = DOMAIN c.batch)

(* A replay answers what the node would: every result it gives is the true    *)
(* one, whichever request it was recorded under, and what was answered while  *)
(* recording is never a miss -- of a replay that starts: a torn file stops it *)
(* from starting, and loses what was answered.                                *)
ReplayAnswers ==
  \A c \in calls : ~Waiting(c) =>
    \A k \in DOMAIN c.batch :
      /\ c.answers[k] \in {True(c.batch[k]), Error}
      /\ c.batch[k] \in seen => c.answers[k] = True(c.batch[k])

=============================================================================
