------------------------------ MODULE LiveCollector -----------------------------
(***************************************************************************)
(* LiveDataCollector with the two providers and the cache it stands on:    *)
(* collect() for the tickers of an operator, iter_collect_manifest() for   *)
(* the cohort of an automatic run.                                         *)
(*                                                                         *)
(* One event loop. A request looks into the cache, waits for a provider    *)
(* slot, is sent (a SEC request when it holds the client's rate lock and   *)
(* the interval since the last response has passed), and is answered,      *)
(* fails or times out; a timeout counts from the slot on, the wait for the *)
(* rate lock included. An answer is stored in two writes, blob and         *)
(* reference, which only the death of the process can part.                *)
(* A quote that times out goes on in its thread, which nothing here reads. *)
(***************************************************************************)
EXTENDS Integers, FiniteSets

CONSTANTS
  MaxTickers,   \* MAX_LIVE_TICKERS
  MaxMembers,   \* MAX_AUTOMATIC_TICKERS
  CikOf,        \* the SEC identity of a ticker: several tickers may share one
  BatchSize,    \* batch_size
  Slots,        \* provider_slots
  Interval,     \* _minimum_interval, in ticks
  MaxRuns       \* processes that use the cache one after another

Members == 1..(IF MaxTickers > MaxMembers THEN MaxTickers ELSE MaxMembers)

ASSUME CollectorAssumption ==
  /\ MaxTickers \in Nat \ {0} /\ MaxMembers \in Nat \ {0}
  /\ CikOf \in [Members -> Members]
  /\ BatchSize \in Nat \ {0}
  /\ Slots \in Nat \ {0}
  /\ Interval \in Nat \ {0}
  /\ MaxRuns \in Nat \ {0}

VARIABLES
  at,         \* where the collector is: see Place
  manifest,   \* iter_collect_manifest rather than collect
  size,       \* tickers or members requested
  offset,     \* members asked for
  batch,      \* issuers of the gather whose result is still to come
  evidence,   \* issuers with a trusted packet
  failures,   \* <<issuer, provider, phase>>
  request,    \* the life of each provider request: see Life
  free,       \* _semaphore
  active,     \* _active_provider_requests
  peak,       \* _peak_provider_requests
  holder,     \* the request that holds _rate_lock, or Nobody
  sinceLast,  \* ticks since _last_request_at, up to Interval
  sinceSent,  \* ticks since the client's latest request was sent, up to Interval
  answered,   \* whether that request has been answered
  blobs,      \* keys whose payload is in the cache directory
  refs,       \* keys with a reference
  runs        \* processes started so far

collection == <<manifest, size, offset, batch, evidence, failures>>
slots      == <<free, active, peak>>
pace       == <<holder, sinceLast, sinceSent, answered>>
cache      == <<blobs, refs>>
vars == <<at, collection, request, slots, pace, cache, runs>>

Over  == {"done", "raised", "cancelled"}
Place == {"start", "mapping", "gather", "yielded", "stopping"} \cup Over
Life  == {"none", "waiting", "locking", "pacing", "sent", "storing", "ok", "failed", "cancelled"}

Mapping  == <<"sec", 0>>
Facts(m) == <<"sec", m>>
Quote(m) == <<"yfinance", m>>
Request  == {Mapping} \cup {Facts(m) : m \in Members} \cup {Quote(m) : m \in Members}
Sec      == {r \in Request : r[1] = "sec"}
Nobody   == <<"nobody", 0>>

\* ProviderRequest: facts are requested by CIK, quotes by ticker.
Key(r) == IF r \in Sec /\ r # Mapping THEN Facts(CikOf[r[2]]) ELSE r

Holding == {r \in Request : request[r] \in {"locking", "pacing", "sent"}}
Settled == {r \in Request : request[r] \in {"none", "ok", "failed", "cancelled"}}

\* put() is between its two writes: nothing suspends there, no other step runs.
Storing == \E r \in Request : request[r] = "storing"

Init ==
  /\ at = "start"
  /\ manifest = FALSE /\ size = 0 /\ offset = 0 /\ batch = {}
  /\ evidence = {} /\ failures = {}
  /\ request = [r \in Request |-> "none"]
  /\ free = Slots /\ active = 0 /\ peak = 0
  /\ holder = Nobody /\ sinceLast = Interval /\ sinceSent = Interval /\ answered = FALSE
  /\ blobs = {} /\ refs = {}
  /\ runs = 1

--------------------------------------------------------------------------------
(* The tasks of a gather.                                                  *)

\* The tasks look into the cache before any of them is answered. A fresh
\* reference is an answer; otherwise the task waits for a slot.
Ask(wanted) ==
  \E fresh \in SUBSET refs :
    request' = [r \in Request |->
                  IF r \notin wanted THEN request[r]
                  ELSE IF Key(r) \in fresh THEN "ok" ELSE "waiting"]

RequestsOf(m) == IF manifest THEN {Facts(m)} ELSE {Facts(m), Quote(m)}

Gather(members) ==
  /\ batch' = members
  /\ at' = "gather"
  /\ Ask(UNION {RequestsOf(m) : m \in members})

Collect ==
  /\ at = "start"
  /\ size' \in 1..MaxTickers
  /\ at' = "mapping"
  /\ Ask({Mapping})
  /\ UNCHANGED <<manifest, offset, batch, evidence, failures, slots, pace, cache, runs>>

\* A map that cannot be had or parsed fails the collection; a ticker it does
\* not hold fails alone.
Resolve ==
  /\ at = "mapping" /\ ~Storing
  /\ request[Mapping] = "ok"
  /\ \E resolved \in SUBSET (1..size) :
       /\ failures' = {<<m, "sec", "ticker_resolution">> : m \in (1..size) \ resolved}
       /\ Gather(resolved)
  /\ offset' = size
  /\ UNCHANGED <<manifest, size, evidence, slots, pace, cache, runs>>

Unresolved ==
  /\ at = "mapping" /\ ~Storing
  /\ request[Mapping] \in {"ok", "failed"}
  /\ at' = "raised"
  /\ UNCHANGED <<collection, request, slots, pace, cache, runs>>

CollectManifest ==
  /\ at = "start"
  /\ size' \in 1..MaxMembers
  /\ manifest' = TRUE
  /\ at' = "yielded"
  /\ UNCHANGED <<offset, batch, evidence, failures, request, slots, pace, cache, runs>>

\* The consumer asks for the next collection.
NextBatch ==
  /\ at = "yielded"
  /\ IF offset < size
     THEN /\ offset' = IF offset + BatchSize < size THEN offset + BatchSize ELSE size
          /\ Gather((offset + 1)..offset')
     ELSE at' = "done" /\ UNCHANGED <<offset, batch, request>>
  /\ UNCHANGED <<manifest, size, evidence, failures, slots, pace, cache, runs>>

--------------------------------------------------------------------------------
(* A provider request.                                                     *)

TakeSlot ==
  /\ free' = free - 1
  /\ active' = active + 1
  /\ peak' = IF peak > active' THEN peak ELSE active'

\* Mutant: the slot of a request that ends is not released.
GiveSlot_Leaks ==
  /\ active' = active - 1
  /\ UNCHANGED <<free, peak>>

GiveSlot ==
  /\ free' = free + 1
  /\ active' = active - 1
  /\ UNCHANGED peak

Acquire(r) ==
  /\ at \in {"mapping", "gather"} /\ ~Storing
  /\ request[r] = "waiting"
  /\ free > 0
  /\ TakeSlot
  /\ request' = [request EXCEPT ![r] = IF r \in Sec THEN "locking" ELSE "sent"]
  /\ UNCHANGED <<at, collection, pace, cache, runs>>

Lock(r) ==
  /\ at \in {"mapping", "gather"} /\ ~Storing
  /\ request[r] = "locking"
  /\ holder = Nobody
  /\ holder' = r
  /\ request' = [request EXCEPT ![r] = "pacing"]
  /\ UNCHANGED <<at, collection, slots, sinceLast, sinceSent, answered, cache, runs>>

Send(r) ==
  /\ at \in {"mapping", "gather"} /\ ~Storing
  /\ request[r] = "pacing"
  /\ sinceLast = Interval
  /\ request' = [request EXCEPT ![r] = "sent"]
  /\ sinceSent' = 0
  /\ answered' = FALSE
  /\ UNCHANGED <<at, collection, slots, holder, sinceLast, cache, runs>>

\* Leaving the rate lock, on whatever path.
Unlock(r) == holder' = IF holder = r THEN Nobody ELSE holder

Respond(r) ==
  /\ Unlock(r)
  /\ IF r \in Sec
     THEN sinceLast' = 0 /\ answered' = TRUE
     ELSE UNCHANGED <<sinceLast, answered>>
  /\ UNCHANGED sinceSent

\* Mutant: the reference is written before its blob.
Answer_ReferenceFirst(r) ==
  /\ at \in {"mapping", "gather"} /\ ~Storing
  /\ request[r] = "sent"
  /\ Respond(r)
  /\ GiveSlot
  /\ refs' = refs \cup {Key(r)}
  /\ request' = [request EXCEPT ![r] = "storing"]
  /\ UNCHANGED <<at, collection, blobs, runs>>

\* An answer: the lock and the slot are given back and put() writes the blob.
Answer(r) ==
  /\ at \in {"mapping", "gather"} /\ ~Storing
  /\ request[r] = "sent"
  /\ Respond(r)
  /\ GiveSlot
  /\ blobs' = blobs \cup {Key(r)}
  /\ request' = [request EXCEPT ![r] = "storing"]
  /\ UNCHANGED <<at, collection, refs, runs>>

Store(r) ==
  /\ request[r] = "storing"
  /\ \/ refs' = refs \cup {Key(r)} /\ request' = [request EXCEPT ![r] = "ok"]
     \/ request' = [request EXCEPT ![r] = "failed"] /\ UNCHANGED refs
  /\ UNCHANGED <<at, collection, slots, pace, blobs, runs>>

\* Mutant: _last_request_at is written after raise_for_status().
Reject_Unstamped(r) ==
  /\ at \in {"mapping", "gather"} /\ ~Storing
  /\ request[r] = "sent"
  /\ Unlock(r)
  /\ IF r \in Sec THEN answered' = TRUE ELSE UNCHANGED answered
  /\ GiveSlot
  /\ request' = [request EXCEPT ![r] = "failed"]
  /\ UNCHANGED <<at, collection, sinceLast, sinceSent, cache, runs>>

\* A response that is an error status or no JSON object, or no room for its blob.
Reject(r) ==
  /\ at \in {"mapping", "gather"} /\ ~Storing
  /\ request[r] = "sent"
  /\ Respond(r)
  /\ GiveSlot
  /\ request' = [request EXCEPT ![r] = "failed"]
  /\ UNCHANGED <<at, collection, cache, runs>>

\* Mutant: a request that times out keeps the rate lock.
Fail_KeepsLock(r) ==
  /\ at \in {"mapping", "gather"} /\ ~Storing
  /\ r \in Holding
  /\ GiveSlot
  /\ request' = [request EXCEPT ![r] = "failed"]
  /\ UNCHANGED <<at, collection, pace, cache, runs>>

\* No response: the provider raises, or the time is up, in the queue for the
\* rate lock or later.
Fail(r) ==
  /\ at \in {"mapping", "gather"} /\ ~Storing
  /\ r \in Holding
  /\ Unlock(r)
  /\ GiveSlot
  /\ request' = [request EXCEPT ![r] = "failed"]
  /\ UNCHANGED <<at, collection, sinceLast, sinceSent, answered, cache, runs>>

Passed(t) == IF t < Interval THEN t + 1 ELSE t

Tick ==
  /\ ~Storing
  /\ sinceLast < Interval \/ sinceSent < Interval
  /\ sinceLast' = Passed(sinceLast)
  /\ sinceSent' = Passed(sinceSent)
  /\ UNCHANGED <<at, collection, request, slots, holder, answered, cache, runs>>

--------------------------------------------------------------------------------
(* What becomes of an issuer.                                              *)

Lost(m, phase) == failures' = failures \cup {<<m, "sec", phase>>} /\ UNCHANGED evidence

\* The failures of the quote, which never loses the issuer.
QuoteFailures(m) ==
  CASE manifest                        -> {{}}
    [] request[Quote(m)] = "failed"    -> {{<<m, "yfinance", "snapshot">>}}
    [] OTHER                           -> {{}, {<<m, "yfinance", "normalization">>}}

\* Mutant: a failing quote loses the issuer.
Keep_QuoteDecides(m, quote) ==
  /\ evidence' = IF quote = {} THEN evidence \cup {m} ELSE evidence
  /\ failures' = failures \cup quote

Keep(m, quote) ==
  \/ evidence' = evidence \cup {m} /\ failures' = failures \cup quote
  \/ failures' = failures \cup quote \cup {<<m, "sec", "evidence_selection">>} /\ UNCHANGED evidence

\* _collect_issuer and _collect_manifest_issuer once their requests are settled:
\* without facts, or without a mapping of them, the quote is not looked at;
\* anything unforeseen becomes the one failure of the issuer.
Assemble(m) ==
  /\ at = "gather" /\ ~Storing
  /\ m \in batch
  /\ RequestsOf(m) \subseteq Settled
  /\ batch' = batch \ {m}
  /\ IF request[Facts(m)] = "failed"
     THEN Lost(m, "company_facts")
     ELSE \/ Lost(m, "normalization")
          \/ Lost(m, "issuer_collection")
          \/ \E quote \in QuoteFailures(m) : Keep(m, quote)
  /\ UNCHANGED <<at, manifest, size, offset, request, slots, pace, cache, runs>>

Deliver ==
  /\ at = "gather" /\ ~Storing
  /\ batch = {}
  /\ at' = IF manifest THEN "yielded" ELSE "done"
  /\ UNCHANGED <<collection, request, slots, pace, cache, runs>>

--------------------------------------------------------------------------------
(* Cancellation and the death of the process.                              *)

\* The task that awaits the collection is cancelled, and with it every task of
\* the gather; a manifest that is suspended at its yield is closed.
Cancel ==
  /\ at \in {"mapping", "gather", "yielded"} /\ ~Storing
  /\ at' = "stopping"
  /\ UNCHANGED <<collection, request, slots, pace, cache, runs>>

Unwind(r) ==
  /\ at = "stopping"
  /\ r \notin Settled
  /\ Unlock(r)
  /\ IF r \in Holding THEN GiveSlot ELSE UNCHANGED slots
  /\ request' = [request EXCEPT ![r] = "cancelled"]
  /\ UNCHANGED <<at, collection, sinceLast, sinceSent, answered, cache, runs>>

Cancelled ==
  /\ at = "stopping"
  /\ Settled = Request
  /\ at' = "cancelled"
  /\ UNCHANGED <<collection, request, slots, pace, cache, runs>>

\* Another process on the same cache, after the end or the death of this one.
Restart ==
  /\ runs < MaxRuns
  /\ at # "start"
  /\ at' = "start"
  /\ manifest' = FALSE /\ size' = 0 /\ offset' = 0 /\ batch' = {}
  /\ evidence' = {} /\ failures' = {}
  /\ request' = [r \in Request |-> "none"]
  /\ free' = Slots /\ active' = 0 /\ peak' = 0
  /\ holder' = Nobody /\ sinceLast' = Interval /\ sinceSent' = Interval /\ answered' = FALSE
  /\ runs' = runs + 1
  /\ UNCHANGED <<blobs, refs>>

--------------------------------------------------------------------------------
Requesting(r) == Acquire(r) \/ Lock(r) \/ Send(r) \/ Answer(r) \/ Store(r) \/ Reject(r) \/ Fail(r)
                 \/ Unwind(r)

\* What the event loop, the providers and the consumer of the batches do.
Progress ==
  \/ Collect \/ Resolve \/ Unresolved \/ CollectManifest \/ NextBatch \/ Deliver \/ Cancelled \/ Tick
  \/ \E r \in Request : Requesting(r)
  \/ \E m \in Members : Assemble(m)

Next == Progress \/ Cancel \/ Restart

Spec == Init /\ [][Next]_vars

\* Every request is answered or times out and the consumer comes back.
\* Nobody owes a cancellation or a restart.
FairSpec == Spec /\ WF_vars(Progress)

--------------------------------------------------------------------------------
(* Properties.                                                             *)

Phases == {"ticker_resolution", "company_facts", "normalization", "snapshot",
           "evidence_selection", "issuer_collection"}

\* Every variable has its type.
TypeOK ==
  /\ at \in Place
  /\ manifest \in BOOLEAN
  /\ size \in Nat /\ offset \in Nat
  /\ size <= (IF manifest THEN MaxMembers ELSE MaxTickers) /\ offset <= size
  /\ batch \subseteq 1..offset
  /\ evidence \subseteq Members
  /\ failures \subseteq Members \X {"sec", "yfinance"} \X Phases
  /\ request \in [Request -> Life]
  /\ free \in Int /\ active \in Int /\ peak \in Int
  /\ holder \in Sec \cup {Nobody}
  /\ sinceLast \in 0..Interval /\ sinceSent \in 0..Interval
  /\ answered \in BOOLEAN
  /\ blobs \subseteq Request /\ refs \subseteq Request
  /\ runs \in Nat

\* _provider_call and _get_json: whatever fails, times out or is cancelled, the
\* semaphore, the counter and the rate lock tell the requests that are alive;
\* no more than provider_slots are, the reported peak covers them, at most one
\* SEC request is paced or in flight, and a collection that is over holds nothing.
SlotsHonest ==
  /\ active = Cardinality(Holding)
  /\ free = Slots - active
  /\ active <= peak /\ peak <= Slots
  /\ \A r \in Sec : request[r] \in {"pacing", "sent"} <=> holder = r
  /\ at \in Over => Holding = {} /\ ~Storing

\* A SEC request is never sent sooner than the interval after the one before it,
\* provided that one was answered (_get_json, requests_per_second).
Sending == \E r \in Sec : request[r] = "pacing" /\ request'[r] = "sent"
PaceKept == [][Sending /\ answered => sinceSent = Interval]_vars

\* docs/architecture.md: "stays at or below the SEC's published
\* ten-request-per-second ceiling", whatever became of the request before.
CeilingKept == [][Sending => sinceSent = Interval]_vars

\* A process that died between the two writes of put() leaves a cache that can
\* be read: a reference always names a blob, and what a packet was built from
\* is there for the next process.
CacheReadable ==
  /\ refs \subseteq blobs
  /\ \A m \in evidence : Key(Facts(m)) \in refs

\* Partial failure stays with its issuer: an issuer asked for has a packet or a
\* SEC failure that says why not, never both, and a quote alone never loses it.
Asked == IF at = "yielded" \/ at = "done" THEN 1..offset ELSE {}
FailuresIsolated ==
  \A m \in Asked :
    /\ m \in evidence <=> \A f \in failures : f[1] = m => f[2] = "yfinance"
    /\ m \in evidence => request[Facts(m)] = "ok"

\* Every collection ends, with the providers mute or failing (the timeout of
\* _provider_call is what makes it so).
Ends == []<>(at \in Over)
================================================================================
