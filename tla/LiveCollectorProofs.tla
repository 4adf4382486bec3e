--------------------------- MODULE LiveCollectorProofs --------------------------
(***************************************************************************)
(* Theorems about LiveCollector, for every universe, assignment of CIKs,   *)
(* batch size, number of slots, interval and number of processes.          *)
(*                                                                         *)
(* The invariant has one part per resource: which requests may be alive at *)
(* each place of the collector (Alive), the slots and the counter          *)
(* (Counted), the rate lock (Locked), the two clocks (Paced), what is in   *)
(* the cache (Stored), and what is known of each issuer (Told).            *)
(*                                                                         *)
(* Then the evidence the collector brings: the ledger the observations go  *)
(* to, for every sequence of batches, and the mappings of the payloads.    *)
(***************************************************************************)
EXTENDS LiveCollector, Sourcing, FiniteSetTheorems, SequenceTheorems, WellFoundedInduction, TLAPS

\* Requests are alive only while a gather, the mapping or a cancellation waits
\* for them, and in a gather only those of issuers whose result is to come.
Alive ==
  /\ at \in {"start", "yielded"} \cup Over => Settled = Request
  /\ at = "mapping" => \A r \in Request : r # Mapping => r \in Settled
  /\ at = "gather" =>
       /\ \A r \in Request : r \in Settled \/ (r[2] \in batch /\ r \in RequestsOf(r[2]))
       /\ \A m \in batch : \A r \in RequestsOf(m) : request[r] \notin {"none", "cancelled"}
  /\ at = "stopping" => ~Storing
  /\ at \in {"start", "mapping"} => ~manifest /\ offset = 0
  /\ ~(at = "gather") => batch = {} \/ at \in {"stopping", "cancelled"}

Counted ==
  /\ active = Cardinality(Holding)
  /\ free = Slots - active
  /\ active <= peak /\ peak <= Slots

Locked ==
  /\ \A r \in Sec : request[r] \in {"pacing", "sent"} <=> holder = r
  /\ \A r \in Request : request[r] \in {"locking", "pacing"} => r \in Sec

Paced == answered => sinceLast <= sinceSent

Stored ==
  /\ refs \subseteq blobs
  /\ \A r \in Request : request[r] = "storing" => Key(r) \in blobs
  /\ \A r \in Request : request[r] = "ok" => Key(r) \in refs
  /\ \A m \in evidence : Key(Facts(m)) \in refs

\* Of an issuer whose result is in, one verdict; of any other, nothing yet.
Verdict(m) ==
  /\ m \in evidence <=> \A f \in failures : f[1] = m => f[2] = "yfinance"
  /\ m \in evidence => request[Facts(m)] = "ok"
Unheard(m) == m \notin evidence /\ \A f \in failures : f[1] # m

Told ==
  /\ at \in {"yielded", "done"} => \A m \in 1..offset : Verdict(m)
  /\ at = "gather" => \A m \in (1..offset) \ batch : Verdict(m)
  /\ at \in {"start", "mapping", "gather", "yielded"} =>
       \A m \in Members : m > offset \/ m \in batch => Unheard(m)

IInv == TypeOK /\ Alive /\ Counted /\ Locked /\ Paced /\ Stored /\ Told

--------------------------------------------------------------------------------
(* The requests.                                                           *)

LEMMA MembersFacts == Members \subseteq Nat \ {0} /\ 1..MaxTickers \subseteq Members /\ 1..MaxMembers \subseteq Members
BY CollectorAssumption DEF Members

LEMMA MembersAsked == TypeOK => 1..size \subseteq Members /\ 1..offset \subseteq 1..size /\ batch \subseteq 1..offset
<1>. SUFFICES ASSUME TypeOK
              PROVE  1..size \subseteq Members /\ 1..offset \subseteq 1..size /\ batch \subseteq 1..offset
  OBVIOUS
<1>1. /\ offset <= size /\ size \in Nat /\ offset \in Nat /\ batch \subseteq 1..offset
      /\ size <= (IF manifest THEN MaxMembers ELSE MaxTickers)
  BY DEF TypeOK
<1>2. 1..size \subseteq Members
  BY <1>1, MembersFacts, CollectorAssumption
<1>. QED
  BY <1>1, <1>2

LEMMA RequestFacts ==
  /\ Mapping \in Sec
  /\ \A m \in Members : /\ Facts(m) \in Sec /\ Facts(m) # Mapping /\ Facts(m)[2] = m
                        /\ Quote(m) \in Request \ Sec /\ Quote(m)[2] = m
  /\ \A r \in Request : \/ r = Mapping
                        \/ r[2] \in Members /\ (r = Facts(r[2]) \/ r = Quote(r[2]))
  /\ Sec \subseteq Request
  /\ Nobody \notin Request
  /\ \A r \in Request : Key(r) \in Request
<1>. USE MembersFacts DEF Request, Sec, Mapping, Facts, Quote, Nobody
<1>1. Mapping \in Sec /\ Sec \subseteq Request
  OBVIOUS
<1>2. ASSUME NEW m \in Members
      PROVE  /\ Facts(m) \in Sec /\ Facts(m) # Mapping /\ Facts(m)[2] = m
             /\ Quote(m) \in Request \ Sec /\ Quote(m)[2] = m
  <2>1. Facts(m) \in Request /\ Quote(m) \in Request
    OBVIOUS
  <2>2. Facts(m)[1] = "sec" /\ Quote(m)[1] = "yfinance" /\ "sec" # "yfinance"
    OBVIOUS
  <2>3. m # 0
    BY MembersFacts
  <2>. QED
    BY <2>1, <2>2, <2>3
<1>3. ASSUME NEW r \in Request
      PROVE  r = Mapping \/ (r[2] \in Members /\ (r = Facts(r[2]) \/ r = Quote(r[2])))
  OBVIOUS
<1>4. Nobody \notin Request
  OBVIOUS
<1>5. ASSUME NEW r \in Request
      PROVE  Key(r) \in Request
  <2>1. CASE r \in Sec /\ r # Mapping
    <3>1. r[2] \in Members
      BY <1>3, <2>1
    <3>2. CikOf[r[2]] \in Members
      BY <3>1, CollectorAssumption
    <3>. QED
      BY <2>1, <3>2 DEF Key
  <2>2. CASE ~(r \in Sec /\ r # Mapping)
    BY <2>2 DEF Key
  <2>. QED
    BY <2>1, <2>2
<1>. QED
  BY <1>1, <1>2, <1>3, <1>4, <1>5

LEMMA RequestsFinite == IsFiniteSet(Request)
<1>1. IsFiniteSet({"sec", "yfinance"})
  <2>1. IsFiniteSet({"sec"}) /\ IsFiniteSet({"yfinance"})
    BY FS_Singleton
  <2>2. IsFiniteSet({"sec"} \cup {"yfinance"})
    BY <2>1, FS_Union
  <2>3. {"sec"} \cup {"yfinance"} = {"sec", "yfinance"}
    OBVIOUS
  <2>. QED
    BY <2>2, <2>3
<1>2. PICK n \in Nat : Members = 1..n
  BY CollectorAssumption DEF Members
<1>3. IsFiniteSet(0..n)
  BY <1>2, FS_Interval
<1>4. IsFiniteSet({"sec", "yfinance"} \X (0..n))
  BY <1>1, <1>3, FS_Product
<1>5. Request \subseteq {"sec", "yfinance"} \X (0..n)
  BY <1>2 DEF Request, Mapping, Facts, Quote
<1>. QED
  BY <1>4, <1>5, FS_Subset

\* What the change of one request does to the requests that hold a slot.
LEMMA OneMoves ==
  ASSUME request \in [Request -> Life], NEW r \in Request, NEW v \in Life,
         request' = [request EXCEPT ![r] = v]
  PROVE  /\ request' \in [Request -> Life]
         /\ Cardinality(Holding) \in Nat
         /\ r \notin Holding /\ v \in {"locking", "pacing", "sent"} =>
              Cardinality(Holding') = Cardinality(Holding) + 1
         /\ r \in Holding /\ v \notin {"locking", "pacing", "sent"} =>
              Cardinality(Holding') = Cardinality(Holding) - 1
         /\ r \in Holding /\ v \in {"locking", "pacing", "sent"} => Holding' = Holding
         /\ r \notin Holding /\ v \notin {"locking", "pacing", "sent"} => Holding' = Holding
         /\ Settled' = IF v \in {"none", "ok", "failed", "cancelled"} THEN Settled \cup {r} ELSE Settled \ {r}
         /\ Storing' <=> v = "storing" \/ \E q \in Request \ {r} : request[q] = "storing"
<1>1. IsFiniteSet(Holding) /\ Cardinality(Holding) \in Nat
  BY RequestsFinite, FS_Subset, FS_CardinalityType DEF Holding
<1>2. request' \in [Request -> Life] /\ \A q \in Request : request'[q] = IF q = r THEN v ELSE request[q]
  OBVIOUS
<1>3. ASSUME r \notin Holding, v \in {"locking", "pacing", "sent"}
      PROVE  Cardinality(Holding') = Cardinality(Holding) + 1
  <2>1. Holding' = Holding \cup {r}
    BY <1>2, <1>3 DEF Holding
  <2>. QED
    BY <1>1, <1>3, <2>1, FS_AddElement
<1>4. ASSUME r \in Holding, v \notin {"locking", "pacing", "sent"}
      PROVE  Cardinality(Holding') = Cardinality(Holding) - 1
  <2>1. Holding' = Holding \ {r}
    BY <1>2, <1>4 DEF Holding
  <2>. QED
    BY <1>1, <1>4, <2>1, FS_RemoveElement
<1>5. /\ r \in Holding /\ v \in {"locking", "pacing", "sent"} => Holding' = Holding
      /\ r \notin Holding /\ v \notin {"locking", "pacing", "sent"} => Holding' = Holding
  BY <1>2 DEF Holding
<1>6. Settled' = IF v \in {"none", "ok", "failed", "cancelled"} THEN Settled \cup {r} ELSE Settled \ {r}
  BY <1>2 DEF Settled
<1>7. Storing' <=> v = "storing" \/ \E q \in Request \ {r} : request[q] = "storing"
  BY <1>2 DEF Storing
<1>. QED
  BY <1>1, <1>2, <1>3, <1>4, <1>5, <1>6, <1>7

--------------------------------------------------------------------------------
(* One step of one request.                                                *)

\* A request that moves is alive and leaves the collector where it is; only a
\* cancellation cancels it.
LEMMA OneRequest ==
  ASSUME TypeOK, Alive, NEW r \in Request, Requesting(r)
  PROVE  /\ r \notin Settled
         /\ at \in {"mapping", "gather", "stopping"}
         /\ UNCHANGED <<at, collection, runs>>
         /\ \E v \in Life : /\ request' = [request EXCEPT ![r] = v]
                            /\ v \notin {"none", "waiting"}
                            /\ v = "cancelled" <=> at = "stopping"
                            /\ v = "storing" => at # "stopping"
<1>1. CASE Acquire(r)
  BY <1>1 DEF Acquire, Settled, Life
<1>2. CASE Lock(r)
  BY <1>2 DEF Lock, Settled, Life
<1>3. CASE Send(r)
  BY <1>3 DEF Send, Settled, Life
<1>4. CASE Answer(r)
  BY <1>4 DEF Answer, Settled, Life
<1>5. CASE Store(r)
  <2>1. r \notin Settled /\ Storing
    BY <1>5 DEF Store, Settled, Storing
  <2>2. at \in {"mapping", "gather"}
    BY <2>1 DEF TypeOK, Place, Alive
  <2>. QED
    BY <1>5, <2>1, <2>2 DEF Store, Life
<1>6. CASE Reject(r)
  BY <1>6 DEF Reject, Settled, Life
<1>7. CASE Fail(r)
  BY <1>7 DEF Fail, Settled, Holding, Life
<1>8. CASE Unwind(r)
  BY <1>8 DEF Unwind, Life
<1>. QED
  BY <1>1, <1>2, <1>3, <1>4, <1>5, <1>6, <1>7, <1>8 DEF Requesting

\* The slots: what is taken is given back with the life of the request.
LEMMA OneSlot ==
  ASSUME TypeOK, Alive, Counted, NEW r \in Request, Requesting(r)
  PROVE  Counted' /\ free' \in Int /\ active' \in Int /\ peak' \in Int
<1>. USE CollectorAssumption DEF Counted
<1>0. request \in [Request -> Life] /\ free \in Int /\ active \in Int /\ peak \in Int
  BY DEF TypeOK
<1>1. CASE Acquire(r)
  <2>1. PICK v \in {"locking", "sent"} : request' = [request EXCEPT ![r] = v]
    BY <1>1 DEF Acquire
  <2>2. r \notin Holding /\ v \in Life
    BY <1>1 DEF Acquire, Holding, Life
  <2>3. Cardinality(Holding') = Cardinality(Holding) + 1
    BY <1>0, <2>1, <2>2, OneMoves
  <2>4. free > 0 /\ free' = free - 1 /\ active' = active + 1
        /\ peak' = IF peak > active' THEN peak ELSE active'
    BY <1>1 DEF Acquire, TakeSlot
  <2>. QED
    BY <1>0, <2>3, <2>4
<1>2. CASE Lock(r) \/ Send(r)
  <2>1. PICK v \in {"pacing", "sent"} : request' = [request EXCEPT ![r] = v]
    BY <1>2 DEF Lock, Send
  <2>2. r \in Holding /\ v \in Life
    BY <1>2 DEF Lock, Send, Holding, Life
  <2>3. Holding' = Holding
    BY <1>0, <2>1, <2>2, OneMoves
  <2>4. UNCHANGED slots
    BY <1>2 DEF Lock, Send
  <2>. QED
    BY <1>0, <2>3, <2>4 DEF slots
<1>5. CASE Store(r)
  <2>1. PICK v \in {"ok", "failed"} : request' = [request EXCEPT ![r] = v]
    BY <1>5 DEF Store
  <2>2. r \notin Holding /\ v \in Life
    BY <1>5 DEF Store, Holding, Life
  <2>3. Holding' = Holding
    BY <1>0, <2>1, <2>2, OneMoves
  <2>4. UNCHANGED slots
    BY <1>5 DEF Store
  <2>. QED
    BY <1>0, <2>3, <2>4 DEF slots
<1>3. CASE Answer(r) \/ Reject(r) \/ Fail(r) \/ (Unwind(r) /\ r \in Holding)
  <2>1. PICK v \in {"storing", "failed", "cancelled"} : request' = [request EXCEPT ![r] = v]
    BY <1>3 DEF Answer, Reject, Fail, Unwind
  <2>2. r \in Holding /\ v \in Life
    BY <1>3 DEF Answer, Reject, Fail, Holding, Life
  <2>3. Cardinality(Holding') = Cardinality(Holding) - 1 /\ Cardinality(Holding) \in Nat
    BY <1>0, <2>1, <2>2, OneMoves
  <2>4. GiveSlot
    BY <1>3 DEF Answer, Reject, Fail, Unwind
  <2>. QED
    BY <1>0, <2>3, <2>4 DEF GiveSlot
<1>4. CASE Unwind(r) /\ r \notin Holding
  <2>1. Holding' = Holding
    BY <1>0, <1>4, OneMoves DEF Unwind, Life
  <2>. QED
    BY <1>0, <1>4, <2>1 DEF Unwind, slots
<1>. QED
  BY <1>1, <1>2, <1>3, <1>4, <1>5 DEF Requesting

\* The rate lock and the clocks.
LEMMA OnePace ==
  ASSUME TypeOK, Locked, Paced, NEW r \in Request, Requesting(r)
  PROVE  /\ Locked' /\ Paced'
         /\ holder' \in Sec \cup {Nobody} /\ answered' \in BOOLEAN
         /\ sinceLast' \in 0..Interval /\ sinceSent' \in 0..Interval
<1>. USE CollectorAssumption, RequestFacts
<1>0. /\ request \in [Request -> Life] /\ holder \in Sec \cup {Nobody}
      /\ sinceLast \in 0..Interval /\ sinceSent \in 0..Interval /\ answered \in BOOLEAN
  BY DEF TypeOK
<1>1. CASE Acquire(r)
  BY <1>0, <1>1 DEF Acquire, pace, Locked, Paced
<1>2. CASE Lock(r)
  <2>2. r \in Sec
    BY <1>2 DEF Lock, Locked
  <2>. QED
    BY <1>0, <1>2, <2>2 DEF Lock, Locked, Paced
<1>3. CASE Send(r)
  <2>1. /\ request[r] = "pacing" /\ request'[r] = "sent" /\ r \in Sec
        /\ \A q \in Request \ {r} : request'[q] = request[q]
        /\ UNCHANGED <<holder, sinceLast>> /\ sinceSent' = 0 /\ answered' = FALSE
    BY <1>0, <1>3 DEF Send, Locked
  <2>2. Locked'
    BY <2>1 DEF Locked
  <2>3. 0 \in 0..Interval
    OBVIOUS
  <2>. QED
    BY <1>0, <2>1, <2>2, <2>3 DEF Paced
<1>4. CASE Answer(r) \/ Reject(r)
  <2>1. /\ request[r] = "sent" /\ request'[r] \in {"storing", "failed"}
        /\ \A q \in Request \ {r} : request'[q] = request[q]
    BY <1>0, <1>4 DEF Answer, Reject
  <2>2. Respond(r)
    BY <1>4 DEF Answer, Reject
  <2>3. CASE r \in Sec
    <3>1. holder = r /\ holder' = Nobody /\ sinceLast' = 0 /\ answered' = TRUE /\ UNCHANGED sinceSent
      BY <2>1, <2>2, <2>3 DEF Respond, Unlock, Locked
    <3>2. Locked'
      BY <2>1, <2>3, <3>1 DEF Locked
    <3>3. 0 \in 0..Interval /\ 0 <= sinceSent
      BY <1>0
    <3>. QED
      BY <1>0, <3>1, <3>2, <3>3 DEF Paced
  <2>4. CASE r \notin Sec
    <3>1. holder # r /\ UNCHANGED <<holder, sinceLast, sinceSent, answered>>
      BY <1>0, <2>2, <2>4 DEF Respond, Unlock
    <3>. QED
      BY <1>0, <2>1, <2>4, <3>1 DEF Locked, Paced
  <2>. QED
    BY <2>3, <2>4
<1>5. CASE Store(r)
  BY <1>0, <1>5 DEF Store, pace, Locked, Paced
<1>6. CASE Fail(r) \/ Unwind(r)
  <2>1. /\ request'[r] \in {"failed", "cancelled"} /\ UNCHANGED <<sinceLast, sinceSent, answered>>
        /\ \A q \in Request \ {r} : request'[q] = request[q]
    BY <1>0, <1>6 DEF Fail, Unwind
  <2>2. Unlock(r)
    BY <1>6 DEF Fail, Unwind
  <2>. QED
    BY <1>0, <2>1, <2>2 DEF Unlock, Locked, Paced
<1>. QED
  BY <1>1, <1>2, <1>3, <1>4, <1>5, <1>6 DEF Requesting

\* The cache: a blob before its reference, and a reference before its "ok".
LEMMA OneStored ==
  ASSUME TypeOK, Alive, Stored, NEW r \in Request, Requesting(r)
  PROVE  Stored' /\ blobs' \subseteq Request /\ refs' \subseteq Request
<1>. USE RequestFacts
<1>0. request \in [Request -> Life] /\ blobs \subseteq Request /\ refs \subseteq Request
  BY DEF TypeOK
<1>1. UNCHANGED evidence
  BY OneRequest DEF collection
<1>2. CASE Answer(r)
  <2>1. /\ request'[r] = "storing" /\ blobs' = blobs \cup {Key(r)} /\ UNCHANGED refs
        /\ \A q \in Request \ {r} : request'[q] = request[q]
    BY <1>0, <1>2 DEF Answer
  <2>. QED
    BY <1>0, <1>1, <2>1 DEF Stored
<1>3. CASE Store(r)
  <2>1. /\ request[r] = "storing" /\ UNCHANGED blobs
        /\ \A q \in Request \ {r} : request'[q] = request[q]
        /\ \/ refs' = refs \cup {Key(r)} /\ request'[r] = "ok"
           \/ refs' = refs /\ request'[r] = "failed"
    BY <1>0, <1>3 DEF Store
  <2>. QED
    BY <1>0, <1>1, <2>1 DEF Stored
<1>4. CASE Acquire(r) \/ Lock(r) \/ Send(r) \/ Reject(r) \/ Fail(r) \/ Unwind(r)
  <2>1. /\ request'[r] \notin {"storing", "ok"} /\ UNCHANGED <<blobs, refs>>
        /\ \A q \in Request \ {r} : request'[q] = request[q]
    BY <1>0, <1>4 DEF Acquire, Lock, Send, Reject, Fail, Unwind, cache
  <2>. QED
    BY <1>0, <1>1, <2>1 DEF Stored
<1>. QED
  BY <1>2, <1>3, <1>4 DEF Requesting

LEMMA RequestStep ==
  ASSUME IInv, NEW r \in Request, Requesting(r)
  PROVE  IInv'
<1>. USE RequestFacts DEF IInv
<1>1. /\ r \notin Settled /\ at \in {"mapping", "gather", "stopping"}
      /\ UNCHANGED <<at, manifest, size, offset, batch, evidence, failures, runs>>
  BY OneRequest DEF collection
<1>2. PICK v \in Life : /\ request' = [request EXCEPT ![r] = v]
                        /\ v \notin {"none", "waiting"}
                        /\ v = "cancelled" <=> at = "stopping"
                        /\ v = "storing" => at # "stopping"
  BY OneRequest
<1>3. request \in [Request -> Life]
  BY DEF TypeOK
<1>4. /\ request' \in [Request -> Life]
      /\ Settled' \in {Settled \cup {r}, Settled \ {r}}
      /\ Storing' <=> v = "storing" \/ \E q \in Request \ {r} : request[q] = "storing"
  BY <1>2, <1>3, OneMoves
<1>5. request'[r] = v /\ \A q \in Request \ {r} : request'[q] = request[q]
  BY <1>2, <1>3
<1>6. TypeOK'
  <2>1. free' \in Int /\ active' \in Int /\ peak' \in Int
    BY OneSlot
  <2>2. /\ holder' \in Sec \cup {Nobody} /\ answered' \in BOOLEAN
        /\ sinceLast' \in 0..Interval /\ sinceSent' \in 0..Interval
    BY OnePace
  <2>3. blobs' \subseteq Request /\ refs' \subseteq Request
    BY OneStored
  <2>. QED
    BY <1>1, <1>4, <2>1, <2>2, <2>3 DEF TypeOK
<1>7. Alive'
  <2>1. CASE at = "mapping"
    <3>1. r = Mapping
      BY <1>1, <2>1 DEF Alive
    <3>. QED
      BY <1>1, <1>4, <2>1, <3>1 DEF Alive, Over
  <2>2. CASE at = "gather"
    <3>1. r[2] \in batch /\ r \in RequestsOf(r[2])
      BY <1>1, <2>2 DEF Alive
    <3>2. \A q \in Request : q \in Settled' \/ (q[2] \in batch /\ q \in RequestsOf(q[2]))
      BY <1>4, <2>2, <3>1 DEF Alive
    <3>3. \A m \in batch : \A q \in RequestsOf(m) : request'[q] \notin {"none", "cancelled"}
      <4>1. \A m \in batch : \A q \in RequestsOf(m) : q \in Request /\ request[q] \notin {"none", "cancelled"}
        <5>1. batch \subseteq Members
          BY MembersAsked
        <5>. QED
          BY <2>2, <5>1 DEF Alive, RequestsOf
      <4>. QED
        BY <1>2, <1>5, <2>2, <4>1
    <3>4. \A m : RequestsOf(m)' = RequestsOf(m)
      BY <1>1 DEF RequestsOf
    <3>. QED
      BY <1>1, <2>2, <3>2, <3>3, <3>4 DEF Alive, Over
  <2>3. CASE at = "stopping"
    <3>1. ~Storing'
      BY <1>2, <1>4, <2>3 DEF Alive, Storing
    <3>. QED
      BY <1>1, <2>3, <3>1 DEF Alive, Over
  <2>. QED
    BY <1>1, <2>1, <2>2, <2>3
<1>8. Counted'
  BY OneSlot
<1>9. Locked' /\ Paced'
  BY OnePace
<1>10. Stored'
  BY OneStored
<1>11. Told'
  <2>1. \A m \in Members : request[Facts(m)] = "ok" => request'[Facts(m)] = "ok"
    <3>1. request[r] # "ok"
      BY <1>1 DEF Settled
    <3>. QED
      BY <1>5, <3>1
  <2>2. 1..offset \subseteq Members
    BY MembersAsked
  <2>3. \A m \in 1..offset : Verdict(m) => Verdict(m)'
    BY <1>1, <2>1, <2>2 DEF Verdict
  <2>4. \A m : Unheard(m) => Unheard(m)'
    BY <1>1 DEF Unheard
  <2>. QED
    BY <1>1, <2>3, <2>4 DEF Told
<1>. QED
  BY <1>6, <1>7, <1>8, <1>9, <1>10, <1>11

--------------------------------------------------------------------------------
(* A gather starts when nothing else is alive.                             *)

LEMMA NothingHeld ==
  ASSUME request \in [Request -> Life]
  PROVE  /\ Settled = Request => Holding = {} /\ ~Storing
         /\ (\A r \in Request : request[r] \in {"none", "waiting", "ok", "failed", "cancelled"})
              => Holding = {} /\ ~Storing
BY DEF Settled, Holding, Storing

LEMMA AskStep ==
  ASSUME IInv, Settled = Request, NEW wanted \in SUBSET Request, Ask(wanted),
         UNCHANGED <<slots, pace, cache>>, evidence' = evidence
  PROVE  /\ request' \in [Request -> Life]
         /\ \A r \in wanted : request'[r] \in {"ok", "waiting"}
         /\ \A r \in Request \ wanted : request'[r] = request[r]
         /\ \A r \in Request \ wanted : r \in Settled'
         /\ ~Storing'
         /\ Counted' /\ Locked' /\ Paced' /\ Stored'
<1>. USE RequestFacts DEF IInv
<1>0. request \in [Request -> Life]
  BY DEF TypeOK
<1>1. PICK fresh \in SUBSET refs :
        request' = [r \in Request |-> IF r \notin wanted THEN request[r]
                                      ELSE IF Key(r) \in fresh THEN "ok" ELSE "waiting"]
  BY DEF Ask
<1>2. /\ request' \in [Request -> Life]
      /\ \A r \in wanted : request'[r] \in {"ok", "waiting"} /\ (request'[r] = "ok" => Key(r) \in refs)
      /\ \A r \in Request \ wanted : request'[r] = request[r]
  BY <1>0, <1>1 DEF Life
<1>3. \A r \in Request : request[r] \in {"none", "ok", "failed", "cancelled"}
  BY DEF Settled
<1>4. \A r \in Request : request'[r] \in {"none", "waiting", "ok", "failed", "cancelled"}
  BY <1>2, <1>3
<1>5. Holding = {} /\ Holding' = {} /\ ~Storing'
  BY <1>2, <1>3, <1>4 DEF Holding, Storing
<1>6. \A r \in Request \ wanted : r \in Settled'
  BY <1>2, <1>3 DEF Settled
<1>7. Counted'
  BY <1>5 DEF Counted, slots
<1>8. Locked' /\ Paced'
  <2>1. \A r \in Sec : request[r] \notin {"pacing", "sent"} /\ request'[r] \notin {"pacing", "sent"}
    BY <1>3, <1>4
  <2>2. \A r \in Request : request'[r] \notin {"locking", "pacing"}
    BY <1>4
  <2>. QED
    BY <2>1, <2>2 DEF Locked, Paced, pace
<1>9. Stored'
  BY <1>2, <1>4 DEF Stored, cache
<1>. QED
  BY <1>2, <1>5, <1>6, <1>7, <1>8, <1>9

LEMMA GatherStep ==
  ASSUME IInv, Settled = Request, NEW members \in SUBSET Members, Gather(members),
         UNCHANGED <<slots, pace, cache>>, evidence' = evidence, manifest' = manifest
  PROVE  /\ request' \in [Request -> Life]
         /\ \A m \in Members \ members : request'[Facts(m)] = request[Facts(m)]
         /\ Alive' /\ Counted' /\ Locked' /\ Paced' /\ Stored'
<1>. USE RequestFacts
<1>. DEFINE wanted == UNION {RequestsOf(m) : m \in members}
<1>1. wanted \in SUBSET Request /\ \A r \in wanted : r[2] \in members /\ r \in RequestsOf(r[2])
  BY DEF RequestsOf
<1>2. at' = "gather" /\ batch' = members /\ Ask(wanted)
  BY DEF Gather
<1>3. /\ request' \in [Request -> Life]
      /\ \A r \in wanted : request'[r] \in {"ok", "waiting"}
      /\ \A r \in Request \ wanted : request'[r] = request[r]
      /\ \A r \in Request \ wanted : r \in Settled'
      /\ ~Storing'
      /\ Counted' /\ Locked' /\ Paced' /\ Stored'
  BY <1>1, <1>2, AskStep
<1>4. \A m \in Members \ members : request'[Facts(m)] = request[Facts(m)]
  <2>1. \A m \in Members \ members : Facts(m) \in Request \ wanted
    BY <1>1
  <2>. QED
    BY <1>3, <2>1
<1>5. \A m : RequestsOf(m)' = RequestsOf(m)
  BY DEF RequestsOf
<1>6. \A m \in members : \A r \in RequestsOf(m) : r \in wanted
  OBVIOUS
<1>. HIDE DEF wanted
<1>7. Alive'
  <2>1. \A r \in Request : r \in Settled' \/ (r[2] \in members /\ r \in RequestsOf(r[2]))
    BY <1>1, <1>3
  <2>2. \A m \in members : \A r \in RequestsOf(m) : request'[r] \notin {"none", "cancelled"}
    BY <1>3, <1>6
  <2>. QED
    BY <1>2, <1>5, <2>1, <2>2 DEF Alive, Over
<1>. QED
  BY <1>3, <1>4, <1>7

LEMMA CollectStep == IInv /\ Collect => IInv'
<1>. SUFFICES ASSUME IInv, Collect PROVE IInv'
  OBVIOUS
<1>. USE RequestFacts DEF IInv
<1>1. /\ at = "start" /\ at' = "mapping" /\ size' \in 1..MaxTickers /\ Ask({Mapping})
      /\ UNCHANGED <<manifest, offset, batch, evidence, failures, slots, pace, cache, runs>>
  BY DEF Collect
<1>2. Settled = Request /\ ~manifest /\ offset = 0 /\ batch = {}
  BY <1>1 DEF Alive
<1>3. /\ request' \in [Request -> Life]
      /\ \A r \in Request \ {Mapping} : r \in Settled'
      /\ Counted' /\ Locked' /\ Paced' /\ Stored'
  BY <1>1, <1>2, AskStep
<1>4. TypeOK'
  BY <1>1, <1>2, <1>3, CollectorAssumption DEF TypeOK, Place, slots, pace, cache
<1>5. Alive'
  BY <1>1, <1>2, <1>3 DEF Alive, Over
<1>6. Told'
  BY <1>1, <1>2 DEF Told, Unheard
<1>. QED
  BY <1>3, <1>4, <1>5, <1>6

LEMMA ResolveStep == IInv /\ Resolve => IInv'
<1>. SUFFICES ASSUME IInv, Resolve PROVE IInv'
  OBVIOUS
<1>. USE RequestFacts DEF IInv
<1>1. PICK resolved \in SUBSET (1..size) :
        /\ failures' = {<<m, "sec", "ticker_resolution">> : m \in (1..size) \ resolved}
        /\ Gather(resolved)
  BY DEF Resolve
<1>2. /\ at = "mapping" /\ request[Mapping] = "ok" /\ offset' = size
      /\ UNCHANGED <<manifest, size, evidence, slots, pace, cache, runs>>
  BY DEF Resolve
<1>3. 1..size \subseteq Members
  BY MembersAsked
<1>4. Settled = Request
  BY <1>2 DEF Alive, Settled
<1>5. /\ request' \in [Request -> Life]
      /\ Alive' /\ Counted' /\ Locked' /\ Paced' /\ Stored'
  BY <1>1, <1>2, <1>3, <1>4, GatherStep
<1>6. at' = "gather" /\ batch' = resolved
  BY <1>1 DEF Gather
<1>7. TypeOK'
  <2>1. failures' \subseteq Members \X {"sec", "yfinance"} \X Phases
    BY <1>1, <1>3 DEF Phases
  <2>2. /\ size \in Nat /\ size <= (IF manifest THEN MaxMembers ELSE MaxTickers) /\ manifest \in BOOLEAN
        /\ evidence \subseteq Members /\ runs \in Nat
    BY DEF TypeOK
  <2>3. size' \in Nat /\ offset' \in Nat /\ offset' <= size'
        /\ size' <= (IF manifest' THEN MaxMembers ELSE MaxTickers) /\ batch' \subseteq 1..offset'
    BY <1>2, <1>6, <2>2
  <2>. QED
    BY <1>2, <1>5, <1>6, <2>1, <2>2, <2>3 DEF TypeOK, Place, slots, pace, cache
<1>8. Told'
  <2>1. \A m \in Members : Unheard(m)
    <3>1. \A m \in Members : m > 0
      BY MembersFacts
    <3>. QED
      BY <1>2, <3>1 DEF Told, Alive
  <2>2. \A f \in failures' : f[1] \in (1..size) \ resolved /\ f[2] = "sec"
    BY <1>1
  <2>3. ASSUME NEW m \in (1..size) \ resolved
        PROVE  Verdict(m)'
    <3>1. m \notin evidence'
      BY <1>2, <1>3, <2>1 DEF Unheard
    <3>2. <<m, "sec", "ticker_resolution">> \in failures'
      BY <1>1
    <3>. QED
      BY <3>1, <3>2 DEF Verdict
  <2>4. ASSUME NEW m \in Members, m \notin (1..size) \ resolved
        PROVE  Unheard(m)'
    BY <1>2, <2>1, <2>2, <2>4 DEF Unheard
  <2>5. \A m \in Members : m > size \/ m \in resolved => m \notin (1..size) \ resolved
    BY MembersFacts DEF TypeOK
  <2>. QED
    BY <1>2, <1>6, <2>3, <2>4, <2>5 DEF Told
<1>. QED
  BY <1>5, <1>7, <1>8

LEMMA NextBatchStep == IInv /\ NextBatch => IInv'
<1>. SUFFICES ASSUME IInv, NextBatch PROVE IInv'
  OBVIOUS
<1>. USE RequestFacts DEF IInv
<1>1. /\ at = "yielded"
      /\ UNCHANGED <<manifest, size, evidence, failures, slots, pace, cache, runs>>
  BY DEF NextBatch
<1>2. Settled = Request
  BY <1>1 DEF Alive
<1>3. /\ size \in Nat /\ offset \in Nat /\ offset <= size
      /\ size <= (IF manifest THEN MaxMembers ELSE MaxTickers) /\ manifest \in BOOLEAN
  BY DEF TypeOK
<1>4. 1..size \subseteq Members
  BY MembersAsked
<1>5. CASE offset < size
  <2>1. offset' = (IF offset + BatchSize < size THEN offset + BatchSize ELSE size)
        /\ Gather((offset + 1)..offset')
    BY <1>5 DEF NextBatch
  <2>2. offset' \in Nat /\ offset < offset' /\ offset' <= size
    BY <1>3, <1>5, <2>1, CollectorAssumption
  <2>3. (offset + 1)..offset' \subseteq 1..size /\ (offset + 1)..offset' \subseteq 1..offset'
    BY <1>3, <2>2
  <2>4. (offset + 1)..offset' \in SUBSET Members
    BY <1>4, <2>3
  <2>5. /\ request' \in [Request -> Life]
        /\ \A m \in Members \ ((offset + 1)..offset') : request'[Facts(m)] = request[Facts(m)]
        /\ Alive' /\ Counted' /\ Locked' /\ Paced' /\ Stored'
    BY <1>1, <1>2, <2>1, <2>4, GatherStep
  <2>6. at' = "gather" /\ batch' = (offset + 1)..offset'
    BY <2>1 DEF Gather
  <2>7. TypeOK'
    BY <1>1, <1>3, <2>2, <2>3, <2>5, <2>6 DEF TypeOK, Place, slots, pace, cache
  <2>8. Told'
    <3>1. ASSUME NEW m \in (1..offset') \ batch'
          PROVE  Verdict(m)'
      <4>1. m \in 1..offset /\ m \in Members \ ((offset + 1)..offset')
        BY <1>3, <1>4, <2>2, <2>6, <3>1
      <4>2. Verdict(m)
        BY <1>1, <4>1 DEF Told
      <4>. QED
        BY <1>1, <2>5, <4>1, <4>2 DEF Verdict
    <3>2. ASSUME NEW m \in Members, m > offset' \/ m \in batch'
          PROVE  Unheard(m)'
      <4>1. m > offset
        BY <1>3, <2>2, <2>6, <3>2, MembersFacts
      <4>2. Unheard(m)
        BY <1>1, <4>1 DEF Told
      <4>. QED
        BY <1>1, <4>2 DEF Unheard
    <3>. QED
      BY <2>6, <3>1, <3>2 DEF Told
  <2>. QED
    BY <2>5, <2>7, <2>8
<1>6. CASE ~(offset < size)
  <2>1. at' = "done" /\ UNCHANGED <<offset, batch, request>>
    BY <1>6 DEF NextBatch
  <2>2. TypeOK'
    BY <1>1, <2>1 DEF TypeOK, Place, Over, slots, pace, cache
  <2>3. Alive'
    BY <1>1, <1>2, <2>1 DEF Alive, Over, Settled
  <2>4. Told'
    BY <1>1, <2>1 DEF Told, Verdict
  <2>5. Counted' /\ Locked' /\ Paced' /\ Stored'
    BY <1>1, <2>1 DEF Counted, Locked, Paced, Stored, Holding, slots, pace, cache
  <2>. QED
    BY <2>2, <2>3, <2>4, <2>5
<1>. QED
  BY <1>5, <1>6

LEMMA AssembleStep ==
  ASSUME IInv, NEW m \in Members, Assemble(m)
  PROVE  IInv'
<1>. USE RequestFacts DEF IInv
<1>1. /\ at = "gather" /\ m \in batch /\ RequestsOf(m) \subseteq Settled
      /\ batch' = batch \ {m} /\ m \in 1..offset
      /\ UNCHANGED <<at, manifest, size, offset, request, slots, pace, cache, runs>>
  BY DEF Assemble, TypeOK
<1>2. request[Facts(m)] \in {"ok", "failed"}
  <2>1. Facts(m) \in RequestsOf(m)
    BY DEF RequestsOf
  <2>2. request[Facts(m)] \notin {"none", "cancelled"}
    BY <1>1, <2>1 DEF Alive
  <2>. QED
    BY <1>1, <2>1, <2>2 DEF Settled
<1>3. Unheard(m)
  BY <1>1 DEF Told
<1>4. PICK more \in SUBSET ({m} \X {"sec", "yfinance"} \X Phases) :
        /\ failures' = failures \cup more
        /\ \/ /\ evidence' = evidence
              /\ \E f \in more : f[2] = "sec"
           \/ /\ evidence' = evidence \cup {m} /\ request[Facts(m)] = "ok"
              /\ \A f \in more : f[2] = "yfinance"
  <2>1. ASSUME NEW phase \in {"company_facts", "normalization", "issuer_collection"}, Lost(m, phase)
        PROVE  /\ failures' = failures \cup {<<m, "sec", phase>>} /\ evidence' = evidence
               /\ {<<m, "sec", phase>>} \in SUBSET ({m} \X {"sec", "yfinance"} \X Phases)
               /\ \E f \in {<<m, "sec", phase>>} : f[2] = "sec"
    BY <2>1 DEF Lost, Phases
  <2>2. ASSUME NEW quote \in QuoteFailures(m), Keep(m, quote), request[Facts(m)] = "ok"
        PROVE  \E S \in SUBSET ({m} \X {"sec", "yfinance"} \X Phases) :
                 /\ failures' = failures \cup S
                 /\ \/ evidence' = evidence /\ \E f \in S : f[2] = "sec"
                    \/ evidence' = evidence \cup {m} /\ \A f \in S : f[2] = "yfinance"
    <3>1. /\ quote \in SUBSET ({m} \X {"sec", "yfinance"} \X Phases)
          /\ \A f \in quote : f[2] = "yfinance"
      BY DEF QuoteFailures, Phases
    <3>2. CASE evidence' = evidence \cup {m} /\ failures' = failures \cup quote
      BY <3>1, <3>2
    <3>3. CASE evidence' = evidence /\ failures' = failures \cup quote \cup {<<m, "sec", "evidence_selection">>}
      <4>1. quote \cup {<<m, "sec", "evidence_selection">>} \in SUBSET ({m} \X {"sec", "yfinance"} \X Phases)
        BY <3>1 DEF Phases
      <4>2. \E f \in quote \cup {<<m, "sec", "evidence_selection">>} : f[2] = "sec"
        <5>1. <<m, "sec", "evidence_selection">> \in quote \cup {<<m, "sec", "evidence_selection">>}
          OBVIOUS
        <5>2. <<m, "sec", "evidence_selection">>[2] = "sec"
          OBVIOUS
        <5>. QED
          BY <5>1, <5>2
      <4>3. failures' = failures \cup (quote \cup {<<m, "sec", "evidence_selection">>})
        BY <3>3
      <4>. QED
        BY <3>3, <4>1, <4>2, <4>3
    <3>. QED
      BY <2>2, <3>2, <3>3 DEF Keep
  <2>3. CASE request[Facts(m)] = "failed"
    BY <2>1, <2>3 DEF Assemble
  <2>4. CASE request[Facts(m)] = "ok"
    <3>1. \/ Lost(m, "normalization") \/ Lost(m, "issuer_collection")
          \/ \E quote \in QuoteFailures(m) : Keep(m, quote)
      BY <2>4 DEF Assemble
    <3>. QED
      BY <2>1, <2>2, <2>4, <3>1
  <2>. QED
    BY <1>2, <2>3, <2>4
<1>5. TypeOK'
  BY <1>1, <1>4 DEF TypeOK, slots, pace, cache
<1>6. Alive'
  <2>1. \A q : RequestsOf(q)' = RequestsOf(q)
    BY <1>1 DEF RequestsOf
  <2>2. \A r \in Request : r \in Settled' \/ (r[2] \in batch' /\ r \in RequestsOf(r[2]))
    BY <1>1 DEF Alive, Settled
  <2>. QED
    BY <1>1, <2>1, <2>2 DEF Alive, Over
<1>7. Counted' /\ Locked' /\ Paced'
  BY <1>1 DEF Counted, Locked, Paced, Holding, slots, pace
<1>8. Stored'
  <2>1. request[Facts(m)] = "ok" => Key(Facts(m)) \in refs
    BY DEF Stored
  <2>. QED
    BY <1>1, <1>4, <2>1 DEF Stored, cache
<1>9. Told'
  <2>1. Verdict(m)'
    <3>1. \A f \in more : f[1] = m
      BY <1>4
    <3>. QED
      BY <1>1, <1>3, <1>4, <3>1 DEF Verdict, Unheard
  <2>2. ASSUME NEW n \in Members, n # m
        PROVE  (Verdict(n) => Verdict(n)') /\ (Unheard(n) => Unheard(n)')
    <3>1. \A f \in more : f[1] = m
      BY <1>4
    <3>2. \A f : f[1] = n => (f \in failures' <=> f \in failures)
      BY <1>4, <2>2, <3>1
    <3>3. n \in evidence' <=> n \in evidence
      BY <1>4, <2>2
    <3>. QED
      BY <1>1, <3>2, <3>3 DEF Verdict, Unheard
  <2>3. 1..offset \subseteq Members
    BY MembersAsked
  <2>. QED
    BY <1>1, <2>1, <2>2, <2>3, MembersFacts DEF Told, TypeOK
<1>. QED
  BY <1>5, <1>6, <1>7, <1>8, <1>9

--------------------------------------------------------------------------------
(* The other steps, and the invariant.                                     *)

LEMMA Nothing == IsFiniteSet({}) /\ Cardinality({}) = 0
BY FS_EmptySet

LEMMA InitCollector == Init => IInv
<1>. SUFFICES ASSUME Init PROVE IInv
  OBVIOUS
<1>. USE CollectorAssumption, RequestFacts DEF Init
<1>1. request \in [Request -> Life] /\ \A r \in Request : request[r] = "none"
  BY DEF Life
<1>2. Settled = Request /\ Holding = {} /\ ~Storing
  BY <1>1 DEF Settled, Holding, Storing
<1>3. TypeOK
  <2>2. at \in Place /\ holder \in Sec \cup {Nobody}
    BY DEF Place
  <2>3. /\ manifest \in BOOLEAN /\ size \in Nat /\ offset \in Nat /\ offset <= size
        /\ size <= (IF manifest THEN MaxMembers ELSE MaxTickers)
    <3>1. manifest = FALSE /\ size = 0 /\ offset = 0
      BY ZenonT(20)
    <3>2. manifest \in BOOLEAN /\ (IF manifest THEN MaxMembers ELSE MaxTickers) = MaxTickers
      BY ONLY <3>1, Zenon
    <3>3. size \in Nat /\ offset \in Nat /\ offset <= size /\ size <= MaxTickers
      BY ONLY <3>1, CollectorAssumption
    <3>. QED
      BY ONLY <3>2, <3>3, Zenon
  <2>4. /\ batch \subseteq 1..offset /\ evidence \subseteq Members
        /\ failures \subseteq Members \X {"sec", "yfinance"} \X Phases
        /\ blobs \subseteq Request /\ refs \subseteq Request
    OBVIOUS
  <2>5. /\ free \in Int /\ active \in Int /\ peak \in Int /\ runs \in Nat
        /\ sinceLast \in 0..Interval /\ sinceSent \in 0..Interval /\ answered \in BOOLEAN
    <3>1. /\ free = Slots /\ active = 0 /\ peak = 0 /\ runs = 1
          /\ sinceLast = Interval /\ sinceSent = Interval /\ answered = FALSE
      BY ZenonT(20)
    <3>2. answered \in BOOLEAN
      BY ONLY <3>1, Zenon
    <3>3. /\ free \in Int /\ active \in Int /\ peak \in Int /\ runs \in Nat
          /\ sinceLast \in 0..Interval /\ sinceSent \in 0..Interval
      BY ONLY <3>1, CollectorAssumption
    <3>. QED
      BY ONLY <3>2, <3>3, Zenon
  <2>. QED
    BY ONLY <1>1, <2>2, <2>3, <2>4, <2>5 DEF TypeOK
<1>4. Alive
  BY <1>2 DEF Alive, Over
<1>5. Counted
  BY <1>2, Nothing DEF Counted
<1>6. Locked
  BY <1>1 DEF Locked
<1>7. Paced /\ Stored
  BY <1>1 DEF Paced, Stored
<1>8. Told
  <2>1. \A m \in Members : Unheard(m)
    BY DEF Unheard
  <2>. QED
    BY <2>1 DEF Told
<1>. QED
  BY <1>3, <1>4, <1>5, <1>6, <1>7, <1>8 DEF IInv

\* A new process finds the cache the last one left, and nothing else.
LEMMA RestartStep == IInv /\ Restart => IInv'
<1>. SUFFICES ASSUME IInv, Restart PROVE IInv'
  OBVIOUS
<1>. USE CollectorAssumption, RequestFacts DEF IInv, Restart
<1>1. request' \in [Request -> Life] /\ \A r \in Request : request'[r] = "none"
  BY DEF Life
<1>2. Settled' = Request /\ Holding' = {} /\ ~Storing'
  BY <1>1 DEF Settled, Holding, Storing
<1>3. TypeOK'
  <2>2. at' \in Place /\ holder' \in Sec \cup {Nobody}
    BY DEF Place
  <2>3. blobs' \subseteq Request /\ refs' \subseteq Request /\ runs' \in Nat
    BY DEF TypeOK
  <2>4. /\ manifest' \in BOOLEAN /\ size' \in Nat /\ offset' \in Nat /\ offset' <= size'
        /\ size' <= (IF manifest' THEN MaxMembers ELSE MaxTickers)
    <3>1. manifest' = FALSE /\ size' = 0 /\ offset' = 0
      BY ZenonT(20)
    <3>2. manifest' \in BOOLEAN /\ (IF manifest' THEN MaxMembers ELSE MaxTickers) = MaxTickers
      BY ONLY <3>1, Zenon
    <3>3. size' \in Nat /\ offset' \in Nat /\ offset' <= size' /\ size' <= MaxTickers
      BY ONLY <3>1, CollectorAssumption
    <3>. QED
      BY ONLY <3>2, <3>3, Zenon
  <2>5. /\ batch' \subseteq 1..offset' /\ evidence' \subseteq Members
        /\ failures' \subseteq Members \X {"sec", "yfinance"} \X Phases
    OBVIOUS
  <2>6. /\ free' \in Int /\ active' \in Int /\ peak' \in Int
        /\ sinceLast' \in 0..Interval /\ sinceSent' \in 0..Interval /\ answered' \in BOOLEAN
    <3>1. /\ free' = Slots /\ active' = 0 /\ peak' = 0
          /\ sinceLast' = Interval /\ sinceSent' = Interval /\ answered' = FALSE
      BY ZenonT(20)
    <3>2. answered' \in BOOLEAN
      BY ONLY <3>1, Zenon
    <3>3. /\ free' \in Int /\ active' \in Int /\ peak' \in Int
          /\ sinceLast' \in 0..Interval /\ sinceSent' \in 0..Interval
      BY ONLY <3>1, CollectorAssumption
    <3>. QED
      BY ONLY <3>2, <3>3, Zenon
  <2>. QED
    BY ONLY <1>1, <2>2, <2>3, <2>4, <2>5, <2>6 DEF TypeOK
<1>4. Alive'
  BY <1>2 DEF Alive, Over
<1>5. Counted'
  BY <1>2, Nothing DEF Counted
<1>6. Locked'
  BY <1>1 DEF Locked
<1>7. Paced' /\ Stored'
  BY <1>1 DEF Paced, Stored
<1>8. Told'
  <2>1. \A m \in Members : Unheard(m)'
    BY DEF Unheard
  <2>. QED
    BY <2>1 DEF Told
<1>. QED
  BY <1>3, <1>4, <1>5, <1>6, <1>7, <1>8

\* Steps that change no request, slot, clock or file keep those parts.
LEMMA Kept ==
  ASSUME IInv, UNCHANGED <<request, slots, pace, cache, evidence>>
  PROVE  /\ Counted' /\ Locked' /\ Paced' /\ Stored'
         /\ Holding' = Holding /\ Settled' = Settled /\ Storing' = Storing
         /\ \A m : UNCHANGED failures => (Unheard(m) => Unheard(m)') /\ (Verdict(m) => Verdict(m)')
<1>1. Counted' /\ Locked' /\ Paced' /\ Stored'
  BY DEF IInv, Counted, Locked, Paced, Stored, Holding, slots, pace, cache
<1>2. Holding' = Holding /\ Settled' = Settled /\ Storing' = Storing
  BY DEF Holding, Settled, Storing
<1>3. \A m : UNCHANGED failures => (Unheard(m) => Unheard(m)') /\ (Verdict(m) => Verdict(m)')
  BY DEF Unheard, Verdict
<1>. QED
  BY <1>1, <1>2, <1>3

\* A manifest is opened, a gather or the mapping ends, a cancellation begins
\* and ends.
LEMMA PlaceStep ==
  ASSUME IInv, Unresolved \/ CollectManifest \/ Deliver \/ Cancel \/ Cancelled
  PROVE  IInv'
<1>. USE RequestFacts DEF IInv
<1>1. UNCHANGED <<request, slots, pace, cache, evidence, failures, batch, offset, runs>>
  BY DEF Unresolved, CollectManifest, Deliver, Cancel, Cancelled, collection
<1>2. /\ Counted' /\ Locked' /\ Paced' /\ Stored'
      /\ Holding' = Holding /\ Settled' = Settled /\ Storing' = Storing
      /\ \A m : (Unheard(m) => Unheard(m)') /\ (Verdict(m) => Verdict(m)')
  BY <1>1, Kept
<1>3. CASE Unresolved
  <2>1. at = "mapping" /\ request[Mapping] \in {"ok", "failed"} /\ at' = "raised" /\ UNCHANGED <<manifest, size>>
    BY <1>3 DEF Unresolved, collection
  <2>2. Settled = Request
    BY <2>1 DEF Alive, Settled
  <2>3. TypeOK'
    BY <1>1, <2>1 DEF TypeOK, Place, Over, slots, pace, cache
  <2>4. Alive'
    BY <1>1, <1>2, <2>1, <2>2 DEF Alive, Over
  <2>5. Told'
    BY <2>1 DEF Told
  <2>. QED
    BY <1>2, <2>3, <2>4, <2>5
<1>4. CASE CollectManifest
  <2>1. at = "start" /\ size' \in 1..MaxMembers /\ manifest' = TRUE /\ at' = "yielded"
    BY <1>4 DEF CollectManifest
  <2>2. Settled = Request /\ offset = 0 /\ batch = {}
    BY <2>1 DEF Alive
  <2>3. TypeOK'
    BY <1>1, <2>1, <2>2, CollectorAssumption DEF TypeOK, Place, slots, pace, cache
  <2>4. Alive'
    BY <1>1, <1>2, <2>1, <2>2 DEF Alive, Over
  <2>5. Told'
    BY <1>1, <1>2, <2>1, <2>2 DEF Told
  <2>. QED
    BY <1>2, <2>3, <2>4, <2>5
<1>5. CASE Deliver
  <2>1. at = "gather" /\ batch = {} /\ at' = (IF manifest THEN "yielded" ELSE "done") /\ UNCHANGED <<manifest, size>>
    BY <1>5 DEF Deliver, collection
  <2>2. Settled = Request
    BY <2>1 DEF Alive, Settled
  <2>3. TypeOK'
    BY <1>1, <2>1 DEF TypeOK, Place, Over, slots, pace, cache
  <2>4. Alive'
    BY <1>1, <1>2, <2>1, <2>2 DEF Alive, Over
  <2>5. Told'
    BY <1>1, <1>2, <2>1 DEF Told
  <2>. QED
    BY <1>2, <2>3, <2>4, <2>5
<1>6. CASE Cancel
  <2>1. ~Storing /\ at' = "stopping" /\ UNCHANGED <<manifest, size>>
    BY <1>6 DEF Cancel, collection
  <2>2. TypeOK'
    BY <1>1, <2>1 DEF TypeOK, Place, slots, pace, cache
  <2>3. Alive' /\ Told'
    BY <1>1, <1>2, <2>1 DEF Alive, Told, Over
  <2>. QED
    BY <1>2, <2>2, <2>3
<1>7. CASE Cancelled
  <2>1. Settled = Request /\ at' = "cancelled" /\ UNCHANGED <<manifest, size>>
    BY <1>7 DEF Cancelled, collection
  <2>2. TypeOK'
    BY <1>1, <2>1 DEF TypeOK, Place, Over, slots, pace, cache
  <2>3. Alive' /\ Told'
    BY <1>1, <1>2, <2>1 DEF Alive, Told, Over
  <2>. QED
    BY <1>2, <2>2, <2>3
<1>. QED
  BY <1>3, <1>4, <1>5, <1>6, <1>7

LEMMA TickStep == IInv /\ Tick => IInv'
<1>. SUFFICES ASSUME IInv, Tick PROVE IInv'
  OBVIOUS
<1>. USE CollectorAssumption DEF IInv
<1>1. /\ sinceLast' = Passed(sinceLast) /\ sinceSent' = Passed(sinceSent)
      /\ UNCHANGED <<at, collection, request, slots, holder, answered, cache, runs>>
  BY DEF Tick
<1>2. sinceLast \in 0..Interval /\ sinceSent \in 0..Interval
  BY DEF TypeOK
<1>3. /\ sinceLast' \in 0..Interval /\ sinceSent' \in 0..Interval
      /\ sinceLast <= sinceSent => sinceLast' <= sinceSent'
  BY <1>1, <1>2 DEF Passed
<1>4. TypeOK'
  BY <1>1, <1>3 DEF TypeOK, collection, slots, cache
<1>5. Paced'
  BY <1>1, <1>3 DEF Paced
<1>6. Alive'
  BY <1>1 DEF Alive, RequestsOf, Settled, Storing, collection
<1>7. Counted' /\ Locked' /\ Stored'
  BY <1>1 DEF Counted, Locked, Stored, Holding, slots, cache, collection
<1>8. Told'
  BY <1>1 DEF Told, Verdict, Unheard, collection
<1>. QED
  BY <1>4, <1>5, <1>6, <1>7, <1>8

LEMMA StutterStep == IInv /\ UNCHANGED vars => IInv'
<1>. SUFFICES ASSUME IInv, UNCHANGED vars PROVE IInv'
  OBVIOUS
<1>. USE DEF IInv, vars, collection, slots, pace, cache
<1>1. TypeOK'
  BY DEF TypeOK
<1>2. Alive'
  BY DEF Alive, RequestsOf, Settled, Storing
<1>3. Counted' /\ Locked' /\ Paced' /\ Stored'
  BY DEF Counted, Locked, Paced, Stored, Holding
<1>4. Told'
  BY DEF Told, Verdict, Unheard
<1>. QED
  BY <1>1, <1>2, <1>3, <1>4

LEMMA CollectorStep == IInv /\ [Next]_vars => IInv'
<1>. SUFFICES ASSUME IInv, [Next]_vars PROVE IInv'
  OBVIOUS
<1>1. CASE \E r \in Request : Requesting(r)
  BY <1>1, RequestStep
<1>2. CASE \E m \in Members : Assemble(m)
  BY <1>2, AssembleStep
<1>3. CASE Unresolved \/ CollectManifest \/ Deliver \/ Cancel \/ Cancelled
  BY <1>3, PlaceStep
<1>4. CASE Collect \/ Resolve \/ NextBatch \/ Tick \/ Restart
  BY <1>4, CollectStep, ResolveStep, NextBatchStep, TickStep, RestartStep
<1>5. CASE UNCHANGED vars
  BY <1>5, StutterStep
<1>. QED
  BY <1>1, <1>2, <1>3, <1>4, <1>5 DEF Next, Progress

LEMMA CollectorInv == Spec => []IInv
<1>1. Init => IInv
  BY InitCollector
<1>2. IInv /\ [Next]_vars => IInv'
  BY CollectorStep
<1>. QED
  BY <1>1, <1>2, PTL DEF Spec

--------------------------------------------------------------------------------
(* The theorems.                                                           *)

\* Every variable has its type: no collection grows past its limit, however the
\* gathers, the cancellations and the processes follow each other.
THEOREM TypeCorrect == Spec => []TypeOK
<1>1. IInv => TypeOK
  BY DEF IInv
<1>. QED
  BY <1>1, CollectorInv, PTL

\* _provider_call and _get_json: on every path of a request the semaphore, the
\* counter and the rate lock are given back exactly once.
THEOREM SlotsStayHonest == Spec => []SlotsHonest
<1>1. IInv => SlotsHonest
  <2>. SUFFICES ASSUME IInv PROVE SlotsHonest
    OBVIOUS
  <2>1. Counted /\ Locked /\ request \in [Request -> Life]
    BY DEF IInv, TypeOK
  <2>2. at \in Over => Settled = Request
    BY DEF IInv, Alive
  <2>3. at \in Over => Holding = {} /\ ~Storing
    BY <2>1, <2>2, NothingHeld
  <2>. QED
    BY <2>1, <2>3 DEF SlotsHonest, Counted, Locked
<1>. QED
  BY <1>1, CollectorInv, PTL

\* FileCache.put: whenever the process dies, a reference names a blob that is
\* there, and the facts of every packet can be read again.
THEOREM CacheStaysReadable == Spec => []CacheReadable
<1>1. IInv => CacheReadable
  BY DEF IInv, Stored, CacheReadable
<1>. QED
  BY <1>1, CollectorInv, PTL

\* _collect_issuer: every issuer asked for has a packet or a SEC failure, never
\* both, whatever became of its quote and of the other issuers.
THEOREM FailuresStayIsolated == Spec => []FailuresIsolated
<1>1. IInv => FailuresIsolated
  BY DEF IInv, Told, Verdict, FailuresIsolated, Asked
<1>. QED
  BY <1>1, CollectorInv, PTL

\* _get_json: two SEC requests, the first of them answered, are an interval apart.
THEOREM PaceStaysKept == Spec => PaceKept
<1>1. IInv /\ [Next]_vars => (Sending /\ answered => sinceSent = Interval)
  <2>. SUFFICES ASSUME IInv, [Next]_vars, Sending, answered PROVE sinceSent = Interval
    OBVIOUS
  <2>1. PICK r \in Sec : request[r] = "pacing" /\ request'[r] = "sent"
    BY DEF Sending
  <2>2. r \in Request /\ request \in [Request -> Life]
    BY <2>1, RequestFacts DEF IInv, TypeOK
  <2>3. request'[r] # request[r]
    BY <2>1
  <2>4. Send(r)
    <3>1. ~(\E q \in Request \ {r} : Requesting(q))
      BY <2>2, <2>3 DEF Requesting, Acquire, Lock, Send, Answer, Store, Reject, Fail, Unwind
    <3>2. ~(\E m \in Members : Assemble(m)) /\ ~(UNCHANGED vars)
      BY <2>3 DEF Assemble, vars
    <3>3. ~(Unresolved \/ CollectManifest \/ Deliver \/ Cancel \/ Cancelled \/ Tick)
      BY <2>3 DEF Unresolved, CollectManifest, Deliver, Cancel, Cancelled, Tick
    <3>4. ~(Collect \/ Resolve \/ NextBatch)
      <4>1. ASSUME NEW wanted, Ask(wanted)
            PROVE  FALSE
        <5>1. request'[r] \in {request[r], "ok", "waiting"}
          BY <2>2, <4>1 DEF Ask
        <5>. QED
          BY <2>1, <5>1
      <4>. QED
        BY <2>3, <4>1 DEF Collect, Resolve, NextBatch, Gather
    <3>5. ~Restart
      BY <2>1, <2>2 DEF Restart
    <3>6. Requesting(r)
      BY <3>1, <3>2, <3>3, <3>4, <3>5 DEF Next, Progress
    <3>. QED
      BY <2>1, <2>2, <3>6 DEF Requesting, Acquire, Lock, Answer, Store, Reject, Fail, Unwind, Holding
  <2>5. sinceLast = Interval /\ sinceLast <= sinceSent /\ sinceSent \in 0..Interval
    BY <2>4 DEF Send, IInv, Paced, TypeOK
  <2>. QED
    BY <2>5, CollectorAssumption
<1>. QED
  BY <1>1, CollectorInv, PTL DEF Spec, PaceKept

--------------------------------------------------------------------------------
(* The ledger of observations, for every sequence of batches.                   *)

\* A set of numbers that is not empty has a least one.
LEMMA LeastNat ==
  ASSUME NEW S, S \in SUBSET Nat, S # {}
  PROVE  \E m \in S : \A k \in S : m <= k
<1>1. PICK m \in S : \A y \in Nat : <<y, m>> \in OpToRel(<, Nat) => ~(y \in S)
  BY WFMin, NatLessThanWellFounded, Zenon
<1>2. \A k \in S : ~(k < m)
  BY <1>1 DEF OpToRel
<1> QED
  BY <1>2

\* g is the ledger before the first of the n batches and after each.
Ingests(g, n, bs) == g = [i \in 0..n |-> IF i = 0 THEN Empty ELSE Ingest(g[i - 1], bs[i])]

LEMMA IngestingExists ==
  ASSUME NEW bs, NEW N \in Nat
  PROVE  \E g : Ingests(g, N, bs)
<1> DEFINE Stuck == {n \in 0..N : ~ \E g : Ingests(g, n, bs)}
<1>1. ASSUME Stuck # {} PROVE FALSE
  <2>1. PICK m \in Stuck : \A k \in Stuck : m <= k
    <3>1. Stuck \in SUBSET Nat
      OBVIOUS
    <3> HIDE DEF Stuck
    <3> QED
      BY <1>1, <3>1, LeastNat
  <2>2. CASE m = 0
    <3>1. Ingests([i \in 0..0 |-> Empty], 0, bs)
      BY DEF Ingests
    <3> QED
      BY <2>1, <2>2, <3>1
  <2>3. CASE m > 0
    <3>1. PICK g : Ingests(g, m - 1, bs)
      BY <2>1, <2>3
    <3> DEFINE h == [i \in 0..m |-> IF i < m THEN g[i] ELSE Ingest(g[m - 1], bs[m])]
    <3>2. ASSUME NEW i \in 0..m
          PROVE  h[i] = IF i = 0 THEN Empty ELSE Ingest(h[i - 1], bs[i])
      BY <2>1, <2>3, <3>1 DEF Ingests
    <3>3. Ingests(h, m, bs)
      BY <3>2 DEF Ingests
    <3> QED
      BY <2>1, <3>3
  <2> QED
    BY <2>1, <2>2, <2>3
<1> QED
  BY <1>1

LEMMA IngestingAt ==
  ASSUME NEW X, NEW bs \in Seq(X)
  PROVE  /\ Ingesting(bs)[0] = Empty
         /\ \A n \in 1..Len(bs) : Ingesting(bs)[n] = Ingest(Ingesting(bs)[n - 1], bs[n])
<1>0. Len(bs) \in Nat
  OBVIOUS
<1>1. \E g : Ingests(g, Len(bs), bs)
  BY <1>0, IngestingExists
<1>2. Ingests(Ingesting(bs), Len(bs), bs)
  BY <1>1 DEF Ingests, Ingesting
<1> DEFINE P == Ingesting(bs)
<1>3. P = [i \in 0..Len(bs) |-> IF i = 0 THEN Empty ELSE Ingest(P[i - 1], bs[i])]
  BY <1>2, Zenon DEF Ingests
<1> HIDE DEF P
<1>4. P[0] = Empty /\ \A n \in 1..Len(bs) : P[n] = Ingest(P[n - 1], bs[n])
  BY <1>0, <1>3
<1> QED
  BY <1>4 DEF P

\* What the index of these observations is.
IndexOf(records) ==
  [s \in {o.series : o \in records} |-> {o.id : o \in {q \in records : q.series = s}}]

LedgerOf(observed, cited) ==
  [observations |-> observed, evidence |-> cited, index |-> IndexOf(observed)]

\* A ledger is determined by its records.
LedgerInv(ledger) ==
  /\ ledger = LedgerOf(ledger.observations, ledger.evidence)
  /\ OneRecordEach(ledger)
  /\ CitationsKept(ledger)

\* What a batch that collides with nothing adds.
LEMMA IngestAdds ==
  ASSUME NEW O, NEW E, NEW b, ~Rejects(LedgerOf(O, E), b)
  PROVE  Ingest(LedgerOf(O, E), b) = LedgerOf(O \cup b.observations, E \cup b.evidence)
<1> DEFINE new == b.observations \ O
           l == LedgerOf(O, E)
           series == DOMAIN l.index \cup {o.series : o \in new}
           listed(s) == IF s \in DOMAIN l.index THEN l.index[s] ELSE {}
           index == [s \in series |-> listed(s) \cup {o.id : o \in {q \in new : q.series = s}}]
           all == O \cup b.observations
<1>1. l.observations = O /\ l.evidence = E /\ l.index = IndexOf(O)
  BY DEF LedgerOf
<1>2. Ingest(l, b) = [observations |-> O \cup new, evidence |-> E \cup b.evidence, index |-> index]
  BY <1>1 DEF Ingest, Rejects
<1>3. O \cup new = all
  OBVIOUS
<1>4. DOMAIN l.index = {o.series : o \in O}
  BY <1>1 DEF IndexOf
<1>5. series = {o.series : o \in all}
  BY <1>4
<1>6. \A s \in series : listed(s) = {o.id : o \in {q \in O : q.series = s}}
  <2> TAKE s \in series
  <2>1. CASE s \in {o.series : o \in O}
    BY <1>1, <1>4, <2>1 DEF IndexOf
  <2>2. CASE s \notin {o.series : o \in O}
    BY <1>4, <2>2
  <2> QED
    BY <2>1, <2>2
<1>7. \A s \in series : listed(s) \cup {o.id : o \in {q \in new : q.series = s}}
                          = {o.id : o \in {q \in all : q.series = s}}
  <2> TAKE s \in series
  <2>1. listed(s) = {o.id : o \in {q \in O : q.series = s}}
    BY <1>6
  <2> HIDE DEF listed
  <2> QED
    BY <2>1
<1>8. index = IndexOf(all)
  BY <1>5, <1>7 DEF IndexOf
<1> QED
  BY <1>2, <1>3, <1>8 DEF LedgerOf

\* A batch that is self-contained keeps the ledger sound, taken or refused.
LEMMA IngestKeeps ==
  ASSUME NEW ledger, LedgerInv(ledger), NEW b, BatchSelfContained(b)
  PROVE  LedgerInv(Ingest(ledger, b)) /\ Ingest(Ingest(ledger, b), b) = Ingest(ledger, b)
<1> DEFINE O == ledger.observations
           E == ledger.evidence
           O2 == O \cup b.observations
           E2 == E \cup b.evidence
           after == Ingest(ledger, b)
<1>0. ledger = LedgerOf(O, E)
  BY DEF LedgerInv
<1>1. CASE Rejects(ledger, b)
  <2>1. after = ledger
    BY <1>1 DEF Ingest, Rejects
  <2> QED
    BY <2>1
<1>2. CASE ~Rejects(ledger, b)
  <2>1. after = LedgerOf(O2, E2)
    BY <1>0, <1>2, IngestAdds
  <2>2. after.observations = O2 /\ after.evidence = E2
    BY <2>1 DEF LedgerOf
  <2> HIDE DEF after
  <2>3. OneRecordEach(after)
    <3>1. \A x, y \in O2 : x.id = y.id => x = y
      BY <1>2 DEF LedgerInv, OneRecordEach, BatchSelfContained, Rejects, Collides
    <3>2. \A x, y \in E2 : x.id = y.id => x = y
      BY <1>2 DEF LedgerInv, OneRecordEach, BatchSelfContained, Rejects, Collides
    <3> QED
      BY <2>2, <3>1, <3>2 DEF OneRecordEach
  <2>4. CitationsKept(after)
    BY <2>2 DEF LedgerInv, CitationsKept, BatchSelfContained
  <2>5. ~Rejects(after, b)
    BY <2>2, <2>3 DEF OneRecordEach, Rejects, Collides
  <2>6. Ingest(after, b) = LedgerOf(O2 \cup b.observations, E2 \cup b.evidence)
    BY <2>1, <2>5, IngestAdds
  <2>7. O2 \cup b.observations = O2 /\ E2 \cup b.evidence = E2
    OBVIOUS
  <2>8. LedgerInv(after)
    BY <2>1, <2>2, <2>3, <2>4 DEF LedgerInv
  <2> HIDE DEF O2, E2
  <2> QED
    BY <2>1, <2>6, <2>7, <2>8 DEF after
<1> QED
  BY <1>1, <1>2

\* What is said of every ledger of a sequence is said of the one before any step.
LEMMA IngestedInv ==
  ASSUME NEW X, NEW bs \in Seq(X), \A i \in DOMAIN bs : BatchSelfContained(bs[i])
  PROVE  \A n \in 0..Len(bs) : LedgerInv(Ingesting(bs)[n])
<1> DEFINE P == Ingesting(bs)
           Broken == {k \in 0..Len(bs) : ~LedgerInv(P[k])}
<1>0. Len(bs) \in Nat
  OBVIOUS
<1>1. P[0] = Empty /\ \A k \in 1..Len(bs) : P[k] = Ingest(P[k - 1], bs[k])
  BY IngestingAt
<1> HIDE DEF P
<1>2. LedgerInv(P[0])
  <2>1. P[0].observations = {} /\ P[0].evidence = {}
    BY <1>1 DEF Empty
  <2>2. [s \in {} |-> {}] = IndexOf({})
    BY DEF IndexOf
  <2> HIDE DEF IndexOf
  <2>3. P[0] = LedgerOf({}, {})
    BY <1>1, <2>2, Zenon DEF Empty, LedgerOf
  <2> QED
    BY <2>1, <2>3 DEF LedgerInv, OneRecordEach, CitationsKept
<1>3. ASSUME NEW k \in 1..Len(bs), LedgerInv(P[k - 1]) PROVE LedgerInv(P[k])
  BY <1>1, <1>3, IngestKeeps
<1>4. ASSUME Broken # {} PROVE FALSE
  <2>1. PICK m \in Broken : \A k \in Broken : m <= k
    <3>1. Broken \in SUBSET Nat
      OBVIOUS
    <3> HIDE DEF Broken
    <3> QED
      BY <1>4, <3>1, LeastNat
  <2>2. m \in 1..Len(bs) /\ m - 1 \notin Broken /\ m - 1 \in 0..Len(bs)
    BY <1>0, <1>2, <2>1
  <2> QED
    BY <1>3, <2>1, <2>2
<1> QED
  BY <1>4 DEF P

\* What a ledger holds after batches of which each is self-contained.
LEMMA IngestedSound ==
  ASSUME NEW X, NEW bs \in Seq(X), \A i \in DOMAIN bs : BatchSelfContained(bs[i]),
         NEW ids, NEW maxObservations \in Nat, NEW maxEvidence \in Nat
  PROVE  LET ledger == IngestAll(bs)
         IN  /\ OneRecordEach(ledger) /\ CitationsKept(ledger) /\ IndexAgrees(ledger)
             /\ PacketsClosed(ledger, ids, maxObservations, maxEvidence)
             /\ bs # <<>> => Ingest(ledger, bs[Len(bs)]) = ledger
<1> DEFINE ledger == IngestAll(bs)
<1>0. Len(bs) \in Nat /\ (bs # <<>> => Len(bs) \in 1..Len(bs) /\ Len(bs) \in DOMAIN bs)
  OBVIOUS
<1>1. LedgerInv(ledger)
  BY <1>0, IngestedInv DEF IngestAll
<1>2. ASSUME bs # <<>> PROVE Ingest(ledger, bs[Len(bs)]) = ledger
  <2>1. ledger = Ingest(Ingesting(bs)[Len(bs) - 1], bs[Len(bs)])
    BY <1>0, <1>2, IngestingAt DEF IngestAll
  <2>2. LedgerInv(Ingesting(bs)[Len(bs) - 1])
    BY <1>0, <1>2, IngestedInv
  <2> QED
    BY <1>0, <1>2, <2>1, <2>2, IngestKeeps
<1> HIDE DEF ledger
<1>3. IndexAgrees(ledger)
  <2> SUFFICES ASSUME NEW o \in ledger.observations
               PROVE  Select(ledger, o.series) = {q \in ledger.observations : q.series = o.series}
    BY DEF IndexAgrees
  <2>1. ledger.index = IndexOf(ledger.observations)
    BY <1>1 DEF LedgerInv, LedgerOf
  <2>2. o.series \in DOMAIN ledger.index
    BY <2>1 DEF IndexOf
  <2>3. ledger.index[o.series] = {q.id : q \in {r \in ledger.observations : r.series = o.series}}
    BY <2>1 DEF IndexOf
  <2>4. \A q \in ledger.observations : q.id \in ledger.index[o.series] <=> q.series = o.series
    BY <1>1, <2>3 DEF LedgerInv, OneRecordEach
  <2> QED
    BY <2>2, <2>4 DEF Select
<1>4. PacketsClosed(ledger, ids, maxObservations, maxEvidence)
  <2> DEFINE packet == EvidencePacket(ledger, ids)
  <2>1. /\ packet.observations = {o \in ledger.observations : o.id \in ids}
        /\ packet.evidence = {e \in ledger.evidence : e.id \in UNION {o.cites : o \in packet.observations}}
    BY DEF EvidencePacket
  <2>2. ASSUME PacketError(ledger, ids, maxObservations, maxEvidence) = "none"
        PROVE  ids \subseteq {o.id : o \in ledger.observations}
    BY <2>2 DEF PacketError
  <2>3. UNION {o.cites : o \in packet.observations} \subseteq {e.id : e \in ledger.evidence}
    BY <1>1, <2>1 DEF LedgerInv, CitationsKept
  <2> HIDE DEF packet
  <2>4. {e.id : e \in packet.evidence} = UNION {o.cites : o \in packet.observations}
    BY <2>1, <2>3
  <2>5. ids \subseteq {o.id : o \in ledger.observations} => {o.id : o \in packet.observations} = ids
    BY <2>1
  <2> QED
    BY <2>2, <2>4, <2>5 DEF PacketsClosed, packet
<1> QED
  BY <1>1, <1>2, <1>3, <1>4 DEF LedgerInv, ledger

\* Without collisions every batch is taken, so the ledger holds what any of them
\* brings, in whatever order they come.
Brought(bs, n) ==
  LedgerOf(UNION {bs[i].observations : i \in 1..n}, UNION {bs[i].evidence : i \in 1..n})

LEMMA IngestedUnion ==
  ASSUME NEW X, NEW bs \in Seq(X), CollisionFree(bs)
  PROVE  IngestAll(bs) = Brought(bs, Len(bs))
<1> DEFINE P == Ingesting(bs)
           Broken == {k \in 0..Len(bs) : P[k] # Brought(bs, k)}
<1>0. Len(bs) \in Nat /\ DOMAIN bs = 1..Len(bs)
  OBVIOUS
<1>1. P[0] = Empty /\ \A k \in 1..Len(bs) : P[k] = Ingest(P[k - 1], bs[k])
  BY IngestingAt
<1> HIDE DEF P
<1>2. P[0] = Brought(bs, 0)
  <2>1. [s \in {} |-> {}] = IndexOf({})
    BY DEF IndexOf
  <2>2. UNION {bs[i].observations : i \in 1..0} = {} /\ UNION {bs[i].evidence : i \in 1..0} = {}
    OBVIOUS
  <2> HIDE DEF IndexOf
  <2> QED
    BY <1>1, <2>1, <2>2, Zenon DEF Empty, LedgerOf, Brought
<1>3. ASSUME NEW k \in 1..Len(bs), P[k - 1] = Brought(bs, k - 1) PROVE P[k] = Brought(bs, k)
  <2> DEFINE O(n) == UNION {bs[i].observations : i \in 1..n}
             E(n) == UNION {bs[i].evidence : i \in 1..n}
  <2>1. \A x \in O(k - 1), y \in bs[k].observations : x.id = y.id => x = y
    BY <1>0 DEF CollisionFree, Collides
  <2>2. \A x \in E(k - 1), y \in bs[k].evidence : x.id = y.id => x = y
    BY <1>0 DEF CollisionFree, Collides
  <2>3. O(k) = O(k - 1) \cup bs[k].observations /\ E(k) = E(k - 1) \cup bs[k].evidence
    <3>1. 1..k = (1..(k - 1)) \cup {k}
      BY <1>0
    <3> QED
      BY <3>1
  <2> HIDE DEF O, E
  <2>4. ~Rejects(LedgerOf(O(k - 1), E(k - 1)), bs[k])
    BY <2>1, <2>2 DEF Rejects, Collides, LedgerOf
  <2>5. Ingest(LedgerOf(O(k - 1), E(k - 1)), bs[k]) = LedgerOf(O(k), E(k))
    BY <2>3, <2>4, IngestAdds
  <2>6. Brought(bs, k - 1) = LedgerOf(O(k - 1), E(k - 1)) /\ Brought(bs, k) = LedgerOf(O(k), E(k))
    BY DEF Brought, O, E
  <2> QED
    BY <1>1, <1>3, <2>5, <2>6
<1>4. ASSUME Broken # {} PROVE FALSE
  <2>1. PICK m \in Broken : \A k \in Broken : m <= k
    <3>1. Broken \in SUBSET Nat
      OBVIOUS
    <3> HIDE DEF Broken
    <3> QED
      BY <1>4, <3>1, LeastNat
  <2>2. m \in 1..Len(bs) /\ m - 1 \notin Broken /\ m - 1 \in 0..Len(bs)
    BY <1>0, <1>2, <2>1
  <2> QED
    BY <1>3, <2>1, <2>2
<1> QED
  BY <1>0, <1>4 DEF IngestAll, P

\* The ledger after n batches is that of the first n alone.
LEMMA PrefixIngested ==
  ASSUME NEW X, NEW bs \in Seq(X), NEW N \in 0..Len(bs)
  PROVE  IngestAll(SubSeq(bs, 1, N)) = Ingesting(bs)[N]
<1> DEFINE s == SubSeq(bs, 1, N)
           P == Ingesting(bs)
           Q == Ingesting(s)
           Apart == {k \in 0..N : P[k] # Q[k]}
<1>0. /\ Len(bs) \in Nat /\ N \in Nat /\ N <= Len(bs)
      /\ s \in Seq(X) /\ Len(s) = N /\ \A k \in 1..N : s[k] = bs[k]
  OBVIOUS
<1> HIDE DEF s
<1>1. P[0] = Empty /\ \A k \in 1..Len(bs) : P[k] = Ingest(P[k - 1], bs[k])
  BY IngestingAt
<1>2. Q[0] = Empty /\ \A k \in 1..N : Q[k] = Ingest(Q[k - 1], s[k])
  BY <1>0, IngestingAt
<1> HIDE DEF P, Q
<1>3. ASSUME NEW k \in 1..N, P[k - 1] = Q[k - 1] PROVE P[k] = Q[k]
  <2>1. k \in 1..Len(bs) /\ s[k] = bs[k]
    BY <1>0
  <2>2. P[k] = Ingest(P[k - 1], bs[k]) /\ Q[k] = Ingest(Q[k - 1], s[k])
    BY <1>1, <1>2, <2>1
  <2> QED
    BY <1>3, <2>1, <2>2
<1>4. ASSUME Apart # {} PROVE FALSE
  <2>1. PICK m \in Apart : \A k \in Apart : m <= k
    <3>1. Apart \in SUBSET Nat
      BY <1>0
    <3> HIDE DEF Apart
    <3> QED
      BY <1>4, <3>1, LeastNat
  <2>2. m \in 1..N /\ m - 1 \notin Apart /\ m - 1 \in 0..N
    BY <1>0, <1>1, <1>2, <2>1
  <2> QED
    BY <1>3, <2>1, <2>2
<1>5. P[N] = Q[N]
  BY <1>0, <1>4
<1> QED
  BY <1>0, <1>5 DEF IngestAll, P, Q, s

\* ingest: batches that do not collide leave the same ledger whatever their order
\* and however often each comes.
THEOREM BatchOrderIsFree ==
  ASSUME NEW X, NEW bs \in Seq(X), NEW cs \in Seq(X), CollisionFree(bs),
         {cs[i] : i \in DOMAIN cs} = {bs[i] : i \in DOMAIN bs}
  PROVE  IngestAll(cs) = IngestAll(bs)
<1>1. DOMAIN bs = 1..Len(bs) /\ DOMAIN cs = 1..Len(cs)
  OBVIOUS
<1>2. \A i \in DOMAIN cs : \E j \in DOMAIN bs : cs[i] = bs[j]
  OBVIOUS
<1>3. \A j \in DOMAIN bs : \E i \in DOMAIN cs : bs[j] = cs[i]
  OBVIOUS
<1>4. CollisionFree(cs)
  <2> SUFFICES ASSUME NEW i \in DOMAIN cs, NEW j \in DOMAIN cs
               PROVE  /\ ~Collides(cs[i].evidence, cs[j].evidence)
                      /\ ~Collides(cs[i].observations, cs[j].observations)
    BY DEF CollisionFree
  <2>1. PICK k \in DOMAIN bs, l \in DOMAIN bs : cs[i] = bs[k] /\ cs[j] = bs[l]
    BY <1>2
  <2> QED
    BY <2>1 DEF CollisionFree
<1>5. /\ UNION {cs[i].observations : i \in DOMAIN cs} = UNION {bs[i].observations : i \in DOMAIN bs}
      /\ UNION {cs[i].evidence : i \in DOMAIN cs} = UNION {bs[i].evidence : i \in DOMAIN bs}
  BY <1>2, <1>3
<1>6. Brought(cs, Len(cs)) = Brought(bs, Len(bs))
  BY <1>1, <1>5 DEF Brought
<1> QED
  BY <1>4, <1>6, IngestedUnion

\* ObservationLedger, after any batches, refused ones included: an ID has one record,
\* every citation its evidence, the index agrees with a scan, a refused batch leaves
\* no trace, one that is repeated changes nothing, without collisions the order does
\* not matter, and a packet is closed under citation.
THEOREM LedgersStaySound ==
  ASSUME NEW X, NEW bs \in Seq(X), bs # <<>>,
         NEW ids, NEW maxObservations \in Nat, NEW maxEvidence \in Nat
  PROVE  LedgerSound(bs, ids, maxObservations, maxEvidence)
<1> DEFINE ledger == IngestAll(bs)
           before == IngestAll(Front(bs))
           n      == Len(bs)
<1>0. n \in Nat /\ n \in 1..n /\ n - 1 \in 0..n /\ DOMAIN bs = 1..n /\ Last(bs) = bs[n]
  BY DEF Last
<1>1. before = Ingesting(bs)[n - 1]
  BY <1>0, PrefixIngested DEF Front
<1>2. ledger = Ingest(before, Last(bs))
  BY <1>0, <1>1, IngestingAt DEF IngestAll
<1>3. ASSUME Rejects(before, Last(bs)) PROVE ledger = before
  BY <1>2, <1>3 DEF Ingest, Rejects
<1>4. ASSUME CollisionFree(bs) PROVE IngestAll(Reverse(bs)) = ledger
  <2>1. /\ Reverse(bs) \in Seq(X) /\ DOMAIN Reverse(bs) = 1..n
        /\ \A i \in 1..n : Reverse(bs)[i] = bs[n - i + 1] /\ n - i + 1 \in 1..n
    <3>1. \A i \in 1..n : n - i + 1 \in 1..n
      BY <1>0
    <3>2. \A i \in 1..n : bs[n - i + 1] \in X
      BY <1>0, <3>1
    <3> QED
      BY <1>0, <3>1, <3>2 DEF Reverse
  <2>2. \A i \in 1..n : bs[i] = Reverse(bs)[n - i + 1] /\ n - i + 1 \in 1..n
    BY <1>0, <2>1
  <2>3. {Reverse(bs)[i] : i \in DOMAIN Reverse(bs)} = {bs[i] : i \in DOMAIN bs}
    BY <1>0, <2>1, <2>2
  <2> QED
    BY <1>4, <2>1, <2>3, BatchOrderIsFree
<1>5. ASSUME \A i \in DOMAIN bs : BatchSelfContained(bs[i])
      PROVE  /\ OneRecordEach(ledger) /\ CitationsKept(ledger) /\ IndexAgrees(ledger)
             /\ PacketsClosed(ledger, ids, maxObservations, maxEvidence)
             /\ Ingest(ledger, Last(bs)) = ledger
  BY <1>0, <1>5, IngestedSound
<1> HIDE DEF ledger, before
<1> QED
  BY <1>3, <1>4, <1>5 DEF LedgerSound, ledger, before

--------------------------------------------------------------------------------
(* The observations of a payload, for every list of facts and of rows.          *)

\* F says what becomes of a value at each of n steps, and g is a value and what the
\* steps make of it.
StepOver(F, D, n)      == F \in [D \X (1..n) -> D]
Runs(g, F, D, base, n) ==
  g \in [0..n -> D] /\ g[0] = base /\ \A i \in 1..n : g[i] = F[<<g[i - 1], i>>]

\* A value that is carried from step to step exists for every number of steps.
LEMMA StepsExist ==
  ASSUME NEW D, NEW base, NEW n, NEW F, base \in D, n \in Nat, StepOver(F, D, n)
  PROVE  \E g : Runs(g, F, D, base, n)
<1>0. F \in [D \X (1..n) -> D]
  BY DEF StepOver
<1> DEFINE Leads(g, m) == /\ g \in [0..m -> D] /\ g[0] = base
                          /\ \A i \in 1..m : g[i] = F[<<g[i - 1], i>>]
           Stuck == {m \in 0..n : ~ \E g : Leads(g, m)}
<1>1. ASSUME Stuck # {} PROVE FALSE
  <2>1. PICK m \in Stuck : \A k \in Stuck : m <= k
    <3>1. Stuck \in SUBSET Nat
      OBVIOUS
    <3> HIDE DEF Stuck
    <3> QED
      BY <1>1, <3>1, LeastNat
  <2>2. CASE m = 0
    <3> DEFINE h == [i \in 0..0 |-> base]
    <3>1. h \in [0..0 -> D] /\ h[0] = base /\ \A i \in 1..0 : h[i] = F[<<h[i - 1], i>>]
      OBVIOUS
    <3> HIDE DEF h
    <3> QED
      BY <2>1, <2>2, <3>1
  <2>3. CASE m > 0
    <3>0. m \in 1..n
      BY <2>1, <2>3
    <3>1. PICK g : Leads(g, m - 1)
      BY <2>1, <2>3
    <3> DEFINE h == [i \in 0..m |-> IF i < m THEN g[i] ELSE F[<<g[m - 1], m>>]]
    <3>2. \A i \in 0..(m - 1) : h[i] = g[i] /\ g[i] \in D
      BY <3>0, <3>1
    <3>3. h[m] = F[<<g[m - 1], m>>] /\ h[m] \in D
      <4>1. m \in 0..m /\ <<g[m - 1], m>> \in D \X (1..n)
        BY <3>0, <3>1
      <4> QED
        BY <1>0, <4>1
    <3>4. h \in [0..m -> D]
      <4>1. \A i \in 0..m : i = m \/ i \in 0..(m - 1)
        BY <3>0
      <4>2. h = [i \in 0..m |-> h[i]]
        OBVIOUS
      <4> HIDE DEF h
      <4> QED
        BY <3>2, <3>3, <4>1, <4>2
    <3> HIDE DEF h
    <3>5. h[0] = base
      BY <3>0, <3>1, <3>2
    <3>6. ASSUME NEW i \in 1..m PROVE h[i] = F[<<h[i - 1], i>>]
      <4>1. CASE i = m
        <5>1. m - 1 \in 0..(m - 1)
          BY <3>0
        <5> QED
          BY <3>2, <3>3, <4>1, <5>1
      <4>2. CASE i < m
        <5>1. i \in 0..(m - 1) /\ i - 1 \in 0..(m - 1) /\ i \in 1..(m - 1)
          BY <3>0, <4>2
        <5>2. g[i] = F[<<g[i - 1], i>>]
          BY <3>1, <5>1
        <5> QED
          BY <3>2, <5>1, <5>2
      <4> QED
        BY <3>0, <4>1, <4>2
    <3>7. Leads(h, m)
      BY <3>4, <3>5, <3>6
    <3> QED
      BY <2>1, <3>7
  <2> QED
    BY <2>1, <2>2, <2>3
<1>2. n \in 0..n
  OBVIOUS
<1>3. \E g : Leads(g, n)
  BY <1>1, <1>2
<1> QED
  BY <1>3 DEF Runs

\* Induction up to a bound, over a set.
LEMMA UpTo ==
  ASSUME NEW n \in Nat, NEW S, 0 \in S, \A m \in 1..n : m - 1 \in S => m \in S
  PROVE  \A m \in 0..n : m \in S
<1> DEFINE Out == {m \in 0..n : m \notin S}
<1>1. ASSUME Out # {} PROVE FALSE
  <2>1. PICK m \in Out : \A k \in Out : m <= k
    <3>1. Out \in SUBSET Nat
      OBVIOUS
    <3> HIDE DEF Out
    <3> QED
      BY <1>1, <3>1, LeastNat
  <2>2. m \in 1..n /\ m - 1 \in S
    BY <2>1
  <2> QED
    BY <2>1, <2>2
<1> QED
  BY <1>1

\* What is kept after one more row.
LEMMA KeepingAt ==
  ASSUME NEW X, NEW rows \in Seq(X)
  PROVE  /\ Keeping(rows)[0] = {}
         /\ \A n \in 1..Len(rows) :
              Keeping(rows)[n] =
                IF ~Valued(rows[n]) THEN Keeping(rows)[n - 1]
                ELSE {q \in Keeping(rows)[n - 1] : <<q.field, q.at>> # <<rows[n].field, rows[n].at>>} \cup {rows[n]}
<1>0. Len(rows) \in Nat
  OBVIOUS
<1> DEFINE n == Len(rows)
           Step(old, r) == IF ~Valued(r) THEN old
                           ELSE {q \in old : <<q.field, q.at>> # <<r.field, r.at>>} \cup {r}
           D == SUBSET X
           F == [w \in D \X (1..n) |-> Step(w[1], rows[w[2]])]
           P == Keeping(rows)
<1>1. \A old \in SUBSET X, i \in 1..n : rows[i] \in X /\ Step(old, rows[i]) \in SUBSET X
  OBVIOUS
<1>2. P = CHOOSE g : g = [i \in 0..n |-> IF i = 0 THEN {} ELSE Step(g[i - 1], rows[i])]
  BY DEF Keeping
<1> HIDE DEF Step, P
<1>3. StepOver(F, D, n)
  BY <1>1 DEF StepOver
<1>4. \A old \in D, i \in 1..n : F[<<old, i>>] = Step(old, rows[i])
  OBVIOUS
<1> HIDE DEF F, n, D
<1>5. PICK g : Runs(g, F, D, {}, n)
  <2>1. n \in Nat /\ {} \in D
    BY <1>0 DEF n, D
  <2> QED
    BY <1>3, <2>1, StepsExist, Zenon
<1>6. g = [i \in 0..n |-> IF i = 0 THEN {} ELSE Step(g[i - 1], rows[i])]
  <2>1. ASSUME NEW i \in 1..n PROVE g[i] = Step(g[i - 1], rows[i])
    <3>1. i - 1 \in 0..n
      BY <1>0 DEF n
    <3> QED
      BY <1>4, <1>5, <3>1 DEF Runs
  <2>2. \A i \in 0..n : i = 0 \/ i \in 1..n
    BY <1>0 DEF n
  <2>3. \A i \in 0..n : g[i] = IF i = 0 THEN {} ELSE Step(g[i - 1], rows[i])
    BY <1>5, <2>1, <2>2 DEF Runs
  <2>4. g = [i \in 0..n |-> g[i]]
    BY <1>5 DEF Runs
  <2> QED
    BY <2>3, <2>4
<1>7. P = [i \in 0..n |-> IF i = 0 THEN {} ELSE Step(P[i - 1], rows[i])]
  BY <1>2, <1>6
<1>8. \A i \in 1..n : i \in 0..n /\ i # 0
  BY <1>0 DEF n
<1>9. P[0] = {}
  <2>1. 0 \in 0..n
    BY <1>0 DEF n
  <2> QED
    BY <1>7, <2>1
<1>10. \A i \in 1..n : P[i] = Step(P[i - 1], rows[i])
  BY <1>7, <1>8, Zenon
<1> QED
  BY <1>9, <1>10 DEF P, Step, n

\* What the mapping takes for granted of the rows of a history: their fields are those
\* it asks for, and dates and values are numbers.
RowsTyped(X) == \A r \in X : r.field \in HistoryFields /\ r.at \in Nat /\ r.val \in Int

LEMMA ValuedReportable ==
  ASSUME NEW X, RowsTyped(X), NEW r \in X
  PROVE  Valued(r) <=> Reportable(r)
<1>1. r.field \in HistoryFields /\ r.at \in Nat /\ r.val \in Int
  BY DEF RowsTyped
<1> QED
  BY <1>1 DEF Valued, Reportable, HistoryIssue, NoEvent, HistoryFields, Prices, EventOnly

\* The last reportable value of each field and time is kept, and no other.
LEMMA HistoriesStaySound ==
  ASSUME NEW X, RowsTyped(X), NEW rows \in Seq(X)
  PROVE  HistorySound(rows)
<1> DEFINE Slot(i) == <<rows[i].field, rows[i].at>>
           Last0(n) == {j \in 1..n : Valued(rows[j]) /\ \A k \in (j + 1)..n : Slot(k) = Slot(j) => ~Valued(rows[k])}
           Good(n) == Keeping(rows)[n] = {rows[j] : j \in Last0(n)}
           Broken == {n \in 0..Len(rows) : ~Good(n)}
<1>0. Len(rows) \in Nat /\ DOMAIN rows = 1..Len(rows)
  OBVIOUS
<1>1. Good(0)
  <2>1. Last0(0) = {}
    OBVIOUS
  <2> HIDE DEF Last0
  <2> QED
    BY <2>1, KeepingAt
<1>2. ASSUME NEW n \in 1..Len(rows), Good(n - 1) PROVE Good(n)
  <2>0. n \in Nat
    OBVIOUS
  <2>1. CASE ~Valued(rows[n])
    <3>1. Keeping(rows)[n] = Keeping(rows)[n - 1]
      BY <2>1, KeepingAt
    <3>2. Last0(n) = Last0(n - 1)
      <4>1. \A j \in 1..n : j \in Last0(n) <=> j \in Last0(n - 1)
        <5> SUFFICES ASSUME NEW j \in 1..n PROVE j \in Last0(n) <=> j \in Last0(n - 1)
          OBVIOUS
        <5>1. CASE j = n
          BY <2>0, <2>1, <5>1
        <5>2. CASE j < n
          <6>1. \A k \in (j + 1)..n : k = n \/ k \in (j + 1)..(n - 1)
            BY <2>0
          <6>2. \A k \in (j + 1)..(n - 1) : k \in (j + 1)..n
            BY <2>0
          <6>3. j \in 1..(n - 1)
            BY <2>0, <5>2
          <6> HIDE DEF Slot
          <6> QED
            BY <2>1, <6>1, <6>2, <6>3
        <5> QED
          BY <2>0, <5>1, <5>2
      <4> QED
        BY <2>0, <4>1
    <3> HIDE DEF Last0
    <3> QED
      BY <1>2, <3>1, <3>2
  <2>2. CASE Valued(rows[n])
    <3> DEFINE old == Keeping(rows)[n - 1]
    <3>1. Keeping(rows)[n] = {q \in old : <<q.field, q.at>> # Slot(n)} \cup {rows[n]}
      BY <2>2, KeepingAt
    <3>2. old = {rows[j] : j \in Last0(n - 1)}
      BY <1>2
    <3>3. \A j : j \in Last0(n) <=> j = n \/ (j \in Last0(n - 1) /\ Slot(j) # Slot(n))
      <4> SUFFICES ASSUME NEW j \in 1..n PROVE j \in Last0(n) <=> j = n \/ (j \in Last0(n - 1) /\ Slot(j) # Slot(n))
        <5>1. \A j : j \notin 1..n => j \notin Last0(n) /\ j # n /\ j \notin Last0(n - 1)
          BY <2>0
        <5> HIDE DEF Last0, Slot
        <5> QED
          BY <5>1
      <4>1. CASE j = n
        <5>1. n \in 1..n /\ (n + 1)..n = {}
          BY <2>0
        <5> QED
          BY <2>2, <4>1, <5>1
      <4>2. CASE j < n
        <5>1. \A k \in (j + 1)..n : k = n \/ k \in (j + 1)..(n - 1)
          BY <2>0
        <5>2. n \in (j + 1)..n /\ \A k \in (j + 1)..(n - 1) : k \in (j + 1)..n
          BY <2>0, <4>2
        <5>3. j \in 1..(n - 1) /\ j # n
          BY <2>0, <4>2
        <5> HIDE DEF Slot
        <5> QED
          BY <2>2, <5>1, <5>2, <5>3
      <4> QED
        BY <2>0, <4>1, <4>2
    <3> HIDE DEF Last0, old
    <3>4. \A q : q \in Keeping(rows)[n] <=> \E j \in Last0(n) : q = rows[j]
      BY <3>1, <3>2, <3>3
    <3> QED
      BY <3>4
  <2> QED
    BY <2>1, <2>2
<1> HIDE DEF Good
<1>3. ASSUME Broken # {} PROVE FALSE
  <2>1. PICK m \in Broken : \A k \in Broken : m <= k
    <3>1. Broken \in SUBSET Nat
      OBVIOUS
    <3> HIDE DEF Broken
    <3> QED
      BY <1>3, <3>1, LeastNat
  <2>2. m \in 1..Len(rows) /\ m - 1 \notin Broken /\ m - 1 \in 0..Len(rows)
    BY <1>0, <1>1, <2>1
  <2> QED
    BY <1>2, <2>1, <2>2
<1>4. Good(Len(rows))
  BY <1>0, <1>3
<1>5. \A i \in DOMAIN rows : Valued(rows[i]) <=> Reportable(rows[i])
  BY ValuedReportable
<1>6. MapHistory(rows) = {rows[j] : j \in Last0(Len(rows))}
  BY <1>0, <1>4 DEF Good, MapHistory
<1> DEFINE Reported(n) == {j \in 1..n : Reportable(rows[j]) /\ \A k \in (j + 1)..n : Slot(k) = Slot(j) => ~Reportable(rows[k])}
<1>7. Last0(Len(rows)) = Reported(Len(rows))
  <2>1. \A j \in 1..Len(rows) : \A k \in (j + 1)..Len(rows) : k \in DOMAIN rows
    BY <1>0
  <2> HIDE DEF Slot
  <2> QED
    BY <1>0, <1>5, <2>1
<1> QED
  BY <1>0, <1>6, <1>7 DEF HistorySound

--------------------------------------------------------------------------------
(* Company facts.                                                               *)

\* What the mapping takes for granted of facts: dates and digests are ordered, and
\* a digest is of one content.
FactsTyped(X) ==
  /\ \A f \in X : f.filed \in Int /\ f.digest \in Int
  /\ \A f, g \in X : f.digest = g.digest => f = g

\* The facts of a set that no rival in it outranks, and that each key has one.
Best(V)    == {f \in V : \A g \in V : KeyOf(g) = KeyOf(f) => g = f \/ Outranks(f, g)}
Crowned(V) == \A u \in V : \E f \in Best(V) : KeyOf(f) = KeyOf(u)

\* Of two usable facts one outranks the other, and outranking carries over.
LEMMA OutranksOrders ==
  ASSUME NEW X, FactsTyped(X)
  PROVE  LET Z == {f \in X : Usable(f)}
         IN  /\ \A f \in Z : ~Outranks(f, f)
             /\ \A f, g \in Z : f = g \/ Outranks(f, g) \/ Outranks(g, f)
             /\ \A f, g, h \in Z : Outranks(f, g) /\ Outranks(g, h) => Outranks(f, h)
<1> DEFINE Z == {f \in X : Usable(f)}
           Pri(f) == ConceptRule[f.concept].priority
<1>1. \A f \in Z : f \in X /\ f.filed \in Int /\ f.digest \in Int /\ Pri(f) \in Int
  <2>1. \A c \in DOMAIN ConceptRule : ConceptRule[c].priority \in Int
    BY DEF ConceptRule
  <2> QED
    BY <2>1 DEF Usable, Known, FactsTyped
<1> HIDE DEF Pri, Z
<1>2. \A f, g : Outranks(f, g) <=> \/ f.filed > g.filed
                                   \/ f.filed = g.filed /\ Pri(f) < Pri(g)
                                   \/ f.filed = g.filed /\ Pri(f) = Pri(g) /\ f.digest > g.digest
  BY DEF Outranks, Pri
<1>3. \A f \in Z : ~Outranks(f, f)
  BY <1>1, <1>2
<1>4. ASSUME NEW f \in Z, NEW g \in Z, f # g PROVE Outranks(f, g) \/ Outranks(g, f)
  <2>1. f.digest # g.digest
    BY <1>1, <1>4 DEF FactsTyped
  <2> QED
    BY <1>1, <1>2, <2>1
<1>5. ASSUME NEW f \in Z, NEW g \in Z, NEW h \in Z, Outranks(f, g), Outranks(g, h) PROVE Outranks(f, h)
  BY <1>1, <1>2, <1>5
<1> QED
  BY <1>3, <1>4, <1>5 DEF Z

\* One more fact keeps the best of what has been read.
LEMMA ConsiderBest ==
  ASSUME NEW X, FactsTyped(X), NEW V, V \subseteq {f \in X : Usable(f)}, Crowned(V), NEW f \in X
  PROVE  LET W == V \cup {g \in {f} : Usable(g)}
         IN  Consider(Best(V), f) = Best(W) /\ Crowned(W)
<1> DEFINE Z == {g \in X : Usable(g)}
           W == V \cup {g \in {f} : Usable(g)}
           rivals == {g \in Best(V) : KeyOf(g) = KeyOf(f)}
<1>0. Best(V) \subseteq V /\ V \subseteq Z
  BY DEF Best
<1>1. CASE ~Usable(f)
  BY <1>1 DEF Consider
<1>2. CASE Usable(f) /\ \E g \in rivals : ~Outranks(f, g)
  <2>1. PICK g \in Best(V) : KeyOf(g) = KeyOf(f) /\ ~Outranks(f, g)
    BY <1>2
  <2>2. W = V \cup {f} /\ f \in Z /\ Consider(Best(V), f) = Best(V)
    BY <1>2 DEF Consider
  <2> HIDE DEF Z, W
  <2>3. g = f \/ Outranks(g, f)
    BY <1>0, <2>1, <2>2, OutranksOrders DEF Z
  <2>4. \A h \in Best(V) : KeyOf(h) = KeyOf(f) => h = g
    <3>1. \A h \in Best(V) : h \in Z /\ g \in Z
      BY <1>0, <2>1
    <3>2. ASSUME NEW h \in Best(V), KeyOf(h) = KeyOf(f), h # g PROVE FALSE
      <4>1. Outranks(h, g) /\ Outranks(g, h)
        BY <1>0, <2>1, <3>2 DEF Best
      <4> QED
        BY <3>1, <4>1, OutranksOrders DEF Z
    <3> QED
      BY <3>2
  <2>5. Best(W) = Best(V)
    <3>1. ASSUME NEW h \in Best(V) PROVE h \in Best(W)
      BY <2>2, <2>3, <2>4, <3>1 DEF Best
    <3>2. ASSUME NEW h \in Best(W) PROVE h \in Best(V)
      <4>1. CASE h \in V
        BY <2>2, <3>2, <4>1 DEF Best
      <4>2. CASE h \notin V
        <5>1. h = f /\ g \in W /\ g # f
          BY <1>0, <2>1, <2>2, <3>2, <4>2 DEF Best
        <5> QED
          BY <2>1, <3>2, <5>1 DEF Best
      <4> QED
        BY <4>1, <4>2
    <3> QED
      BY <3>1, <3>2
  <2>6. Crowned(W)
    BY <2>1, <2>2, <2>5 DEF Crowned
  <2> QED
    BY <2>2, <2>5, <2>6 DEF W
<1>3. CASE Usable(f) /\ \A g \in rivals : Outranks(f, g)
  <2>1. W = V \cup {f} /\ f \in Z /\ Consider(Best(V), f) = (Best(V) \ rivals) \cup {f}
    BY <1>3 DEF Consider
  <2> HIDE DEF Z, W, rivals
  <2>2. ASSUME NEW u \in V, KeyOf(u) = KeyOf(f) PROVE Outranks(f, u)
    <3>1. PICK b \in Best(V) : KeyOf(b) = KeyOf(u)
      BY DEF Crowned
    <3>2. b \in rivals /\ (u = b \/ Outranks(b, u))
      BY <2>2, <3>1 DEF Best, rivals
    <3>3. u \in Z /\ b \in Z
      BY <1>0, <3>1
    <3> QED
      BY <1>3, <2>1, <3>2, <3>3, OutranksOrders DEF Z
  <2>3. f \in Best(W)
    BY <2>1, <2>2 DEF Best
  <2>4. ASSUME NEW h \in V PROVE h \in Best(W) <=> h \in (Best(V) \ rivals) \cup {f}
    <3>1. CASE KeyOf(h) = KeyOf(f)
      <4>1. h \in Best(W) => h = f
        <5>1. ASSUME h \in Best(W), h # f PROVE FALSE
          <6>1. Outranks(h, f) /\ Outranks(f, h)
            BY <2>1, <2>2, <3>1, <5>1 DEF Best
          <6>2. h \in Z
            BY <1>0
          <6> QED
            BY <2>1, <6>1, <6>2, OutranksOrders DEF Z
        <5> QED
          BY <5>1
      <4> QED
        BY <2>3, <3>1, <4>1 DEF rivals
    <3>2. CASE KeyOf(h) # KeyOf(f)
      BY <2>1, <3>2 DEF Best, rivals
    <3> QED
      BY <3>1, <3>2
  <2>5. \A h : h \in Best(W) <=> h \in (Best(V) \ rivals) \cup {f}
    <3>1. \A h : h \in Best(W) => h \in V \cup {f}
      BY <2>1 DEF Best
    <3>2. \A h : h \in (Best(V) \ rivals) \cup {f} => h \in V \cup {f}
      BY <1>0
    <3> QED
      BY <2>3, <2>4, <3>1, <3>2
  <2>6. Best(W) = (Best(V) \ rivals) \cup {f}
    BY <2>5
  <2>7. Crowned(W)
    BY <2>1, <2>3, <2>6 DEF Crowned, rivals
  <2> QED
    BY <2>1, <2>6, <2>7 DEF W
<1> QED
  BY <1>1, <1>2, <1>3

\* What is selected after one more fact, and the issues.
LEMMA SelectingAt ==
  ASSUME NEW X, NEW facts \in Seq(X)
  PROVE  /\ Selecting(facts)[0] = {}
         /\ \A n \in 1..Len(facts) : Selecting(facts)[n] = Consider(Selecting(facts)[n - 1], facts[n])
<1>0. Len(facts) \in Nat
  OBVIOUS
<1> DEFINE n == Len(facts)
           D == SUBSET X
           F == [w \in D \X (1..n) |-> Consider(w[1], facts[w[2]])]
           P == Selecting(facts)
<1>1. \A old \in D, i \in 1..n : facts[i] \in X /\ Consider(old, facts[i]) \in D
  BY DEF Consider
<1>2. P = CHOOSE g : g = [i \in 0..n |-> IF i = 0 THEN {} ELSE Consider(g[i - 1], facts[i])]
  BY DEF Selecting
<1> HIDE DEF P
<1>3. StepOver(F, D, n)
  BY <1>1 DEF StepOver
<1>4. \A old \in D, i \in 1..n : F[<<old, i>>] = Consider(old, facts[i])
  OBVIOUS
<1> HIDE DEF F, n, D
<1>5. PICK g : Runs(g, F, D, {}, n)
  <2>1. n \in Nat /\ {} \in D
    BY <1>0 DEF n, D
  <2> QED
    BY <1>3, <2>1, StepsExist, Zenon
<1>6. g = [i \in 0..n |-> IF i = 0 THEN {} ELSE Consider(g[i - 1], facts[i])]
  <2>1. ASSUME NEW i \in 1..n PROVE g[i] = Consider(g[i - 1], facts[i])
    <3>1. i - 1 \in 0..n
      BY <1>0 DEF n
    <3> QED
      BY <1>4, <1>5, <3>1 DEF Runs
  <2>2. \A i \in 0..n : i = 0 \/ i \in 1..n
    BY <1>0 DEF n
  <2>3. \A i \in 0..n : g[i] = IF i = 0 THEN {} ELSE Consider(g[i - 1], facts[i])
    BY <1>5, <2>1, <2>2 DEF Runs
  <2>4. g = [i \in 0..n |-> g[i]]
    BY <1>5 DEF Runs
  <2> QED
    BY <2>3, <2>4
<1>7. P = [i \in 0..n |-> IF i = 0 THEN {} ELSE Consider(P[i - 1], facts[i])]
  BY <1>2, <1>6
<1>8. 0 \in 0..n /\ \A i \in 1..n : i \in 0..n /\ i # 0
  BY <1>0 DEF n
<1>9. P[0] = {} /\ \A i \in 1..n : P[i] = Consider(P[i - 1], facts[i])
  BY <1>7, <1>8, Zenon
<1> QED
  BY <1>9 DEF P, n

\* The facts that are selected are the best of the usable ones.
LEMMA SelectedAreBest ==
  ASSUME NEW X, FactsTyped(X), NEW facts \in Seq(X)
  PROVE  LET V == {f \in ToSet(facts) : Usable(f)}
         IN  Selecting(facts)[Len(facts)] = Best(V) /\ Crowned(V) /\ V \subseteq X
<1> DEFINE V(n) == {f \in {facts[i] : i \in 1..n} : Usable(f)}
           S == {n \in 0..Len(facts) : Selecting(facts)[n] = Best(V(n)) /\ Crowned(V(n))}
<1>0. Len(facts) \in Nat /\ DOMAIN facts = 1..Len(facts)
  OBVIOUS
<1>1. 0 \in S
  <2>1. V(0) = {}
    OBVIOUS
  <2> HIDE DEF V
  <2> QED
    BY <1>0, <2>1, SelectingAt DEF Best, Crowned
<1>2. ASSUME NEW n \in 1..Len(facts), n - 1 \in S PROVE n \in S
  <2>1. V(n) = V(n - 1) \cup {g \in {facts[n]} : Usable(g)}
    BY <1>0
  <2>2. V(n - 1) \subseteq {f \in X : Usable(f)} /\ facts[n] \in X
    BY <1>0
  <2> HIDE DEF V
  <2> QED
    BY <1>0, <1>2, <2>1, <2>2, SelectingAt, ConsiderBest
<1>3. Len(facts) \in S
  <2> HIDE DEF S
  <2>1. \A m \in 1..Len(facts) : m - 1 \in S => m \in S
    BY <1>2
  <2>2. \A m \in 0..Len(facts) : m \in S
    BY <1>0, <1>1, <2>1, UpTo, Zenon
  <2> QED
    BY <1>0, <2>2
<1>4. V(Len(facts)) = {f \in ToSet(facts) : Usable(f)}
  BY <1>0 DEF ToSet
<1>5. V(Len(facts)) \subseteq X
  BY <1>0
<1> HIDE DEF V
<1> QED
  BY <1>3, <1>4, <1>5

\* A list of issues has at most as many entries as it may.
LEMMA IssuesBounded ==
  ASSUME NEW X, NEW issues, issues \in Seq(X)
  PROVE  Len(BoundedIssues(issues, 2)) <= 2
<1>1. CASE Len(issues) <= 2
  BY <1>1 DEF BoundedIssues
<1>2. CASE ~(Len(issues) <= 2)
  <2>1. Len(issues) \in Nat /\ Len(issues) > 2
    BY <1>2
  <2>2. SubSeq(issues, 1, 2 - 1) \in Seq(X) /\ Len(SubSeq(issues, 1, 2 - 1)) = 1
    BY <2>1
  <2>3. BoundedIssues(issues, 2) = Append(SubSeq(issues, 1, 2 - 1), "issues_truncated")
    BY <1>2 DEF BoundedIssues
  <2>4. SubSeq(issues, 1, 2 - 1) \in Seq(X \cup {"issues_truncated"})
    BY <2>2
  <2>5. Len(Append(SubSeq(issues, 1, 2 - 1), "issues_truncated")) = 2
    BY <2>2, <2>4
  <2>6. Len(BoundedIssues(issues, 2)) = 2
    BY <2>3, <2>5, Zenon
  <2> QED
    BY <2>6
<1> QED
  BY <1>1, <1>2

\* The issues are a list of codes.
LEMMA IssuesListed ==
  ASSUME NEW X, NEW facts \in Seq(X)
  PROVE  \E Y : SecIssues(facts) \in Seq(Y)
<1>0. Len(facts) \in Nat
  OBVIOUS
<1> DEFINE n == Len(facts)
           Y == {FactIssue(facts[i]) : i \in 1..n}
           D == Seq(Y)
           Step(old, f) == IF ~Known(f) \/ FactIssue(f) \in {"none", "skip"} THEN old
                           ELSE Append(old, FactIssue(f))
           F == [w \in D \X (1..n) |-> Step(w[1], facts[w[2]])]
           P == Raising(facts)
<1>1. \A old \in D, i \in 1..n : Step(old, facts[i]) \in D
  <2>1. \A i \in 1..n : FactIssue(facts[i]) \in Y
    OBVIOUS
  <2> HIDE DEF Y
  <2> QED
    BY <2>1
<1>2. P = CHOOSE g : g = [i \in 0..n |-> IF i = 0 THEN <<>> ELSE Step(g[i - 1], facts[i])]
  BY DEF Raising
<1> HIDE DEF P, Step
<1>3. StepOver(F, D, n)
  BY <1>1 DEF StepOver
<1>4. \A old \in D, i \in 1..n : F[<<old, i>>] = Step(old, facts[i])
  OBVIOUS
<1>5. <<>> \in D
  OBVIOUS
<1> HIDE DEF F, n, D
<1>6. PICK g : Runs(g, F, D, <<>>, n)
  <2>1. n \in Nat
    BY <1>0 DEF n
  <2> QED
    BY <1>3, <1>5, <2>1, StepsExist, Zenon
<1>7. g = [i \in 0..n |-> IF i = 0 THEN <<>> ELSE Step(g[i - 1], facts[i])]
  <2>1. ASSUME NEW i \in 1..n PROVE g[i] = Step(g[i - 1], facts[i])
    <3>1. i - 1 \in 0..n
      BY <1>0 DEF n
    <3> QED
      BY <1>4, <1>6, <3>1 DEF Runs
  <2>2. \A i \in 0..n : i = 0 \/ i \in 1..n
    BY <1>0 DEF n
  <2>3. \A i \in 0..n : g[i] = IF i = 0 THEN <<>> ELSE Step(g[i - 1], facts[i])
    BY <1>6, <2>1, <2>2 DEF Runs
  <2>4. g = [i \in 0..n |-> g[i]]
    BY <1>6 DEF Runs
  <2> QED
    BY <2>3, <2>4
<1>8. P = [i \in 0..n |-> IF i = 0 THEN <<>> ELSE Step(P[i - 1], facts[i])]
  BY <1>2, <1>7
<1> DEFINE S == {m \in 0..n : P[m] \in D}
<1>9. 0 \in S
  <2>1. 0 \in 0..n
    BY <1>0 DEF n
  <2> QED
    BY <1>5, <1>8, <2>1
<1>10. ASSUME NEW m \in 1..n, m - 1 \in S PROVE m \in S
  <2>1. m \in 0..n /\ m # 0
    BY <1>0 DEF n
  <2>2. P[m] = Step(P[m - 1], facts[m])
    BY <1>8, <2>1
  <2> QED
    BY <1>1, <1>10, <2>1, <2>2
<1>11. n \in S
  <2> HIDE DEF S
  <2>1. \A m \in 1..n : m - 1 \in S => m \in S
    BY <1>10
  <2>2. n \in Nat
    BY <1>0 DEF n
  <2>3. \A m \in 0..n : m \in S
    BY <1>9, <2>1, <2>2, UpTo, Zenon
  <2> QED
    BY <2>2, <2>3
<1> QED
  BY <1>11 DEF P, D, n, SecIssues

\* Whatever order a payload lists its facts in, the observations are the latest and
\* best of them, one for each metric, unit and period, and their evidence resolves.
LEMMA SecFactsStaySound ==
  ASSUME NEW X, FactsTyped(X), NEW facts \in Seq(X)
  PROVE  SecFactsSound(facts)
<1> DEFINE V == {f \in ToSet(facts) : Usable(f)}
           observed == MapSecFacts(facts)
<1>1. observed = {Observation(f) : f \in Best(V)} /\ Crowned(V) /\ V \subseteq X
  BY SelectedAreBest DEF MapSecFacts
<1>2. MapSecFacts(Reverse(facts)) = observed
  <2>1. Reverse(facts) \in Seq(X) /\ ToSet(Reverse(facts)) = ToSet(facts)
    <3>1. Len(facts) \in Nat /\ DOMAIN facts = 1..Len(facts)
      OBVIOUS
    <3> DEFINE N == Len(facts)
               r == [i \in 1..N |-> facts[N - i + 1]]
    <3>2. Reverse(facts) = r
      BY DEF Reverse
    <3>3. \A i \in 1..N : N - i + 1 \in 1..N /\ facts[i] \in X /\ N - (N - i + 1) + 1 = i
      BY <3>1
    <3>4. r \in Seq(X) /\ Len(r) = N /\ DOMAIN r = 1..N
      BY <3>1, <3>3
    <3>5. \A i \in 1..N : r[i] = facts[N - i + 1] /\ r[N - i + 1] = facts[i]
      BY <3>3
    <3> HIDE DEF r, N
    <3>6. {r[i] : i \in 1..N} = {facts[i] : i \in 1..N}
      BY <3>3, <3>5
    <3> QED
      BY <3>1, <3>2, <3>4, <3>6 DEF ToSet, N
  <2> HIDE DEF V
  <2>2. MapSecFacts(Reverse(facts)) = {Observation(f) : f \in Best(V)}
    BY <2>1, SelectedAreBest DEF MapSecFacts, V
  <2> QED
    BY <1>1, <2>2
<1> HIDE DEF V, observed
<1>3. \A f : <<Observation(f).name, Observation(f).unit, Observation(f).start, Observation(f).end>> = KeyOf(f)
              /\ Observation(f).evidence = f.digest
  BY DEF Observation, KeyOf
<1>4. ASSUME NEW f \in V
      PROVE  Cardinality({o \in observed : <<o.name, o.unit, o.start, o.end>> = KeyOf(f)}) = 1
  <2>1. PICK b \in Best(V) : KeyOf(b) = KeyOf(f)
    BY <1>1 DEF Crowned
  <2>2. ASSUME NEW o \in observed, <<o.name, o.unit, o.start, o.end>> = KeyOf(f) PROVE o = Observation(b)
    <3>1. PICK c \in Best(V) : o = Observation(c)
      BY <1>1
    <3>2. KeyOf(c) = KeyOf(b)
      BY <1>3, <2>1, <2>2, <3>1
    <3>3. c = b \/ (Outranks(c, b) /\ Outranks(b, c))
      BY <2>1, <3>1, <3>2 DEF Best
    <3>4. b \in {g \in X : Usable(g)} /\ c \in {g \in X : Usable(g)}
      BY <1>1, <2>1, <3>1 DEF Best, V
    <3>5. c = b
      BY <3>3, <3>4, OutranksOrders
    <3> QED
      BY <3>1, <3>5
  <2>3. Observation(b) \in observed
    BY <1>1, <2>1
  <2>4. {o \in observed : <<o.name, o.unit, o.start, o.end>> = KeyOf(f)} = {Observation(b)}
    BY <1>3, <2>1, <2>2, <2>3
  <2> QED
    BY <2>4, FS_Singleton
<1>5. ASSUME NEW o \in observed
      PROVE  \E f \in V : /\ Observation(f) = o
                          /\ \A g \in V : KeyOf(g) = KeyOf(f) =>
                               g.filed <= f.filed /\ (g.filed = f.filed =>
                                 ConceptRule[f.concept].priority <= ConceptRule[g.concept].priority)
  <2>1. PICK f \in Best(V) : o = Observation(f)
    BY <1>1
  <2>2. f \in V
    BY <2>1 DEF Best
  <2>3. ASSUME NEW g \in V, KeyOf(g) = KeyOf(f)
        PROVE  g.filed <= f.filed /\ (g.filed = f.filed =>
                 ConceptRule[f.concept].priority <= ConceptRule[g.concept].priority)
    <3>1. \A h \in V : h.filed \in Int /\ ConceptRule[h.concept].priority \in Int
      <4>1. \A c \in DOMAIN ConceptRule : ConceptRule[c].priority \in Int
        BY DEF ConceptRule
      <4> QED
        BY <1>1, <4>1 DEF V, Usable, Known, FactsTyped
    <3>2. g = f \/ Outranks(f, g)
      BY <2>1, <2>3 DEF Best
    <3> QED
      BY <2>2, <3>1, <3>2 DEF Outranks
  <2> QED
    BY <2>1, <2>2, <2>3
<1>6. BatchAdmitted(observed, {f.digest : f \in V})
  <2>1. \A o \in observed : \E f \in V : o = Observation(f) /\ o.evidence = f.digest
    BY <1>1, <1>3 DEF Best
  <2>2. \A f, g \in V : f.digest = g.digest => f = g
    BY <1>1 DEF FactsTyped
  <2>3. \A o, q \in observed : o # q => o.evidence # q.evidence
    BY <2>1, <2>2
  <2> QED
    BY <2>1, <2>3 DEF BatchAdmitted
<1>7. Len(BoundedIssues(SecIssues(facts), 2)) <= 2
  BY IssuesListed, IssuesBounded
<1> QED
  BY <1>2, <1>4, <1>5, <1>6, <1>7 DEF SecFactsSound, V, observed

\* What is asked about evidence: facts with their dates and digests, rows of a history,
\* at least one batch.
EvidenceAsked(X, R, B) ==
  /\ subject.kind = "facts"   => subject.input \in Seq(X)
  /\ subject.kind = "quotes"  => subject.input \in Seq(R)
  /\ subject.kind = "batches" => subject.input[1] \in Seq(B) \ {<<>>}

\* map_sec_company_facts, map_yfinance_history, ObservationLedger: for payloads of any
\* length the observations are the latest and best of the facts, whatever their order,
\* of a history's values of one field and time the last reportable one stays, and the
\* ledger never has a citation that dangles, whatever batches it refused.
THEOREM EvidenceStaysSound ==
  ASSUME NEW X, FactsTyped(X), NEW R, RowsTyped(R), NEW B
  PROVE  EvidenceAsked(X, R, B) /\ Evaluating => []EvidenceSound
<1>1. ASSUME EvidenceAsked(X, R, B) PROVE EvidenceSound
  <2>1. Is("facts") => SecFactsSound(subject.input)
    BY <1>1, SecFactsStaySound DEF EvidenceAsked, Is
  <2>2. Is("quotes") => HistorySound(subject.input)
    BY <1>1, HistoriesStaySound DEF EvidenceAsked, Is
  <2>3. Is("batches") => LedgerSound(subject.input[1], subject.input[2], 2, 2)
    <3>1. 2 \in Nat
      OBVIOUS
    <3>2. ASSUME Is("batches") PROVE subject.input[1] \in Seq(B) /\ subject.input[1] # <<>>
      BY <1>1, <3>2 DEF EvidenceAsked, Is
    <3> QED
      BY <3>1, <3>2, LedgersStaySound
  <2> QED
    BY <2>1, <2>2, <2>3 DEF EvidenceSound
<1>2. EvidenceAsked(X, R, B) /\ [Evaluate]_<<subject, evaluated>> => EvidenceAsked(X, R, B)'
  BY DEF EvidenceAsked, Evaluate
<1> QED
  BY <1>1, <1>2, PTL DEF Evaluating
================================================================================
