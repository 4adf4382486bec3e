--------------------------- MODULE AutomaticRunProofs ---------------------------
(***************************************************************************)
(* AutomaticRun, for every cohort, batch size, lane and slot count: the    *)
(* place of the generator determines what every member of the cohort and   *)
(* every planned review reads in the projection (Consistent), and the      *)
(* funnel, the lanes and the legality of the drafts follow from it.  Then  *)
(* the cohort the run starts from (Universe), for every policy and screen: *)
(* what every page adds, why an early stop loses nobody, and how members   *)
(* and exclusions add up to the rows that were fetched.                    *)
(***************************************************************************)
EXTENDS AutomaticRun, Universe, FiniteSetTheorems, FunctionTheorems,
        WellFoundedInduction, TLAPS

USE DEF Success, Terminal, Active, TaskStatus, Running,
        Beginning, Collecting, Waving, Reviewing, Ending

--------------------------------------------------------------------------------
(* The tasks of a plan.                                                    *)

LEMMA PlanTasks ==
  /\ \A m \in Members : Screen(m) \in Plan /\ Screen(m) \in Screens
  /\ \A j \in 1..DiligenceLimit : Diligence(j) \in Plan /\ Diligence(j) \notin Screens
  /\ Validator \in Plan /\ Validator \notin Screens
  /\ \A m : \A k : Screen(m) = Screen(k) => m = k
  /\ \A m : \A k : Diligence(m) = Diligence(k) => m = k
  /\ \A m : \A j : Screen(m) # Diligence(j) /\ Screen(m) # Validator /\ Diligence(j) # Validator
  BY DEF Plan, Screens, Diligences, Screen, Diligence, Validator

LEMMA Sizes ==
  ASSUME TypeOK
  PROVE  /\ size \in Nat /\ offset \in Nat /\ offset <= size /\ size <= MaxMembers
         /\ \A m \in Members : m \in Nat /\ 1 <= m /\ m <= size
         /\ IsFiniteSet(Members)
<1>1. size \in Nat /\ size <= MaxMembers
  BY AutomaticAssumption DEF TypeOK
<1>2. IsFiniteSet(Members)
  BY <1>1, FS_Interval DEF Members
<1> QED
  BY <1>1, <1>2 DEF TypeOK, Members

\* There is one first element at most.
LEMMA FirstUnique ==
  ASSUME NEW S \in SUBSET Int, NEW m \in First(S), NEW k \in First(S)
  PROVE  m = k
  BY DEF First

\* A published draft moves its task, and nothing else of the plan.
LEMMA PublishMoves ==
  ASSUME TypeOK, size > 0, NEW t \in Plan,
         NEW kind \in {"TASK_STARTED", "TOOL_STARTED", "TOOL_COMPLETED", "TOOL_FAILED", "TASK_COMPLETED",
                       "TASK_PARTIAL", "TASK_FAILED", "MODEL_TURN_STARTED", "MODEL_TURN_COMPLETED",
                       "ACTION_REJECTED"},
         Publish(kind, t), Accepts(kind, t)
  PROVE  /\ status' \in [Plan -> TaskStatus]
         /\ status'[t] = To(kind)
         /\ \A u \in Plan : u # t => status'[u] = status[u]
         /\ agent' \in [Lane -> {"running", "complete", "failed"}]
         /\ run' = run /\ evidence' = evidence /\ surfaced' = surfaced
<1>1. status \in [Plan -> TaskStatus] /\ agent \in [Lane -> {"running", "complete", "failed"}]
  BY Sizes DEF TypeOK
<1>2. To(kind) \in TaskStatus
  BY DEF To
<1>3. status' = [status EXCEPT ![t] = To(kind)] /\ agent' = [agent EXCEPT ![AgentOf(t)] = "running"]
  BY DEF Publish
<1> QED
  BY <1>1, <1>2, <1>3 DEF Publish

--------------------------------------------------------------------------------
(* What the properties say follows from the place of the generator.        *)

LEMMA FunnelFollows ==
  ASSUME TypeOK, size > 0, Placed
  PROVE  FunnelAgrees
<1> USE Sizes
<1>1. ASSUME NEW m \in Members
      PROVE  /\ ~(m \in failed /\ m \in screened)
             /\ status[Screen(m)] = "failed" => m \in failed
             /\ status[Screen(m)] \in Success => m \in screened /\ m \in ready /\ ~Collecting
             /\ m \in failed \cup screened => status[Screen(m)] # "queued"
  <2>1. Member(m)
    BY DEF Placed
  <2>2. CASE m \notin ready
    BY <2>1, <2>2 DEF Member, Waiting, Uncounted, Verdict, Settled, TypeOK
  <2>3. CASE m \in ready /\ Collecting
    BY <2>1, <2>3 DEF Member, Waiting, Uncounted
  <2>4. CASE m \in pending
    BY <2>1, <2>4 DEF Member, Waiting, Uncounted
  <2>5. CASE m \in wave
    <3>1. InWave(m) /\ ~Collecting /\ m \in ready
      BY <2>1, <2>5 DEF Member, Placed, Loops, TypeOK
    <3> QED
      BY <3>1 DEF InWave, Waiting, Started, Verdict, Settled, Uncounted
  <2>6. CASE m \in ready /\ ~Collecting /\ Settled(m)
    BY <2>6 DEF Settled
  <2> QED
    BY <2>1, <2>2, <2>3, <2>4, <2>5, <2>6 DEF Member
<1>2. ~Collecting => ready \subseteq evidence
  BY DEF Placed, Loops
<1>3. ASSUME DOMAIN shortlist # {}
      PROVE  failed \cup screened = Members
  <2>1. Reviewing \/ Ending
    BY <1>3 DEF Placed, Ranked
  <2>2. pending = {} /\ untrusted = {} /\ offset = size
    BY <2>1 DEF Placed, Loops
  <2>3. ASSUME NEW m \in Members PROVE m \in failed \cup screened
    <3>1. Member(m) /\ m <= offset
      BY <2>2 DEF Placed
    <3>2. CASE m \in wave
      BY <2>1, <3>1, <3>2 DEF Member, InWave, Settled
    <3> QED
      BY <2>1, <2>2, <3>1, <3>2 DEF Member, Settled
  <2> QED
    BY <2>3 DEF TypeOK
<1> QED
  BY <1>1, <1>2, <1>3 DEF FunnelAgrees, TypeOK

\* The screens under way are those of the wave, or the one being failed.
LEMMA UnderwayInWave ==
  ASSUME TypeOK, size > 0, Placed, NEW m \in Members, status[Screen(m)] \in Active
  PROVE  \/ m \in wave
         \/ at = "reject" /\ m \in First(untrusted)
<1>1. Member(m)
  BY DEF Placed
<1>2. m \in ready => ~Collecting
  BY <1>1 DEF Member, Waiting
<1> QED
  BY <1>1, <1>2, Sizes DEF Member, Waiting, Settled

LEMMA LanesFollow ==
  ASSUME TypeOK, size > 0, Placed
  PROVE  LanesExclusive
<1> DEFINE underway == {m \in Members : size > 0 /\ status[Screen(m)] \in Active}
<1>1. CASE at = "reject"
  <2>1. wave = {} /\ untrusted \in SUBSET Int
    BY <1>1, Sizes DEF Placed, Loops, TypeOK
  <2>2. \A m \in underway : m \in First(untrusted)
    BY <2>1, UnderwayInWave
  <2>3. \A m, k \in underway : m = k
    BY <2>1, <2>2, FirstUnique
  <2>4. underway = {} \/ \E m : underway = {m}
    BY <2>3
  <2>5. Cardinality(underway) <= 1
    <3> HIDE DEF underway
    <3>1. CASE underway = {}
      BY <3>1, FS_EmptySet
    <3>2. ASSUME NEW m, underway = {m} PROVE Cardinality(underway) <= 1
      <4>1. Cardinality({m}) = 1
        BY FS_Singleton
      <4>2. Cardinality(underway) = 1
        BY <3>2, <4>1, Zenon
      <4> QED
        BY <4>2
    <3>3. PICK m : underway = {} \/ underway = {m}
      BY <2>4
    <3> QED
      BY <3>1, <3>2, <3>3
  <2>6. Cardinality(underway) <= Slots
    <3>1. Cardinality(underway) \in Nat
      BY Sizes, FS_Subset, FS_CardinalityType
    <3> HIDE DEF underway
    <3> QED
      BY <2>5, <3>1, AutomaticAssumption
  <2> QED
    BY <2>3, <2>6 DEF LanesExclusive
<1>2. CASE at # "reject"
  <2>1. underway \subseteq wave
    BY <1>2, UnderwayInWave
  <2>2. IsFiniteSet(wave)
    BY Sizes, FS_Subset DEF TypeOK
  <2>3. Cardinality(underway) <= Cardinality(wave) /\ Cardinality(underway) \in Nat /\ Cardinality(wave) \in Nat
    BY <2>1, <2>2, FS_Subset, FS_CardinalityType
  <2>4. Cardinality(wave) <= Slots /\ \A m, k \in wave : LaneOf(m) = LaneOf(k) => m = k
    BY DEF Placed, WaveOrder
  <2> QED
    BY <2>1, <2>3, <2>4, AutomaticAssumption DEF LanesExclusive
<1> QED
  BY <1>1, <1>2

LEMMA OrderFollows ==
  ASSUME TypeOK, size > 0, Placed
  PROVE  LaneOrder
<1> SUFFICES ASSUME NEW m \in ready, NEW k \in ready, m < k, LaneOf(m) = LaneOf(k),
                    status[Screen(k)] # "queued"
             PROVE  status[Screen(m)] \in Terminal
  BY DEF LaneOrder
<1>1. m \in Members /\ k \in Members /\ m \in Int /\ k \in Int
  BY Sizes DEF TypeOK
<1>2. Member(m) /\ Member(k)
  BY <1>1 DEF Placed
<1>3. ~Collecting /\ k \notin pending
  BY <1>2 DEF Member, Waiting
<1>4. m \notin pending
  BY <1>1, <1>3 DEF Placed, WaveOrder
<1>5. m \notin wave
  BY <1>1, <1>3 DEF Placed, WaveOrder
<1>6. Settled(m)
  BY <1>2, <1>3, <1>4, <1>5 DEF Member
<1> QED
  BY <1>6 DEF Settled

--------------------------------------------------------------------------------
(* What a step leaves alone.                                               *)

\* Before the ranking no review and no validator is touched.
LEMMA OutsideReviews ==
  ASSUME Placed, ~Reviewing, ~Ending, ~Reviewing', ~Ending', shortlist' = shortlist,
         \A j \in 1..DiligenceLimit : status'[Diligence(j)] = status[Diligence(j)],
         status'[Validator] = status[Validator]
  PROVE  Reviews' /\ Ranked'
  BY DEF Placed, Reviews, ReviewStatus, Ranked

\* After the screening every member keeps its verdict.
LEMMA InsideReviews ==
  ASSUME TypeOK, size > 0, Placed, pending = {}, UNCHANGED <<cohort, screening>>, untrusted' = untrusted,
         ~Collecting, ~Waving \/ (at = "results" /\ due = {}), ~Collecting', ~Waving',
         \A m \in Members : status'[Screen(m)] = status[Screen(m)]
  PROVE  WaveOrder' /\ \A m \in Members : Member(m)'
<1>1. size' = size /\ offset' = offset /\ ready' = ready /\ failed' = failed /\ pending' = pending
      /\ wave' = wave /\ screened' = screened
  BY DEF cohort, screening
<1>2. WaveOrder'
  BY <1>1 DEF Placed, WaveOrder
<1>3. ASSUME NEW m \in Members
      PROVE  Member(m)'
  <2>1. Member(m) /\ untrusted = {} /\ offset = size
    BY DEF Placed, Loops
  <2>2. m <= offset
    BY <2>1, Sizes
  <2>3. Settled(m)
    BY <2>1, <2>2 DEF Member, InWave
  <2>4. Settled(m)'
    BY <1>1, <2>3 DEF Settled
  <2>5. m \in wave => InWave(m)'
    BY <2>4 DEF InWave
  <2> QED
    BY <1>1, <2>1, <2>2, <2>4, <2>5, Sizes DEF Member, Settled
<1> QED
  BY <1>2, <1>3

--------------------------------------------------------------------------------
(* Discovery and collection.                                               *)

LEMMA InitSafe == Init => TypeOK /\ Consistent
  BY AutomaticAssumption DEF Init, TypeOK, Consistent, Place, Members

LEMMA DiscoverStep ==
  ASSUME TypeOK, at = "discover", size = 0, due = {}, Discover
  PROVE  TypeOK' /\ size' > 0 /\ Placed' /\ run' = run
<1> USE DEF Discover, cohort, screening, ranking, projection
<1>1. /\ size' \in Nat /\ size' > 0 /\ size' <= MaxMembers /\ size' \in MinMembers..MaxMembers
      /\ offset' = 0 /\ Members = {}
  BY AutomaticAssumption DEF TypeOK, Members
<1>2. /\ untrusted' = {} /\ ready' = {} /\ failed' = {} /\ pending' = {} /\ wave' = {}
      /\ screened' = {} /\ deep' = {} /\ evidence' = {} /\ surfaced' = {} /\ due' = {}
      /\ DOMAIN shortlist' = {}
  BY <1>1 DEF TypeOK
<1>3. status' \in [Plan' -> TaskStatus] /\ \A t \in Plan' : status'[t] = "queued"
  BY DEF TaskStatus
<1>4. TypeOK'
  BY <1>1, <1>2, <1>3 DEF TypeOK, Place
<1>5. /\ \A m \in Members' : Screen(m) \in Plan'
      /\ \A j \in 1..DiligenceLimit : Diligence(j) \in Plan'
      /\ Validator \in Plan'
  BY DEF Plan, Screens, Diligences
<1>6. Reviews' /\ Ranked'
  BY <1>2, <1>3, <1>5 DEF Reviews, ReviewStatus, Ranked
<1>7. WaveOrder' /\ Loops'
  <2>1. Cardinality(wave') <= Slots
    BY <1>2, FS_EmptySet, AutomaticAssumption
  <2> QED
    BY <1>1, <1>2, <2>1 DEF WaveOrder, Loops
<1>8. ASSUME NEW m \in Members' PROVE Member(m)'
  BY <1>1, <1>2, <1>3, <1>5 DEF Member, Waiting, Uncounted, Members
<1> QED
  BY <1>1, <1>4, <1>6, <1>7, <1>8 DEF Placed

LEMMA CollectStep ==
  ASSUME TypeOK, size > 0, Placed, Collect
  PROVE  TypeOK' /\ Placed' /\ run' = run
<1> USE DEF Collect, cohort, screening, ranking, projection
<1>1. PICK trusted \in SUBSET ((offset + 1)..offset') :
        /\ due' = trusted
        /\ ready' = ready \cup trusted
        /\ untrusted' = ((offset + 1)..offset') \ trusted
  OBVIOUS
<1>2. /\ offset' \in Nat /\ offset < offset' /\ offset' <= size
      /\ (offset + 1)..offset' \subseteq Members
  BY Sizes, AutomaticAssumption DEF Lesser, Members
<1>3. Members' = Members /\ Plan' = Plan
  BY DEF Members, Plan, Screens, Diligences
<1>4. TypeOK'
  <2>1. trusted \subseteq Members /\ untrusted' \subseteq Members /\ ready' \subseteq Members
    BY <1>1, <1>2 DEF TypeOK
  <2>2. status' \in [IF size' = 0 THEN {} ELSE Plan' -> TaskStatus] /\ offset' \in 0..size'
    BY <1>2, <1>3, Sizes DEF TypeOK
  <2>3. UNCHANGED <<at, broken, client, size, failed, pending, wave, screened, shortlist, deep,
                    agent, evidence, surfaced, run>> /\ ready \subseteq ready'
    BY <1>1
  <2> QED
    BY <1>1, <1>3, <2>1, <2>2, <2>3 DEF TypeOK
<1>5. pending = {} /\ wave = {}
  BY DEF Placed, Loops
<1>6. Loops'
  BY <1>1, <1>5 DEF Placed, Loops
<1>7. WaveOrder'
  BY <1>5 DEF Placed, WaveOrder
<1>8. Reviews' /\ Ranked'
  BY OutsideReviews
<1>9. ASSUME NEW m \in Members PROVE Member(m)'
  <2>1. Member(m) /\ m \in Nat
    BY Sizes DEF Placed
  <2>2. CASE m > offset
    BY <1>1, <1>2, <1>5, <2>1, <2>2, Sizes DEF Member, Waiting, Uncounted
  <2>3. CASE ~(m > offset)
    BY <1>1, <1>2, <1>5, <2>1, <2>3, Sizes DEF Member, Waiting, Uncounted, Settled, Verdict
  <2> QED
    BY <2>2, <2>3
<1> QED
  BY <1>3, <1>4, <1>6, <1>7, <1>8, <1>9 DEF Placed

LEMMA RecordEvidenceStep ==
  ASSUME TypeOK, size > 0, Placed, RecordEvidence
  PROVE  TypeOK' /\ Placed' /\ run' = run
<1> USE DEF RecordEvidence, cohort, screening, ranking, projection
<1>1. PICK m \in First(due) : evidence' = evidence \cup {m} /\ due' = due \ {m}
  OBVIOUS
<1>2. due \subseteq ready /\ m \in due
  BY DEF Placed, Loops, First
<1>3. Members' = Members /\ Plan' = Plan
  BY DEF Members, Plan, Screens, Diligences
<1>4. TypeOK'
  BY <1>1, <1>2, <1>3 DEF TypeOK
<1>5. Loops'
  BY <1>1, <1>2 DEF Placed, Loops
<1>6. WaveOrder'
  BY DEF Placed, WaveOrder
<1>7. Reviews' /\ Ranked'
  BY OutsideReviews
<1>8. ASSUME NEW k \in Members PROVE Member(k)'
  <2>1. Member(k) /\ wave = {}
    BY DEF Placed, Loops
  <2> QED
    BY <2>1 DEF Member, Waiting, Uncounted, Settled, Verdict
<1> QED
  BY <1>3, <1>4, <1>5, <1>6, <1>7, <1>8 DEF Placed

LEMMA EndCollectionStep ==
  ASSUME TypeOK, size > 0, Placed, EndCollection
  PROVE  TypeOK' /\ Placed' /\ run' = run
<1> USE DEF EndCollection, cohort, screening, ranking, projection
<1>1. pending = {} /\ wave = {}
  BY DEF Placed, Loops
<1>2. Members' = Members /\ Plan' = Plan
  BY DEF Members, Plan, Screens, Diligences
<1>3. TypeOK'
  BY <1>2 DEF TypeOK, Place
<1>4. Loops'
  BY <1>1 DEF Placed, Loops
<1>5. WaveOrder'
  BY <1>1 DEF Placed, WaveOrder
<1>6. Reviews' /\ Ranked'
  BY OutsideReviews
<1>7. ASSUME NEW m \in Members PROVE Member(m)'
  <2>1. Member(m)
    BY DEF Placed
  <2> QED
    BY <1>1, <2>1, Sizes DEF Member, Waiting, Uncounted, Settled
<1> QED
  BY <1>2, <1>3, <1>4, <1>5, <1>6, <1>7 DEF Placed

--------------------------------------------------------------------------------
(* The drafts about screens.                                               *)

\* Screens depend on nothing: their drafts are accepted in the right status.
LEMMA ScreenPublished ==
  ASSUME TypeOK, size > 0, Placed, NEW m \in Members,
         NEW kind \in {"TASK_STARTED", "TOOL_STARTED", "TOOL_COMPLETED", "TOOL_FAILED", "TASK_COMPLETED",
                       "TASK_PARTIAL", "TASK_FAILED"},
         Publish(kind, Screen(m)), status[Screen(m)] \in From(kind),
         ~Reviewing, ~Ending, ~Reviewing', ~Ending', shortlist' = shortlist, size' = size
  PROVE  /\ status' \in [Plan' -> TaskStatus]
         /\ status'[Screen(m)] = To(kind)
         /\ \A k \in Members : k # m => status'[Screen(k)] = status[Screen(k)]
         /\ agent' \in [Lane -> {"running", "complete", "failed"}]
         /\ run' = run /\ evidence' = evidence /\ surfaced' = surfaced
         /\ Reviews' /\ Ranked'
         /\ Members' = Members
<1>1. Members' = Members /\ Plan' = Plan
  BY DEF Members, Plan, Screens, Diligences
<1>2. Screen(m) \in Plan /\ Accepts(kind, Screen(m))
  BY PlanTasks DEF Accepts, DependsOn
<1>3. /\ status' \in [Plan -> TaskStatus]
      /\ status'[Screen(m)] = To(kind)
      /\ \A u \in Plan : u # Screen(m) => status'[u] = status[u]
      /\ agent' \in [Lane -> {"running", "complete", "failed"}]
      /\ run' = run /\ evidence' = evidence /\ surfaced' = surfaced
  BY <1>2, PublishMoves
<1>4. \A k \in Members : k # m => status'[Screen(k)] = status[Screen(k)]
  BY <1>3, PlanTasks
<1>5. /\ \A j \in 1..DiligenceLimit : status'[Diligence(j)] = status[Diligence(j)]
      /\ status'[Validator] = status[Validator]
  BY <1>3, PlanTasks
<1>6. Reviews' /\ Ranked'
  BY <1>5, OutsideReviews
<1> QED
  BY <1>1, <1>3, <1>4, <1>6

\* The first of what is still to come is a member.
LEMMA FirstMember ==
  ASSUME TypeOK, size > 0, Placed
  PROVE  /\ \A m \in First(untrusted) : m \in Members /\ m \in untrusted
         /\ Waving => \A m \in First(due) : m \in Members /\ m \in due /\ m \in wave
         /\ \A m, k \in First(untrusted) : m = k
         /\ Waving => \A m, k \in First(due) : m = k
<1>1. untrusted \subseteq Members
  BY DEF TypeOK
<1>2. Waving => due \subseteq wave /\ due \subseteq Members
  BY DEF TypeOK, Placed, Loops
<1>3. Members \subseteq Int
  BY Sizes
<1>4. /\ \A m \in First(untrusted) : m \in untrusted
      /\ \A m \in First(due) : m \in due
  BY DEF First
<1>5. \A m, k \in First(untrusted) : m = k
  BY <1>1, <1>3, FirstUnique
<1>6. Waving => \A m, k \in First(due) : m = k
  BY <1>2, <1>3, FirstUnique
<1> QED
  BY <1>1, <1>2, <1>4, <1>5, <1>6

LEMMA AdmitUntrustedStep ==
  ASSUME TypeOK, size > 0, Placed, AdmitUntrusted
  PROVE  TypeOK' /\ Placed' /\ run' = run
<1> USE DEF AdmitUntrusted, cohort, screening, ranking
<1>1. PICK m \in First(untrusted) : failed' = failed \cup {m} /\ Publish("TASK_STARTED", Screen(m))
  OBVIOUS
<1>2. m \in Members /\ m \in untrusted /\ m \notin ready /\ Waiting(m)
  BY <1>1, FirstMember DEF Placed, Member
<1>3. /\ status' \in [Plan' -> TaskStatus]
      /\ status'[Screen(m)] = "running"
      /\ \A k \in Members : k # m => status'[Screen(k)] = status[Screen(k)]
      /\ agent' \in [Lane -> {"running", "complete", "failed"}]
      /\ run' = run /\ evidence' = evidence /\ surfaced' = surfaced
      /\ Reviews' /\ Ranked'
      /\ Members' = Members
  BY <1>1, <1>2, ScreenPublished DEF Waiting, From, To
<1>4. TypeOK'
  BY <1>1, <1>2, <1>3, Sizes DEF TypeOK, Place
<1>5. Loops'
  BY <1>3 DEF Placed, Loops
<1>6. WaveOrder'
  BY DEF Placed, WaveOrder
<1>7. ASSUME NEW k \in Members PROVE Member(k)'
  <2>1. Member(k) /\ pending = {} /\ wave = {}
    BY DEF Placed, Loops
  <2>2. First(untrusted)' = First(untrusted) /\ (k \in First(untrusted) => k = m)
    BY <1>1, FirstMember DEF First
  <2>3. CASE k = m
    BY <1>1, <1>2, <1>3, <2>1, <2>2, <2>3, Sizes DEF Member, Verdict, Waiting, Uncounted
  <2>4. CASE k # m
    BY <1>1, <1>3, <2>1, <2>2, <2>4 DEF Member, Waiting, Uncounted, Settled
  <2> QED
    BY <2>3, <2>4
<1> QED
  BY <1>3, <1>4, <1>5, <1>6, <1>7 DEF Placed

LEMMA RejectUntrustedStep ==
  ASSUME TypeOK, size > 0, Placed, RejectUntrusted
  PROVE  TypeOK' /\ Placed' /\ run' = run
<1> USE DEF RejectUntrusted, cohort, screening, ranking
<1>1. PICK m \in First(untrusted) : Publish("TASK_FAILED", Screen(m)) /\ untrusted' = untrusted \ {m}
  OBVIOUS
<1>2. m \in Members /\ m \in untrusted /\ m \notin ready /\ Verdict(m) /\ m <= offset
  BY <1>1, FirstMember, Sizes DEF Placed, Member
<1>3. /\ status' \in [Plan' -> TaskStatus]
      /\ status'[Screen(m)] = "failed"
      /\ \A k \in Members : k # m => status'[Screen(k)] = status[Screen(k)]
      /\ agent' \in [Lane -> {"running", "complete", "failed"}]
      /\ run' = run /\ evidence' = evidence /\ surfaced' = surfaced
      /\ Reviews' /\ Ranked'
      /\ Members' = Members
  BY <1>1, <1>2, ScreenPublished DEF Verdict, From, To
<1>4. TypeOK'
  BY <1>1, <1>2, <1>3, Sizes DEF TypeOK, Place
<1>5. Loops'
  BY <1>3 DEF Placed, Loops
<1>6. WaveOrder'
  BY DEF Placed, WaveOrder
<1>7. ASSUME NEW k \in Members PROVE Member(k)'
  <2>1. Member(k) /\ pending = {} /\ wave = {}
    BY DEF Placed, Loops
  <2>2. k \in First(untrusted) => k = m
    BY <1>1, FirstMember
  <2>3. CASE k = m
    BY <1>1, <1>2, <1>3, <2>1, <2>2, <2>3, Sizes DEF Member, Verdict, Settled
  <2>4. CASE k # m
    BY <1>1, <1>3, <2>1, <2>2, <2>4 DEF Member, Waiting, Uncounted, Settled
  <2> QED
    BY <2>3, <2>4
<1> QED
  BY <1>3, <1>4, <1>5, <1>6, <1>7 DEF Placed

--------------------------------------------------------------------------------
(* Waves.                                                                  *)

\* A wave is no larger than the slots: counting the firsts before it numbers
\* its issuers below Slots.
LEMMA WaveFits ==
  ASSUME NEW S \in SUBSET Int, IsFiniteSet(S)
  PROVE  Wave(S) \subseteq S /\ Cardinality(Wave(S)) <= Slots
<1> DEFINE firsts == {m \in S : \A k \in S : LaneOf(k) = LaneOf(m) => m <= k}
           Before(b) == {e \in firsts : e < b}
           place == [w \in Wave(S) |-> Cardinality(Before(w))]
<1>1. IsFiniteSet(firsts) /\ firsts \subseteq S /\ Wave(S) = {m \in firsts : Cardinality(Before(m)) < Slots}
  BY FS_Subset DEF Wave
<1>2. \A m : IsFiniteSet(Before(m)) /\ Cardinality(Before(m)) \in Nat
  BY <1>1, FS_Subset, FS_CardinalityType
<1>3. IsFiniteSet(0..(Slots - 1)) /\ Cardinality(0..(Slots - 1)) = Slots
  BY FS_Interval, AutomaticAssumption
<1>4. \A m \in Wave(S) : m \in firsts /\ m \in Int /\ Cardinality(Before(m)) \in 0..(Slots - 1)
  <2> SUFFICES ASSUME NEW m \in Wave(S)
               PROVE  m \in firsts /\ m \in Int /\ Cardinality(Before(m)) \in 0..(Slots - 1)
    OBVIOUS
  <2>1. m \in firsts /\ m \in Int /\ Cardinality(Before(m)) < Slots
    BY <1>1
  <2>2. Cardinality(Before(m)) \in Nat
    BY <1>2
  <2> HIDE DEF Before
  <2> QED
    BY <2>1, <2>2, AutomaticAssumption
<1>5. ASSUME NEW m \in Wave(S), NEW k \in Wave(S), m < k
      PROVE  Cardinality(Before(m)) < Cardinality(Before(k))
  <2>1. Before(m) \subseteq Before(k) /\ m \in Before(k) /\ m \notin Before(m)
    <3>1. m \in Int /\ k \in Int /\ m \in firsts
      BY <1>4
    <3>2. \A n \in firsts : n \in Int
      BY <1>1
    <3> HIDE DEF firsts
    <3>3. m \in Before(k) /\ m \notin Before(m)
      BY <1>5, <3>1
    <3>4. ASSUME NEW e \in Before(m) PROVE e \in Before(k)
      <4>1. e \in firsts /\ e < m /\ e \in Int
        BY <3>2
      <4>2. e < k
        BY <1>5, <3>1, <4>1
      <4> QED
        BY <4>1, <4>2
    <3> QED
      BY <3>3, <3>4
  <2>2. Cardinality(Before(m)) <= Cardinality(Before(k))
        /\ (Cardinality(Before(m)) = Cardinality(Before(k)) => Before(m) = Before(k))
    BY <1>2, <2>1, FS_Subset
  <2> HIDE DEF Before
  <2> QED
    BY <1>2, <2>1, <2>2
<1>6. \A m, k \in Wave(S) : place[m] = place[k] => m = k
  <2> SUFFICES ASSUME NEW m \in Wave(S), NEW k \in Wave(S), place[m] = place[k], m # k
               PROVE  FALSE
    OBVIOUS
  <2>1. m \in Int /\ k \in Int
    BY <1>4
  <2>5. m < k \/ k < m
    <3> HIDE DEF place
    <3> QED
      BY <2>1
  <2>2. Cardinality(Before(m)) = Cardinality(Before(k))
    <3> HIDE DEF Before
    <3> QED
      OBVIOUS
  <2>3. Cardinality(Before(m)) \in Nat /\ Cardinality(Before(k)) \in Nat
    BY <1>2
  <2>4. Cardinality(Before(m)) # Cardinality(Before(k))
    <3>1. CASE m < k
      BY <1>5, <3>1, <2>3
    <3>2. CASE k < m
      BY <1>5, <3>2, <2>3
    <3> QED
      BY <2>5, <3>1, <3>2
  <2> QED
    BY <2>2, <2>4
<1>7. place \in Injection(Wave(S), 0..(Slots - 1))
  <2>1. place \in [Wave(S) -> 0..(Slots - 1)]
    BY <1>4
  <2> HIDE DEF place
  <2> QED
    BY <1>6, <2>1 DEF Injection, IsInjective
<1>8. Cardinality(Wave(S)) <= Cardinality(0..(Slots - 1))
  BY <1>3, <1>7, FS_Injection
<1> QED
  BY <1>1, <1>3, <1>8

LEMMA PlanWaveStep ==
  ASSUME TypeOK, size > 0, Placed, PlanWave
  PROVE  TypeOK' /\ Placed' /\ run' = run
<1> USE DEF PlanWave, cohort, screening, ranking, projection
<1>1. pending \subseteq Members /\ pending \in SUBSET Int /\ IsFiniteSet(pending)
  BY Sizes, FS_Subset DEF TypeOK
<1>2. wave' \subseteq pending /\ Cardinality(wave') <= Slots
  BY <1>1, WaveFits
<1>3. Members' = Members /\ Plan' = Plan
  BY DEF Members, Plan, Screens, Diligences
<1>4. TypeOK'
  BY <1>1, <1>2, <1>3 DEF TypeOK, Place
<1>5. Loops'
  BY <1>2 DEF Placed, Loops
<1>6. Reviews' /\ Ranked'
  BY OutsideReviews
<1>7. ASSUME NEW m \in Members PROVE Member(m)'
  <2>1. Member(m) /\ m <= offset
    BY Sizes DEF Placed, Loops
  <2>2. m \in wave => Settled(m)
    BY <2>1 DEF Member, InWave
  <2>3. m \in wave' => Waiting(m)
    BY <1>2, <2>1 DEF Member
  <2> QED
    BY <1>2, <2>1, <2>2, <2>3 DEF Member, InWave, Waiting, Uncounted, Settled
<1>8. WaveOrder'
  <2>1. \A m \in wave' : \A k \in pending : LaneOf(k) = LaneOf(m) => m <= k
    BY DEF Wave
  <2>2. \A m, k \in wave' : LaneOf(m) = LaneOf(k) => m = k
    BY <1>1, <1>2, <2>1
  <2>3. \A m \in pending', k \in wave' : LaneOf(m) = LaneOf(k) => k < m
    BY <1>1, <1>2, <2>1
  <2>4. \A m \in pending' \cup wave' : m \in pending
    BY <1>2
  <2>5. \A m \in pending, k \in ready : k \notin pending' /\ k \notin wave' /\ LaneOf(m) = LaneOf(k) => k < m
    BY <1>2 DEF Placed, WaveOrder
  <2> QED
    BY <1>2, <2>2, <2>3, <2>4, <2>5 DEF WaveOrder
<1> QED
  BY <1>3, <1>4, <1>5, <1>6, <1>7, <1>8 DEF Placed

--------------------------------------------------------------------------------
(* The steps of a wave.                                                    *)

LEMMA StartScreenStep ==
  ASSUME TypeOK, size > 0, Placed, StartScreen
  PROVE  TypeOK' /\ Placed' /\ run' = run
<1> USE DEF StartScreen, cohort, screening, ranking
<1>1. PICK m \in First(due) : Publish("TASK_STARTED", Screen(m))
  OBVIOUS
<1>2. m \in Members /\ m \in due /\ m \in wave /\ m \notin pending /\ m \in ready /\ Member(m)
  BY <1>1, FirstMember DEF Placed, Loops, TypeOK
<1>3. Waiting(m)
  BY <1>1, <1>2 DEF Member, InWave
<1>4. /\ status' \in [Plan' -> TaskStatus]
      /\ status'[Screen(m)] = "running"
      /\ \A k \in Members : k # m => status'[Screen(k)] = status[Screen(k)]
      /\ agent' \in [Lane -> {"running", "complete", "failed"}]
      /\ run' = run /\ evidence' = evidence /\ surfaced' = surfaced
      /\ Reviews' /\ Ranked'
      /\ Members' = Members
  BY <1>1, <1>2, <1>3, ScreenPublished DEF Waiting, From, To
<1>5. TypeOK'
  BY <1>1, <1>2, <1>4, Sizes DEF TypeOK, Place
<1>6. Loops'
  BY <1>1, <1>4 DEF Placed, Loops
<1>7. WaveOrder'
  BY DEF Placed, WaveOrder
<1>8. ASSUME NEW k \in Members PROVE Member(k)'
  <2>1. Member(k) /\ k <= offset /\ (k \in First(due) => k = m)
    BY <1>1, FirstMember, Sizes DEF Placed, Loops
  <2>2. First(due)' = First(due)
    BY DEF First
  <2>3. CASE k = m
    BY <1>1, <1>2, <1>3, <1>4, <2>1, <2>2, <2>3 DEF Member, InWave, Waiting, Started, Verdict, Uncounted, Settled
  <2>4. CASE k # m
    BY <1>1, <1>4, <2>1, <2>2, <2>4 DEF Member, InWave, Waiting, Started, Verdict, Uncounted, Settled
  <2> QED
    BY <2>3, <2>4
<1> QED
  BY <1>4, <1>5, <1>6, <1>7, <1>8 DEF Placed

LEMMA StartToolStep ==
  ASSUME TypeOK, size > 0, Placed, StartTool
  PROVE  TypeOK' /\ Placed' /\ run' = run
<1> USE DEF StartTool, cohort, screening, ranking
<1>1. PICK m \in First(due) : Publish("TOOL_STARTED", Screen(m)) /\ due' = due \ {m}
  OBVIOUS
<1>2. m \in Members /\ m \in due /\ m \in wave /\ m \notin pending /\ m \in ready /\ Member(m)
  BY <1>1, FirstMember DEF Placed, Loops, TypeOK
<1>3. Uncounted(m) /\ status[Screen(m)] = "running"
  BY <1>1, <1>2 DEF Member, InWave
<1>4. /\ status' \in [Plan' -> TaskStatus]
      /\ status'[Screen(m)] = "waiting_tool"
      /\ \A k \in Members : k # m => status'[Screen(k)] = status[Screen(k)]
      /\ agent' \in [Lane -> {"running", "complete", "failed"}]
      /\ run' = run /\ evidence' = evidence /\ surfaced' = surfaced
      /\ Reviews' /\ Ranked'
      /\ Members' = Members
  BY <1>1, <1>2, <1>3, ScreenPublished DEF Waiting, From, To
<1>5. TypeOK'
  BY <1>1, <1>2, <1>4, Sizes DEF TypeOK, Place
<1>6. Loops'
  BY <1>1, <1>4 DEF Placed, Loops
<1>7. WaveOrder'
  BY DEF Placed, WaveOrder
<1>8. ASSUME NEW k \in Members PROVE Member(k)'
  <2>1. Member(k) /\ k <= offset /\ (k \in First(due) => k = m)
    BY <1>1, FirstMember, Sizes DEF Placed, Loops
  <2>2. due' = due \ {m}
    BY <1>1
  <2>3. CASE k = m
    BY <1>1, <1>2, <1>3, <1>4, <2>1, <2>2, <2>3 DEF Member, InWave, Waiting, Started, Verdict, Uncounted, Settled
  <2>4. CASE k # m
    BY <1>1, <1>4, <2>1, <2>2, <2>4 DEF Member, InWave, Waiting, Started, Verdict, Uncounted, Settled
  <2> QED
    BY <2>3, <2>4
<1> QED
  BY <1>4, <1>5, <1>6, <1>7, <1>8 DEF Placed

LEMMA AnalyseWaveStep ==
  ASSUME TypeOK, size > 0, Placed, AnalyseWave
  PROVE  TypeOK' /\ Placed' /\ run' = run
<1> USE DEF AnalyseWave, cohort, screening, ranking, projection
<1>1. Members' = Members /\ Plan' = Plan
  BY DEF Members, Plan, Screens, Diligences
<1>2. wave \subseteq Members /\ wave \subseteq 1..MaxMembers
  <2>1. wave \subseteq Members
    BY DEF TypeOK
  <2>2. Members \subseteq 1..MaxMembers
    BY Sizes, AutomaticAssumption
  <2> QED
    BY <2>1, <2>2
<1>3. TypeOK'
  BY <1>1, <1>2 DEF TypeOK, Place
<1>4. Loops'
  BY DEF Placed, Loops
<1>5. WaveOrder'
  BY DEF Placed, WaveOrder
<1>6. Reviews' /\ Ranked'
  BY OutsideReviews
<1>7. ASSUME NEW m \in Members PROVE Member(m)'
  <2>1. Member(m)
    BY DEF Placed
  <2> QED
    BY <2>1 DEF Member, InWave, Waiting, Started, Uncounted, Settled
<1> QED
  BY <1>1, <1>3, <1>4, <1>5, <1>6, <1>7 DEF Placed

LEMMA ToolFailsStep ==
  ASSUME TypeOK, size > 0, Placed, ToolFails
  PROVE  TypeOK' /\ Placed' /\ run' = run
<1> USE DEF ToolFails, cohort, screening, ranking
<1>1. PICK m \in First(due) : failed' = failed \cup {m} /\ Publish("TOOL_FAILED", Screen(m))
  OBVIOUS
<1>2. m \in Members /\ m \in due /\ m \in wave /\ m \notin pending /\ m \in ready /\ Member(m)
  BY <1>1, FirstMember DEF Placed, Loops, TypeOK
<1>3. Started(m)
  BY <1>1, <1>2 DEF Member, InWave
<1>4. /\ status' \in [Plan' -> TaskStatus]
      /\ status'[Screen(m)] = "running"
      /\ \A k \in Members : k # m => status'[Screen(k)] = status[Screen(k)]
      /\ agent' \in [Lane -> {"running", "complete", "failed"}]
      /\ run' = run /\ evidence' = evidence /\ surfaced' = surfaced
      /\ Reviews' /\ Ranked'
      /\ Members' = Members
  BY <1>1, <1>2, <1>3, ScreenPublished DEF Started, From, To
<1>5. TypeOK'
  BY <1>1, <1>2, <1>4, Sizes DEF TypeOK, Place
<1>6. Loops'
  BY <1>1, <1>4 DEF Placed, Loops
<1>7. WaveOrder'
  BY DEF Placed, WaveOrder
<1>8. ASSUME NEW k \in Members PROVE Member(k)'
  <2>1. Member(k) /\ k <= offset /\ (k \in First(due) => k = m)
    BY <1>1, FirstMember, Sizes DEF Placed, Loops
  <2>2. First(due)' = First(due)
    BY DEF First
  <2>3. CASE k = m
    BY <1>1, <1>2, <1>3, <1>4, <2>1, <2>2, <2>3 DEF Member, InWave, Waiting, Started, Verdict, Uncounted, Settled
  <2>4. CASE k # m
    BY <1>1, <1>4, <2>1, <2>2, <2>4 DEF Member, InWave, Waiting, Started, Verdict, Uncounted, Settled
  <2> QED
    BY <2>3, <2>4
<1> QED
  BY <1>4, <1>5, <1>6, <1>7, <1>8 DEF Placed

LEMMA FailScreenStep ==
  ASSUME TypeOK, size > 0, Placed, FailScreen
  PROVE  TypeOK' /\ Placed' /\ run' = run
<1> USE DEF FailScreen, cohort, screening, ranking
<1>1. PICK m \in First(due) : Publish("TASK_FAILED", Screen(m)) /\ due' = due \ {m}
  OBVIOUS
<1>2. m \in Members /\ m \in due /\ m \in wave /\ m \notin pending /\ m \in ready /\ Member(m)
  BY <1>1, FirstMember DEF Placed, Loops, TypeOK
<1>3. Verdict(m)
  BY <1>1, <1>2 DEF Member, InWave
<1>4. /\ status' \in [Plan' -> TaskStatus]
      /\ status'[Screen(m)] = "failed"
      /\ \A k \in Members : k # m => status'[Screen(k)] = status[Screen(k)]
      /\ agent' \in [Lane -> {"running", "complete", "failed"}]
      /\ run' = run /\ evidence' = evidence /\ surfaced' = surfaced
      /\ Reviews' /\ Ranked'
      /\ Members' = Members
  BY <1>1, <1>2, <1>3, ScreenPublished DEF Verdict, From, To
<1>5. TypeOK'
  BY <1>1, <1>2, <1>4, Sizes DEF TypeOK, Place
<1>6. Loops'
  BY <1>1, <1>4 DEF Placed, Loops
<1>7. WaveOrder'
  BY DEF Placed, WaveOrder
<1>8. ASSUME NEW k \in Members PROVE Member(k)'
  <2>1. Member(k) /\ k <= offset /\ (k \in First(due) => k = m)
    BY <1>1, FirstMember, Sizes DEF Placed, Loops
  <2>2. due' = due \ {m}
    BY <1>1
  <2>3. CASE k = m
    BY <1>1, <1>2, <1>3, <1>4, <2>1, <2>2, <2>3 DEF Member, InWave, Waiting, Started, Verdict, Uncounted, Settled
  <2>4. CASE k # m
    BY <1>1, <1>4, <2>1, <2>2, <2>4 DEF Member, InWave, Waiting, Started, Verdict, Uncounted, Settled
  <2> QED
    BY <2>3, <2>4
<1> QED
  BY <1>4, <1>5, <1>6, <1>7, <1>8 DEF Placed

LEMMA ToolCompletesStep ==
  ASSUME TypeOK, size > 0, Placed, ToolCompletes
  PROVE  TypeOK' /\ Placed' /\ run' = run
<1> USE DEF ToolCompletes, cohort, screening, ranking
<1>1. PICK m \in First(due) : screened' = screened \cup {m} /\ Publish("TOOL_COMPLETED", Screen(m))
  OBVIOUS
<1>2. m \in Members /\ m \in due /\ m \in wave /\ m \notin pending /\ m \in ready /\ Member(m)
  BY <1>1, FirstMember DEF Placed, Loops, TypeOK
<1>3. Started(m)
  BY <1>1, <1>2 DEF Member, InWave
<1>4. /\ status' \in [Plan' -> TaskStatus]
      /\ status'[Screen(m)] = "running"
      /\ \A k \in Members : k # m => status'[Screen(k)] = status[Screen(k)]
      /\ agent' \in [Lane -> {"running", "complete", "failed"}]
      /\ run' = run /\ evidence' = evidence /\ surfaced' = surfaced
      /\ Reviews' /\ Ranked'
      /\ Members' = Members
  BY <1>1, <1>2, <1>3, ScreenPublished DEF Started, From, To
<1>5. TypeOK'
  BY <1>1, <1>2, <1>4, Sizes DEF TypeOK, Place
<1>6. Loops'
  BY <1>1, <1>4 DEF Placed, Loops
<1>7. WaveOrder'
  BY DEF Placed, WaveOrder
<1>8. ASSUME NEW k \in Members PROVE Member(k)'
  <2>1. Member(k) /\ k <= offset /\ (k \in First(due) => k = m)
    BY <1>1, FirstMember, Sizes DEF Placed, Loops
  <2>2. First(due)' = First(due)
    BY DEF First
  <2>3. CASE k = m
    BY <1>1, <1>2, <1>3, <1>4, <2>1, <2>2, <2>3 DEF Member, InWave, Waiting, Started, Verdict, Uncounted, Settled
  <2>4. CASE k # m
    BY <1>1, <1>4, <2>1, <2>2, <2>4 DEF Member, InWave, Waiting, Started, Verdict, Uncounted, Settled
  <2> QED
    BY <2>3, <2>4
<1> QED
  BY <1>4, <1>5, <1>6, <1>7, <1>8 DEF Placed

LEMMA CompleteScreenStep ==
  ASSUME TypeOK, size > 0, Placed, CompleteScreen
  PROVE  TypeOK' /\ Placed' /\ run' = run
<1> USE DEF CompleteScreen, cohort, screening, ranking
<1>1. PICK m \in First(due), kind \in {"TASK_COMPLETED", "TASK_PARTIAL"} :
            Publish(kind, Screen(m)) /\ due' = due \ {m}
  OBVIOUS
<1>2. m \in Members /\ m \in due /\ m \in wave /\ m \notin pending /\ m \in ready /\ Member(m)
  BY <1>1, FirstMember DEF Placed, Loops, TypeOK
<1>3. Verdict(m)
  BY <1>1, <1>2 DEF Member, InWave
<1>4. /\ status' \in [Plan' -> TaskStatus]
      /\ status'[Screen(m)] \in Success
      /\ \A k \in Members : k # m => status'[Screen(k)] = status[Screen(k)]
      /\ agent' \in [Lane -> {"running", "complete", "failed"}]
      /\ run' = run /\ evidence' = evidence /\ surfaced' = surfaced
      /\ Reviews' /\ Ranked'
      /\ Members' = Members
  BY <1>1, <1>2, <1>3, ScreenPublished DEF Verdict, From, To
<1>5. TypeOK'
  BY <1>1, <1>2, <1>4, Sizes DEF TypeOK, Place
<1>6. Loops'
  BY <1>1, <1>4 DEF Placed, Loops
<1>7. WaveOrder'
  BY DEF Placed, WaveOrder
<1>8. ASSUME NEW k \in Members PROVE Member(k)'
  <2>1. Member(k) /\ k <= offset /\ (k \in First(due) => k = m)
    BY <1>1, FirstMember, Sizes DEF Placed, Loops
  <2>2. due' = due \ {m}
    BY <1>1
  <2>3. CASE k = m
    BY <1>1, <1>2, <1>3, <1>4, <2>1, <2>2, <2>3 DEF Member, InWave, Waiting, Started, Verdict, Uncounted, Settled
  <2>4. CASE k # m
    BY <1>1, <1>4, <2>1, <2>2, <2>4 DEF Member, InWave, Waiting, Started, Verdict, Uncounted, Settled
  <2> QED
    BY <2>3, <2>4
<1> QED
  BY <1>4, <1>5, <1>6, <1>7, <1>8 DEF Placed

--------------------------------------------------------------------------------
(* The gate.                                                               *)

\* Once the waves are over every member has its verdict.
LEMMA AllSettled ==
  ASSUME TypeOK, size > 0, Placed, pending = {}, ~Collecting, ~Waving \/ (at = "results" /\ due = {})
  PROVE  \A m \in Members : Settled(m)
<1> SUFFICES ASSUME NEW m \in Members PROVE Settled(m)
  OBVIOUS
<1>1. Member(m) /\ untrusted = {} /\ offset = size
  BY DEF Placed, Loops
<1>2. m <= offset
  BY <1>1, Sizes
<1> QED
  BY <1>1, <1>2 DEF Member, InWave

LEMMA StopAtGateStep ==
  ASSUME TypeOK, size > 0, Placed, StopAtGate
  PROVE  TypeOK' /\ Placed' /\ run' = run
<1> USE DEF StopAtGate, Screened, cohort, screening, ranking, projection
<1>1. Members' = Members /\ Plan' = Plan
  BY DEF Members, Plan, Screens, Diligences
<1>2. TypeOK'
  BY <1>1 DEF TypeOK, Place
<1>3. Loops'
  BY DEF Placed, Loops
<1>4. WaveOrder' /\ \A m \in Members : Member(m)'
  BY InsideReviews
<1>5. Reviews' /\ Ranked'
  BY OutsideReviews
<1> QED
  BY <1>1, <1>2, <1>3, <1>4, <1>5 DEF Placed

LEMMA FailLaneStep ==
  ASSUME TypeOK, size > 0, Placed, FailLane
  PROVE  TypeOK' /\ Placed' /\ run' = run
<1> USE DEF FailLane, cohort, screening, ranking
<1>1. PICK l \in First(due) : agent' = [agent EXCEPT ![l] = "failed"] /\ due' = due \ {l}
  OBVIOUS
<1>2. Members' = Members /\ Plan' = Plan
  BY DEF Members, Plan, Screens, Diligences
<1>3. TypeOK'
  BY <1>1, <1>2 DEF TypeOK
<1>4. pending = {} /\ due \subseteq Lane
  BY DEF Placed, Loops
<1>5. Loops'
  BY <1>1, <1>4 DEF Placed, Loops
<1>6. WaveOrder' /\ \A m \in Members : Member(m)'
  BY <1>4, InsideReviews
<1>7. Reviews' /\ Ranked'
  BY OutsideReviews
<1> QED
  BY <1>2, <1>3, <1>5, <1>6, <1>7 DEF Placed

LEMMA RankStep ==
  ASSUME TypeOK, size > 0, Placed, Rank
  PROVE  TypeOK' /\ Placed' /\ run' = run
<1> USE DEF Rank, Screened, cohort, screening, projection
<1>1. Members' = Members /\ Plan' = Plan
  BY DEF Members, Plan, Screens, Diligences
<1>2. Cardinality(screened) \in Nat
  BY Sizes, FS_Subset, FS_CardinalityType DEF TypeOK
<1>3. /\ DOMAIN shortlist' \subseteq 1..CandidateLimit
      /\ \A r \in DOMAIN shortlist' : shortlist'[r] \in screened
  BY <1>2, AutomaticAssumption DEF Shortlists, Lesser
<1>4. due' \subseteq 1..MaxMembers /\ due' \subseteq 1..DiligenceLimit
  BY <1>3, AutomaticAssumption DEF Jobs
<1>5. TypeOK'
  BY <1>1, <1>3, <1>4 DEF TypeOK, Place
<1>6. Loops'
  BY DEF Placed, Loops
<1>7. WaveOrder' /\ \A m \in Members : Member(m)'
  BY InsideReviews
<1>8. Reviews'
  BY DEF Placed, Reviews, ReviewStatus
<1>9. Ranked'
  BY DEF Ranked, Shortlists, Required
<1> QED
  BY <1>1, <1>5, <1>6, <1>7, <1>8, <1>9 DEF Placed

--------------------------------------------------------------------------------
(* The reviews and the validator.                                          *)

LEMMA LateFirst ==
  ASSUME TypeOK, size > 0, Placed, Reviewing
  PROVE  /\ \A j \in First(due) : j \in Jobs /\ j \in due /\ j \in 1..DiligenceLimit /\ j \in DOMAIN shortlist
         /\ \A i, j \in First(due) : i = j
         /\ pending = {} /\ untrusted = {}
<1>1. due \subseteq Jobs /\ due \in SUBSET Int
  BY DEF Placed, Loops, Jobs
<1>2. \A j \in First(due) : j \in due
  BY DEF First
<1>3. \A i, j \in First(due) : i = j
  BY <1>1, FirstUnique
<1> QED
  BY <1>1, <1>2, <1>3 DEF Placed, Loops, Jobs

\* A draft about a review or the validator leaves the screens alone.
LEMMA LatePublished ==
  ASSUME TypeOK, size > 0, Placed, NEW t \in Plan, t \notin Screens,
         NEW kind \in {"TASK_STARTED", "TASK_COMPLETED", "TASK_PARTIAL", "TASK_FAILED",
                       "MODEL_TURN_STARTED", "MODEL_TURN_COMPLETED", "ACTION_REJECTED"},
         Publish(kind, t), Accepts(kind, t), size' = size
  PROVE  /\ status' \in [Plan' -> TaskStatus]
         /\ status'[t] = To(kind)
         /\ \A u \in Plan : u # t => status'[u] = status[u]
         /\ \A m \in Members : status'[Screen(m)] = status[Screen(m)]
         /\ agent' \in [Lane -> {"running", "complete", "failed"}]
         /\ run' = run /\ evidence' = evidence /\ surfaced' = surfaced
         /\ Members' = Members
<1>1. Members' = Members /\ Plan' = Plan
  BY DEF Members, Plan, Screens, Diligences
<1>2. /\ status' \in [Plan -> TaskStatus]
      /\ status'[t] = To(kind)
      /\ \A u \in Plan : u # t => status'[u] = status[u]
      /\ agent' \in [Lane -> {"running", "complete", "failed"}]
      /\ run' = run /\ evidence' = evidence /\ surfaced' = surfaced
  BY PublishMoves
<1>3. \A m \in Members : status'[Screen(m)] = status[Screen(m)]
  BY <1>2, PlanTasks
<1> QED
  BY <1>1, <1>2, <1>3

\* A review's draft is accepted in the right status: the screens are over.
LEMMA ReviewPublished ==
  ASSUME TypeOK, size > 0, Placed, Reviewing, NEW j \in Jobs,
         NEW kind \in {"TASK_STARTED", "TASK_COMPLETED", "TASK_PARTIAL", "TASK_FAILED",
                       "MODEL_TURN_STARTED", "MODEL_TURN_COMPLETED", "ACTION_REJECTED"},
         Publish(kind, Diligence(j)), status[Diligence(j)] \in From(kind), size' = size
  PROVE  /\ status' \in [Plan' -> TaskStatus]
         /\ status'[Diligence(j)] = To(kind)
         /\ \A i \in 1..DiligenceLimit : i # j => status'[Diligence(i)] = status[Diligence(i)]
         /\ status'[Validator] = status[Validator]
         /\ \A m \in Members : status'[Screen(m)] = status[Screen(m)]
         /\ agent' \in [Lane -> {"running", "complete", "failed"}]
         /\ run' = run /\ evidence' = evidence /\ surfaced' = surfaced
         /\ Members' = Members
<1>1. j \in 1..DiligenceLimit /\ Diligence(j) \in Plan /\ Diligence(j) \notin Screens /\ Diligence(j) # Validator
  BY PlanTasks DEF Jobs
<1>2. \A m \in Members : Settled(m)
  BY LateFirst, AllSettled
<1>3. \A d \in Screens : status[d] \in Terminal
  BY <1>2 DEF Settled, Screens
<1>4. Accepts(kind, Diligence(j))
  BY <1>1, <1>3 DEF Accepts, DependsOn
<1>5. /\ status' \in [Plan' -> TaskStatus]
      /\ status'[Diligence(j)] = To(kind)
      /\ \A u \in Plan : u # Diligence(j) => status'[u] = status[u]
      /\ \A m \in Members : status'[Screen(m)] = status[Screen(m)]
      /\ agent' \in [Lane -> {"running", "complete", "failed"}]
      /\ run' = run /\ evidence' = evidence /\ surfaced' = surfaced
      /\ Members' = Members
  BY <1>1, <1>4, LatePublished
<1> QED
  BY <1>1, <1>5, PlanTasks

LEMMA StartJobStep ==
  ASSUME TypeOK, size > 0, Placed, StartJob
  PROVE  TypeOK' /\ Placed' /\ run' = run
<1> USE DEF StartJob, cohort, screening, ranking
<1>1. PICK j \in First(due) : Publish("TASK_STARTED", Diligence(j))
  OBVIOUS
<1>2. /\ j \in Jobs /\ j \in due /\ j \in 1..DiligenceLimit /\ j \in DOMAIN shortlist
      /\ pending = {} /\ untrusted = {} /\ \A i \in First(due) : i = j
  BY <1>1, LateFirst
<1>3. status[Diligence(j)] = "queued"
  BY <1>1, <1>2 DEF Placed, Reviews, ReviewStatus
<1>4. /\ status' \in [Plan' -> TaskStatus]
      /\ status'[Diligence(j)] = "running"
      /\ \A i \in 1..DiligenceLimit : i # j => status'[Diligence(i)] = status[Diligence(i)]
      /\ status'[Validator] = status[Validator]
      /\ \A m \in Members : status'[Screen(m)] = status[Screen(m)]
      /\ agent' \in [Lane -> {"running", "complete", "failed"}]
      /\ run' = run /\ evidence' = evidence /\ surfaced' = surfaced
      /\ Members' = Members
  BY <1>1, <1>2, <1>3, ReviewPublished DEF From, To
<1>5. TypeOK'
  BY <1>1, <1>2, <1>4, Sizes DEF TypeOK, Place
<1>6. Loops' /\ Jobs' = Jobs
  BY <1>1, <1>4 DEF Placed, Loops, Jobs
<1>7. WaveOrder' /\ \A m \in Members : Member(m)'
  BY <1>2, <1>4, InsideReviews
<1>8. Reviews'
  <2>1. status'[Validator] = "queued"
    BY <1>4 DEF Placed, Reviews
  <2>2. ASSUME NEW i \in 1..DiligenceLimit, i \notin Jobs
        PROVE  status'[Diligence(i)] = "queued"
    BY <1>2, <1>4, <2>2 DEF Placed, Reviews
  <2>3. ASSUME NEW i \in Jobs
        PROVE  status'[Diligence(i)] \in ReviewStatus(i)'
    <3>1. First(due)' = First(due)
      BY DEF First
    <3>2. status[Diligence(i)] \in ReviewStatus(i) /\ i \in 1..DiligenceLimit
      BY DEF Placed, Reviews, Jobs
    <3>3. CASE i = j
      BY <1>1, <1>2, <1>4, <3>1, <3>3 DEF ReviewStatus
    <3>4. CASE i # j
      BY <1>1, <1>2, <1>4, <3>1, <3>2, <3>4 DEF ReviewStatus
    <3> QED
      BY <3>3, <3>4
  <2> QED
    BY <1>6, <2>1, <2>2, <2>3 DEF Reviews
<1>9. Ranked'
  BY DEF Placed, Ranked, Shortlists, Required
<1> QED
  BY <1>4, <1>5, <1>6, <1>7, <1>8, <1>9 DEF Placed

LEMMA StartTurnStep ==
  ASSUME TypeOK, size > 0, Placed, StartTurn
  PROVE  TypeOK' /\ Placed' /\ run' = run
<1> USE DEF StartTurn, cohort, screening, ranking
<1>1. PICK j \in First(due) : Publish("MODEL_TURN_STARTED", Diligence(j)) /\ due' = due \ {j}
  OBVIOUS
<1>2. /\ j \in Jobs /\ j \in due /\ j \in 1..DiligenceLimit /\ j \in DOMAIN shortlist
      /\ pending = {} /\ untrusted = {} /\ \A i \in First(due) : i = j
  BY <1>1, LateFirst
<1>3. status[Diligence(j)] = "running"
  BY <1>1, <1>2 DEF Placed, Reviews, ReviewStatus
<1>4. /\ status' \in [Plan' -> TaskStatus]
      /\ status'[Diligence(j)] = "waiting_model"
      /\ \A i \in 1..DiligenceLimit : i # j => status'[Diligence(i)] = status[Diligence(i)]
      /\ status'[Validator] = status[Validator]
      /\ \A m \in Members : status'[Screen(m)] = status[Screen(m)]
      /\ agent' \in [Lane -> {"running", "complete", "failed"}]
      /\ run' = run /\ evidence' = evidence /\ surfaced' = surfaced
      /\ Members' = Members
  BY <1>1, <1>2, <1>3, ReviewPublished DEF From, To
<1>5. TypeOK'
  BY <1>1, <1>2, <1>4, Sizes DEF TypeOK, Place
<1>6. Loops' /\ Jobs' = Jobs
  BY <1>1, <1>4 DEF Placed, Loops, Jobs
<1>7. WaveOrder' /\ \A m \in Members : Member(m)'
  BY <1>2, <1>4, InsideReviews
<1>8. Reviews'
  <2>1. status'[Validator] = "queued"
    BY <1>4 DEF Placed, Reviews
  <2>2. ASSUME NEW i \in 1..DiligenceLimit, i \notin Jobs
        PROVE  status'[Diligence(i)] = "queued"
    BY <1>2, <1>4, <2>2 DEF Placed, Reviews
  <2>3. ASSUME NEW i \in Jobs
        PROVE  status'[Diligence(i)] \in ReviewStatus(i)'
    <3>1. due' = due \ {j}
      BY <1>1
    <3>2. status[Diligence(i)] \in ReviewStatus(i) /\ i \in 1..DiligenceLimit
      BY DEF Placed, Reviews, Jobs
    <3>3. CASE i = j
      BY <1>1, <1>2, <1>4, <3>1, <3>3 DEF ReviewStatus
    <3>4. CASE i # j
      BY <1>1, <1>2, <1>4, <3>1, <3>2, <3>4 DEF ReviewStatus
    <3> QED
      BY <3>3, <3>4
  <2> QED
    BY <1>6, <2>1, <2>2, <2>3 DEF Reviews
<1>9. Ranked'
  BY DEF Placed, Ranked, Shortlists, Required
<1> QED
  BY <1>4, <1>5, <1>6, <1>7, <1>8, <1>9 DEF Placed

LEMMA RunJobsStep ==
  ASSUME TypeOK, size > 0, Placed, RunJobs
  PROVE  TypeOK' /\ Placed' /\ run' = run
<1> USE DEF RunJobs, cohort, screening, ranking, projection
<1>1. Members' = Members /\ Plan' = Plan /\ Jobs' = Jobs
  BY DEF Members, Plan, Screens, Diligences, Jobs
<1>2. Jobs \subseteq 1..MaxMembers
  BY AutomaticAssumption DEF Jobs
<1>3. TypeOK'
  BY <1>1, <1>2 DEF TypeOK, Place
<1>4. Loops'
  BY <1>1 DEF Placed, Loops
<1>5. WaveOrder' /\ \A m \in Members : Member(m)'
  BY LateFirst, InsideReviews
<1>6. Reviews'
  BY <1>1 DEF Placed, Reviews, ReviewStatus
<1>7. Ranked'
  BY DEF Placed, Ranked, Shortlists, Required
<1> QED
  BY <1>1, <1>3, <1>4, <1>5, <1>6, <1>7 DEF Placed

LEMMA CompleteTurnStep ==
  ASSUME TypeOK, size > 0, Placed, CompleteTurn
  PROVE  TypeOK' /\ Placed' /\ run' = run
<1> USE DEF CompleteTurn, cohort, screening, ranking
<1>1. PICK j \in First(due) : Publish("MODEL_TURN_COMPLETED", Diligence(j))
  OBVIOUS
<1>2. /\ j \in Jobs /\ j \in due /\ j \in 1..DiligenceLimit /\ j \in DOMAIN shortlist
      /\ pending = {} /\ untrusted = {} /\ \A i \in First(due) : i = j
  BY <1>1, LateFirst
<1>3. status[Diligence(j)] = "waiting_model"
  BY <1>1, <1>2 DEF Placed, Reviews, ReviewStatus
<1>4. /\ status' \in [Plan' -> TaskStatus]
      /\ status'[Diligence(j)] = "running"
      /\ \A i \in 1..DiligenceLimit : i # j => status'[Diligence(i)] = status[Diligence(i)]
      /\ status'[Validator] = status[Validator]
      /\ \A m \in Members : status'[Screen(m)] = status[Screen(m)]
      /\ agent' \in [Lane -> {"running", "complete", "failed"}]
      /\ run' = run /\ evidence' = evidence /\ surfaced' = surfaced
      /\ Members' = Members
  BY <1>1, <1>2, <1>3, ReviewPublished DEF From, To
<1>5. TypeOK'
  BY <1>1, <1>2, <1>4, Sizes DEF TypeOK, Place
<1>6. Loops' /\ Jobs' = Jobs
  BY <1>1, <1>4 DEF Placed, Loops, Jobs
<1>7. WaveOrder' /\ \A m \in Members : Member(m)'
  BY <1>2, <1>4, InsideReviews
<1>8. Reviews'
  <2>1. status'[Validator] = "queued"
    BY <1>4 DEF Placed, Reviews
  <2>2. ASSUME NEW i \in 1..DiligenceLimit, i \notin Jobs
        PROVE  status'[Diligence(i)] = "queued"
    BY <1>2, <1>4, <2>2 DEF Placed, Reviews
  <2>3. ASSUME NEW i \in Jobs
        PROVE  status'[Diligence(i)] \in ReviewStatus(i)'
    <3>1. First(due)' = First(due)
      BY DEF First
    <3>2. status[Diligence(i)] \in ReviewStatus(i) /\ i \in 1..DiligenceLimit
      BY DEF Placed, Reviews, Jobs
    <3>3. CASE i = j
      BY <1>1, <1>2, <1>4, <3>1, <3>3 DEF ReviewStatus
    <3>4. CASE i # j
      BY <1>1, <1>2, <1>4, <3>1, <3>2, <3>4 DEF ReviewStatus
    <3> QED
      BY <3>3, <3>4
  <2> QED
    BY <1>6, <2>1, <2>2, <2>3 DEF Reviews
<1>9. Ranked'
  BY DEF Placed, Ranked, Shortlists, Required
<1> QED
  BY <1>4, <1>5, <1>6, <1>7, <1>8, <1>9 DEF Placed

LEMMA RejectReviewStep ==
  ASSUME TypeOK, size > 0, Placed, RejectReview
  PROVE  TypeOK' /\ Placed' /\ run' = run
<1> USE DEF RejectReview, cohort, screening, ranking
<1>1. PICK j \in First(due) \cap broken : Publish("ACTION_REJECTED", Diligence(j))
  OBVIOUS
<1>2. /\ j \in Jobs /\ j \in due /\ j \in 1..DiligenceLimit /\ j \in DOMAIN shortlist
      /\ pending = {} /\ untrusted = {} /\ \A i \in First(due) : i = j
  BY <1>1, LateFirst
<1>3. status[Diligence(j)] = "running"
  BY <1>1, <1>2 DEF Placed, Reviews, ReviewStatus
<1>4. /\ status' \in [Plan' -> TaskStatus]
      /\ status'[Diligence(j)] = "running"
      /\ \A i \in 1..DiligenceLimit : i # j => status'[Diligence(i)] = status[Diligence(i)]
      /\ status'[Validator] = status[Validator]
      /\ \A m \in Members : status'[Screen(m)] = status[Screen(m)]
      /\ agent' \in [Lane -> {"running", "complete", "failed"}]
      /\ run' = run /\ evidence' = evidence /\ surfaced' = surfaced
      /\ Members' = Members
  BY <1>1, <1>2, <1>3, ReviewPublished DEF From, To
<1>5. TypeOK'
  BY <1>1, <1>2, <1>4, Sizes DEF TypeOK, Place
<1>6. Loops' /\ Jobs' = Jobs
  BY <1>1, <1>4 DEF Placed, Loops, Jobs
<1>7. WaveOrder' /\ \A m \in Members : Member(m)'
  BY <1>2, <1>4, InsideReviews
<1>8. Reviews'
  <2>1. status'[Validator] = "queued"
    BY <1>4 DEF Placed, Reviews
  <2>2. ASSUME NEW i \in 1..DiligenceLimit, i \notin Jobs
        PROVE  status'[Diligence(i)] = "queued"
    BY <1>2, <1>4, <2>2 DEF Placed, Reviews
  <2>3. ASSUME NEW i \in Jobs
        PROVE  status'[Diligence(i)] \in ReviewStatus(i)'
    <3>1. First(due)' = First(due)
      BY DEF First
    <3>2. status[Diligence(i)] \in ReviewStatus(i) /\ i \in 1..DiligenceLimit
      BY DEF Placed, Reviews, Jobs
    <3>3. CASE i = j
      BY <1>1, <1>2, <1>4, <3>1, <3>3 DEF ReviewStatus
    <3>4. CASE i # j
      BY <1>1, <1>2, <1>4, <3>1, <3>2, <3>4 DEF ReviewStatus
    <3> QED
      BY <3>3, <3>4
  <2> QED
    BY <1>6, <2>1, <2>2, <2>3 DEF Reviews
<1>9. Ranked'
  BY DEF Placed, Ranked, Shortlists, Required
<1> QED
  BY <1>4, <1>5, <1>6, <1>7, <1>8, <1>9 DEF Placed

LEMMA FailReviewStep ==
  ASSUME TypeOK, size > 0, Placed, FailReview
  PROVE  TypeOK' /\ Placed' /\ run' = run
<1> USE DEF FailReview, cohort, screening, ranking
<1>1. PICK j \in First(due) : Publish("TASK_FAILED", Diligence(j)) /\ due' = due \ {j}
  OBVIOUS
<1>2. /\ j \in Jobs /\ j \in due /\ j \in 1..DiligenceLimit /\ j \in DOMAIN shortlist
      /\ pending = {} /\ untrusted = {} /\ \A i \in First(due) : i = j
  BY <1>1, LateFirst
<1>3. status[Diligence(j)] = "running"
  BY <1>1, <1>2 DEF Placed, Reviews, ReviewStatus
<1>4. /\ status' \in [Plan' -> TaskStatus]
      /\ status'[Diligence(j)] = "failed"
      /\ \A i \in 1..DiligenceLimit : i # j => status'[Diligence(i)] = status[Diligence(i)]
      /\ status'[Validator] = status[Validator]
      /\ \A m \in Members : status'[Screen(m)] = status[Screen(m)]
      /\ agent' \in [Lane -> {"running", "complete", "failed"}]
      /\ run' = run /\ evidence' = evidence /\ surfaced' = surfaced
      /\ Members' = Members
  BY <1>1, <1>2, <1>3, ReviewPublished DEF From, To
<1>5. TypeOK'
  BY <1>1, <1>2, <1>4, Sizes DEF TypeOK, Place
<1>6. Loops' /\ Jobs' = Jobs
  BY <1>1, <1>4 DEF Placed, Loops, Jobs
<1>7. WaveOrder' /\ \A m \in Members : Member(m)'
  BY <1>2, <1>4, InsideReviews
<1>8. Reviews'
  <2>1. status'[Validator] = "queued"
    BY <1>4 DEF Placed, Reviews
  <2>2. ASSUME NEW i \in 1..DiligenceLimit, i \notin Jobs
        PROVE  status'[Diligence(i)] = "queued"
    BY <1>2, <1>4, <2>2 DEF Placed, Reviews
  <2>3. ASSUME NEW i \in Jobs
        PROVE  status'[Diligence(i)] \in ReviewStatus(i)'
    <3>1. due' = due \ {j}
      BY <1>1
    <3>2. status[Diligence(i)] \in ReviewStatus(i) /\ i \in 1..DiligenceLimit
      BY DEF Placed, Reviews, Jobs
    <3>3. CASE i = j
      BY <1>1, <1>2, <1>4, <3>1, <3>3 DEF ReviewStatus
    <3>4. CASE i # j
      BY <1>1, <1>2, <1>4, <3>1, <3>2, <3>4 DEF ReviewStatus
    <3> QED
      BY <3>3, <3>4
  <2> QED
    BY <1>6, <2>1, <2>2, <2>3 DEF Reviews
<1>9. Ranked'
  BY DEF Placed, Ranked, Shortlists, Required
<1> QED
  BY <1>4, <1>5, <1>6, <1>7, <1>8, <1>9 DEF Placed

LEMMA CompleteReviewStep ==
  ASSUME TypeOK, size > 0, Placed, CompleteReview
  PROVE  TypeOK' /\ Placed' /\ run' = run
<1> USE DEF CompleteReview, cohort, screening, ranking
<1>1. PICK j \in First(due) \ broken :
           /\ deep' = deep \cup {shortlist[j]}
           /\ Publish("TASK_COMPLETED", Diligence(j))
           /\ due' = due \ {j}
  OBVIOUS
<1>2. /\ j \in Jobs /\ j \in due /\ j \in 1..DiligenceLimit /\ j \in DOMAIN shortlist
      /\ pending = {} /\ untrusted = {} /\ \A i \in First(due) : i = j
  BY <1>1, LateFirst
<1>3. status[Diligence(j)] = "running"
  BY <1>1, <1>2 DEF Placed, Reviews, ReviewStatus
<1>4. /\ status' \in [Plan' -> TaskStatus]
      /\ status'[Diligence(j)] = "complete"
      /\ \A i \in 1..DiligenceLimit : i # j => status'[Diligence(i)] = status[Diligence(i)]
      /\ status'[Validator] = status[Validator]
      /\ \A m \in Members : status'[Screen(m)] = status[Screen(m)]
      /\ agent' \in [Lane -> {"running", "complete", "failed"}]
      /\ run' = run /\ evidence' = evidence /\ surfaced' = surfaced
      /\ Members' = Members
  BY <1>1, <1>2, <1>3, ReviewPublished DEF From, To
<1>5. TypeOK'
  <2>1. deep' \subseteq screened
    BY <1>1, <1>2 DEF TypeOK
  <2> QED
    BY <1>1, <1>2, <1>4, <2>1, Sizes DEF TypeOK, Place
<1>6. Loops' /\ Jobs' = Jobs
  BY <1>1, <1>4 DEF Placed, Loops, Jobs
<1>7. WaveOrder' /\ \A m \in Members : Member(m)'
  BY <1>2, <1>4, InsideReviews
<1>8. Reviews'
  <2>1. status'[Validator] = "queued"
    BY <1>4 DEF Placed, Reviews
  <2>2. ASSUME NEW i \in 1..DiligenceLimit, i \notin Jobs
        PROVE  status'[Diligence(i)] = "queued"
    BY <1>2, <1>4, <2>2 DEF Placed, Reviews
  <2>3. ASSUME NEW i \in Jobs
        PROVE  status'[Diligence(i)] \in ReviewStatus(i)'
    <3>1. due' = due \ {j}
      BY <1>1
    <3>2. status[Diligence(i)] \in ReviewStatus(i) /\ i \in 1..DiligenceLimit
      BY DEF Placed, Reviews, Jobs
    <3>3. CASE i = j
      BY <1>1, <1>2, <1>4, <3>1, <3>3 DEF ReviewStatus
    <3>4. CASE i # j
      BY <1>1, <1>2, <1>4, <3>1, <3>2, <3>4 DEF ReviewStatus
    <3> QED
      BY <3>3, <3>4
  <2> QED
    BY <1>6, <2>1, <2>2, <2>3 DEF Reviews
<1>9. Ranked'
  BY DEF Placed, Ranked, Shortlists, Required
<1> QED
  BY <1>4, <1>5, <1>6, <1>7, <1>8, <1>9 DEF Placed

--------------------------------------------------------------------------------
(* The validator and the end.                                              *)

\* A gate that guarantees a row for every planned review has one.
LEMMA EnoughRows ==
  ASSUME TypeOK, size > 0, Placed, Reviewing \/ Ending, Enough
  PROVE  Jobs = 1..DiligenceLimit
<1>1. Cardinality(screened) \in Nat
  BY Sizes, FS_Subset, FS_CardinalityType DEF TypeOK
<1>2. Cardinality(screened) >= Required /\ shortlist \in Shortlists
  BY DEF Placed, Ranked
<1>3. MinScreened \in Int /\ DiligenceLimit \in Nat /\ CandidateLimit \in Int /\ DiligenceLimit <= CandidateLimit
  BY AutomaticAssumption
<1>4. Required \in Int /\ Required >= MinScreened
  <2>1. ((size * RatioNum + RatioDen - 1) \div RatioDen) \in Int
    BY Sizes, AutomaticAssumption
  <2> DEFINE ratio == (size * RatioNum + RatioDen - 1) \div RatioDen
  <2>2. Required = Greater(MinScreened, ratio) /\ ratio \in Int
    BY <2>1 DEF Required
  <2> HIDE DEF ratio
  <2> QED
    BY <1>3, <2>2 DEF Greater
<1>5. DOMAIN shortlist = 1..Lesser(CandidateLimit, Cardinality(screened))
  BY <1>2 DEF Shortlists
<1>6. DiligenceLimit <= Lesser(CandidateLimit, Cardinality(screened))
      /\ Lesser(CandidateLimit, Cardinality(screened)) \in Int
  BY <1>1, <1>2, <1>3, <1>4 DEF Lesser, Enough
<1> QED
  BY <1>3, <1>5, <1>6 DEF Jobs

\* What the end of the run keeps of the reviews and of the ranking.
LEMMA LateReviews ==
  ASSUME TypeOK, size > 0, Placed, UNCHANGED <<size, screened, shortlist>>, Reviewing' \/ Ending',
         Reviewing \/ Ending, Ending' /\ (Ending \/ (at = "outcomes" /\ due = {})),
         \A j \in 1..DiligenceLimit : status'[Diligence(j)] = status[Diligence(j)]
  PROVE  /\ Ranked'
         /\ \A j \in 1..DiligenceLimit : status'[Diligence(j)] \in IF j \in Jobs' THEN ReviewStatus(j)' ELSE {"queued"}
<1>1. Ranked'
  BY DEF Placed, Ranked, Shortlists, Required
<1>2. ASSUME NEW j \in 1..DiligenceLimit
      PROVE  status'[Diligence(j)] \in IF j \in Jobs' THEN ReviewStatus(j)' ELSE {"queued"}
  <2>1. Jobs' = Jobs
    BY DEF Jobs
  <2>2. status[Diligence(j)] \in IF j \in Jobs THEN ReviewStatus(j) ELSE {"queued"}
    BY DEF Placed, Reviews
  <2>3. ReviewStatus(j)' = {"complete", "failed"}
    BY DEF ReviewStatus
  <2>4. ReviewStatus(j) = {"complete", "failed"}
    BY DEF ReviewStatus
  <2> QED
    BY <2>1, <2>2, <2>3, <2>4
<1> QED
  BY <1>1, <1>2

LEMMA StartValidatorStep ==
  ASSUME TypeOK, size > 0, Placed, StartValidator
  PROVE  TypeOK' /\ ((Placed' /\ run' = run) \/ (~Enough /\ run' = "refused" /\ status' = status))
<1> USE DEF StartValidator, cohort, screening, ranking
<1>1. pending = {} /\ untrusted = {}
  BY LateFirst
<1>2. CASE Accepts("TASK_STARTED", Validator)
  <2>1. /\ status' \in [Plan' -> TaskStatus]
        /\ status'[Validator] = "running"
        /\ \A u \in Plan : u # Validator => status'[u] = status[u]
        /\ \A m \in Members : status'[Screen(m)] = status[Screen(m)]
        /\ agent' \in [Lane -> {"running", "complete", "failed"}]
        /\ run' = run /\ evidence' = evidence /\ surfaced' = surfaced
        /\ Members' = Members
    BY <1>2, PlanTasks, LatePublished DEF To
  <2>2. \A j \in 1..DiligenceLimit : status'[Diligence(j)] = status[Diligence(j)]
    BY <2>1, PlanTasks
  <2>3. TypeOK'
    BY <2>1, Sizes DEF TypeOK, Place
  <2>4. Loops'
    BY <2>1 DEF Placed, Loops
  <2>5. WaveOrder' /\ \A m \in Members : Member(m)'
    BY <1>1, <2>1, InsideReviews
  <2>6. Reviews' /\ Ranked'
    BY <2>1, <2>2, LateReviews DEF Reviews
  <2> QED
    BY <2>1, <2>3, <2>4, <2>5, <2>6 DEF Placed
<1>3. CASE ~Accepts("TASK_STARTED", Validator)
  <2>1. run' = "refused" /\ UNCHANGED <<status, agent, evidence, surfaced>>
    BY <1>3 DEF Publish
  <2>2. Members' = Members /\ Plan' = Plan
    BY DEF Members, Plan, Screens, Diligences
  <2>3. TypeOK'
    BY <2>1, <2>2 DEF TypeOK, Place
  <2>4. ASSUME Enough PROVE FALSE
    <3>1. status[Validator] = "queued"
      BY DEF Placed, Reviews
    <3>2. \A d \in Screens : status[d] \in Terminal
      BY <1>1, AllSettled DEF Settled, Screens
    <3>3. \A d \in Diligences : status[d] \in Terminal
      BY <2>4, EnoughRows DEF Diligences, Placed, Reviews, ReviewStatus
    <3>4. DependsOn(Validator) = Screens \cup Diligences
      BY PlanTasks DEF DependsOn
    <3> QED
      BY <1>3, <3>1, <3>2, <3>3, <3>4 DEF Accepts, From
  <2> QED
    BY <2>1, <2>3, <2>4
<1> QED
  BY <1>2, <1>3

LEMMA CompleteValidatorStep ==
  ASSUME TypeOK, size > 0, Placed, CompleteValidator
  PROVE  TypeOK' /\ Placed' /\ run' = run
<1> USE DEF CompleteValidator, cohort, screening, ranking
<1>1. pending = {} /\ untrusted = {} /\ status[Validator] = "running"
  BY DEF Placed, Loops, Reviews
<1>2. PICK kind \in {"TASK_COMPLETED", "TASK_PARTIAL"} : Publish(kind, Validator)
  OBVIOUS
<1>3. Accepts(kind, Validator) /\ To(kind) \in Success
  BY <1>1, <1>2 DEF Accepts, From, To
<1>4. /\ status' \in [Plan' -> TaskStatus]
      /\ status'[Validator] \in Success
      /\ \A u \in Plan : u # Validator => status'[u] = status[u]
      /\ \A m \in Members : status'[Screen(m)] = status[Screen(m)]
      /\ agent' \in [Lane -> {"running", "complete", "failed"}]
      /\ run' = run /\ evidence' = evidence /\ surfaced' = surfaced
      /\ Members' = Members
  BY <1>2, <1>3, PlanTasks, LatePublished
<1>5. \A j \in 1..DiligenceLimit : status'[Diligence(j)] = status[Diligence(j)]
  BY <1>4, PlanTasks
<1>6. TypeOK'
  <2>1. due' \subseteq 1..MaxMembers
    BY AutomaticAssumption DEF TypeOK
  <2> QED
    BY <1>4, <2>1, Sizes DEF TypeOK, Place
<1>7. Loops'
  BY <1>1, <1>4 DEF Placed, Loops
<1>8. WaveOrder' /\ \A m \in Members : Member(m)'
  BY <1>1, <1>4, InsideReviews
<1>9. Reviews' /\ Ranked'
  BY <1>4, <1>5, LateReviews DEF Reviews
<1> QED
  BY <1>4, <1>6, <1>7, <1>8, <1>9 DEF Placed

\* A step of the end that publishes nothing about a task.
LEMMA EndingStep ==
  ASSUME TypeOK, size > 0, Placed, Ending, Ending', at # "validate", at' # "validate", Loops',
         UNCHANGED <<cohort, screening, ranking, untrusted, status>>
  PROVE  Placed' /\ Members' = Members /\ Plan' = Plan
<1> USE DEF cohort, screening, ranking
<1>1. Members' = Members /\ Plan' = Plan
  BY DEF Members, Plan, Screens, Diligences
<1>2. WaveOrder' /\ \A m \in Members : Member(m)'
  BY InsideReviews DEF Placed, Loops
<1>3. Reviews' /\ Ranked'
  BY LateReviews DEF Placed, Reviews
<1> QED
  BY <1>1, <1>2, <1>3 DEF Placed

LEMMA SurfaceStep ==
  ASSUME TypeOK, size > 0, Placed, Surface
  PROVE  TypeOK' /\ Placed' /\ run' = run
<1> USE DEF Surface, cohort, screening, ranking
<1>1. PICK r \in First(due) : surfaced' = surfaced \cup {shortlist[r]} /\ due' = due \ {r}
  OBVIOUS
<1>2. r \in DOMAIN shortlist
  BY <1>1 DEF First, Placed, Loops
<1>3. Loops'
  BY <1>1 DEF Placed, Loops
<1>4. Placed' /\ Members' = Members /\ Plan' = Plan
  BY <1>3, EndingStep
<1>5. surfaced' \subseteq screened
  BY <1>1, <1>2 DEF TypeOK
<1>6. TypeOK'
  BY <1>1, <1>4, <1>5 DEF TypeOK
<1> QED
  BY <1>4, <1>6

LEMMA EndSurfaceStep ==
  ASSUME TypeOK, size > 0, Placed, EndSurface
  PROVE  TypeOK' /\ Placed' /\ run' = run
<1> USE DEF EndSurface, cohort, screening, ranking, projection
<1>1. Loops'
  BY DEF Placed, Loops
<1>2. Placed' /\ Members' = Members /\ Plan' = Plan
  BY <1>1, EndingStep
<1>3. TypeOK'
  BY <1>2 DEF TypeOK, Place
<1> QED
  BY <1>2, <1>3

LEMMA RetireLaneStep ==
  ASSUME TypeOK, size > 0, Placed, RetireLane
  PROVE  TypeOK' /\ Placed' /\ run' = run
<1> USE DEF RetireLane, cohort, screening, ranking
<1>1. PICK l \in First(due) : agent' = [agent EXCEPT ![l] = "complete"] /\ due' = due \ {l}
  OBVIOUS
<1>2. Loops'
  BY <1>1 DEF Placed, Loops
<1>3. Placed' /\ Members' = Members /\ Plan' = Plan
  BY <1>2, EndingStep
<1>4. TypeOK'
  BY <1>1, <1>3 DEF TypeOK
<1> QED
  BY <1>3, <1>4

LEMMA CompleteWorkflowStep ==
  ASSUME TypeOK, size > 0, Placed, CompleteWorkflow
  PROVE  TypeOK' /\ ((Placed' /\ run' = run) \/ (~Enough /\ run' = "refused" /\ status' = status))
<1> USE DEF CompleteWorkflow, cohort, screening, ranking
<1>1. Loops'
  BY DEF Placed, Loops
<1>2. Placed' /\ Members' = Members /\ Plan' = Plan
  BY <1>1, EndingStep
<1>3. TypeOK'
  BY <1>2 DEF TypeOK, Place
<1>4. ASSUME Enough PROVE \A t \in Plan : status[t] \in Terminal
  <2>1. \A d \in Screens : status[d] \in Terminal
    BY AllSettled DEF Settled, Screens, Placed, Loops
  <2>2. \A d \in Diligences : status[d] \in Terminal
    BY <1>4, EnoughRows DEF Diligences, Placed, Reviews, ReviewStatus
  <2>3. status[Validator] \in Terminal
    BY DEF Placed, Reviews
  <2> QED
    BY <2>1, <2>2, <2>3 DEF Plan
<1> QED
  BY <1>2, <1>3, <1>4

--------------------------------------------------------------------------------
(* The invariant.                                                          *)

Promises == FunnelAgrees /\ LanesExclusive /\ LaneOrder /\ DraftsAccepted

IInv == TypeOK /\ Consistent /\ Promises

\* What a running generator leaves true of the next state.
Goes == TypeOK' /\ size' > 0 /\ Placed' /\ run' = run /\ at' \notin {"start", "discover", "done"}

\* The run is over: the projected tasks and the funnel stay what they were.
Ends ==
  /\ TypeOK'
  /\ UNCHANGED <<cohort, failed, screened, shortlist, status, evidence>>
  /\ run' # "running"
  /\ run' = "refused" => ~Enough \/ run = "refused"
  /\ Beginning' => Beginning /\ due' = due

LEMMA PlacedNext ==
  TypeOK' /\ (size > 0)' /\ Placed' => FunnelAgrees' /\ LanesExclusive' /\ LaneOrder'
<1>1. TypeOK /\ size > 0 /\ Placed => FunnelAgrees /\ LanesExclusive /\ LaneOrder
  BY FunnelFollows, LanesFollow, OrderFollows
<1> QED
  BY <1>1, PTL

LEMMA GoesOn ==
  ASSUME IInv, Goes, Running
  PROVE  IInv'
<1>1. FunnelAgrees' /\ LanesExclusive' /\ LaneOrder'
  BY PlacedNext DEF Goes
<1>2. Consistent'
  BY DEF Goes, Consistent
<1>3. DraftsAccepted'
  BY DEF Goes, DraftsAccepted
<1> QED
  BY <1>1, <1>2, <1>3 DEF IInv, Promises, Goes

LEMMA EndsWell ==
  ASSUME IInv, Ends
  PROVE  IInv'
<1> USE DEF cohort
<1>1. Members' = Members /\ UNCHANGED <<size, ready, failed, screened, shortlist, status, evidence>>
  BY DEF Ends, Members
<1>2. FunnelAgrees'
  BY <1>1 DEF IInv, Promises, FunnelAgrees
<1>3. LanesExclusive' /\ LaneOrder'
  BY <1>1 DEF IInv, Promises, LanesExclusive, LaneOrder
<1>4. DraftsAccepted'
  BY DEF Ends, IInv, Promises, DraftsAccepted, Enough
<1>5. Consistent'
  BY DEF Ends, IInv, Consistent
<1> QED
  BY <1>2, <1>3, <1>4, <1>5 DEF Ends, IInv, Promises

LEMMA RaiseEnds ==
  ASSUME TypeOK, Raise
  PROVE  Ends
<1> USE DEF Raise, cohort, screening, ranking
<1>1. Members' = Members /\ Plan' = Plan
  BY DEF Members, Plan, Screens, Diligences
<1>2. TypeOK'
  BY <1>1 DEF TypeOK, Place
<1> QED
  BY <1>2 DEF Ends

LEMMA InitInv == Init => IInv
<1> SUFFICES ASSUME Init PROVE IInv
  OBVIOUS
<1>1. TypeOK /\ Consistent
  BY InitSafe
<1>2. Members = {} /\ ready = {} /\ failed = {} /\ screened = {} /\ DOMAIN shortlist = {}
      /\ run = "running" /\ size = 0
  BY DEF Init, Members
<1>3. LanesExclusive
  <2> DEFINE underway == {m \in Members : size > 0 /\ status[Screen(m)] \in Active}
  <2>1. underway = {}
    BY <1>2
  <2>2. Cardinality(underway) = 0
    BY <2>1, FS_EmptySet
  <2> QED
    BY <2>1, <2>2, AutomaticAssumption DEF LanesExclusive
<1> QED
  BY <1>1, <1>2, <1>3 DEF IInv, Promises, FunnelAgrees, LaneOrder, DraftsAccepted

LEMMA OpeningStep ==
  ASSUME IInv, Opening
  PROVE  IInv'
<1> USE DEF cohort, screening, ranking, projection
<1>1. Members' = Members /\ Plan' = Plan
  BY DEF Opening, Reject, Open, Members, Plan, Screens, Diligences
<1>2. TypeOK'
  BY <1>1 DEF Opening, Reject, Open, IInv, TypeOK, Place
<1>3. CASE Reject
  <2>1. Ends
    BY <1>2, <1>3 DEF Reject, Ends
  <2> QED
    BY <2>1, EndsWell
<1>4. CASE Open
  <2>1. at' = "discover" /\ UNCHANGED <<size, due, ready, failed, screened, shortlist, status, evidence, run>>
    BY <1>4 DEF Open
  <2>2. Consistent'
    BY <1>4, <2>1 DEF Open, IInv, Consistent
  <2>3. FunnelAgrees' /\ LanesExclusive' /\ LaneOrder' /\ DraftsAccepted'
    BY <1>1, <2>1 DEF IInv, Promises, FunnelAgrees, LanesExclusive, LaneOrder, DraftsAccepted, Enough
  <2> QED
    BY <1>2, <2>2, <2>3 DEF IInv, Promises
<1> QED
  BY <1>3, <1>4 DEF Opening

LEMMA CollectionStep ==
  ASSUME IInv, Collection
  PROVE  IInv'
<1>1. TypeOK /\ Running /\ Consistent
  BY DEF IInv, Collection, Discover, DiscoveryFails, Collect, RecordEvidence, AdmitUntrusted, RejectUntrusted,
         EndCollection
<1>2. CASE Discover
  <2>1. at = "discover" /\ size = 0 /\ due = {} /\ at' \notin {"start", "discover", "done"}
    BY <1>1, <1>2 DEF Consistent, Discover
  <2> QED
    BY <1>1, <1>2, <2>1, DiscoverStep, GoesOn DEF Goes
<1>3. CASE DiscoveryFails
  BY <1>1, <1>3, RaiseEnds, EndsWell DEF DiscoveryFails
<1>4. CASE ~Discover /\ ~DiscoveryFails
  <2>1. size > 0 /\ Placed /\ at' \notin {"start", "discover", "done"} /\ size' = size
    BY <1>1, <1>4 DEF Collection, Collect, RecordEvidence, AdmitUntrusted, RejectUntrusted, EndCollection,
       Consistent, cohort
  <2>2. TypeOK' /\ Placed' /\ run' = run
    BY <1>1, <1>4, <2>1, CollectStep, RecordEvidenceStep, AdmitUntrustedStep, RejectUntrustedStep,
       EndCollectionStep DEF Collection
  <2> QED
    BY <1>1, <2>1, <2>2, GoesOn DEF Goes
<1> QED
  BY <1>2, <1>3, <1>4

LEMMA ScreeningStep ==
  ASSUME IInv, Screening
  PROVE  IInv'
<1> USE DEF PlanWave, StartScreen, StartTool, AnalyseWave, ToolFails, FailScreen, ToolCompletes, CompleteScreen,
            StopAtGate, Screened, FailLane, CoverageNotMet
<1>1. TypeOK /\ Running /\ Consistent /\ ~Beginning
  BY DEF IInv, Screening
<1>2. size > 0 /\ Placed
  BY <1>1 DEF Consistent
<1>3. CASE CoverageNotMet
  BY <1>1, <1>3, RaiseEnds, EndsWell
<1>4. CASE ~CoverageNotMet
  <2>1. at' \notin {"start", "discover", "done"} /\ size' = size
    BY <1>1, <1>4 DEF Screening, cohort
  <2>2. TypeOK' /\ Placed' /\ run' = run
    BY <1>1, <1>2, <1>4, PlanWaveStep, StartScreenStep, StartToolStep, AnalyseWaveStep, ToolFailsStep,
       FailScreenStep, ToolCompletesStep, CompleteScreenStep, StopAtGateStep, FailLaneStep DEF Screening
  <2> QED
    BY <1>1, <1>2, <2>1, <2>2, GoesOn DEF Goes
<1> QED
  BY <1>3, <1>4

LEMMA SynthesisStep ==
  ASSUME IInv, Synthesis
  PROVE  IInv'
<1>1. TypeOK /\ Running /\ Consistent /\ ~Beginning
  BY DEF IInv, Synthesis, Rank, Screened, StartJob, StartTurn, RunJobs, CompleteTurn, RejectReview, FailReview,
         CompleteReview, StartValidator, CompleteValidator, Surface, EndSurface, RetireLane, CompleteWorkflow, Finish
<1>2. size > 0 /\ Placed
  BY <1>1 DEF Consistent
<1>3. CASE Rank \/ StartJob \/ StartTurn \/ RunJobs \/ CompleteTurn \/ RejectReview \/ FailReview \/ CompleteReview
  <2>1. at' \notin {"start", "discover", "done"} /\ size' = size
    BY <1>3 DEF Rank, StartJob, StartTurn, RunJobs, CompleteTurn, RejectReview, FailReview, CompleteReview, cohort
  <2>2. TypeOK' /\ Placed' /\ run' = run
    BY <1>1, <1>2, <1>3, RankStep, StartJobStep, StartTurnStep, RunJobsStep, CompleteTurnStep, RejectReviewStep,
       FailReviewStep, CompleteReviewStep
  <2> QED
    BY <1>1, <1>2, <2>1, <2>2, GoesOn DEF Goes
<1>4. CASE CompleteValidator \/ Surface \/ EndSurface \/ RetireLane
  <2>1. at' \notin {"start", "discover", "done"} /\ size' = size
    BY <1>4 DEF CompleteValidator, Surface, EndSurface, RetireLane, cohort
  <2>2. TypeOK' /\ Placed' /\ run' = run
    BY <1>1, <1>2, <1>4, CompleteValidatorStep, SurfaceStep, EndSurfaceStep, RetireLaneStep
  <2> QED
    BY <1>1, <1>2, <2>1, <2>2, GoesOn DEF Goes
<1>5. CASE StartValidator \/ CompleteWorkflow
  <2>1. /\ at' \notin {"start", "discover", "done"} /\ size' = size
        /\ UNCHANGED <<cohort, failed, screened, shortlist, evidence>>
    BY <1>5 DEF StartValidator, CompleteWorkflow, Publish, cohort, screening, ranking
  <2>2. TypeOK' /\ ((Placed' /\ run' = run) \/ (~Enough /\ run' = "refused" /\ status' = status))
    BY <1>1, <1>2, <1>5, StartValidatorStep, CompleteWorkflowStep
  <2>3. CASE Placed' /\ run' = run
    BY <1>1, <1>2, <2>1, <2>2, <2>3, GoesOn DEF Goes
  <2>4. CASE ~Enough /\ run' = "refused" /\ status' = status
    BY <2>1, <2>2, <2>4, EndsWell DEF Ends
  <2> QED
    BY <2>2, <2>3, <2>4
<1>6. CASE Finish
  <2>1. Members' = Members /\ Plan' = Plan
    BY <1>6 DEF Finish, cohort, Members, Plan, Screens, Diligences
  <2>2. TypeOK'
    BY <1>1, <1>6, <2>1 DEF Finish, cohort, screening, ranking, TypeOK, Place
  <2>3. Ends
    BY <1>6, <2>2 DEF Ends, Finish, cohort, screening, ranking
  <2> QED
    BY <2>3, EndsWell
<1> QED
  BY <1>3, <1>4, <1>5, <1>6 DEF Synthesis

LEMMA NextStep == IInv /\ [Next]_vars => IInv'
<1> SUFFICES ASSUME IInv, [Next]_vars PROVE IInv'
  OBVIOUS
<1> USE DEF cohort, screening, ranking, projection
<1>1. CASE Opening \/ Collection \/ Screening \/ Synthesis
  BY <1>1, OpeningStep, CollectionStep, ScreeningStep, SynthesisStep
<1>2. CASE Cancel \/ Finalise
  <2>1. Members' = Members /\ Plan' = Plan
    BY <1>2 DEF Cancel, Finalise, Members, Plan, Screens, Diligences
  <2>2. TypeOK'
    BY <1>2, <2>1 DEF Cancel, Finalise, IInv, TypeOK, Place
  <2>3. Ends
    BY <1>2, <2>2 DEF Ends, Cancel, Finalise
  <2> QED
    BY <2>3, EndsWell
<1>3. CASE UNCHANGED vars
  <2>1. Members' = Members /\ Plan' = Plan
    BY <1>3 DEF vars, Members, Plan, Screens, Diligences
  <2>2. TypeOK'
    BY <1>3, <2>1 DEF vars, IInv, TypeOK
  <2>3. CASE ~Running
    <3>1. Ends
      BY <1>3, <2>2, <2>3 DEF vars, Ends
    <3> QED
      BY <3>1, EndsWell
  <2>4. CASE Running
    BY <1>3 DEF vars, IInv, TypeOK, Consistent, Promises, FunnelAgrees, LanesExclusive, LaneOrder, DraftsAccepted,
       Placed, Loops, WaveOrder, Reviews, ReviewStatus, Ranked, Shortlists, Required, Jobs, Member, Waiting,
       Uncounted, Settled, Verdict, Started, InWave, First, Members, Plan, Screens, Diligences
  <2> QED
    BY <2>3, <2>4
<1> QED
  BY <1>1, <1>2, <1>3 DEF Next

LEMMA AlwaysInv == Spec => []IInv
BY InitInv, NextStep, PTL DEF Spec

--------------------------------------------------------------------------------
(* The results.                                                            *)

\* The gate's integer arithmetic: a count that reaches the required one reaches
\* the minimum and, multiplied out, the ratio.
LEMMA RequiredSuffices ==
  ASSUME TypeOK, NEW n \in Nat, n >= Required
  PROVE  RatioDen * n >= RatioNum * size /\ n >= MinScreened
<1>1. size \in Nat /\ RatioNum \in Nat /\ RatioDen \in Nat /\ RatioDen > 0 /\ MinScreened \in Int
  BY Sizes, AutomaticAssumption
<1> DEFINE a == size * RatioNum + RatioDen - 1
           q == a \div RatioDen
<1>2. size * RatioNum \in Nat /\ a \in Nat
  BY <1>1
<1>3. q \in Int /\ a < RatioDen * q + RatioDen
  <2> HIDE DEF a
  <2>1. q = a \div RatioDen /\ q \in Int /\ a % RatioDen \in 0..(RatioDen - 1)
    BY <1>1, <1>2
  <2>2. a = RatioDen * q + (a % RatioDen)
    BY <1>1, <1>2
  <2> QED
    BY <1>1, <1>2, <2>1, <2>2
<1>4. Required = Greater(MinScreened, q)
  BY DEF Required
<1>5. n >= q /\ n >= MinScreened
  <2> HIDE DEF q
  <2> QED
    BY <1>1, <1>3, <1>4 DEF Greater
<1>6. RatioDen * q >= size * RatioNum
  <2>1. size * RatioNum + RatioDen - 1 < RatioDen * q + RatioDen
    BY <1>3 DEF a
  <2> HIDE DEF q
  <2>2. RatioDen * q \in Int
    BY <1>1, <1>3
  <2> QED
    BY <1>1, <1>2, <2>1, <2>2
<1>7. RatioDen * n >= RatioDen * q
  <2> HIDE DEF q
  <2> QED
    BY <1>1, <1>3, <1>5
<1>8. RatioDen * n \in Int /\ RatioDen * q \in Int /\ RatioNum * size = size * RatioNum
  <2> HIDE DEF q
  <2> QED
    BY <1>1, <1>3
<1> QED
  <2> HIDE DEF q
  <2> QED
    BY <1>2, <1>5, <1>6, <1>7, <1>8

\* While the run goes on, what is surfaced is backed by where the generator is.
Surfacing == Running /\ (at \notin {"surface", "retire", "end"} => surfaced = {})

LEMMA BackedFollows ==
  ASSUME TypeOK, size > 0, Placed, Surfacing
  PROVE  CandidatesBacked
<1> SUFFICES ASSUME at \in {"surface", "retire", "end"} PROVE CandidatesBacked
  BY DEF Surfacing, CandidatesBacked
<1>1. Cardinality(screened) \in Nat
  BY Sizes, FS_Subset, FS_CardinalityType DEF TypeOK
<1>2. RatioDen * Cardinality(screened) >= RatioNum * size /\ Cardinality(screened) >= MinScreened
  BY <1>1, RequiredSuffices DEF Placed, Ranked
<1>3. status[Validator] \in Success
  BY DEF Placed, Reviews
<1>4. surfaced \subseteq screened \cap evidence
  BY DEF TypeOK, Placed, Loops
<1> QED
  BY <1>2, <1>3, <1>4 DEF CandidatesBacked

LEMMA BackedNext ==
  TypeOK' /\ (size > 0)' /\ Placed' /\ Surfacing' => CandidatesBacked'
<1>1. TypeOK /\ size > 0 /\ Placed /\ Surfacing => CandidatesBacked
  BY BackedFollows
<1> QED
  BY <1>1, PTL

\* An issuer stands in the shortlist once: it is reviewed exactly if its own
\* review is complete.
LEMMA ReviewsFollow ==
  ASSUME Results
  PROVE  ReviewsAgree
<1> SUFFICES ASSUME NEW j \in Jobs PROVE shortlist[j] \in deep <=> status[Diligence(j)] = "complete"
  BY DEF ReviewsAgree
<1>1. \A i \in Jobs : shortlist[i] = shortlist[j] => i = j
  BY DEF Results, Jobs
<1> QED
  BY <1>1 DEF Results

\* The whole shortlist, once each, is as long as the shortlist.
LEMMA RowsCounted ==
  ASSUME TypeOK, size > 0, Placed, Ending,
         \A i, j \in DOMAIN shortlist : shortlist[i] = shortlist[j] => i = j
  PROVE  Cardinality({shortlist[r] : r \in DOMAIN shortlist})
           = Lesser(CandidateLimit, Cardinality(screened))
<1> DEFINE D == DOMAIN shortlist
           T == {shortlist[r] : r \in D}
           k == Lesser(CandidateLimit, Cardinality(screened))
<1>1. Cardinality(screened) \in Nat
  BY Sizes, FS_Subset, FS_CardinalityType DEF TypeOK
<1>2. k \in Nat
  BY <1>1, AutomaticAssumption DEF Lesser
<1>3. shortlist \in [D -> T] /\ D = 1..k
  BY DEF Placed, Ranked, Shortlists
<1>4. IsFiniteSet(D) /\ Cardinality(D) = k
  <2> HIDE DEF k, D
  <2>1. IsFiniteSet(1..k) /\ Cardinality(1..k) = IF 1 > k THEN 0 ELSE k - 1 + 1
    BY <1>2, FS_Interval
  <2> QED
    BY <1>2, <1>3, <2>1
<1>5. shortlist \in Bijection(D, T)
  <2>1. \A t \in T : \E r \in D : shortlist[r] = t
    OBVIOUS
  <2> QED
    BY <1>3, <2>1, Fun_IsBij
<1>6. Cardinality(T) = Cardinality(D)
  <2>1. ExistsBijection(D, T)
    BY <1>5 DEF ExistsBijection
  <2> HIDE DEF D, T
  <2> QED
    BY <1>4, <2>1, FS_Bijection
<1> QED
  BY <1>4, <1>6

\* The end of the run keeps the results.
LEMMA ResultsKept ==
  ASSUME Results, run' # "running", EndsSettled',
         UNCHANGED <<size, screened, shortlist, deep, status, evidence, surfaced>>
  PROVE  Results'
<1>1. CandidatesBacked'
  BY DEF Results, CandidatesBacked
<1> QED
  BY <1>1 DEF Results, Jobs

\* A step of a run that goes on.
LEMMA ResultsGo ==
  ASSUME Goes, Running,
         \A i, j \in DOMAIN shortlist' : shortlist'[i] = shortlist'[j] => i = j,
         deep' = {shortlist'[j] : j \in {i \in Jobs' : status'[Diligence(i)] = "complete"}},
         surfaced' = IF at' \in {"surface", "retire", "end"}
                       THEN {shortlist'[r] : r \in {q \in DOMAIN shortlist' : Past(q)'}} ELSE {},
         at' = "gate" => \A l \in Lane \ due' : agent'[l] = "failed",
         at' = "retire" => \A l \in Lane \ due' : agent'[l] = "complete",
         at' = "end" => (\A l \in Lane : agent'[l] = "complete") /\ \A t \in Plan' : status'[t] \in Terminal
  PROVE  Results'
<1>1. CandidatesBacked'
  BY BackedNext DEF Goes, Surfacing
<1>2. EndsSettled'
  BY DEF Goes, EndsSettled
<1> QED
  BY <1>1, <1>2 DEF Results, Goes

\* A step that neither ranks nor surfaces, and completes no review.
LEMMA ResultsDuring ==
  ASSUME TypeOK, IInv', Results, Running, run' = run \/ (run' = "refused" /\ status' = status),
         UNCHANGED <<shortlist, deep, surfaced>>, (size' = size /\ screened' = screened) \/ surfaced = {},
         evidence' = evidence \/ surfaced = {},
         at \notin {"surface", "retire", "end"}, at' \notin {"start", "discover", "done", "retire", "end"},
         at' = "surface" => due' = DOMAIN shortlist', at' = "gate" => due' = Lane,
         \A j \in Jobs : status'[Diligence(j)] = "complete" <=> status[Diligence(j)] = "complete"
  PROVE  Results'
<1>1. Jobs' = Jobs
  BY DEF Jobs
<1>2. surfaced = {}
  BY DEF Results
<1>3. /\ \A i, j \in DOMAIN shortlist' : shortlist'[i] = shortlist'[j] => i = j
      /\ deep' = {shortlist'[j] : j \in {i \in Jobs' : status'[Diligence(i)] = "complete"}}
  BY <1>1 DEF Results
<1>4. CASE run' = run
  <2>1. Goes
    BY <1>4 DEF IInv, Consistent, Goes
  <2>2. surfaced' = IF at' \in {"surface", "retire", "end"}
                      THEN {shortlist'[r] : r \in {q \in DOMAIN shortlist' : Past(q)'}} ELSE {}
    BY <1>2 DEF Past
  <2> QED
    BY <1>3, <2>1, <2>2, ResultsGo
<1>5. CASE run' = "refused"
  BY <1>2, <1>3, <1>5 DEF Results, CandidatesBacked, EndsSettled
<1> QED
  BY <1>4, <1>5

\* A draft that completes no review leaves every other review as it was.
LEMMA QuietPublish ==
  ASSUME TypeOK, size > 0, NEW t \in Plan,
         NEW kind \in {"TASK_STARTED", "TASK_PARTIAL", "TASK_FAILED", "TASK_COMPLETED",
                       "MODEL_TURN_STARTED", "MODEL_TURN_COMPLETED", "ACTION_REJECTED"},
         kind = "TASK_COMPLETED" => t = Validator, Publish(kind, t)
  PROVE  /\ run' = run \/ (run' = "refused" /\ status' = status)
         /\ surfaced' = surfaced /\ evidence' = evidence
         /\ \A j \in Jobs : status'[Diligence(j)] = "complete" <=> status[Diligence(j)] = "complete"
<1>1. status \in [Plan -> TaskStatus]
  BY Sizes DEF TypeOK
<1>2. \A j \in Jobs : Diligence(j) \in Plan /\ Diligence(j) # Validator
  BY PlanTasks DEF Jobs
<1>3. CASE Accepts(kind, t)
  <2>1. status' = [status EXCEPT ![t] = To(kind)] /\ UNCHANGED <<run, surfaced, evidence>>
    BY <1>3 DEF Publish
  <2>2. t = Validator \/ (To(kind) # "complete" /\ status[t] # "complete")
    BY <1>3 DEF Accepts, From, To
  <2>3. \A j \in Jobs : status'[Diligence(j)] = "complete" <=> status[Diligence(j)] = "complete"
    BY <1>1, <1>2, <2>1, <2>2
  <2> QED
    BY <2>1, <2>3
<1>4. CASE ~Accepts(kind, t)
  BY <1>4 DEF Publish
<1> QED
  BY <1>3, <1>4

\* Before the ranking there is no review and no candidate.
LEMMA Unranked ==
  ASSUME IInv, Running, ~Reviewing, ~Ending
  PROVE  DOMAIN shortlist = {} /\ Jobs = {}
<1>1. CASE Beginning
  <2>1. Members = {} /\ screened = {}
    BY <1>1 DEF IInv, Consistent, TypeOK, Members
  <2> QED
    BY <2>1 DEF IInv, TypeOK, Jobs
<1>2. CASE ~Beginning
  BY <1>2 DEF IInv, Consistent, Placed, Ranked, Jobs
<1> QED
  BY <1>1, <1>2

LEMMA OpeningResults ==
  ASSUME IInv, IInv', Results, Opening
  PROVE  Results'
<1> USE DEF cohort, screening, ranking, projection
<1>1. /\ Running /\ Beginning /\ at' \in {"discover", "done"}
      /\ UNCHANGED <<size, screened, shortlist, deep, status, agent, evidence, surfaced>>
  BY DEF Opening, Reject, Open
<1>2. DOMAIN shortlist = {} /\ surfaced = {} /\ size = 0
  BY <1>1, Unranked DEF IInv, Consistent, Results
<1>3. DOMAIN agent = {}
  BY <1>2 DEF IInv, TypeOK
<1>4. run' \in {"running", "failed"}
  BY DEF Opening, Reject, Open
<1>5. EndsSettled'
  BY <1>1, <1>2, <1>3, <1>4 DEF EndsSettled
<1>6. CandidatesBacked'
  BY <1>1, <1>2 DEF CandidatesBacked
<1>7. Jobs' = Jobs
  BY <1>1 DEF Jobs
<1> QED
  BY <1>1, <1>2, <1>5, <1>6, <1>7 DEF Results

LEMMA CollectionResults ==
  ASSUME IInv, IInv', Results, Collection
  PROVE  Results'
<1>1. Running /\ at \in {"discover", "batch", "reject"} /\ TypeOK
  BY DEF IInv, Collection, Discover, DiscoveryFails, Collect, RecordEvidence, AdmitUntrusted, RejectUntrusted,
         EndCollection
<1>2. DOMAIN shortlist = {} /\ Jobs = {} /\ surfaced = {}
  BY <1>1, Unranked DEF Results
<1>3. CASE DiscoveryFails
  <2>1. run' = "failed" /\ UNCHANGED <<size, screened, shortlist, deep, status, evidence, surfaced, agent>>
        /\ size = 0
    BY <1>3 DEF DiscoveryFails, Raise, cohort, screening, ranking, IInv, Consistent
  <2>2. DOMAIN agent = {}
    BY <2>1 DEF IInv, TypeOK
  <2>3. EndsSettled'
    BY <1>2, <2>1, <2>2 DEF EndsSettled
  <2> QED
    BY <2>1, <2>3, ResultsKept
<1>4. CASE ~DiscoveryFails
  <2>1. /\ run' = run \/ (run' = "refused" /\ status' = status)
        /\ UNCHANGED <<shortlist, deep, surfaced>>
        /\ at' \in {"batch", "reject", "results"}
    BY <1>4 DEF Collection, Discover, Collect, RecordEvidence, AdmitUntrusted, RejectUntrusted,
       EndCollection, Publish, cohort, screening, ranking, projection
  <2> QED
    BY <1>1, <1>2, <2>1, ResultsDuring
<1> QED
  BY <1>3, <1>4

LEMMA ScreeningResults ==
  ASSUME IInv, IInv', Results, Screening
  PROVE  Results'
<1> USE DEF Screened, cohort, screening, ranking, projection
<1>1. Running /\ at \in {"screen", "tool", "results", "drop", "keep", "gate"} /\ TypeOK
  BY DEF IInv, Screening, PlanWave, StartScreen, StartTool, AnalyseWave, ToolFails, FailScreen, ToolCompletes,
         CompleteScreen, StopAtGate, FailLane, CoverageNotMet
<1>2. DOMAIN shortlist = {} /\ Jobs = {} /\ surfaced = {}
  BY <1>1, Unranked DEF Results
<1>3. CASE CoverageNotMet
  <2>1. run' = "failed" /\ UNCHANGED <<size, screened, shortlist, deep, status, evidence, surfaced, agent>>
        /\ at = "gate" /\ due = {} /\ size > 0
    BY <1>3 DEF CoverageNotMet, Raise, IInv, Consistent
  <2>2. DOMAIN agent = Lane /\ \A l \in Lane : agent[l] = "failed"
    BY <1>1, <2>1 DEF TypeOK, Results
  <2>3. EndsSettled'
    BY <1>2, <2>1, <2>2 DEF EndsSettled
  <2> QED
    BY <2>1, <2>3, ResultsKept
<1>4. CASE FailLane
  <2>1. PICK l \in First(due) :
          /\ agent' = [agent EXCEPT ![l] = "failed"]
          /\ due' = due \ {l}
    BY <1>4 DEF FailLane
  <2>2. at = "gate" /\ at' = "gate" /\ UNCHANGED <<size, screened, shortlist, deep, status, evidence, surfaced, run>>
    BY <1>4 DEF FailLane
  <2>3. agent \in [Lane -> {"running", "complete", "failed"}] /\ Goes
    BY <1>1, <2>2 DEF IInv, TypeOK, Consistent, Goes
  <2>4. \A i \in Lane \ due' : agent'[i] = "failed"
    BY <1>1, <2>1, <2>2, <2>3 DEF Results
  <2> QED
    BY <1>1, <1>2, <2>2, <2>3, <2>4, ResultsGo DEF Results, Jobs
<1>5. CASE ~CoverageNotMet /\ ~FailLane
  <2>1. /\ run' = run \/ (run' = "refused" /\ status' = status)
        /\ UNCHANGED <<shortlist, deep, surfaced>>
        /\ at' \in {"screen", "tool", "results", "drop", "keep", "gate"}
        /\ at' = "gate" => due' = Lane
    BY <1>5 DEF Screening, PlanWave, StartScreen, StartTool, AnalyseWave, ToolFails, FailScreen, ToolCompletes,
       CompleteScreen, StopAtGate, Publish
  <2> QED
    BY <1>1, <1>2, <2>1, ResultsDuring
<1> QED
  BY <1>3, <1>4, <1>5

\* The ranking takes each screened issuer once, and nothing is reviewed yet.
LEMMA RankResults ==
  ASSUME IInv, IInv', Results, Rank
  PROVE  Results'
<1> USE DEF Rank, Screened, cohort, screening, projection
<1>1. Running /\ Goes /\ at = "results" /\ at' = "jobs"
  BY DEF IInv, Consistent, Goes
<1>2. DOMAIN shortlist = {} /\ Jobs = {} /\ surfaced = {} /\ deep = {}
  BY <1>1, Unranked DEF Results
<1>3. \A i, j \in DOMAIN shortlist' : shortlist'[i] = shortlist'[j] => i = j
  BY DEF Shortlists
<1>4. \A j \in Jobs' : status'[Diligence(j)] # "complete"
  <2>1. status' = status /\ \A j \in 1..DiligenceLimit : status[Diligence(j)] = "queued"
    BY <1>1, <1>2 DEF IInv, Consistent, Placed, Reviews
  <2> QED
    BY <2>1 DEF Jobs
<1>5. deep' = {} /\ surfaced' = {}
  BY <1>2
<1>6. deep' = {shortlist'[j] : j \in {i \in Jobs' : status'[Diligence(i)] = "complete"}}
  BY <1>4, <1>5
<1> QED
  BY <1>1, <1>3, <1>5, <1>6, ResultsGo

\* A review that completes is the one that is counted.
LEMMA CompleteReviewResults ==
  ASSUME IInv, IInv', Results, CompleteReview
  PROVE  Results'
<1> USE DEF CompleteReview, cohort, screening
<1>1. Running /\ TypeOK /\ size > 0 /\ Placed /\ at = "outcome" /\ at' = "outcomes" /\ size' = size
      /\ shortlist' = shortlist
  BY DEF IInv, Consistent
<1>2. PICK j \in First(due) \ broken :
           /\ deep' = deep \cup {shortlist[j]}
           /\ Publish("TASK_COMPLETED", Diligence(j))
  OBVIOUS
<1>3. j \in Jobs /\ j \in due /\ j \in 1..DiligenceLimit /\ j \in DOMAIN shortlist
  BY <1>1, <1>2, LateFirst
<1>4. status[Diligence(j)] = "running"
  BY <1>1, <1>2, <1>3 DEF Placed, Reviews, ReviewStatus
<1>5. /\ status'[Diligence(j)] = "complete"
      /\ \A i \in 1..DiligenceLimit : i # j => status'[Diligence(i)] = status[Diligence(i)]
      /\ run' = run /\ surfaced' = surfaced
  BY <1>1, <1>2, <1>3, <1>4, ReviewPublished DEF From, To
<1>6. Goes /\ Jobs' = Jobs
  BY <1>1, <1>5 DEF IInv, Consistent, Goes, Jobs
<1>7. deep' = {shortlist'[i] : i \in {k \in Jobs' : status'[Diligence(k)] = "complete"}}
  <2>1. deep = {shortlist[i] : i \in {k \in Jobs : status[Diligence(k)] = "complete"}}
    BY DEF Results
  <2>2. \A k \in Jobs : status'[Diligence(k)] = "complete" <=> k = j \/ status[Diligence(k)] = "complete"
    BY <1>5 DEF Jobs
  <2>3. {k \in Jobs : status'[Diligence(k)] = "complete"} = {k \in Jobs : status[Diligence(k)] = "complete"} \cup {j}
    BY <1>3, <2>2
  <2> QED
    BY <1>1, <1>2, <1>6, <2>1, <2>3
<1>8. surfaced' = {}
  BY <1>1, <1>5 DEF Results
<1> QED
  BY <1>1, <1>6, <1>7, <1>8, ResultsGo DEF Results

\* The other steps about reviews and the validator.
LEMMA ReviewResults ==
  ASSUME IInv, IInv', Results,
         StartJob \/ StartTurn \/ RunJobs \/ CompleteTurn \/ RejectReview \/ FailReview
           \/ StartValidator \/ CompleteValidator
  PROVE  Results'
<1> USE DEF cohort, screening, ranking, projection
<1>1. /\ Running /\ TypeOK /\ at \in {"jobs", "turn", "outcomes", "outcome", "refuse", "validate"}
      /\ UNCHANGED <<size, screened, shortlist, deep>>
      /\ at' \in {"jobs", "turn", "outcomes", "outcome", "refuse", "validate", "surface"}
      /\ at' = "surface" => due' = DOMAIN shortlist'
  BY DEF IInv, StartJob, StartTurn, RunJobs, CompleteTurn, RejectReview, FailReview, StartValidator, CompleteValidator
<1>2. size > 0 /\ Placed
  BY <1>1 DEF IInv, Consistent
<1>3. /\ run' = run \/ (run' = "refused" /\ status' = status)
      /\ surfaced' = surfaced /\ evidence' = evidence
      /\ \A j \in Jobs : status'[Diligence(j)] = "complete" <=> status[Diligence(j)] = "complete"
  <2>1. CASE RunJobs
    BY <2>1 DEF RunJobs
  <2>2. CASE StartJob \/ StartTurn \/ CompleteTurn \/ RejectReview \/ FailReview
    <3>1. PICK j \in First(due), kind \in {"TASK_STARTED", "MODEL_TURN_STARTED", "MODEL_TURN_COMPLETED",
                                          "ACTION_REJECTED", "TASK_FAILED"} : Publish(kind, Diligence(j))
      BY <2>2 DEF StartJob, StartTurn, CompleteTurn, RejectReview, FailReview
    <3>2. Diligence(j) \in Plan
      BY <1>1, <1>2, <2>2, <3>1, PlanTasks, LateFirst
         DEF StartJob, StartTurn, CompleteTurn, RejectReview, FailReview
    <3> QED
      BY <1>1, <1>2, <3>1, <3>2, QuietPublish
  <2>3. CASE StartValidator \/ CompleteValidator
    <3>1. PICK kind \in {"TASK_STARTED", "TASK_COMPLETED", "TASK_PARTIAL"} : Publish(kind, Validator)
      BY <2>3 DEF StartValidator, CompleteValidator
    <3> QED
      BY <1>1, <1>2, <3>1, PlanTasks, QuietPublish
  <2> QED
    BY <2>1, <2>2, <2>3
<1> QED
  BY <1>1, <1>3, ResultsDuring

\* The candidates surfaced are the rows passed, and in the end all of them.
LEMMA SurfacingResults ==
  ASSUME IInv, IInv', Results, Surface \/ EndSurface
  PROVE  Results'
<1> USE DEF cohort, screening, ranking, projection
<1>1. /\ Running /\ at = "surface" /\ Goes /\ UNCHANGED <<shortlist, deep, status, Jobs>>
      /\ at' \in {"surface", "retire"}
  BY DEF IInv, Surface, EndSurface, Consistent, Goes, Jobs
<1>2. due \subseteq DOMAIN shortlist
  BY <1>1 DEF IInv, Consistent, Placed, Loops
<1>3. surfaced = {shortlist[r] : r \in {q \in DOMAIN shortlist : q \notin due}}
  BY <1>1 DEF Results, Past
<1>4. CASE Surface
  <2>1. PICK r \in First(due) : surfaced' = surfaced \cup {shortlist[r]} /\ due' = due \ {r}
    BY <1>4 DEF Surface
  <2>2. r \in DOMAIN shortlist /\ at' = "surface"
    BY <1>2, <1>4, <2>1 DEF First, Surface
  <2>3. {q \in DOMAIN shortlist : q \notin due'} = {q \in DOMAIN shortlist : q \notin due} \cup {r}
    BY <2>1, <2>2
  <2>4. surfaced' = {shortlist'[q] : q \in {q \in DOMAIN shortlist' : Past(q)'}}
    BY <1>1, <1>3, <2>1, <2>2, <2>3 DEF Past
  <2> QED
    BY <1>1, <2>2, <2>4, ResultsGo DEF Results
<1>5. CASE EndSurface
  <2>1. due = {} /\ due' = Lane /\ at' = "retire" /\ surfaced' = surfaced
    BY <1>5 DEF EndSurface
  <2>2. surfaced' = {shortlist'[q] : q \in {q \in DOMAIN shortlist' : Past(q)'}}
    BY <1>1, <1>3, <2>1 DEF Past
  <2> QED
    BY <1>1, <2>1, <2>2, ResultsGo DEF Results
<1> QED
  BY <1>4, <1>5

\* The lanes are retired, and the workflow is declared complete when no task is open.
LEMMA RetiringResults ==
  ASSUME IInv, IInv', Results, RetireLane \/ CompleteWorkflow
  PROVE  Results'
<1> USE DEF cohort, screening, ranking, projection
<1>1. /\ Running /\ TypeOK /\ at = "retire" /\ UNCHANGED <<size, screened, shortlist, deep, status, evidence, surfaced, Jobs>>
      /\ at' \in {"retire", "end"}
  BY DEF IInv, RetireLane, CompleteWorkflow, Jobs
<1>2. size > 0 /\ agent \in [Lane -> {"running", "complete", "failed"}] /\ due \subseteq Lane
      /\ \A l \in Lane \ due : agent[l] = "complete"
  BY <1>1 DEF IInv, Consistent, TypeOK, Placed, Loops, Results
<1>3. surfaced' = {shortlist'[q] : q \in {q \in DOMAIN shortlist' : Past(q)'}}
  BY <1>1 DEF Results, Past
<1>4. CASE RetireLane
  <2>1. PICK l \in First(due) : agent' = [agent EXCEPT ![l] = "complete"] /\ due' = due \ {l}
    BY <1>4 DEF RetireLane
  <2>2. at' = "retire" /\ Goes
    BY <1>1, <1>4 DEF RetireLane, IInv, Consistent, Goes
  <2>3. \A i \in Lane \ due' : agent'[i] = "complete"
    BY <1>2, <2>1
  <2> QED
    BY <1>1, <1>3, <2>2, <2>3, ResultsGo DEF Results
<1>5. CASE CompleteWorkflow
  <2>1. due = {} /\ at' = "end" /\ agent' = agent
    BY <1>5 DEF CompleteWorkflow
  <2>2. CASE \A t \in Plan : status[t] \in Terminal
    <3>1. run' = run /\ Plan' = Plan
      BY <1>1, <1>5, <2>2 DEF CompleteWorkflow, Plan, Screens, Diligences, Members
    <3>2. Goes
      BY <1>1, <2>1, <3>1 DEF IInv, Consistent, Goes
    <3> QED
      BY <1>1, <1>2, <1>3, <2>1, <2>2, <3>1, <3>2, ResultsGo DEF Results
  <2>3. CASE ~\A t \in Plan : status[t] \in Terminal
    <3>1. run' = "refused"
      BY <1>5, <2>3 DEF CompleteWorkflow
    <3> QED
      BY <1>1, <3>1, ResultsKept DEF EndsSettled
  <2> QED
    BY <2>2, <2>3
<1> QED
  BY <1>4, <1>5

\* The completed run has the whole shortlist to show for itself.
LEMMA FinishResults ==
  ASSUME IInv, Results, Finish
  PROVE  Results'
<1> USE DEF Finish, cohort, screening, ranking
<1>1. Running /\ TypeOK /\ at = "end" /\ size > 0 /\ Placed /\ run' = "complete"
      /\ UNCHANGED <<size, screened, shortlist, deep, status, agent, evidence, surfaced>>
  BY DEF IInv, Consistent
<1>2. /\ \A l \in Lane : agent[l] = "complete"
      /\ \A t \in Plan : status[t] \in Terminal
      /\ surfaced = {shortlist[r] : r \in DOMAIN shortlist}
      /\ \A i, j \in DOMAIN shortlist : shortlist[i] = shortlist[j] => i = j
      /\ deep = {shortlist[j] : j \in {i \in Jobs : status[Diligence(i)] = "complete"}}
  BY <1>1 DEF Results, Past
<1>3. Cardinality(surfaced) = Lesser(CandidateLimit, Cardinality(screened))
  BY <1>1, <1>2, RowsCounted
<1>4. deep \subseteq surfaced
  BY <1>2 DEF Jobs
<1>5. Plan' = Plan
  BY <1>1 DEF Plan, Screens, Diligences, Members
<1>6. EndsSettled'
  BY <1>1, <1>2, <1>3, <1>4, <1>5 DEF EndsSettled
<1> QED
  BY <1>1, <1>6, ResultsKept

LEMMA ResultsStep == IInv /\ IInv' /\ Results /\ [Next]_vars => Results'
<1> SUFFICES ASSUME IInv, IInv', Results, [Next]_vars PROVE Results'
  OBVIOUS
<1> USE DEF cohort, screening, ranking, projection
<1>1. CASE Opening \/ Collection \/ Screening
  BY <1>1, OpeningResults, CollectionResults, ScreeningResults
<1>2. CASE Synthesis
  BY <1>2, RankResults, CompleteReviewResults, ReviewResults, SurfacingResults, RetiringResults, FinishResults
     DEF Synthesis
<1>3. CASE Cancel
  BY <1>3, ResultsKept DEF Cancel, EndsSettled
<1>4. CASE Finalise \/ (UNCHANGED vars /\ ~Running)
  <2>1. run' # "running" /\ UNCHANGED <<size, screened, shortlist, deep, status, agent, evidence, surfaced, run>>
    BY <1>4 DEF Finalise, vars
  <2>2. EndsSettled'
    BY <2>1 DEF Results, EndsSettled, Plan, Screens, Diligences, Members
  <2> QED
    BY <2>1, <2>2, ResultsKept
<1>5. CASE UNCHANGED vars
  BY <1>5 DEF vars, Results, Past, Jobs, CandidatesBacked, EndsSettled, Plan, Screens, Diligences, Members
<1> QED
  BY <1>1, <1>2, <1>3, <1>4, <1>5 DEF Next

LEMMA ResultsInit == Init => Results
<1> SUFFICES ASSUME Init PROVE Results
  OBVIOUS
<1>1. /\ DOMAIN shortlist = {} /\ deep = {} /\ surfaced = {} /\ at = "start" /\ run = "running"
      /\ Jobs = {}
  BY DEF Init, Jobs
<1> QED
  BY <1>1 DEF Results, CandidatesBacked, EndsSettled

--------------------------------------------------------------------------------
(* The theorems.                                                           *)

\* Every variable keeps its type, the whole cohort accounted for, whatever the
\* collector, the analyses, the model and the operator do.
THEOREM TypeCorrect == Spec => []TypeOK
BY AlwaysInv, PTL DEF IInv

\* For every number of lanes and slots, _analysis_waves and the one-at-a-time
\* rejections keep a lane to one screen and the run to its slots.
THEOREM LanesStayExclusive == Spec => []LanesExclusive
BY AlwaysInv, PTL DEF IInv, Promises

\* For every number of lanes and slots, the issuers a wave defers are taken up
\* before the later ones of their lane.
THEOREM LanesStayOrdered == Spec => []LaneOrder
BY AlwaysInv, PTL DEF IInv, Promises

\* For every number of lanes and slots, the waves keep both.
THEOREM LanesStayKept == Spec => []LanesKept
BY LanesStayExclusive, LanesStayOrdered, PTL DEF LanesKept

\* The funnel the run ends with is the one its journal projects, for every
\* split of the cohort into batches and waves.
THEOREM FunnelStaysTrue == Spec => []FunnelAgrees
BY AlwaysInv, PTL DEF IInv, Promises

\* With a gate that asks for as many issuers as reviews are planned, stream()
\* never yields a draft that reduce_event refuses.
THEOREM DraftsStayAccepted == Spec => []DraftsAccepted
BY AlwaysInv, PTL DEF IInv, Promises

\* For every cohort, lane count and candidate limit, what a run ends with is what it
\* did: candidates within the gate's coverage and with their evidence, a review
\* counted exactly when its task completed, the whole shortlist surfaced by a
\* completed run, and nothing by one the gate stopped.
THEOREM ResultsStayHonest == Spec => []ResultsHonest
<1>1. Results => ResultsHonest
  BY ReviewsFollow DEF Results, ResultsHonest
<1>2. Spec => []Results
  BY AlwaysInv, ResultsInit, ResultsStep, PTL DEF Spec
<1> QED
  BY <1>1, <1>2, PTL
--------------------------------------------------------------------------------
(* The cohort: how many there are of what, first.                         *)

HIDE DEF Success, Terminal, Active, TaskStatus, Running,
         Beginning, Collecting, Waving, Reviewing, Ending

\* A nonempty set of naturals has a least member.
LEMMA LeastNat ==
  ASSUME NEW S, S \in SUBSET Nat, S # {}
  PROVE  \E m \in S : \A k \in S : m <= k
<1>1. PICK m \in S : \A y \in Nat : <<y, m>> \in OpToRel(<, Nat) => ~(y \in S)
  BY WFMin, NatLessThanWellFounded, Zenon
<1>2. \A k \in S : ~(k < m)
  BY <1>1 DEF OpToRel
<1> QED
  BY <1>2

\* Induction up to a bound, over a set.
LEMMA UpTo ==
  ASSUME NEW n \in Nat, NEW S, 0 \in S, \A m \in 1..n : m - 1 \in S => m \in S
  PROVE  \A m \in 0..n : m \in S
<1> DEFINE Out == {m \in 0..n : m \notin S}
<1>1. ASSUME Out # {} PROVE FALSE
  <2>1. PICK m \in Out : \A k \in Out : m <= k
    <3>1. Out \in SUBSET Nat
      OBVIOUS
    <3> HIDE DEF Out
    <3> QED
      BY <1>1, <3>1, LeastNat
  <2>2. m \in 1..n /\ m - 1 \in S
    BY <2>1
  <2> QED
    BY <2>1, <2>2
<1> QED
  BY <1>1

Preceding(S, R, i) == {j \in S : <<j, i>> \in R}

\* Over a strict order of a finite set, counting who is before i numbers its members.
LEMMA Places ==
  ASSUME NEW S, IsFiniteSet(S), NEW R,
         \A i \in S : <<i, i>> \notin R,
         \A i, j, k \in S : <<i, j>> \in R /\ <<j, k>> \in R => <<i, k>> \in R,
         \A i, j \in S : i = j \/ <<i, j>> \in R \/ <<j, i>> \in R
  PROVE  /\ \A i \in S : Cardinality(Preceding(S, R, i)) \in 0..(Cardinality(S) - 1)
         /\ \A i, j \in S : <<i, j>> \in R =>
              Cardinality(Preceding(S, R, i)) < Cardinality(Preceding(S, R, j))
         /\ \A n \in 0..(Cardinality(S) - 1) : \E i \in S : Cardinality(Preceding(S, R, i)) = n
<1> DEFINE Above(i) == Preceding(S, R, i)
           place    == [i \in S |-> Cardinality(Above(i))]
           N        == Cardinality(S)
<1>0. N \in Nat
  BY FS_CardinalityType
<1>1. ASSUME NEW i \in S PROVE IsFiniteSet(Above(i)) /\ Cardinality(Above(i)) \in 0..(N - 1)
  <2>1. Above(i) \in SUBSET S /\ i \notin Above(i)
    BY DEF Preceding
  <2> HIDE DEF Above
  <2>2. /\ IsFiniteSet(Above(i)) /\ Cardinality(Above(i)) \in Nat
        /\ Cardinality(Above(i)) <= N /\ Cardinality(Above(i)) # N
    BY <2>1, FS_Subset, FS_CardinalityType
  <2> QED
    BY <1>0, <2>2
<1>2. ASSUME NEW i \in S, NEW j \in S, <<i, j>> \in R
      PROVE  Cardinality(Above(i)) < Cardinality(Above(j))
  <2>1. Above(i) \in SUBSET Above(j) /\ i \in Above(j) /\ i \notin Above(i)
    BY <1>2 DEF Preceding
  <2>2. IsFiniteSet(Above(i)) /\ IsFiniteSet(Above(j))
    BY <1>1
  <2> HIDE DEF Above
  <2>3. /\ Cardinality(Above(i)) \in Nat /\ Cardinality(Above(j)) \in Nat
        /\ Cardinality(Above(i)) <= Cardinality(Above(j)) /\ Cardinality(Above(i)) # Cardinality(Above(j))
    BY <2>1, <2>2, FS_Subset, FS_CardinalityType
  <2> QED
    BY <2>3
<1>3. place \in Injection(S, 0..(N - 1))
  <2> HIDE DEF Above
  <2>1. place \in [S -> 0..(N - 1)]
    BY <1>1
  <2>2. ASSUME NEW i \in S, NEW j \in S, place[i] = place[j] PROVE i = j
    <3>1. place[i] = Cardinality(Above(i)) /\ place[j] = Cardinality(Above(j)) /\ place[i] \in Int
      BY <1>0, <1>1
    <3>2. <<i, j>> \notin R
      BY <1>2, <2>2, <3>1
    <3>3. <<j, i>> \notin R
      BY <1>2, <2>2, <3>1
    <3> QED
      BY <3>2, <3>3
  <2> HIDE DEF place
  <2> QED
    BY <2>1, <2>2, Zenon DEF Injection, IsInjective
<1>4. Cardinality(0..(N - 1)) = N /\ IsFiniteSet(0..(N - 1))
  <2>1. 0 \in Int /\ N - 1 \in Int
    BY <1>0
  <2>2. IsFiniteSet(0..(N - 1)) /\ Cardinality(0..(N - 1)) = IF 0 > N - 1 THEN 0 ELSE (N - 1) - 0 + 1
    BY <2>1, FS_Interval
  <2> QED
    BY <1>0, <2>2
<1>5. place \in Surjection(S, 0..(N - 1))
  <2> HIDE DEF place, N
  <2>1. Cardinality(S) = Cardinality(0..(N - 1))
    BY <1>4 DEF N
  <2> QED
    BY <1>3, <1>4, <2>1, FS_Injection
<1>6. \A n \in 0..(N - 1) : \E i \in S : place[i] = n
  <2> HIDE DEF place, N
  <2> QED
    BY <1>5, Zenon DEF Surjection
<1> HIDE DEF N
<1>7. \A n \in 0..(N - 1) : \E i \in S : Cardinality(Above(i)) = n
  BY <1>6
<1> QED
  BY <1>1, <1>2, <1>7 DEF N

\* Rows as they are kept: known by their place, with a ticker and a size.
RowsSound(rows) ==
  /\ IsFiniteSet(DOMAIN rows) /\ DOMAIN rows \subseteq Nat
  /\ \A i \in DOMAIN rows : rows[i].ticker \in Nat /\ rows[i].cap \in Int

Tickers(rows) == {rows[i].ticker : i \in DOMAIN rows}

\* Each ticker has one best row.
LEMMA HasBest ==
  ASSUME NEW rows, RowsSound(rows), NEW i \in DOMAIN rows
  PROVE  \E b \in BestByTicker(rows) : rows[b].ticker = rows[i].ticker
<1> DEFINE C == SameTicker(rows, i)
           R == {x \in C \X C : Outbids(rows, x[1], x[2])}
<1>1. C \in SUBSET DOMAIN rows /\ i \in C /\ C \subseteq Nat /\ \A j \in C : rows[j].cap \in Int
  BY DEF RowsSound, SameTicker
<1>2. IsFiniteSet(C) /\ Cardinality(C) \in Nat /\ Cardinality(C) # 0
  <2> HIDE DEF C
  <2> QED
    BY <1>1, FS_Subset, FS_CardinalityType, FS_EmptySet DEF RowsSound
<1>3. \A a, b \in C : <<a, b>> \in R <=> Outbids(rows, a, b)
  OBVIOUS
<1>4. PICK b \in C : Cardinality(Preceding(C, R, b)) = 0
  <2> HIDE DEF C, R
  <2>1. \A a \in C : <<a, a>> \notin R
    BY <1>1, <1>3 DEF Outbids
  <2>2. \A a, b, c \in C : <<a, b>> \in R /\ <<b, c>> \in R => <<a, c>> \in R
    BY <1>1, <1>3 DEF Outbids
  <2>3. ASSUME NEW a \in C, NEW b \in C PROVE a = b \/ <<a, b>> \in R \/ <<b, a>> \in R
    <3>1. a \in Nat /\ b \in Nat /\ rows[a].cap \in Int /\ rows[b].cap \in Int
      BY <1>1
    <3>2. a = b \/ Outbids(rows, a, b) \/ Outbids(rows, b, a)
      BY <3>1 DEF Outbids
    <3> QED
      BY <1>3, <3>2
  <2>4. 0 \in 0..(Cardinality(C) - 1)
    BY <1>2
  <2>5. \A n \in 0..(Cardinality(C) - 1) : \E a \in C : Cardinality(Preceding(C, R, a)) = n
    BY <1>2, <2>1, <2>2, <2>3, Places
  <2> QED
    BY <2>4, <2>5
<1>5. Preceding(C, R, b) = {}
  <2>1. Preceding(C, R, b) \in SUBSET C
    BY DEF Preceding
  <2> HIDE DEF C, R
  <2> QED
    BY <1>2, <1>4, <2>1, FS_Subset, FS_EmptySet
<1>6. \A j \in C : j = b \/ Outbids(rows, b, j)
  <2> SUFFICES ASSUME NEW j \in C PROVE j = b \/ Outbids(rows, b, j)
    OBVIOUS
  <2> HIDE DEF C, R
  <2>1. b \in Nat /\ j \in Nat /\ rows[b].cap \in Int /\ rows[j].cap \in Int
    BY <1>1
  <2>2. <<j, b>> \notin R
    BY <1>5 DEF Preceding
  <2>3. ~Outbids(rows, j, b)
    BY <1>3, <2>2
  <2> QED
    BY <2>1, <2>3 DEF Outbids
<1>7. SameTicker(rows, b) = C /\ b \in DOMAIN rows /\ rows[b].ticker = rows[i].ticker
  BY DEF SameTicker
<1> HIDE DEF C
<1> QED
  BY <1>6, <1>7 DEF BestByTicker

\* A set of places that has one of each ticker is as large as there are tickers.
LEMMA OnePerTicker ==
  ASSUME NEW rows, RowsSound(rows), NEW P \in SUBSET DOMAIN rows,
         \A i, j \in P : rows[i].ticker = rows[j].ticker => i = j,
         \A i \in DOMAIN rows : \E j \in P : rows[j].ticker = rows[i].ticker
  PROVE  /\ IsFiniteSet(P) /\ IsFiniteSet(Tickers(rows))
         /\ Cardinality(P) = Cardinality(Tickers(rows)) /\ Cardinality(P) \in Nat
<1> DEFINE f == [i \in P |-> rows[i].ticker]
<1>1. IsFiniteSet(P)
  BY FS_Subset DEF RowsSound
<1>2. f \in [P -> Tickers(rows)]
  BY DEF Tickers
<1>3. \A i, j \in P : f[i] = f[j] => i = j
  OBVIOUS
<1>4. \A t \in Tickers(rows) : \E i \in P : f[i] = t
  BY DEF Tickers
<1>5. f \in Bijection(P, Tickers(rows))
  <2> HIDE DEF f
  <2> QED
    BY <1>2, <1>3, <1>4, Zenon DEF Bijection, Injection, Surjection, IsInjective
<1>6. ExistsBijection(P, Tickers(rows))
  BY <1>5 DEF ExistsBijection
<1> QED
  BY <1>1, <1>6, FS_Bijection, FS_CardinalityType

LEMMA BestCounted ==
  ASSUME NEW rows, RowsSound(rows)
  PROVE  /\ BestByTicker(rows) \in SUBSET DOMAIN rows
         /\ \A i, j \in BestByTicker(rows) : rows[i].ticker = rows[j].ticker => i = j
         /\ IsFiniteSet(BestByTicker(rows)) /\ IsFiniteSet(Tickers(rows))
         /\ Cardinality(BestByTicker(rows)) = Cardinality(Tickers(rows))
         /\ Cardinality(BestByTicker(rows)) \in Nat
<1>1. BestByTicker(rows) \in SUBSET DOMAIN rows
  BY DEF BestByTicker
<1>2. \A i, j \in BestByTicker(rows) : rows[i].ticker = rows[j].ticker => i = j
  BY DEF BestByTicker, SameTicker, Outbids, RowsSound
<1> QED
  BY <1>1, <1>2, HasBest, OnePerTicker

LEMMA RepeatedCounted ==
  ASSUME NEW rows, RowsSound(rows)
  PROVE  /\ IsFiniteSet(Repeated(rows))
         /\ Cardinality(Repeated(rows)) = Cardinality(DOMAIN rows) - Cardinality(Tickers(rows))
<1> DEFINE P == DOMAIN rows \ Repeated(rows)
<1>1. \A i, j \in P : rows[i].ticker = rows[j].ticker => i = j
  BY DEF Repeated, SameTicker, RowsSound
<1>2. ASSUME NEW i \in DOMAIN rows PROVE \E j \in P : rows[j].ticker = rows[i].ticker
  <2>1. PICK j \in SameTicker(rows, i) : \A k \in SameTicker(rows, i) : j <= k
    <3>1. SameTicker(rows, i) \in SUBSET Nat /\ SameTicker(rows, i) # {}
      BY DEF SameTicker, RowsSound
    <3> QED
      BY <3>1, LeastNat
  <2>2. j \in DOMAIN rows /\ rows[j].ticker = rows[i].ticker /\ SameTicker(rows, j) = SameTicker(rows, i)
    BY DEF SameTicker
  <2>3. j \notin Repeated(rows)
    <3>1. \A k \in SameTicker(rows, i) : k \in Nat
      BY DEF SameTicker, RowsSound
    <3> QED
      BY <2>1, <2>2, <3>1 DEF Repeated
  <2> QED
    BY <2>2, <2>3
<1>3. Cardinality(P) = Cardinality(Tickers(rows)) /\ Cardinality(P) \in Nat
  BY <1>1, <1>2, OnePerTicker
<1>4. Repeated(rows) = DOMAIN rows \ P /\ DOMAIN rows \cap P = P
  BY DEF Repeated
<1>5. /\ IsFiniteSet(DOMAIN rows \ P)
      /\ Cardinality(DOMAIN rows \ P) = Cardinality(DOMAIN rows) - Cardinality(DOMAIN rows \cap P)
  <2>1. IsFiniteSet(DOMAIN rows)
    BY DEF RowsSound
  <2> HIDE DEF P
  <2> QED
    BY <2>1, FS_Difference
<1> QED
  BY <1>3, <1>4, <1>5

--------------------------------------------------------------------------------
(* What is excluded, counted.                                             *)

\* An exclusion for each of a set of places.
Excluding(these, reason) == {Excluded(i, reason) : i \in these}

LEMMA ExcludingSize ==
  ASSUME NEW these, IsFiniteSet(these), NEW reason
  PROVE  IsFiniteSet(Excluding(these, reason)) /\ Cardinality(Excluding(these, reason)) = Cardinality(these)
<1> DEFINE f == [i \in these |-> Excluded(i, reason)]
<1>1. f \in [these -> Excluding(these, reason)]
  BY DEF Excluding
<1>2. \A i, j \in these : f[i] = f[j] => i = j
  BY DEF Excluded
<1>3. \A e \in Excluding(these, reason) : \E i \in these : f[i] = e
  BY DEF Excluding
<1>4. f \in Bijection(these, Excluding(these, reason))
  <2> HIDE DEF f
  <2> QED
    BY <1>1, <1>2, <1>3, Zenon DEF Bijection, Injection, Surjection, IsInjective
<1> QED
  BY <1>4, FS_Bijection DEF ExistsBijection

\* Sizes of sets without a common member add up.
LEMMA Disjoint ==
  ASSUME NEW S, NEW T, IsFiniteSet(S), IsFiniteSet(T), \A x \in S : x \notin T
  PROVE  /\ IsFiniteSet(S \cup T) /\ Cardinality(S \cup T) = Cardinality(S) + Cardinality(T)
         /\ Cardinality(S \cup T) \in Nat /\ Cardinality(S) \in Nat /\ Cardinality(T) \in Nat
<1>1. S \cap T = {}
  OBVIOUS
<1>2. IsFiniteSet(S \cup T) /\ Cardinality(S \cup T) = Cardinality(S) + Cardinality(T) - Cardinality(S \cap T)
  BY FS_Union
<1>3. Cardinality(S \cap T) = 0
  BY <1>1, FS_EmptySet
<1> QED
  BY <1>2, <1>3, FS_CardinalityType

\* A set and a part of it.
LEMMA PartSize ==
  ASSUME NEW S, NEW T \in SUBSET S, IsFiniteSet(S)
  PROVE  /\ IsFiniteSet(T) /\ IsFiniteSet(S \ T)
         /\ Cardinality(S \ T) = Cardinality(S) - Cardinality(T)
         /\ Cardinality(S) \in Nat /\ Cardinality(T) \in Nat /\ Cardinality(S \ T) \in Nat
<1>1. S \cap T = T
  OBVIOUS
<1> QED
  BY <1>1, FS_Difference, FS_Subset, FS_CardinalityType

JoinReasons == {"duplicate_market_row", "missing_sec_identity", "sec_exchange_outside_policy", "duplicate_issuer"}

\* Every row that was kept is eligible or has one exclusion.
LEMMA JoinCounted ==
  ASSUME NEW rows, RowsSound(rows), NEW sec
  PROVE  /\ Eligible(rows, sec) \in SUBSET BestByTicker(rows) /\ IsFiniteSet(Eligible(rows, sec))
         /\ Cardinality(Eligible(rows, sec)) \in Nat
         /\ IsFiniteSet(JoinExclusions(rows, sec)) /\ Cardinality(JoinExclusions(rows, sec)) \in Nat
         /\ Cardinality(JoinExclusions(rows, sec)) + Cardinality(Eligible(rows, sec)) = Cardinality(DOMAIN rows)
         /\ \A e \in JoinExclusions(rows, sec) : e.reason \in JoinReasons
<1> DEFINE B == BestByTicker(rows)
           I == Identified(rows, sec)
           J == Joined(rows, sec)
           E == Eligible(rows, sec)
           R == Repeated(rows)
           X1 == Excluding(R, "duplicate_market_row")
           X2 == Excluding(B \ I, "missing_sec_identity")
           X3 == Excluding(I \ J, "sec_exchange_outside_policy")
           X4 == Excluding(J \ E, "duplicate_issuer")
<1>1. I \in SUBSET B /\ J \in SUBSET I /\ E \in SUBSET J
  BY DEF Identified, Joined, Eligible
<1>2. JoinExclusions(rows, sec) = ((X1 \cup X2) \cup X3) \cup X4
  BY DEF JoinExclusions, Excluding
<1>3. /\ \A e \in X1 : e.reason = "duplicate_market_row"
      /\ \A e \in X2 : e.reason = "missing_sec_identity"
      /\ \A e \in X3 : e.reason = "sec_exchange_outside_policy"
      /\ \A e \in X4 : e.reason = "duplicate_issuer"
  BY DEF Excluding, Excluded
<1>4. /\ IsFiniteSet(B) /\ IsFiniteSet(R) /\ Cardinality(B) \in Nat /\ IsFiniteSet(DOMAIN rows)
      /\ Cardinality(DOMAIN rows) \in Nat
      /\ Cardinality(R) = Cardinality(DOMAIN rows) - Cardinality(B)
  BY BestCounted, RepeatedCounted, FS_CardinalityType DEF RowsSound
<1> HIDE DEF B, I, J, E, R
<1>5. /\ IsFiniteSet(I) /\ IsFiniteSet(B \ I) /\ Cardinality(I) \in Nat
      /\ Cardinality(B \ I) = Cardinality(B) - Cardinality(I)
  BY <1>1, <1>4, PartSize
<1>6. /\ IsFiniteSet(J) /\ IsFiniteSet(I \ J) /\ Cardinality(J) \in Nat
      /\ Cardinality(I \ J) = Cardinality(I) - Cardinality(J)
  BY <1>1, <1>5, PartSize
<1>7. /\ IsFiniteSet(E) /\ IsFiniteSet(J \ E) /\ Cardinality(E) \in Nat
      /\ Cardinality(J \ E) = Cardinality(J) - Cardinality(E)
  BY <1>1, <1>6, PartSize
<1>8. /\ IsFiniteSet(X1) /\ Cardinality(X1) = Cardinality(R)
      /\ IsFiniteSet(X2) /\ Cardinality(X2) = Cardinality(B \ I)
      /\ IsFiniteSet(X3) /\ Cardinality(X3) = Cardinality(I \ J)
      /\ IsFiniteSet(X4) /\ Cardinality(X4) = Cardinality(J \ E)
  BY <1>4, <1>5, <1>6, <1>7, ExcludingSize
<1> HIDE DEF X1, X2, X3, X4
<1>9. IsFiniteSet(X1 \cup X2) /\ Cardinality(X1 \cup X2) = Cardinality(X1) + Cardinality(X2)
  <2>1. \A e \in X1 : e \notin X2
    BY <1>3
  <2> QED
    BY <1>8, <2>1, Disjoint
<1>10. /\ IsFiniteSet((X1 \cup X2) \cup X3)
       /\ Cardinality((X1 \cup X2) \cup X3) = Cardinality(X1 \cup X2) + Cardinality(X3)
  <2>1. \A e \in X1 \cup X2 : e \notin X3
    BY <1>3
  <2> QED
    BY <1>8, <1>9, <2>1, Disjoint
<1>11. /\ IsFiniteSet(((X1 \cup X2) \cup X3) \cup X4) /\ Cardinality(((X1 \cup X2) \cup X3) \cup X4) \in Nat
       /\ Cardinality(((X1 \cup X2) \cup X3) \cup X4) = Cardinality((X1 \cup X2) \cup X3) + Cardinality(X4)
  <2>1. \A e \in (X1 \cup X2) \cup X3 : e \notin X4
    BY <1>3
  <2> QED
    BY <1>8, <1>10, <2>1, Disjoint
<1>12. \A e \in JoinExclusions(rows, sec) : e.reason \in JoinReasons
  BY <1>2, <1>3 DEF JoinReasons
<1>13. Cardinality(JoinExclusions(rows, sec)) + Cardinality(E) = Cardinality(DOMAIN rows)
  BY <1>2, <1>4, <1>5, <1>6, <1>7, <1>8, <1>9, <1>10, <1>11
<1>14. E \in SUBSET B
  BY <1>1
<1> QED
  BY <1>2, <1>7, <1>11, <1>12, <1>13, <1>14 DEF E, B

--------------------------------------------------------------------------------
(* Rows in the order of their size.                                       *)

Order(rows, these) == {x \in these \X these : Larger(rows[x[1]], rows[x[2]])}

\* The n-th by size is the one with n - 1 larger ones; everybody is listed once.
LEMMA ListedBySize ==
  ASSUME NEW rows, RowsSound(rows), NEW these \in SUBSET DOMAIN rows,
         \A i, j \in these : rows[i].ticker = rows[j].ticker => i = j
  PROVE  LET o == BySize(rows, these)
             N == Cardinality(these)
         IN  /\ N \in Nat /\ o \in [1..N -> these] /\ Len(o) = N
             /\ \A n \in 1..N : Cardinality(Ahead(rows, these, o[n])) = n - 1
             /\ \A i \in these : \A n \in 1..N :
                  Cardinality(Ahead(rows, these, i)) = n - 1 => o[n] = i
             /\ \A i \in these : \E n \in 1..N : o[n] = i
             /\ \A m, n \in 1..N : o[m] = o[n] => m = n
<1> DEFINE R == Order(rows, these)
           N == Cardinality(these)
           o == BySize(rows, these)
           Count(i) == Cardinality(Preceding(these, R, i))
<1>1. IsFiniteSet(these) /\ N \in Nat
  BY FS_Subset, FS_CardinalityType DEF RowsSound
<1>2. \A i, j \in these : <<i, j>> \in R <=> Larger(rows[i], rows[j])
  BY DEF Order
<1>3. \A i \in these : rows[i].ticker \in Nat /\ rows[i].cap \in Int
  BY DEF RowsSound
<1>4. \A i \in these : Ahead(rows, these, i) = Preceding(these, R, i)
  BY <1>2 DEF Preceding, Ahead
<1> HIDE DEF R
<1>5. /\ \A i \in these : <<i, i>> \notin R
      /\ \A i, j, k \in these : <<i, j>> \in R /\ <<j, k>> \in R => <<i, k>> \in R
  BY <1>2, <1>3 DEF Larger
<1>6. ASSUME NEW i \in these, NEW j \in these PROVE i = j \/ <<i, j>> \in R \/ <<j, i>> \in R
  <2>1. /\ rows[i].ticker \in Nat /\ rows[i].cap \in Int /\ rows[j].ticker \in Nat /\ rows[j].cap \in Int
        /\ rows[i].ticker = rows[j].ticker => i = j
    BY <1>3
  <2>2. i = j \/ Larger(rows[i], rows[j]) \/ Larger(rows[j], rows[i])
    BY <2>1 DEF Larger
  <2> QED
    BY <1>2, <2>2
<1>7. /\ \A i \in these : Count(i) \in 0..(N - 1)
      /\ \A i, j \in these : <<i, j>> \in R => Count(i) < Count(j)
      /\ \A n \in 0..(N - 1) : \E i \in these : Count(i) = n
  BY <1>1, <1>5, <1>6, Places
<1>8. \A i, j \in these : Count(i) = Count(j) => i = j
  <2> SUFFICES ASSUME NEW i \in these, NEW j \in these, Count(i) = Count(j), i # j PROVE FALSE
    OBVIOUS
  <2>1. Count(i) \in Int /\ Count(j) \in Int
    BY <1>1, <1>7
  <2>2. ASSUME NEW a \in these, NEW b \in these, <<a, b>> \in R PROVE Count(a) < Count(b)
    BY <1>7, <2>2
  <2> HIDE DEF Count
  <2>3. <<i, j>> \notin R /\ <<j, i>> \notin R
    <3>1. ASSUME <<i, j>> \in R PROVE FALSE
      BY <2>1, <2>2, <3>1
    <3>2. ASSUME <<j, i>> \in R PROVE FALSE
      BY <2>1, <2>2, <3>2
    <3> QED
      BY <3>1, <3>2
  <2> QED
    BY <1>6, <2>3
<1>9. \A n \in 1..N : o[n] = CHOOSE i \in these : Count(i) = n - 1
  BY <1>4 DEF BySize
<1>10. ASSUME NEW n \in 1..N PROVE o[n] \in these /\ Count(o[n]) = n - 1
  <2>1. n - 1 \in 0..(N - 1)
    BY <1>1
  <2>2. \E i \in these : Count(i) = n - 1
    BY <1>7, <2>1
  <2> HIDE DEF Count, o
  <2> QED
    BY <1>9, <2>2
<1>11. DOMAIN o = 1..N /\ o = [n \in 1..N |-> o[n]]
  <2> DEFINE nth(n) == CHOOSE i \in these : Cardinality(Ahead(rows, these, i)) = n - 1
  <2>1. o = [n \in 1..N |-> nth(n)]
    BY DEF BySize
  <2> HIDE DEF nth, o
  <2> QED
    BY <2>1
<1> HIDE DEF Count, o
<1>12. o \in [1..N -> these]
  BY <1>10, <1>11
<1>13. Len(o) = N
  BY <1>1, <1>12
<1>14. \A i \in these : \A n \in 1..N : Count(i) = n - 1 => o[n] = i
  BY <1>8, <1>10
<1>15. ASSUME NEW i \in these PROVE \E n \in 1..N : o[n] = i
  <2>1. Count(i) + 1 \in 1..N /\ Count(i) = (Count(i) + 1) - 1
    BY <1>1, <1>7
  <2> QED
    BY <1>14, <2>1
<1>16. \A m, n \in 1..N : o[m] = o[n] => m = n
  <2> SUFFICES ASSUME NEW m \in 1..N, NEW n \in 1..N, o[m] = o[n] PROVE m = n
    OBVIOUS
  <2>1. m - 1 = n - 1 /\ m \in Int /\ n \in Int
    BY <1>1, <1>10
  <2> QED
    BY <2>1
<1>17. \A i \in these : Cardinality(Ahead(rows, these, i)) = Count(i)
  BY <1>4 DEF Count
<1>18. \A n \in 1..N : Cardinality(Ahead(rows, these, o[n])) = n - 1
  BY <1>10, <1>17
<1>19. \A i \in these : \A n \in 1..N :
         Cardinality(Ahead(rows, these, i)) = n - 1 => o[n] = i
  BY <1>14, <1>17
<1> HIDE DEF N
<1>20. /\ N \in Nat /\ o \in [1..N -> these] /\ Len(o) = N
       /\ \A n \in 1..N : Cardinality(Ahead(rows, these, o[n])) = n - 1
       /\ \A i \in these : \A n \in 1..N :
            Cardinality(Ahead(rows, these, i)) = n - 1 => o[n] = i
       /\ \A i \in these : \E n \in 1..N : o[n] = i
       /\ \A m, n \in 1..N : o[m] = o[n] => m = n
  BY <1>1, <1>12, <1>13, <1>15, <1>16, <1>18, <1>19
<1> QED
  BY <1>20, Zenon DEF N, o

--------------------------------------------------------------------------------
(* Stopping early, over a sorted screen.                                  *)

RawRow == [ticker : Nat, equity : BOOLEAN, listed : BOOLEAN, whole : BOOLEAN, cap : Int, liquid : BOOLEAN]

\* The rows kept of the first n of a screen.
Kept(p, screen, n) == [i \in Accepted(p, screen, 1..n) |-> screen[i]]

LEMMA KeptSound ==
  ASSUME NEW p, NEW screen \in Seq(RawRow), NEW n \in 0..Len(screen)
  PROVE  /\ RowsSound(Kept(p, screen, n))
         /\ DOMAIN Kept(p, screen, n) = Accepted(p, screen, 1..n)
         /\ Accepted(p, screen, 1..n) \in SUBSET (1..n)
         /\ \A i \in DOMAIN Kept(p, screen, n) : Kept(p, screen, n)[i] = screen[i] /\ screen[i] \in RawRow
<1>1. Accepted(p, screen, 1..n) \in SUBSET (1..n) /\ 1..n \subseteq 1..Len(screen)
  BY DEF Accepted
<1>2. IsFiniteSet(1..n)
  BY FS_Interval
<1>3. IsFiniteSet(Accepted(p, screen, 1..n))
  BY <1>1, <1>2, FS_Subset
<1>4. ASSUME NEW i \in 1..Len(screen)
      PROVE  screen[i] \in RawRow /\ screen[i].ticker \in Nat /\ screen[i].cap \in Int
  <2>1. screen[i] \in RawRow
    OBVIOUS
  <2> QED
    BY <2>1 DEF RawRow
<1> QED
  BY <1>1, <1>3, <1>4 DEF Kept, RowsSound

\* Over a sorted screen, the rows that come later change nothing among the first m.
LEMMA PrefixEligible ==
  ASSUME NEW p, NEW sec, NEW screen \in Seq(RawRow), Descending(screen),
         NEW M \in 0..Len(screen), NEW m \in 0..M
  PROVE  LET r == Kept(p, screen, m)
             a == Kept(p, screen, M)
         IN  /\ \A i \in DOMAIN r : i \in DOMAIN a /\ r[i] = a[i]
             /\ \A i, j \in DOMAIN a : Larger(a[i], a[j]) <=> i < j
             /\ \A i : i \in Eligible(r, sec) <=> i \in Eligible(a, sec) /\ i <= m
<1> DEFINE r == Kept(p, screen, m)
           a == Kept(p, screen, M)
<1>0. m \in 0..Len(screen)
  OBVIOUS
<1>1. /\ DOMAIN r \in SUBSET (1..m) /\ DOMAIN a \in SUBSET (1..M)
      /\ \A i \in DOMAIN r : r[i] = screen[i]
      /\ \A i \in DOMAIN a : a[i] = screen[i] /\ screen[i] \in RawRow
  <2>1. DOMAIN r = Accepted(p, screen, 1..m) /\ \A i \in DOMAIN r : r[i] = screen[i]
    BY <1>0, KeptSound, Zenon
  <2>2. /\ DOMAIN a = Accepted(p, screen, 1..M)
        /\ \A i \in DOMAIN a : a[i] = screen[i] /\ screen[i] \in RawRow
    BY <1>0, KeptSound, Zenon
  <2>3. Accepted(p, screen, 1..m) \in SUBSET (1..m) /\ Accepted(p, screen, 1..M) \in SUBSET (1..M)
    BY DEF Accepted
  <2> HIDE DEF r, a
  <2> QED
    BY <2>1, <2>2, <2>3
<1>2. DOMAIN r = {i \in DOMAIN a : i <= m}
  BY DEF Kept, Accepted
<1> HIDE DEF r, a
<1>3. ASSUME NEW i \in DOMAIN a, NEW j \in DOMAIN a, i < j PROVE a[i].cap > a[j].cap
  <2>1. i \in DOMAIN screen /\ j \in DOMAIN screen
    BY <1>1
  <2> QED
    BY <1>1, <1>3, <2>1 DEF Descending
<1>4. \A i \in DOMAIN a : a[i].cap \in Int /\ a[i].ticker \in Nat /\ i \in Nat
  BY <1>1 DEF RawRow
<1>5. ASSUME NEW i \in DOMAIN a, NEW j \in DOMAIN a
      PROVE  (Larger(a[i], a[j]) <=> i < j) /\ (Outbids(a, i, j) <=> i < j)
  <2>1. /\ a[i].cap \in Int /\ a[j].cap \in Int /\ i \in Nat /\ j \in Nat
        /\ a[i].ticker \in Nat /\ a[j].ticker \in Nat
    BY <1>4
  <2>2. i < j => a[i].cap > a[j].cap
    BY <1>3
  <2>3. j < i => a[j].cap > a[i].cap
    BY <1>3
  <2> QED
    BY <2>1, <2>2, <2>3 DEF Larger, Outbids
<1>6. \A i \in DOMAIN r : i \in DOMAIN a /\ r[i] = a[i] /\ i <= m /\ i \in Nat
  BY <1>1, <1>2, <1>4
<1>7. /\ \A i, j \in DOMAIN a : Larger(a[i], a[j]) <=> i < j
      /\ \A i, j \in DOMAIN a : Outbids(a, i, j) <=> i < j
  BY <1>5
<1>8. \A i, j \in DOMAIN r : Outbids(r, i, j) <=> i < j
  BY <1>6, <1>7 DEF Outbids
<1>9. ASSUME NEW i PROVE i \in BestByTicker(a) <=>
        i \in DOMAIN a /\ \A j \in DOMAIN a : a[j].ticker = a[i].ticker => j = i \/ i < j
  BY <1>7 DEF BestByTicker, SameTicker
<1>10. ASSUME NEW i PROVE i \in BestByTicker(r) <=>
         i \in DOMAIN r /\ \A j \in DOMAIN r : r[j].ticker = r[i].ticker => j = i \/ i < j
  BY <1>8 DEF BestByTicker, SameTicker
<1>11. ASSUME NEW i PROVE i \in BestByTicker(r) <=> i \in BestByTicker(a) /\ i <= m
  <2>1. ASSUME i \in BestByTicker(r) PROVE i \in BestByTicker(a) /\ i <= m
    <3>1. i \in DOMAIN r /\ i \in DOMAIN a /\ r[i] = a[i] /\ i <= m /\ i \in Nat
      BY <1>6, <1>10, <2>1
    <3>2. ASSUME NEW j \in DOMAIN a, a[j].ticker = a[i].ticker PROVE j = i \/ i < j
      <4>1. CASE j <= m
        <5>1. j \in DOMAIN r /\ r[j] = a[j]
          BY <1>2, <1>6, <4>1
        <5> QED
          BY <1>10, <2>1, <3>1, <3>2, <5>1
      <4>2. CASE ~(j <= m)
        BY <1>4, <3>1, <4>2
      <4> QED
        BY <4>1, <4>2
    <3> QED
      BY <1>9, <3>1, <3>2
  <2>2. ASSUME i \in BestByTicker(a), i <= m PROVE i \in BestByTicker(r)
    <3>1. i \in DOMAIN r /\ r[i] = a[i]
      BY <1>2, <1>6, <1>9, <2>2
    <3> QED
      BY <1>6, <1>9, <1>10, <2>2, <3>1
  <2> QED
    BY <2>1, <2>2
<1>12. \A i \in BestByTicker(a) : i \in DOMAIN a
  BY <1>9
<1>13. ASSUME NEW i PROVE i \in Joined(r, sec) <=> i \in Joined(a, sec) /\ i <= m
  <2>1. i \in DOMAIN r => r[i] = a[i]
    BY <1>6
  <2>2. i \in BestByTicker(r) => i \in DOMAIN r
    BY <1>10
  <2> QED
    BY <1>11, <2>1, <2>2 DEF Joined, Identified
<1>14. \A i \in Joined(a, sec) : i \in DOMAIN a
  BY <1>12 DEF Joined, Identified
<1>15. \A i \in Joined(r, sec) : i \in DOMAIN r
  BY <1>10 DEF Joined, Identified
<1>16. ASSUME NEW i PROVE i \in Eligible(a, sec) <=>
         /\ i \in Joined(a, sec)
         /\ \A j \in Joined(a, sec) : Cik(a, sec, j) = Cik(a, sec, i) => j = i \/ i < j
  BY <1>7, <1>14 DEF Eligible
<1>17. ASSUME NEW i PROVE i \in Eligible(r, sec) <=>
         /\ i \in Joined(r, sec)
         /\ \A j \in Joined(r, sec) : Cik(r, sec, j) = Cik(r, sec, i) => j = i \/ i < j
  <2>1. \A k, l \in DOMAIN r : Larger(r[k], r[l]) <=> k < l
    BY <1>6, <1>7
  <2> QED
    BY <1>15, <2>1 DEF Eligible
<1>18. \A i \in DOMAIN r : Cik(r, sec, i) = Cik(a, sec, i)
  BY <1>6 DEF Cik
<1>19. ASSUME NEW i PROVE i \in Eligible(r, sec) <=> i \in Eligible(a, sec) /\ i <= m
  <2>1. ASSUME i \in Eligible(r, sec) PROVE i \in Eligible(a, sec) /\ i <= m
    <3>1. i \in Joined(r, sec) /\ i \in DOMAIN r /\ i \in Joined(a, sec) /\ i <= m /\ i \in Nat
      BY <1>6, <1>13, <1>15, <1>17, <2>1
    <3>2. ASSUME NEW j \in Joined(a, sec), Cik(a, sec, j) = Cik(a, sec, i) PROVE j = i \/ i < j
      <4>1. CASE j <= m
        <5>1. j \in Joined(r, sec) /\ j \in DOMAIN r
          BY <1>13, <1>15, <4>1
        <5>2. Cik(r, sec, j) = Cik(r, sec, i)
          BY <1>18, <3>1, <3>2, <5>1
        <5> QED
          BY <1>17, <2>1, <5>1, <5>2
      <4>2. CASE ~(j <= m)
        BY <1>4, <1>14, <3>1, <4>2
      <4> QED
        BY <4>1, <4>2
    <3> QED
      BY <1>16, <3>1, <3>2
  <2>2. ASSUME i \in Eligible(a, sec), i <= m PROVE i \in Eligible(r, sec)
    <3>1. i \in Joined(r, sec) /\ i \in DOMAIN r
      BY <1>13, <1>15, <1>16, <2>2
    <3>2. ASSUME NEW j \in Joined(r, sec), Cik(r, sec, j) = Cik(r, sec, i) PROVE j = i \/ i < j
      <4>1. j \in Joined(a, sec) /\ j \in DOMAIN r
        BY <1>13, <1>15
      <4>2. Cik(a, sec, j) = Cik(a, sec, i)
        BY <1>18, <3>1, <3>2, <4>1
      <4> QED
        BY <1>16, <2>2, <4>1, <4>2
    <3> QED
      BY <1>17, <3>1, <3>2
  <2> QED
    BY <2>1, <2>2
<1>20. \A i \in DOMAIN r : i \in DOMAIN a /\ r[i] = a[i]
  BY <1>6
<1> QED
  BY <1>7, <1>19, <1>20 DEF r, a

\* What is eligible has a ticker of its own.
LEMMA EligibleSingle ==
  ASSUME NEW rows, RowsSound(rows), NEW sec
  PROVE  /\ Eligible(rows, sec) \in SUBSET DOMAIN rows
         /\ \A i, j \in Eligible(rows, sec) : rows[i].ticker = rows[j].ticker => i = j
         /\ \A i, j \in Eligible(rows, sec) : Cik(rows, sec, i) = Cik(rows, sec, j) => i = j
<1>1. Eligible(rows, sec) \in SUBSET BestByTicker(rows)
  BY JoinCounted
<1>2. /\ BestByTicker(rows) \in SUBSET DOMAIN rows
      /\ \A i, j \in BestByTicker(rows) : rows[i].ticker = rows[j].ticker => i = j
  BY BestCounted
<1>3. ASSUME NEW i \in Eligible(rows, sec), NEW j \in Eligible(rows, sec),
             Cik(rows, sec, i) = Cik(rows, sec, j), i # j
      PROVE  FALSE
  <2>1. Larger(rows[i], rows[j]) /\ Larger(rows[j], rows[i])
    BY <1>3 DEF Eligible
  <2>2. /\ rows[i].cap \in Int /\ rows[j].cap \in Int
        /\ rows[i].ticker \in Nat /\ rows[j].ticker \in Nat
    BY <1>1, <1>2 DEF RowsSound
  <2> QED
    BY <2>1, <2>2 DEF Larger
<1> QED
  BY <1>1, <1>2, <1>3

\* The order by size of the first m rows is the start of that of the first M.
Begins(p, sec, screen, m, M) ==
  LET r  == Kept(p, screen, m)
      a  == Kept(p, screen, M)
      br == BySize(r, Eligible(r, sec))
      ba == BySize(a, Eligible(a, sec))
  IN  Len(br) <= Len(ba) /\ \A n \in 1..Len(br) : br[n] = ba[n] /\ r[br[n]] = a[ba[n]]

LEMMA PrefixCohort ==
  ASSUME NEW p, NEW sec, NEW screen \in Seq(RawRow), Descending(screen),
         NEW M \in 0..Len(screen), NEW m \in 0..M
  PROVE  Begins(p, sec, screen, m, M)
<1> DEFINE r == Kept(p, screen, m)
           a == Kept(p, screen, M)
           Er == Eligible(r, sec)
           Ea == Eligible(a, sec)
           br == BySize(r, Er)
           ba == BySize(a, Ea)
<1>0. m \in 0..Len(screen) /\ M \in 0..Len(screen)
  OBVIOUS
<1>1. RowsSound(r) /\ RowsSound(a) /\ DOMAIN r \in SUBSET (1..m) /\ DOMAIN a \in SUBSET (1..M)
  <2>1. RowsSound(r)
    BY <1>0, KeptSound, Zenon
  <2>2. RowsSound(a)
    BY <1>0, KeptSound, Zenon
  <2>3. DOMAIN r = Accepted(p, screen, 1..m)
    BY <1>0, KeptSound, Zenon
  <2>4. DOMAIN a = Accepted(p, screen, 1..M)
    BY <1>0, KeptSound, Zenon
  <2>5. Accepted(p, screen, 1..m) \in SUBSET (1..m) /\ Accepted(p, screen, 1..M) \in SUBSET (1..M)
    BY DEF Accepted
  <2> HIDE DEF r, a
  <2> QED
    BY <2>1, <2>2, <2>3, <2>4, <2>5
<1>2. /\ \A i \in DOMAIN r : i \in DOMAIN a /\ r[i] = a[i]
      /\ \A i, j \in DOMAIN a : Larger(a[i], a[j]) <=> i < j
      /\ \A i : i \in Er <=> i \in Ea /\ i <= m
  BY PrefixEligible
<1> HIDE DEF r, a
<1>3. /\ Er \in SUBSET DOMAIN r /\ \A i, j \in Er : r[i].ticker = r[j].ticker => i = j
      /\ Ea \in SUBSET DOMAIN a /\ \A i, j \in Ea : a[i].ticker = a[j].ticker => i = j
  BY <1>1, EligibleSingle
<1>4. IsFiniteSet(Ea)
  BY <1>1, JoinCounted
<1> HIDE DEF Er, Ea
<1>5. /\ Cardinality(Er) \in Nat /\ br \in [1..Cardinality(Er) -> Er] /\ Len(br) = Cardinality(Er)
      /\ \A n \in 1..Cardinality(Er) : Cardinality(Ahead(r, Er, br[n])) = n - 1
  BY <1>1, <1>3, ListedBySize
<1>6. /\ Cardinality(Ea) \in Nat /\ Len(ba) = Cardinality(Ea)
      /\ \A i \in Ea : \A n \in 1..Cardinality(Ea) : Cardinality(Ahead(a, Ea, i)) = n - 1 => ba[n] = i
  BY <1>1, <1>3, ListedBySize
<1>7. Cardinality(Er) <= Cardinality(Ea)
  <2>1. Er \in SUBSET Ea
    BY <1>2
  <2> QED
    BY <1>4, <2>1, FS_Subset
<1>8. ASSUME NEW i \in Er PROVE Ahead(r, Er, i) = Ahead(a, Ea, i)
  <2>1. i \in DOMAIN r /\ i \in DOMAIN a /\ r[i] = a[i] /\ i \in Nat /\ i <= m /\ i \in Ea
    BY <1>1, <1>2, <1>3
  <2>2. ASSUME NEW j \in Ea, Larger(a[j], a[i]) PROVE j \in Er
    <3>1. j < i /\ j \in Nat
      BY <1>1, <1>2, <1>3, <2>1, <2>2
    <3> QED
      BY <1>2, <2>1, <3>1
  <2>3. \A j \in Er : j \in Ea /\ r[j] = a[j]
    BY <1>2, <1>3
  <2> QED
    BY <2>1, <2>2, <2>3 DEF Ahead
<1> HIDE DEF br, ba
<1>9. ASSUME NEW n \in 1..Len(br) PROVE br[n] = ba[n] /\ r[br[n]] = a[ba[n]]
  <2>1. br[n] \in Er /\ br[n] \in Ea /\ n \in 1..Cardinality(Er) /\ n \in 1..Cardinality(Ea)
    BY <1>2, <1>5, <1>6, <1>7
  <2>2. Cardinality(Ahead(a, Ea, br[n])) = n - 1
    BY <1>5, <1>8, <2>1
  <2>3. ba[n] = br[n]
    BY <1>6, <2>1, <2>2
  <2> QED
    BY <1>2, <1>3, <2>1, <2>3
<1>10. Len(br) <= Len(ba)
  BY <1>5, <1>6, <1>7
<1> QED
  BY <1>9, <1>10 DEF Begins, br, ba, Er, Ea, r, a

--------------------------------------------------------------------------------
(* The reading of the pages.                                              *)

\* What the loop holds before the first page and after each.
Reads(g, n, p, sec, screens) ==
  g = [k \in 0..n |-> IF k = 0 THEN Unread
                      ELSE IF g[k - 1].over THEN g[k - 1] ELSE ReadPage(p, sec, screens[k], g[k - 1])]

LEMMA ReadingExists ==
  ASSUME NEW p, NEW sec, NEW screens, NEW N \in Nat
  PROVE  \E g : Reads(g, N, p, sec, screens)
<1> DEFINE Next0(k, s) == IF s.over THEN s ELSE ReadPage(p, sec, screens[k], s)
           Stuck == {n \in 0..N : ~ \E g : Reads(g, n, p, sec, screens)}
<1>0. ASSUME NEW g, NEW n
      PROVE  Reads(g, n, p, sec, screens) <=>
               g = [k \in 0..n |-> IF k = 0 THEN Unread ELSE Next0(k, g[k - 1])]
  BY DEF Reads
<1>1. ASSUME Stuck # {} PROVE FALSE
  <2>1. PICK m \in Stuck : \A k \in Stuck : m <= k
    <3>1. Stuck \in SUBSET Nat
      OBVIOUS
    <3> HIDE DEF Stuck
    <3> QED
      BY <1>1, <3>1, LeastNat
  <2> HIDE DEF Next0
  <2>2. CASE m = 0
    <3> DEFINE h == [k \in 0..0 |-> Unread]
    <3>0. h = [k \in 0..0 |-> IF k = 0 THEN Unread ELSE Next0(k, h[k - 1])]
      OBVIOUS
    <3>1. Reads(h, 0, p, sec, screens)
      <4> HIDE DEF h
      <4> QED
        BY <1>0, <3>0
    <3> QED
      BY <2>1, <2>2, <3>1
  <2>3. CASE m > 0
    <3>1. PICK g : Reads(g, m - 1, p, sec, screens)
      BY <2>1, <2>3
    <3> DEFINE h == [k \in 0..m |-> IF k < m THEN g[k] ELSE Next0(m, g[m - 1])]
    <3>2. ASSUME NEW k \in 0..m
          PROVE  h[k] = IF k = 0 THEN Unread ELSE Next0(k, h[k - 1])
      <4>1. g = [i \in 0..(m - 1) |-> IF i = 0 THEN Unread ELSE Next0(i, g[i - 1])]
        BY <1>0, <3>1
      <4> QED
        BY <2>1, <2>3, <4>1
    <3>3. Reads(h, m, p, sec, screens)
      BY <1>0, <3>2
    <3> QED
      BY <2>1, <3>3
  <2> QED
    BY <2>1, <2>2, <2>3
<1> QED
  BY <1>1

LEMMA ReadingAt ==
  ASSUME NEW p, NEW sec, NEW X, NEW screens \in Seq(X)
  PROVE  /\ Reading(p, sec, screens)[0] = Unread
         /\ \A k \in 1..Len(screens) :
              Reading(p, sec, screens)[k] =
                IF Reading(p, sec, screens)[k - 1].over THEN Reading(p, sec, screens)[k - 1]
                ELSE ReadPage(p, sec, screens[k], Reading(p, sec, screens)[k - 1])
<1>0. Len(screens) \in Nat
  OBVIOUS
<1>1. \E g : Reads(g, Len(screens), p, sec, screens)
  BY <1>0, ReadingExists
<1>2. Reads(Reading(p, sec, screens), Len(screens), p, sec, screens)
  BY <1>1 DEF Reads, Reading
<1> DEFINE g == Reading(p, sec, screens)
           Step(k, s) == IF s.over THEN s ELSE ReadPage(p, sec, screens[k], s)
<1>3. g = [k \in 0..Len(screens) |-> IF k = 0 THEN Unread ELSE Step(k, g[k - 1])]
  BY <1>2, Zenon DEF Reads
<1> HIDE DEF g, Step
<1>4. g[0] = Unread /\ \A k \in 1..Len(screens) : g[k] = Step(k, g[k - 1])
  BY <1>0, <1>3
<1> QED
  BY <1>4 DEF g, Step

PageReasons == {"invalid_market_row", "non_equity", "market_exchange_outside_policy",
                "incomplete_screen_metrics", "failed_market_threshold", "failed_liquidity_threshold"}

LEMMA Reasons ==
  ASSUME NEW p, NEW r, RowReason(p, r) # "none"
  PROVE  RowReason(p, r) \in PageReasons
BY DEF RowReason, PageReasons

\* The fields of a policy that the loop reads.
PolicyTyped(p) ==
  p.minimum \in Int /\ p.target \in Int /\ p.pageSize \in Int /\ p.maxScreened \in Int

LEMMA Admitted ==
  ASSUME NEW p, PolicyTyped(p), PolicyAdmitted(p, 1)
  PROVE  /\ p.minimum \in Nat /\ p.target \in Nat \ {0} /\ p.pageSize \in Nat \ {0}
         /\ p.maxScreened \in Nat \ {0}
BY DEF PolicyTyped, PolicyAdmitted, PageSizeLimit

\* What the loop holds after k pages: every row fetched is kept or excluded, and as
\* long as it goes on, the next page begins behind the last one.
ReadInv(p, k, s) ==
  /\ RowsSound(s.rows) /\ DOMAIN s.rows \subseteq 1..s.offset
  /\ IsFiniteSet(s.exclusions)
  /\ \A e \in s.exclusions : e.row \in 1..s.offset /\ e.reason \in PageReasons
  /\ s.offset \in Nat /\ s.fetched \in Nat /\ s.total \in Nat
  /\ Cardinality(s.exclusions) + Cardinality(DOMAIN s.rows) = s.fetched
  /\ s.error = "none" => s.fetched = Smaller(s.offset, s.total)
  /\ s.error \in {"none", "conflicting_totals"}
  /\ ~s.over => /\ s.error = "none" /\ s.offset < p.maxScreened /\ k <= s.offset
                /\ IF k = 0 THEN s.offset = 0 ELSE s.offset < s.total

LEMMA UnreadSound ==
  ASSUME NEW p, PolicyTyped(p), PolicyAdmitted(p, 1)
  PROVE  ReadInv(p, 0, Unread) /\ ~Unread.over /\ DOMAIN Unread.rows = {}
<1>1. DOMAIN Unread.rows = {}
  BY DEF Unread
<1>2. IsFiniteSet({}) /\ Cardinality({}) = 0
  BY FS_EmptySet
<1>3. p.maxScreened \in Nat \ {0}
  BY Admitted
<1>4. RowsSound(Unread.rows)
  BY <1>1, <1>2 DEF RowsSound
<1>5. /\ Unread.exclusions = {} /\ Unread.offset = 0 /\ Unread.fetched = 0 /\ Unread.total = 0
      /\ Unread.error = "none" /\ Unread.over = FALSE
  BY DEF Unread
<1> QED
  BY <1>1, <1>2, <1>3, <1>4, <1>5 DEF ReadInv, Smaller

\* A page of a screen, row by row.
Refused(p, screen, these) == {Excluded(i, RowReason(p, screen[i])) : i \in these}

LEMMA RefusedSize ==
  ASSUME NEW p, NEW screen, NEW these, IsFiniteSet(these)
  PROVE  /\ IsFiniteSet(Refused(p, screen, these))
         /\ Cardinality(Refused(p, screen, these)) = Cardinality(these)
<1> DEFINE f == [i \in these |-> Excluded(i, RowReason(p, screen[i]))]
<1>1. f \in [these -> Refused(p, screen, these)]
  BY DEF Refused
<1>2. \A i, j \in these : f[i] = f[j] => i = j
  BY DEF Excluded
<1>3. \A e \in Refused(p, screen, these) : \E i \in these : f[i] = e
  BY DEF Refused
<1>4. f \in Bijection(these, Refused(p, screen, these))
  <2> HIDE DEF f
  <2> QED
    BY <1>1, <1>2, <1>3, Zenon DEF Bijection, Injection, Surjection, IsInjective
<1> QED
  BY <1>4, FS_Bijection DEF ExistsBijection

\* What a turn of the loop makes t of s: a page of so many rows, of which some are kept.
Turn(p, sec, screen, s, width, page, kept, t) ==
  /\ width \in Nat \ {0} /\ s.offset + width <= p.maxScreened
  /\ page = (s.offset + 1)..Smaller(s.offset + width, Len(screen))
  /\ IsFiniteSet(page) /\ Cardinality(page) \in Nat
  /\ s.offset <= Len(screen) => Cardinality(page) = Smaller(s.offset + width, Len(screen)) - s.offset
  /\ page \subseteq 1..Len(screen) /\ kept \in SUBSET page
  /\ DOMAIN t.rows = DOMAIN s.rows \cup kept
  /\ \A i \in kept : t.rows[i] = screen[i]
  /\ \A i \in DOMAIN s.rows \ kept : t.rows[i] = s.rows[i]
  /\ t.exclusions = s.exclusions \cup Refused(p, screen, page \ kept)
  /\ t.fetched = s.fetched + Cardinality(page)
  /\ t.total = Len(screen) /\ t.offset = s.offset + width
  /\ t.error = IF s.offset > 0 /\ Len(screen) # s.total THEN "conflicting_totals" ELSE "none"
  /\ t.over <=> \/ s.offset > 0 /\ Len(screen) # s.total
                \/ Suffices(p, t.rows, sec) \/ kept = {}
                \/ t.offset >= Len(screen) \/ t.offset >= p.maxScreened

LEMMA PageRead ==
  ASSUME NEW p, PolicyTyped(p), PolicyAdmitted(p, 1), NEW sec, NEW screen \in Seq(RawRow),
         NEW s, s.offset \in Nat, s.offset < p.maxScreened
  PROVE  Turn(p, sec, screen, s, PageSize(p, s.offset), Page(p, screen, s.offset),
              Accepted(p, screen, Page(p, screen, s.offset)), ReadPage(p, sec, screen, s))
<1> DEFINE width == PageSize(p, s.offset)
           page == Page(p, screen, s.offset)
           kept == Accepted(p, screen, page)
           t    == ReadPage(p, sec, screen, s)
           rows == [i \in DOMAIN s.rows \cup kept |-> IF i \in kept THEN screen[i] ELSE s.rows[i]]
<1>0. p.pageSize \in Nat \ {0} /\ p.maxScreened \in Nat \ {0} /\ Len(screen) \in Nat
  BY Admitted
<1>1. width \in Nat \ {0} /\ s.offset + width <= p.maxScreened
  BY <1>0 DEF PageSize, Smaller
<1>2. page = (s.offset + 1)..Smaller(s.offset + width, Len(screen))
  BY DEF Page
<1> HIDE DEF width
<1>3. Smaller(s.offset + width, Len(screen)) \in Nat /\ Smaller(s.offset + width, Len(screen)) <= Len(screen)
  BY <1>0, <1>1 DEF Smaller
<1>4. /\ IsFiniteSet(page)
      /\ Cardinality(page) = IF s.offset + 1 > Smaller(s.offset + width, Len(screen)) THEN 0
                             ELSE Smaller(s.offset + width, Len(screen)) - (s.offset + 1) + 1
  <2> DEFINE low  == s.offset + 1
             high == Smaller(s.offset + width, Len(screen))
  <2>1. low \in Int /\ high \in Int
    BY <1>3
  <2>2. page = low..high
    BY <1>2
  <2> HIDE DEF low, high
  <2>3. IsFiniteSet(page) /\ Cardinality(page) = IF low > high THEN 0 ELSE high - low + 1
    BY <2>1, <2>2, FS_Interval
  <2> QED
    BY <2>3 DEF low, high
<1>5. /\ Cardinality(page) \in Nat
      /\ s.offset <= Len(screen) => Cardinality(page) = Smaller(s.offset + width, Len(screen)) - s.offset
  <2>1. s.offset <= Len(screen) => s.offset <= Smaller(s.offset + width, Len(screen))
    BY <1>0, <1>1 DEF Smaller
  <2> QED
    BY <1>3, <1>4, <2>1
<1>6. page \subseteq 1..Len(screen)
  BY <1>0, <1>2, <1>3
<1>7. kept \in SUBSET page
  BY DEF Accepted
<1> HIDE DEF page, kept
<1>8. t = [rows       |-> rows,
           exclusions |-> s.exclusions \cup Refused(p, screen, page \ kept),
           fetched    |-> s.fetched + Cardinality(page),
           total      |-> Len(screen),
           offset     |-> s.offset + width,
           error      |-> IF s.offset > 0 /\ Len(screen) # s.total THEN "conflicting_totals" ELSE "none",
           over       |-> \/ s.offset > 0 /\ Len(screen) # s.total
                          \/ Suffices(p, rows, sec) \/ kept = {}
                          \/ s.offset + width >= Len(screen) \/ s.offset + width >= p.maxScreened]
  BY DEF ReadPage, Refused, page, kept, width
<1>9. /\ DOMAIN rows = DOMAIN s.rows \cup kept
      /\ \A i \in kept : rows[i] = screen[i]
      /\ \A i \in DOMAIN s.rows \ kept : rows[i] = s.rows[i]
  OBVIOUS
<1> HIDE DEF rows, t
<1>10. /\ t.rows = rows /\ t.exclusions = s.exclusions \cup Refused(p, screen, page \ kept)
       /\ t.fetched = s.fetched + Cardinality(page) /\ t.total = Len(screen) /\ t.offset = s.offset + width
       /\ t.error = IF s.offset > 0 /\ Len(screen) # s.total THEN "conflicting_totals" ELSE "none"
  BY <1>8
<1>11. t.over <=> \/ s.offset > 0 /\ Len(screen) # s.total
                  \/ Suffices(p, rows, sec) \/ kept = {}
                  \/ s.offset + width >= Len(screen) \/ s.offset + width >= p.maxScreened
  BY <1>8
<1> HIDE DEF width
<1>12. Turn(p, sec, screen, s, width, page, kept, t)
  BY <1>1, <1>2, <1>4, <1>5, <1>6, <1>7, <1>9, <1>10, <1>11 DEF Turn
<1> QED
  BY <1>12 DEF width, page, kept, t

LEMMA PageKeeps ==
  ASSUME NEW p, PolicyTyped(p), PolicyAdmitted(p, 1), NEW sec, NEW screen \in Seq(RawRow),
         NEW k \in Nat \ {0}, NEW s, ReadInv(p, k - 1, s), ~s.over
  PROVE  ReadInv(p, k, ReadPage(p, sec, screen, s))
<1> DEFINE width == PageSize(p, s.offset)
           page == Page(p, screen, s.offset)
           kept == Accepted(p, screen, page)
           t    == ReadPage(p, sec, screen, s)
           high == Smaller(s.offset + width, Len(screen))
           new  == Refused(p, screen, page \ kept)
<1>1. /\ s.offset \in Nat /\ s.offset < p.maxScreened /\ s.fetched \in Nat /\ s.total \in Nat
      /\ k - 1 <= s.offset /\ s.error = "none" /\ s.fetched = Smaller(s.offset, s.total)
      /\ IF k - 1 = 0 THEN s.offset = 0 ELSE s.offset < s.total
      /\ RowsSound(s.rows) /\ DOMAIN s.rows \subseteq 1..s.offset
      /\ IsFiniteSet(s.exclusions)
      /\ \A e \in s.exclusions : e.row \in 1..s.offset /\ e.reason \in PageReasons
      /\ Cardinality(s.exclusions) + Cardinality(DOMAIN s.rows) = s.fetched
  BY DEF ReadInv
<1>2. Turn(p, sec, screen, s, width, page, kept, t)
  BY <1>1, PageRead
<1>3. p.maxScreened \in Nat /\ Len(screen) \in Nat
  BY Admitted
<1>4. high \in Nat /\ high <= s.offset + width /\ high <= Len(screen)
  BY <1>1, <1>2, <1>3 DEF Turn, Smaller
<1>5. \A e \in new : e.row \in page \ kept /\ e.reason \in PageReasons
  <2> SUFFICES ASSUME NEW i \in page \ kept
               PROVE  RowReason(p, screen[i]) \in PageReasons
    BY DEF Refused, Excluded
  <2>1. RowReason(p, screen[i]) # "none"
    BY DEF Accepted
  <2> QED
    BY <2>1, Reasons
<1>6. /\ IsFiniteSet(kept) /\ IsFiniteSet(page \ kept)
      /\ Cardinality(page \ kept) = Cardinality(page) - Cardinality(kept) /\ Cardinality(kept) \in Nat
  <2>1. kept \in SUBSET page /\ IsFiniteSet(page)
    BY <1>2 DEF Turn
  <2> HIDE DEF page, kept
  <2> QED
    BY <2>1, PartSize
<1>7. IsFiniteSet(new) /\ Cardinality(new) = Cardinality(page \ kept)
  BY <1>6, RefusedSize
<1> HIDE DEF width, page, kept, t, high, new
<1>8. /\ IsFiniteSet(t.exclusions)
      /\ Cardinality(t.exclusions) = Cardinality(s.exclusions) + Cardinality(new)
      /\ Cardinality(s.exclusions) \in Nat
  <2>1. \A e \in s.exclusions : e \notin new
    <3>1. \A i \in page : i > s.offset
      BY <1>1, <1>2, <1>4 DEF Turn
    <3>2. \A e \in s.exclusions : ~(e.row > s.offset)
      BY <1>1
    <3> QED
      BY <1>5, <3>1, <3>2
  <2>2. /\ IsFiniteSet(s.exclusions \cup new)
        /\ Cardinality(s.exclusions \cup new) = Cardinality(s.exclusions) + Cardinality(new)
        /\ Cardinality(s.exclusions) \in Nat
    BY <1>1, <1>7, <2>1, Disjoint
  <2>3. t.exclusions = s.exclusions \cup new
    BY <1>2 DEF Turn, new
  <2> QED
    BY <2>2, <2>3
<1>9. /\ IsFiniteSet(DOMAIN t.rows)
      /\ Cardinality(DOMAIN t.rows) = Cardinality(DOMAIN s.rows) + Cardinality(kept)
      /\ Cardinality(DOMAIN s.rows) \in Nat
  <2>1. \A i \in DOMAIN s.rows : i \notin kept
    BY <1>1, <1>2, <1>4 DEF Turn
  <2>2. IsFiniteSet(DOMAIN s.rows)
    BY <1>1 DEF RowsSound
  <2>3. /\ IsFiniteSet(DOMAIN s.rows \cup kept)
        /\ Cardinality(DOMAIN s.rows \cup kept) = Cardinality(DOMAIN s.rows) + Cardinality(kept)
        /\ Cardinality(DOMAIN s.rows) \in Nat
    BY <1>6, <2>1, <2>2, Disjoint
  <2>4. DOMAIN t.rows = DOMAIN s.rows \cup kept
    BY <1>2 DEF Turn
  <2> QED
    BY <2>3, <2>4
<1>10. page \subseteq 1..t.offset /\ 1..s.offset \subseteq 1..t.offset /\ 1..t.offset \subseteq Nat
  <2>1. page = (s.offset + 1)..high /\ t.offset = s.offset + width /\ width \in Nat
    BY <1>2 DEF Turn, high
  <2> QED
    BY <1>1, <1>4, <2>1
<1>11. DOMAIN t.rows \subseteq 1..t.offset
  BY <1>1, <1>2, <1>10 DEF Turn
<1>12. RowsSound(t.rows)
  <2>1. DOMAIN t.rows \subseteq Nat
    BY <1>10, <1>11
  <2>2. ASSUME NEW i \in DOMAIN t.rows PROVE t.rows[i].ticker \in Nat /\ t.rows[i].cap \in Int
    <3>1. CASE i \in kept
      <4>1. screen[i] \in RawRow /\ t.rows[i] = screen[i]
        BY <1>2, <3>1 DEF Turn
      <4> QED
        BY <4>1 DEF RawRow
    <3>2. CASE i \notin kept
      <4>1. i \in DOMAIN s.rows /\ t.rows[i] = s.rows[i]
        BY <1>2, <3>2 DEF Turn
      <4> QED
        BY <1>1, <4>1 DEF RowsSound
    <3> QED
      BY <3>1, <3>2
  <2> QED
    BY <1>9, <2>1, <2>2 DEF RowsSound
<1>13. \A e \in t.exclusions : e.row \in 1..t.offset /\ e.reason \in PageReasons
  <2>1. t.exclusions = s.exclusions \cup new
    BY <1>2 DEF Turn, new
  <2> QED
    BY <1>1, <1>5, <1>10, <2>1
<1>14. t.offset \in Nat /\ t.fetched \in Nat /\ t.total \in Nat
  BY <1>1, <1>2, <1>3 DEF Turn
<1>15. Cardinality(t.exclusions) + Cardinality(DOMAIN t.rows) = t.fetched
  BY <1>1, <1>2, <1>6, <1>7, <1>8, <1>9 DEF Turn
<1>16. t.error \in {"none", "conflicting_totals"}
  BY <1>2 DEF Turn
<1>17. ASSUME t.error = "none" PROVE t.fetched = Smaller(t.offset, t.total)
  <2>1. s.offset = 0 \/ Len(screen) = s.total
    BY <1>1, <1>2, <1>17 DEF Turn
  <2>2. s.offset <= Len(screen)
    BY <1>1, <1>3, <2>1
  <2>3. s.fetched = s.offset
    BY <1>1 DEF Smaller
  <2> QED
    BY <1>1, <1>2, <1>4, <2>2, <2>3 DEF Turn, high
<1>18. ASSUME ~t.over
       PROVE  /\ t.error = "none" /\ t.offset < p.maxScreened /\ k <= t.offset
              /\ IF k = 0 THEN t.offset = 0 ELSE t.offset < t.total
  <2>1. /\ t.error = "none" /\ t.total = Len(screen) /\ ~(t.offset >= t.total)
        /\ ~(t.offset >= p.maxScreened)
    BY <1>2, <1>18 DEF Turn
  <2>2. t.offset = s.offset + width /\ width \in Nat \ {0}
    BY <1>2 DEF Turn
  <2>3. k <= t.offset
    BY <1>1, <2>2
  <2> QED
    BY <1>3, <1>14, <2>1, <2>3
<1>19. ReadInv(p, k, t)
  BY <1>8, <1>9, <1>11, <1>12, <1>13, <1>14, <1>15, <1>16, <1>17, <1>18 DEF ReadInv
<1> QED
  BY <1>19 DEF t

\* Over a screen that does not change, what was read is its first rows, and the loop
\* ends only with enough of them or with all.
SteadyInv(p, sec, screen, k, s) ==
  /\ s.rows = Kept(p, screen, Smaller(s.offset, Len(screen)))
  /\ s.offset <= p.maxScreened /\ (k > 0 => s.total = Len(screen))
  /\ ~s.over => s.offset = k * p.pageSize
  /\ s.over => Suffices(p, s.rows, sec) \/ s.offset >= Smaller(p.maxScreened, Len(screen))

LEMMA PageExtends ==
  ASSUME NEW p, PolicyTyped(p), PolicyAdmitted(p, 1), NEW sec, NEW screen \in Seq(RawRow),
         EveryPageHolds(p, screen, Smaller(p.maxScreened, Len(screen))),
         NEW k \in Nat \ {0}, NEW s, ReadInv(p, k - 1, s), SteadyInv(p, sec, screen, k - 1, s), ~s.over
  PROVE  SteadyInv(p, sec, screen, k, ReadPage(p, sec, screen, s))
<1> DEFINE width == PageSize(p, s.offset)
           page == Page(p, screen, s.offset)
           kept == Accepted(p, screen, page)
           t    == ReadPage(p, sec, screen, s)
           high == Smaller(s.offset + width, Len(screen))
           all  == Smaller(p.maxScreened, Len(screen))
<1>0. p.pageSize \in Nat \ {0} /\ p.maxScreened \in Nat \ {0} /\ Len(screen) \in Nat
  BY Admitted
<1>1. /\ s.offset \in Nat /\ s.offset < p.maxScreened /\ k - 1 <= s.offset
      /\ IF k - 1 = 0 THEN s.offset = 0 ELSE s.offset < s.total
  BY DEF ReadInv
<1>2. /\ s.rows = Kept(p, screen, Smaller(s.offset, Len(screen)))
      /\ k - 1 > 0 => s.total = Len(screen)
      /\ s.offset = (k - 1) * p.pageSize
  BY DEF SteadyInv
<1>3. Turn(p, sec, screen, s, width, page, kept, t)
  BY <1>1, PageRead
<1>4. width = Smaller(p.pageSize, p.maxScreened - s.offset)
  BY DEF PageSize
<1>5. s.offset <= Len(screen) /\ ~(s.offset > 0 /\ Len(screen) # s.total)
  BY <1>0, <1>1, <1>2
<1>6. Smaller(s.offset, Len(screen)) = s.offset /\ high \in Nat /\ s.offset <= high /\ high <= Len(screen)
  BY <1>0, <1>1, <1>3, <1>5 DEF Turn, Smaller
<1>7. t.rows = Kept(p, screen, high)
  <2> DEFINE K == Kept(p, screen, high)
  <2>1. Accepted(p, screen, 1..high) = Accepted(p, screen, 1..s.offset) \cup kept
    <3>1. 1..high = (1..s.offset) \cup page
      BY <1>1, <1>3, <1>6 DEF Turn
    <3> QED
      BY <3>1 DEF Accepted
  <2>2. DOMAIN s.rows = Accepted(p, screen, 1..s.offset) /\ \A i \in DOMAIN s.rows : s.rows[i] = screen[i]
    BY <1>2, <1>6 DEF Kept
  <2>3. DOMAIN K = DOMAIN t.rows /\ \A i \in DOMAIN K : K[i] = screen[i]
    BY <1>3, <2>1, <2>2 DEF Turn, Kept
  <2>4. \A i \in DOMAIN t.rows : t.rows[i] = screen[i]
    BY <1>3, <2>2 DEF Turn
  <2>5. t.rows = [i \in DOMAIN t.rows |-> t.rows[i]] /\ K = [i \in DOMAIN K |-> K[i]]
    BY DEF ReadPage, Kept
  <2> HIDE DEF K, t
  <2> QED
    BY <2>3, <2>4, <2>5 DEF K
<1>8. ASSUME ~t.over PROVE t.offset = k * p.pageSize
  <2>1. width = p.pageSize
    BY <1>0, <1>1, <1>3, <1>4, <1>8 DEF Turn, Smaller
  <2>2. (k - 1) * p.pageSize + p.pageSize = k * p.pageSize
    BY <1>0
  <2> QED
    BY <1>2, <1>3, <2>1, <2>2 DEF Turn
<1>9. ASSUME t.over PROVE Suffices(p, t.rows, sec) \/ t.offset >= all
  <2>1. CASE kept = {}
    <3> SUFFICES ASSUME ~(t.offset >= all) PROVE FALSE
      OBVIOUS
    <3>1. all \in Nat /\ s.offset < all /\ s.offset + width < all
      BY <1>0, <1>1, <1>3 DEF Turn, Smaller
    <3>2. width = p.pageSize
      BY <1>0, <1>1, <1>4, <3>1 DEF Smaller
    <3>3. (k - 1) * p.pageSize < all /\ k - 1 \in 0..all
      BY <1>1, <1>2, <3>1
    <3>4. Accepted(p, screen, ((k - 1) * p.pageSize + 1)..Smaller(((k - 1) + 1) * p.pageSize, all)) # {}
      BY <3>3 DEF EveryPageHolds
    <3>5. ((k - 1) + 1) * p.pageSize = s.offset + width
      BY <1>0, <1>2, <3>2
    <3>6. Smaller(s.offset + width, all) = high
      BY <1>0, <1>1, <1>3, <3>1 DEF Turn, Smaller
    <3> QED
      BY <1>2, <1>3, <2>1, <3>4, <3>5, <3>6 DEF Turn
  <2>2. CASE t.offset >= Len(screen) \/ t.offset >= p.maxScreened
    BY <1>0, <1>1, <1>3, <2>2 DEF Turn, Smaller
  <2> QED
    BY <1>3, <1>5, <1>9, <2>1, <2>2 DEF Turn
<1>10. t.offset <= p.maxScreened /\ t.total = Len(screen) /\ Smaller(t.offset, Len(screen)) = high
  BY <1>3 DEF Turn
<1> HIDE DEF t, all, high
<1>11. SteadyInv(p, sec, screen, k, t)
  BY <1>7, <1>8, <1>9, <1>10 DEF SteadyInv, all
<1> QED
  BY <1>11 DEF t

LEMMA ReadSound ==
  ASSUME NEW p, PolicyTyped(p), PolicyAdmitted(p, 1), NEW sec, NEW screens \in Seq(Seq(RawRow))
  PROVE  \A k \in 0..Len(screens) : ReadInv(p, k, Reading(p, sec, screens)[k])
<1> DEFINE g == Reading(p, sec, screens)
           N == Len(screens)
           S == {k \in 0..N : ReadInv(p, k, g[k])}
<1>0. N \in Nat
  OBVIOUS
<1>1. /\ g[0] = Unread
      /\ \A k \in 1..N : g[k] = IF g[k - 1].over THEN g[k - 1] ELSE ReadPage(p, sec, screens[k], g[k - 1])
  BY ReadingAt
<1> HIDE DEF g
<1>2. 0 \in S
  BY <1>0, <1>1, UnreadSound
<1>3. ASSUME NEW k \in 1..N, k - 1 \in S PROVE k \in S
  <2>1. screens[k] \in Seq(RawRow) /\ k \in Nat \ {0} /\ ReadInv(p, k - 1, g[k - 1]) /\ k \in 0..N
    BY <1>3
  <2>2. CASE g[k - 1].over
    <3>1. ReadInv(p, k, g[k - 1])
      BY <2>1, <2>2 DEF ReadInv
    <3> QED
      BY <1>1, <2>1, <2>2, <3>1
  <2>3. CASE ~g[k - 1].over
    <3>1. ReadInv(p, k, ReadPage(p, sec, screens[k], g[k - 1]))
      BY <2>1, <2>3, PageKeeps
    <3> QED
      BY <1>1, <2>1, <2>3, <3>1
  <2> QED
    BY <2>2, <2>3
<1> HIDE DEF S, N
<1>4. \A k \in 0..N : k \in S
  BY <1>0, <1>2, <1>3, UpTo
<1> QED
  BY <1>4 DEF S, g, N

LEMMA ReadSteady ==
  ASSUME NEW p, PolicyTyped(p), PolicyAdmitted(p, 1), NEW sec,
         NEW screens \in Seq(Seq(RawRow)), screens # <<>>, Steady(screens),
         EveryPageHolds(p, screens[1], Smaller(p.maxScreened, Len(screens[1])))
  PROVE  \A k \in 0..Len(screens) : SteadyInv(p, sec, screens[1], k, Reading(p, sec, screens)[k])
<1> DEFINE g == Reading(p, sec, screens)
           N == Len(screens)
           screen == screens[1]
           S == {k \in 0..N : SteadyInv(p, sec, screen, k, g[k])}
<1>0. N \in Nat \ {0} /\ screen \in Seq(RawRow) /\ Len(screen) \in Nat
  OBVIOUS
<1>1. /\ g[0] = Unread
      /\ \A k \in 1..N : g[k] = IF g[k - 1].over THEN g[k - 1] ELSE ReadPage(p, sec, screens[k], g[k - 1])
  BY ReadingAt
<1>2. \A k \in 0..N : ReadInv(p, k, g[k])
  BY ReadSound
<1>3. \A k \in 1..N : screens[k] = screen
  BY DEF Steady
<1> HIDE DEF g, screen
<1>4. SteadyInv(p, sec, screen, 0, Unread)
  <2>1. Unread.offset = 0 /\ ~Unread.over
    BY DEF Unread
  <2>2. Smaller(0, Len(screen)) = 0
    BY <1>0 DEF Smaller
  <2>3. Accepted(p, screen, 1..0) = {}
    BY DEF Accepted
  <2>4. Unread.rows = Kept(p, screen, 0)
    <3>1. Kept(p, screen, 0) = [i \in {} |-> screen[i]]
      BY <2>3 DEF Kept
    <3>2. Unread.rows = <<>>
      BY DEF Unread
    <3>3. [i \in {} |-> screen[i]] = <<>>
      OBVIOUS
    <3> QED
      BY <3>1, <3>2, <3>3
  <2>5. p.maxScreened \in Nat /\ 0 = 0 * p.pageSize
    BY Admitted
  <2> QED
    BY <2>1, <2>2, <2>4, <2>5 DEF SteadyInv
<1>5. 0 \in S
  BY <1>0, <1>1, <1>4
<1>6. ASSUME NEW k \in 1..N, k - 1 \in S PROVE k \in S
  <2>1. /\ screens[k] = screen /\ k \in Nat \ {0} /\ ReadInv(p, k - 1, g[k - 1]) /\ k \in 0..N
        /\ SteadyInv(p, sec, screen, k - 1, g[k - 1])
    BY <1>0, <1>2, <1>3, <1>6
  <2>2. CASE g[k - 1].over
    <3>1. k - 1 > 0
      BY <1>1, <2>1, <2>2 DEF Unread
    <3>2. SteadyInv(p, sec, screen, k, g[k - 1])
      BY <2>1, <2>2, <3>1 DEF SteadyInv
    <3> QED
      BY <1>1, <2>1, <2>2, <3>2
  <2>3. CASE ~g[k - 1].over
    <3>1. EveryPageHolds(p, screen, Smaller(p.maxScreened, Len(screen)))
      BY DEF screen
    <3>2. SteadyInv(p, sec, screen, k, ReadPage(p, sec, screen, g[k - 1]))
      BY <1>0, <2>1, <2>3, <3>1, PageExtends
    <3> QED
      BY <1>1, <2>1, <2>3, <3>2
  <2> QED
    BY <2>2, <2>3
<1> HIDE DEF S, N
<1>7. \A k \in 0..N : k \in S
  BY <1>0, <1>5, <1>6, UpTo
<1> QED
  BY <1>7 DEF S, g, N, screen

--------------------------------------------------------------------------------
(* The cohort of what was read.                                           *)

\* The places cut off below the target.
CutOff(o, width, N) == {Excluded(o[n], "below_target_cutoff") : n \in (width + 1)..N}

LEMMA CutSize ==
  ASSUME NEW N \in Nat, NEW width \in 0..N, NEW o, \A m, n \in 1..N : o[m] = o[n] => m = n
  PROVE  /\ IsFiniteSet(CutOff(o, width, N)) /\ Cardinality(CutOff(o, width, N)) = N - width
         /\ \A e \in CutOff(o, width, N) : e.reason = "below_target_cutoff"
<1> DEFINE I == (width + 1)..N
           cut == {Excluded(o[n], "below_target_cutoff") : n \in I}
           f == [n \in I |-> Excluded(o[n], "below_target_cutoff")]
<1>1. IsFiniteSet(I) /\ Cardinality(I) = N - width
  <2>1. width + 1 \in Int /\ N \in Int
    OBVIOUS
  <2>2. /\ IsFiniteSet((width + 1)..N)
        /\ Cardinality((width + 1)..N) = IF width + 1 > N THEN 0 ELSE N - (width + 1) + 1
    BY <2>1, FS_Interval
  <2> QED
    BY <2>2
<1>2. f \in [I -> cut]
  OBVIOUS
<1>3. ASSUME NEW m \in I, NEW n \in I, f[m] = f[n] PROVE m = n
  <2>1. o[m] = o[n] /\ m \in 1..N /\ n \in 1..N
    BY <1>3 DEF Excluded
  <2> QED
    BY <2>1
<1>4. \A e \in cut : \E n \in I : f[n] = e
  OBVIOUS
<1>5. \A e \in cut : e.reason = "below_target_cutoff"
  BY DEF Excluded
<1> HIDE DEF I, cut, f
<1>6. f \in Bijection(I, cut)
  BY <1>2, <1>3, <1>4, Zenon DEF Bijection, Injection, Surjection, IsInjective
<1>7. IsFiniteSet(cut) /\ Cardinality(cut) = N - width
  BY <1>1, <1>6, FS_Bijection DEF ExistsBijection
<1> QED
  BY <1>5, <1>7 DEF cut, I, CutOff

LEMMA CohortAccounted ==
  ASSUME NEW p, PolicyTyped(p), PolicyAdmitted(p, 1), NEW sec, NEW k, NEW s,
         ReadInv(p, k, s), s.error = "none"
  PROVE  Accounted(sec, Manifest(p, sec, s))
<1> DEFINE rows == s.rows
           E    == Eligible(rows, sec)
           N    == Cardinality(E)
           o    == BySize(rows, E)
           width == Smaller(p.target, N)
           join == JoinExclusions(rows, sec)
           cut  == CutOff(o, width, N)
           d    == Manifest(p, sec, s)
<1>1. /\ RowsSound(rows) /\ IsFiniteSet(s.exclusions) /\ s.fetched <= s.total
      /\ \A e \in s.exclusions : e.reason \in PageReasons
      /\ Cardinality(s.exclusions) + Cardinality(DOMAIN rows) = s.fetched
      /\ s.fetched \in Nat /\ s.total \in Nat
  BY DEF ReadInv, Smaller
<1>2. p.target \in Nat
  BY Admitted
<1> HIDE DEF rows
<1>3. /\ E \in SUBSET BestByTicker(rows) /\ N \in Nat /\ IsFiniteSet(join) /\ Cardinality(join) \in Nat
      /\ Cardinality(join) + N = Cardinality(DOMAIN rows)
      /\ \A e \in join : e.reason \in JoinReasons
  BY <1>1, JoinCounted
<1>4. /\ E \in SUBSET DOMAIN rows
      /\ \A i, j \in E : rows[i].ticker = rows[j].ticker => i = j
      /\ \A i, j \in E : Cik(rows, sec, i) = Cik(rows, sec, j) => i = j
  BY <1>1, EligibleSingle
<1> HIDE DEF E, join
<1>5. o \in [1..N -> E] /\ Len(o) = N /\ \A m, n \in 1..N : o[m] = o[n] => m = n
  BY <1>1, <1>4, ListedBySize
<1> HIDE DEF N, o
<1>6. width \in 0..N /\ width <= p.target
  BY <1>2, <1>3 DEF Smaller
<1> HIDE DEF width
<1>7. IsFiniteSet(cut) /\ Cardinality(cut) = N - width /\ \A e \in cut : e.reason = "below_target_cutoff"
  <2>1. N \in Nat /\ width \in 0..N /\ \A m, n \in 1..N : o[m] = o[n] => m = n
    BY <1>3, <1>5, <1>6
  <2> QED
    BY <2>1, CutSize
<1> HIDE DEF cut
<1>8. d = [error      |-> IF s.error = "none" /\ width < p.minimum THEN "insufficient" ELSE s.error,
           members    |-> [n \in 1..width |-> rows[o[n]]],
           exclusions |-> (s.exclusions \cup join) \cup cut,
           unique     |-> Cardinality(Tickers(rows)),
           fetched    |-> s.fetched, total |-> s.total]
  <2>1. Len(o) = N
    BY <1>5
  <2> QED
    BY <2>1 DEF Manifest, Tickers, CutOff, rows, E, join, cut, o, width
<1> HIDE DEF d
<1>9. /\ d.members = [n \in 1..width |-> rows[o[n]]] /\ d.exclusions = (s.exclusions \cup join) \cup cut
      /\ d.unique = Cardinality(Tickers(rows)) /\ d.fetched = s.fetched /\ d.total = s.total
  BY <1>8
<1>10. DOMAIN d.members = 1..width /\ Len(d.members) = width /\ \A n \in 1..width : d.members[n] = rows[o[n]]
  BY <1>6, <1>9
<1>11. Cardinality((s.exclusions \cup join) \cup cut) = Cardinality(s.exclusions) + Cardinality(join) + (N - width)
  <2>1. \A e \in s.exclusions : e \notin join
    BY <1>1, <1>3 DEF PageReasons, JoinReasons
  <2>2. /\ IsFiniteSet(s.exclusions \cup join)
        /\ Cardinality(s.exclusions \cup join) = Cardinality(s.exclusions) + Cardinality(join)
    BY <1>1, <1>3, <2>1, Disjoint
  <2>3. \A e \in s.exclusions \cup join : e \notin cut
    BY <1>1, <1>3, <1>7 DEF PageReasons, JoinReasons
  <2>4. Cardinality((s.exclusions \cup join) \cup cut) = Cardinality(s.exclusions \cup join) + Cardinality(cut)
    BY <1>7, <2>2, <2>3, Disjoint
  <2> QED
    BY <1>7, <2>2, <2>4
<1>12. Cardinality(s.exclusions) \in Nat /\ Cardinality(DOMAIN rows) \in Nat
  BY <1>1, FS_CardinalityType DEF RowsSound
<1>13. d.fetched = Len(d.members) + Cardinality(d.exclusions)
  BY <1>1, <1>3, <1>6, <1>9, <1>10, <1>11, <1>12
<1>14. Len(d.members) <= d.unique /\ d.unique <= d.fetched /\ d.fetched <= d.total
  <2>1. /\ IsFiniteSet(BestByTicker(rows)) /\ Cardinality(BestByTicker(rows)) = Cardinality(Tickers(rows))
        /\ Cardinality(BestByTicker(rows)) \in Nat
    BY <1>1, BestCounted
  <2>2. N <= Cardinality(Tickers(rows))
    BY <1>3, <2>1, FS_Subset DEF N
  <2>3. /\ Cardinality(Repeated(rows)) = Cardinality(DOMAIN rows) - Cardinality(Tickers(rows))
        /\ Cardinality(Repeated(rows)) \in Nat
    BY <1>1, RepeatedCounted, FS_CardinalityType
  <2> QED
    BY <1>1, <1>3, <1>6, <1>9, <1>10, <1>12, <2>1, <2>2, <2>3
<1>15. ASSUME NEW m \in 1..width, NEW n \in 1..width,
              \/ d.members[m].ticker = d.members[n].ticker
              \/ sec[d.members[m].ticker].cik = sec[d.members[n].ticker].cik
       PROVE  m = n
  <2>1. m \in 1..N /\ n \in 1..N /\ o[m] \in E /\ o[n] \in E
    BY <1>3, <1>5, <1>6
  <2>2. d.members[m] = rows[o[m]] /\ d.members[n] = rows[o[n]]
    BY <1>10
  <2>3. o[m] = o[n]
    BY <1>4, <1>15, <2>1, <2>2 DEF Cik
  <2> QED
    BY <1>5, <2>1, <2>3
<1>16. IsInjective([n \in DOMAIN d.members |-> d.members[n].ticker])
  <2> DEFINE f == [n \in DOMAIN d.members |-> d.members[n].ticker]
  <2>1. DOMAIN f = 1..width /\ \A n \in 1..width : f[n] = d.members[n].ticker
    BY <1>10
  <2> HIDE DEF f
  <2>2. \A m, n \in DOMAIN f : f[m] = f[n] => m = n
    BY <1>15, <2>1
  <2>3. IsInjective(f)
    BY <2>2, Zenon DEF IsInjective
  <2> QED
    BY <2>3 DEF f
<1>17. IsInjective([n \in DOMAIN d.members |-> sec[d.members[n].ticker].cik])
  <2> DEFINE f == [n \in DOMAIN d.members |-> sec[d.members[n].ticker].cik]
  <2>1. DOMAIN f = 1..width /\ \A n \in 1..width : f[n] = sec[d.members[n].ticker].cik
    BY <1>10
  <2> HIDE DEF f
  <2>2. \A m, n \in DOMAIN f : f[m] = f[n] => m = n
    BY <1>15, <2>1
  <2>3. IsInjective(f)
    BY <2>2, Zenon DEF IsInjective
  <2> QED
    BY <2>3 DEF f
<1>18. Accounted(sec, d)
  BY <1>13, <1>14, <1>16, <1>17 DEF Accounted, ManifestAdmitted
<1> QED
  BY <1>18 DEF d

LEMMA CohortWhole ==
  ASSUME NEW p, PolicyTyped(p), PolicyAdmitted(p, 1), NEW sec, NEW screen \in Seq(RawRow),
         Descending(screen), NEW k \in Nat, NEW s, ReadInv(p, k, s), SteadyInv(p, sec, screen, k, s), s.over
  PROVE  Manifest(p, sec, s).members = WholeCohort(p, sec, screen)
<1> DEFINE M  == Smaller(p.maxScreened, Len(screen))
           m  == Smaller(s.offset, Len(screen))
           r  == Kept(p, screen, m)
           a  == Kept(p, screen, M)
           br == BySize(r, Eligible(r, sec))
           ba == BySize(a, Eligible(a, sec))
           found == [n \in 1..Smaller(p.target, Len(br)) |-> r[br[n]]]
           whole  == [n \in 1..Smaller(p.target, Len(ba)) |-> a[ba[n]]]
<1>0. p.maxScreened \in Nat /\ p.target \in Nat /\ Len(screen) \in Nat /\ s.offset \in Nat
  BY Admitted DEF ReadInv
<1>1. /\ s.rows = r /\ s.offset <= p.maxScreened
      /\ Suffices(p, s.rows, sec) \/ s.offset >= M
  BY DEF SteadyInv
<1>2. Manifest(p, sec, s).members = found
  BY <1>1 DEF Manifest
<1>3. WholeCohort(p, sec, screen) = whole
  BY DEF WholeCohort, Kept
<1>4. M \in 0..Len(screen) /\ m \in 0..M
  BY <1>0, <1>1 DEF Smaller
<1>5. CASE s.offset >= M
  <2>1. m = M
    BY <1>0, <1>1, <1>5 DEF Smaller
  <2> HIDE DEF m, M
  <2> QED
    BY <1>2, <1>3, <2>1
<1>6. CASE Suffices(p, s.rows, sec)
  <2>0. m \in 0..Len(screen)
    BY <1>0, <1>4
  <2> HIDE DEF m, M
  <2>1. Len(br) <= Len(ba) /\ \A n \in 1..Len(br) : br[n] = ba[n] /\ r[br[n]] = a[ba[n]]
    <3>1. Begins(p, sec, screen, m, M)
      BY <1>4, PrefixCohort, Zenon
    <3> QED
      BY <3>1 DEF Begins
  <2>2. Len(br) = Cardinality(Eligible(r, sec)) /\ Len(br) \in Nat
    <3>1. RowsSound(r)
      BY <2>0, KeptSound, Zenon
    <3> HIDE DEF r
    <3> QED
      BY <3>1, EligibleSingle, ListedBySize
  <2>3. Len(ba) \in Nat
    <3>1. RowsSound(a)
      BY <1>4, KeptSound, Zenon
    <3> HIDE DEF a
    <3> QED
      BY <3>1, EligibleSingle, ListedBySize
  <2>4. Len(br) >= p.target
    BY <1>1, <1>6, <2>2 DEF Suffices
  <2> HIDE DEF r, a, br, ba
  <2>5. Smaller(p.target, Len(br)) = p.target /\ Smaller(p.target, Len(ba)) = p.target
    BY <1>0, <2>1, <2>2, <2>3, <2>4 DEF Smaller
  <2>6. \A n \in 1..p.target : r[br[n]] = a[ba[n]]
    BY <1>0, <2>1, <2>2, <2>4
  <2>7. found = whole
    BY <2>5, <2>6
  <2> QED
    BY <1>2, <1>3, <2>7 DEF r, a, br, ba
<1> QED
  BY <1>1, <1>5, <1>6

LEMMA UniverseIsSound ==
  ASSUME NEW p, PolicyTyped(p), NEW sec,
         NEW screens \in Seq(Seq(RawRow)), screens # <<>>, Len(screens[1]) <= Len(screens)
  PROVE  UniverseSound(p, sec, screens)
<1> DEFINE N == Len(screens)
           s == Reading(p, sec, screens)[N]
           d == Manifest(p, sec, s)
<1> SUFFICES ASSUME PolicyAdmitted(p, 1), d.error # "conflicting_totals"
             PROVE  Accounted(sec, d) /\ NobodyLost(p, sec, screens, d)
  BY DEF UniverseSound, CohortSound, Discovered
<1>1. N \in Nat \ {0} /\ screens[1] \in Seq(RawRow) /\ Len(screens[1]) \in Nat
  OBVIOUS
<1>2. ReadInv(p, N, s)
  BY <1>1, ReadSound
<1>3. s.error = "none"
  <2>1. d.error = IF s.error = "none" /\ Smaller(p.target, Len(BySize(s.rows, Eligible(s.rows, sec)))) < p.minimum
                  THEN "insufficient" ELSE s.error
    BY DEF Manifest
  <2>2. s.error \in {"none", "conflicting_totals"}
    BY <1>2 DEF ReadInv
  <2> HIDE DEF s, d
  <2> QED
    BY <2>1, <2>2
<1>4. Accounted(sec, d)
  <2> HIDE DEF s
  <2> QED
    BY <1>2, <1>3, CohortAccounted
<1>5. ASSUME Steady(screens), Descending(screens[1]),
             EveryPageHolds(p, screens[1], Smaller(p.maxScreened, Len(screens[1])))
      PROVE  d.members = WholeCohort(p, sec, screens[1])
  <2>1. SteadyInv(p, sec, screens[1], N, s)
    BY <1>1, <1>5, ReadSteady
  <2> HIDE DEF s
  <2>2. s.over
    BY <1>1, <1>2, <2>1 DEF ReadInv, SteadyInv
  <2> QED
    BY <1>1, <1>2, <1>5, <2>1, <2>2, CohortWhole
<1> QED
  BY <1>4, <1>5 DEF NobodyLost

\* A policy, the SEC's identities and the screens as the pages see them, as they are
\* put to the discovery: rows and fields of the types the code reads, and screens
\* for every page there can be.
CohortsAsked == subject.kind = "cohort" =>
  /\ PolicyTyped(subject.input[1])
  /\ subject.input[3] \in Seq(Seq(RawRow)) /\ subject.input[3] # <<>>
  /\ Len(subject.input[3][1]) <= Len(subject.input[3])

\* universe.py, for every policy, every screen and every map of identities: each row
\* that was fetched is a member or has one exclusion, no two members are of a ticker or
\* of an issuer, the manifest passes its own validation, and over a sorted screen that
\* does not change the early stop loses nobody.
THEOREM SelectionsStaySound == CohortsAsked /\ Evaluating => []SelectionsSound
<1>1. CohortsAsked => SelectionsSound
  BY UniverseIsSound DEF CohortsAsked, SelectionsSound, Is
<1>2. CohortsAsked /\ [Evaluate]_<<subject, evaluated>> => CohortsAsked'
  BY DEF CohortsAsked, Evaluate
<1> QED
  BY <1>1, <1>2, PTL DEF Evaluating
================================================================================
