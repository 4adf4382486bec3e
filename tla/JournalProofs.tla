------------------------------- MODULE JournalProofs -------------------------------
(***************************************************************************)
(* Journal, for every bound on records and damages and every kind of       *)
(* runtime.  The inductive invariant JournalInv says what the file is:     *)
(* while nobody damaged it, the lines of the run (Undamaged); afterwards   *)
(* lines that each name by their number the record they were and differ    *)
(* from it in their kinds and fields (Numbered), or, once a number is      *)
(* another one, lines that are all in their places (InPlace).              *)
(*                                                                         *)
(* load_events and the reducer go through a file line by line, so what     *)
(* they return is a recursive function.  That the function exists, and     *)
(* what holds of every value of it, is shown by the least index at which   *)
(* it would fail.                                                          *)
(***************************************************************************)
EXTENDS Journal, FiniteSetTheorems, SequenceTheorems, WellFoundedInduction, TLAPS

--------------------------------------------------------------------------------
(* Induction on the length of a journal, through the least counterexample. *)

LEMMA LeastNat ==
  ASSUME NEW S \in SUBSET Nat, S # {}
  PROVE  \E n \in S : \A k \in S : n <= k
<1>1. \E n \in S : ~ \E k \in S : <<k, n>> \in OpToRel(<, Nat)
  BY WFMin, NatLessThanWellFounded, Zenon
<1> QED
  BY <1>1 DEF OpToRel

--------------------------------------------------------------------------------
(* Loading, line by line.                                                  *)

\* g is what is loaded before the first of the n lines and after each.
Loads(g, n, s) == g = [i \in 0..n |-> IF i = 0 THEN Unread ELSE LoadLine(g[i - 1], s[i])]

LEMMA LoadingExists ==
  ASSUME NEW s, NEW N \in Nat
  PROVE  \E g : Loads(g, N, s)
<1> DEFINE Bad == {n \in 0..N : ~ \E g : Loads(g, n, s)}
<1>1. ASSUME Bad # {} PROVE FALSE
  <2>1. PICK m \in Bad : \A k \in Bad : m <= k
    <3>1. Bad \in SUBSET Nat
      OBVIOUS
    <3> HIDE DEF Bad
    <3> QED
      BY <1>1, <3>1, LeastNat
  <2>2. CASE m = 0
    <3>1. Loads([i \in 0..0 |-> Unread], 0, s)
      BY DEF Loads
    <3> QED
      BY <2>1, <2>2, <3>1
  <2>3. CASE m > 0
    <3>1. PICK g : Loads(g, m - 1, s)
      BY <2>1, <2>3
    <3> DEFINE h == [i \in 0..m |-> IF i < m THEN g[i] ELSE LoadLine(g[m - 1], s[m])]
    <3>2. ASSUME NEW i \in 0..m
          PROVE  h[i] = IF i = 0 THEN Unread ELSE LoadLine(h[i - 1], s[i])
      BY <2>1, <2>3, <3>1 DEF Loads
    <3>3. Loads(h, m, s)
      BY <3>2 DEF Loads
    <3> QED
      BY <2>1, <3>3
  <2> QED
    BY <2>1, <2>2, <2>3
<1> QED
  BY <1>1

LEMMA LoadingUnfolds ==
  ASSUME NEW X, NEW s \in Seq(X)
  PROVE  Loads(Loading(s), Len(s), s)
<1>1. \E g : Loads(g, Len(s), s)
  BY LoadingExists
<1> QED
  BY <1>1 DEF Loads, Loading

LEMMA LoadingAt ==
  ASSUME NEW X, NEW s \in Seq(X)
  PROVE  /\ Loading(s)[0] = Unread
         /\ \A n \in 1..Len(s) : Loading(s)[n] = LoadLine(Loading(s)[n - 1], s[n])
<1>1. Loads(Loading(s), Len(s), s) /\ Len(s) \in Nat
  BY LoadingUnfolds
<1>2. Loading(s) = [i \in 0..Len(s) |-> IF i = 0 THEN Unread ELSE LoadLine(Loading(s)[i - 1], s[i])]
  BY <1>1, Zenon DEF Loads
<1> DEFINE L == Loading(s)
<1>3. L = [i \in 0..Len(s) |-> IF i = 0 THEN Unread ELSE LoadLine(L[i - 1], s[i])]
  BY <1>2
<1> HIDE DEF L
<1>4. L[0] = Unread /\ \A n \in 1..Len(s) : L[n] = LoadLine(L[n - 1], s[n])
  BY <1>1, <1>3
<1> QED
  BY <1>4 DEF L

\* What loading may have found.
PlansOf(R)  == {NoPlan} \cup {PlanIdentity(e) : e \in R}
LoadedOf(R) == [events : Seq(R), plan : PlansOf(R), valid : BOOLEAN]
LineOf(R)   == [whole : BOOLEAN, record : R]

\* K is what L becomes with one more line.
Extended(K, L, line) ==
  /\ K.valid <=> L.valid /\ line.whole /\ Verify(L.plan, line.record)
  /\ K.valid => /\ K.events = Append(L.events, line.record)
                /\ K.plan = IF Plans(line.record) THEN PlanIdentity(line.record) ELSE L.plan

LEMMA LoadLineDoes ==
  ASSUME NEW R, NEW line \in LineOf(R), NEW L \in LoadedOf(R)
  PROVE  LoadLine(L, line) \in LoadedOf(R) /\ Extended(LoadLine(L, line), L, line)
<1> USE DEF LoadedOf, LineOf, Extended
<1>1. CASE ~line.whole \/ ~Verify(L.plan, line.record)
  BY <1>1 DEF LoadLine
<1>2. CASE line.whole /\ Verify(L.plan, line.record)
  <2>1. PlanIdentity(line.record) \in PlansOf(R)
    BY DEF PlansOf
  <2>2. Append(L.events, line.record) \in Seq(R)
    OBVIOUS
  <2>3. CASE Plans(line.record)
    <3>1. LoadLine(L, line) = [L EXCEPT !.events = Append(L.events, line.record),
                                        !.plan = PlanIdentity(line.record)]
      BY <1>2, <2>3 DEF LoadLine
    <3> QED
      BY <1>2, <2>1, <2>2, <2>3, <3>1
  <2>4. CASE ~Plans(line.record)
    <3>1. LoadLine(L, line) = [L EXCEPT !.events = Append(L.events, line.record)]
      BY <1>2, <2>4 DEF LoadLine
    <3> QED
      BY <1>2, <2>2, <2>4, <3>1
  <2> QED
    BY <2>3, <2>4
<1> QED
  BY <1>1, <1>2

\* The plan is that of a record planned before, and there is none without one.
PlanFrom(plan, s, n) ==
  \/ plan = NoPlan /\ \A k \in 1..n : ~Plans(s[k].record)
  \/ \E k \in 1..n : Plans(s[k].record) /\ plan = PlanIdentity(s[k].record)

LoadedTo(s, n) ==
  LET L == Loading(s)
  IN  L[n].valid =>
        /\ L[n].events = [k \in 1..n |-> s[k].record]
        /\ \A k \in 1..n : L[k - 1].valid /\ s[k].whole /\ Verify(L[k - 1].plan, s[k].record)
        /\ PlanFrom(L[n].plan, s, n)

LEMMA LoadedAt ==
  ASSUME NEW R, NEW s \in Seq(LineOf(R)), NEW n \in 0..Len(s)
  PROVE  Loading(s)[n] \in LoadedOf(R) /\ LoadedTo(s, n)
<1> DEFINE L == Loading(s)
           Bad == {m \in 0..Len(s) : ~(L[m] \in LoadedOf(R) /\ LoadedTo(s, m))}
<1>0. Len(s) \in Nat /\ L[0] = Unread /\ \A m \in 1..Len(s) : L[m] = LoadLine(L[m - 1], s[m])
  BY LoadingAt
<1>1. ASSUME Bad # {} PROVE FALSE
  <2>1. PICK m \in Bad : \A k \in Bad : m <= k
    <3>1. Bad \in SUBSET Nat
      BY <1>0
    <3> HIDE DEF Bad
    <3> QED
      BY <1>1, <3>1, LeastNat
  <2> HIDE DEF L
  <2>2. CASE m = 0
    <3>1. Unread \in LoadedOf(R)
      BY DEF Unread, LoadedOf, PlansOf
    <3>2. Unread.events = [k \in 1..0 |-> s[k].record] /\ Unread.plan = NoPlan
      BY DEF Unread
    <3>3. LoadedTo(s, 0)
      BY <1>0, <3>2 DEF LoadedTo, L, PlanFrom
    <3> QED
      BY <1>0, <2>1, <2>2, <3>1, <3>3 DEF L
  <2>3. CASE m > 0
    <3>1. m \in 1..Len(s) /\ m - 1 \in 0..Len(s) /\ s[m] \in LineOf(R)
      BY <1>0, <2>1, <2>3
    <3>2. L[m - 1] \in LoadedOf(R) /\ LoadedTo(s, m - 1)
      BY <2>1, <3>1
    <3>3. L[m] = LoadLine(L[m - 1], s[m])
      BY <1>0, <3>1
    <3>4. L[m] \in LoadedOf(R)
      BY <3>1, <3>2, <3>3, LoadLineDoes
    <3>5. ASSUME L[m].valid
          PROVE  /\ L[m].events = [k \in 1..m |-> s[k].record]
                 /\ \A k \in 1..m : L[k - 1].valid /\ s[k].whole /\ Verify(L[k - 1].plan, s[k].record)
                 /\ PlanFrom(L[m].plan, s, m)
      <4>1. /\ L[m - 1].valid /\ s[m].whole /\ Verify(L[m - 1].plan, s[m].record)
            /\ L[m].events = Append(L[m - 1].events, s[m].record)
            /\ L[m].plan = IF Plans(s[m].record) THEN PlanIdentity(s[m].record) ELSE L[m - 1].plan
        <5>1. Extended(L[m], L[m - 1], s[m])
          BY <3>1, <3>2, <3>3, LoadLineDoes
        <5> QED
          BY <3>5, <5>1 DEF Extended
      <4>2. /\ L[m - 1].events = [k \in 1..(m - 1) |-> s[k].record]
            /\ \A k \in 1..(m - 1) : L[k - 1].valid /\ s[k].whole /\ Verify(L[k - 1].plan, s[k].record)
            /\ PlanFrom(L[m - 1].plan, s, m - 1)
        BY <3>2, <4>1 DEF LoadedTo, L
      <4>3. L[m].events = [k \in 1..m |-> s[k].record]
        <5>1. L[m - 1].events \in Seq(R) /\ L[m].events \in Seq(R) /\ s[m].record \in R
          BY <3>1, <3>2, <3>4 DEF LoadedOf, LineOf
        <5>2. Len(L[m - 1].events) = m - 1
          BY <4>2, <5>1, <3>1
        <5>3. Len(L[m].events) = m
          BY <4>1, <5>1, <5>2, <3>1
        <5>4. ASSUME NEW k \in 1..m PROVE L[m].events[k] = s[k].record
          BY <4>1, <4>2, <5>1, <5>2, <3>1
        <5>5. L[m].events = [k \in 1..m |-> L[m].events[k]]
          BY <5>1, <5>3
        <5> QED
          BY <5>4, <5>5
      <4>4. \A k \in 1..m : L[k - 1].valid /\ s[k].whole /\ Verify(L[k - 1].plan, s[k].record)
        BY <3>1, <4>1, <4>2
      <4>5. PlanFrom(L[m].plan, s, m)
        BY <3>1, <4>1, <4>2 DEF PlanFrom
      <4> QED
        BY <4>3, <4>4, <4>5
    <3>6. LoadedTo(s, m)
      BY <3>5 DEF LoadedTo, L
    <3> QED
      BY <2>1, <3>4, <3>6 DEF L
  <2> QED
    BY <1>0, <2>1, <2>2, <2>3
<1> QED
  BY <1>1

--------------------------------------------------------------------------------
(* Reducing, record by record.                                             *)

\* g is the state before the first of the n records and after each.
Reduces(g, n, run, s) == g = [i \in 0..n |-> IF i = 0 THEN Idle(run) ELSE Reduce(g[i - 1], s[i])]

LEMMA ReducingExists ==
  ASSUME NEW run, NEW s, NEW N \in Nat
  PROVE  \E g : Reduces(g, N, run, s)
<1> DEFINE Bad == {n \in 0..N : ~ \E g : Reduces(g, n, run, s)}
<1>1. ASSUME Bad # {} PROVE FALSE
  <2>1. PICK m \in Bad : \A k \in Bad : m <= k
    <3>1. Bad \in SUBSET Nat
      OBVIOUS
    <3> HIDE DEF Bad
    <3> QED
      BY <1>1, <3>1, LeastNat
  <2>2. CASE m = 0
    <3>1. Reduces([i \in 0..0 |-> Idle(run)], 0, run, s)
      BY DEF Reduces
    <3> QED
      BY <2>1, <2>2, <3>1
  <2>3. CASE m > 0
    <3>1. PICK g : Reduces(g, m - 1, run, s)
      BY <2>1, <2>3
    <3> DEFINE h == [i \in 0..m |-> IF i < m THEN g[i] ELSE Reduce(g[m - 1], s[m])]
    <3>2. ASSUME NEW i \in 0..m
          PROVE  h[i] = IF i = 0 THEN Idle(run) ELSE Reduce(h[i - 1], s[i])
      BY <2>1, <2>3, <3>1 DEF Reduces
    <3>3. Reduces(h, m, run, s)
      BY <3>2 DEF Reduces
    <3> QED
      BY <2>1, <3>3
  <2> QED
    BY <2>1, <2>2, <2>3
<1> QED
  BY <1>1

LEMMA ReducingAt ==
  ASSUME NEW X, NEW s \in Seq(X), NEW run
  PROVE  /\ Reducing(run, s)[0] = Idle(run)
         /\ \A n \in 1..Len(s) : Reducing(run, s)[n] = Reduce(Reducing(run, s)[n - 1], s[n])
<1>0. Len(s) \in Nat
  OBVIOUS
<1>1. \E g : Reduces(g, Len(s), run, s)
  BY <1>0, ReducingExists
<1>2. Reduces(Reducing(run, s), Len(s), run, s)
  BY <1>1 DEF Reduces, Reducing
<1> DEFINE L == Reducing(run, s)
<1>3. L = [i \in 0..Len(s) |-> IF i = 0 THEN Idle(run) ELSE Reduce(L[i - 1], s[i])]
  BY <1>2, Zenon DEF Reduces
<1> HIDE DEF L
<1>4. L[0] = Idle(run) /\ \A n \in 1..Len(s) : L[n] = Reduce(L[n - 1], s[n])
  BY <1>0, <1>3
<1> QED
  BY <1>4 DEF L

LEMMA ReduceNone ==
  ASSUME NEW run
  PROVE  ReduceAll(run, <<>>) = Idle(run)
<1>1. <<>> \in Seq({}) /\ Len(<<>>) = 0
  OBVIOUS
<1> QED
  BY <1>1, ReducingAt DEF ReduceAll

\* One record more is one step more.
LEMMA ReduceOneMore ==
  ASSUME NEW X, NEW s \in Seq(X), NEW e \in X, NEW run
  PROVE  ReduceAll(run, Append(s, e)) = Reduce(ReduceAll(run, s), e)
<1> DEFINE t == Append(s, e)
           S == Reducing(run, s)
           T == Reducing(run, t)
           Bad == {m \in 0..Len(s) : T[m] # S[m]}
<1>0. /\ t \in Seq(X) /\ Len(t) = Len(s) + 1 /\ Len(s) \in Nat
      /\ t[Len(s) + 1] = e /\ \A k \in 1..Len(s) : t[k] = s[k]
  OBVIOUS
<1>1. S[0] = Idle(run) /\ \A n \in 1..Len(s) : S[n] = Reduce(S[n - 1], s[n])
  BY ReducingAt
<1>2. T[0] = Idle(run) /\ \A n \in 1..Len(t) : T[n] = Reduce(T[n - 1], t[n])
  <2> HIDE DEF t
  <2> QED
    BY <1>0, ReducingAt
<1>3. ASSUME Bad # {} PROVE FALSE
  <2> HIDE DEF t, S, T
  <2>1. PICK m \in Bad : \A k \in Bad : m <= k
    <3>1. Bad \in SUBSET Nat
      BY <1>0
    <3> HIDE DEF Bad
    <3> QED
      BY <1>3, <3>1, LeastNat
  <2>2. m # 0
    BY <1>1, <1>2, <2>1
  <2>3. m \in 1..Len(s) /\ m \in 1..Len(t) /\ m - 1 \in 0..Len(s) /\ m - 1 < m
    BY <1>0, <2>1, <2>2
  <2>4. T[m - 1] = S[m - 1]
    BY <2>1, <2>3
  <2>5. t[m] = s[m]
    BY <1>0, <2>3
  <2>6. T[m] = Reduce(T[m - 1], t[m]) /\ S[m] = Reduce(S[m - 1], s[m])
    BY <1>1, <1>2, <2>3
  <2> QED
    BY <2>1, <2>4, <2>5, <2>6
<1>4. T[Len(s)] = S[Len(s)]
  BY <1>0, <1>3
<1>5. T[Len(s) + 1] = Reduce(T[Len(s)], e)
  <2> HIDE DEF t, T
  <2> QED
    BY <1>0, <1>2
<1> HIDE DEF S, T
<1>6. T[Len(t)] = Reduce(S[Len(s)], e)
  BY <1>0, <1>4, <1>5
<1> QED
  BY <1>6 DEF ReduceAll, S, T

\* Records over any bodies, and states of runs in any set.
EventOf(B) == [seq : Int, run : Texts, version : Texts, kind : Kinds, body : B]
StateOf(B, U) ==
  [status : {"idle", "planning", "running"} \cup Ending, run : U, seq : Int,
   planned : BOOLEAN, events : Seq(EventOf(B)), valid : BOOLEAN]

\* T is what S becomes with one more record.
Advanced(T, S, e) ==
  /\ T.valid <=> Reducible(S, e)
  /\ T.run = S.run
  /\ T.valid => /\ T.events = Append(S.events, e) /\ T.seq = e.seq
                /\ T.planned <=> S.planned \/ e.kind = "WORKFLOW_PLANNED"

LEMMA ReduceDoes ==
  ASSUME NEW B, NEW U, NEW e \in EventOf(B), NEW S \in StateOf(B, U)
  PROVE  Reduce(S, e) \in StateOf(B, U) /\ Advanced(Reduce(S, e), S, e)
<1>1. S.valid \in BOOLEAN /\ S.events \in Seq(EventOf(B)) /\ S.seq \in Int /\ S.planned \in BOOLEAN
  BY DEF StateOf
<1>2. CASE ~Reducible(S, e)
  <2>1. Reduce(S, e) = [S EXCEPT !.valid = FALSE]
    BY <1>2 DEF Reduce
  <2> QED
    BY <1>2, <2>1 DEF StateOf, Advanced
<1>3. CASE Reducible(S, e)
  <2> DEFINE st == StatusAfter(S.status, e.kind)
             ev == Append(S.events, e)
             pl == (S.planned \/ e.kind = "WORKFLOW_PLANNED")
  <2>1. Reduce(S, e) = [S EXCEPT !.status = st, !.seq = e.seq, !.events = ev, !.planned = pl]
    BY <1>3 DEF Reduce
  <2>2. st \in {"idle", "planning", "running"} \cup Ending
    BY DEF StateOf, StatusAfter, Ending
  <2>3. ev \in Seq(EventOf(B)) /\ pl \in BOOLEAN /\ e.seq \in Int
    BY <1>1 DEF EventOf
  <2>4. S.valid
    BY <1>3 DEF Reducible
  <2> HIDE DEF st, ev, pl
  <2>5. Reduce(S, e) \in StateOf(B, U)
    BY <2>1, <2>2, <2>3 DEF StateOf
  <2>6. /\ Reduce(S, e).valid = S.valid /\ Reduce(S, e).run = S.run /\ Reduce(S, e).events = ev
        /\ Reduce(S, e).seq = e.seq /\ Reduce(S, e).planned = pl
    BY <2>1 DEF StateOf
  <2> QED
    BY <1>3, <2>4, <2>5, <2>6 DEF Advanced, ev, pl
<1> QED
  BY <1>2, <1>3

\* Once reduced without a fault, the records are in sequence and of one run, and none
\* completes a workflow that was not planned.
InSequence(run, s, k) ==
  /\ s[k].version = "written" /\ s[k].run = run /\ s[k].seq = k - 1
  /\ s[k].kind = "WORKFLOW_COMPLETED" => \E j \in 1..(k - 1) : s[j].kind = "WORKFLOW_PLANNED"

ReducedTo(run, s, n) ==
  LET L == Reducing(run, s)
  IN  L[n].valid =>
        /\ L[n].events = [k \in 1..n |-> s[k]]
        /\ L[n].seq = n - 1 /\ L[n].run = run
        /\ \A k \in 1..n : InSequence(run, s, k)
        /\ L[n].planned => \E j \in 1..n : s[j].kind = "WORKFLOW_PLANNED"

LEMMA ReducedAt ==
  ASSUME NEW B, NEW s \in Seq(EventOf(B)), NEW U, NEW run \in U, NEW n \in 0..Len(s)
  PROVE  Reducing(run, s)[n] \in StateOf(B, U) /\ ReducedTo(run, s, n)
<1> DEFINE L == Reducing(run, s)
           Bad == {m \in 0..Len(s) : ~(L[m] \in StateOf(B, U) /\ ReducedTo(run, s, m))}
<1>0. Len(s) \in Nat /\ L[0] = Idle(run) /\ \A m \in 1..Len(s) : L[m] = Reduce(L[m - 1], s[m])
  BY ReducingAt
<1>1. ASSUME Bad # {} PROVE FALSE
  <2>1. PICK m \in Bad : \A k \in Bad : m <= k
    <3>1. Bad \in SUBSET Nat
      BY <1>0
    <3> HIDE DEF Bad
    <3> QED
      BY <1>1, <3>1, LeastNat
  <2> HIDE DEF L
  <2>2. CASE m = 0
    <3>1. Idle(run) \in StateOf(B, U)
      BY DEF Idle, StateOf, Ending
    <3>2. /\ Idle(run).events = [k \in 1..0 |-> s[k]] /\ Idle(run).seq = 0 - 1
          /\ Idle(run).run = run /\ ~Idle(run).planned
      BY DEF Idle
    <3>3. ReducedTo(run, s, 0)
      BY <1>0, <3>2 DEF ReducedTo, L
    <3> QED
      BY <1>0, <2>1, <2>2, <3>1, <3>3 DEF L
  <2>3. CASE m > 0
    <3>1. m \in 1..Len(s) /\ m - 1 \in 0..Len(s) /\ s[m] \in EventOf(B) /\ m \in Nat
      BY <1>0, <2>1, <2>3
    <3>2. L[m - 1] \in StateOf(B, U) /\ ReducedTo(run, s, m - 1)
      BY <2>1, <3>1
    <3>3. L[m] = Reduce(L[m - 1], s[m])
      BY <1>0, <3>1
    <3>4. L[m] \in StateOf(B, U) /\ Advanced(L[m], L[m - 1], s[m])
      BY <3>1, <3>2, <3>3, ReduceDoes
    <3>5. ASSUME L[m].valid
          PROVE  /\ L[m].events = [k \in 1..m |-> s[k]]
                 /\ L[m].seq = m - 1 /\ L[m].run = run
                 /\ \A k \in 1..m : InSequence(run, s, k)
                 /\ L[m].planned => \E j \in 1..m : s[j].kind = "WORKFLOW_PLANNED"
      <4>1. /\ Reducible(L[m - 1], s[m]) /\ L[m].run = L[m - 1].run
            /\ L[m].events = Append(L[m - 1].events, s[m]) /\ L[m].seq = s[m].seq
            /\ L[m].planned <=> L[m - 1].planned \/ s[m].kind = "WORKFLOW_PLANNED"
        BY <3>4, <3>5 DEF Advanced
      <4>2. /\ L[m - 1].events = [k \in 1..(m - 1) |-> s[k]]
            /\ L[m - 1].seq = (m - 1) - 1 /\ L[m - 1].run = run
            /\ \A k \in 1..(m - 1) : InSequence(run, s, k)
            /\ L[m - 1].planned => \E j \in 1..(m - 1) : s[j].kind = "WORKFLOW_PLANNED"
        BY <3>2, <4>1 DEF ReducedTo, L, Reducible
      <4>3. L[m].events = [k \in 1..m |-> s[k]]
        <5>1. L[m - 1].events \in Seq(EventOf(B)) /\ L[m].events \in Seq(EventOf(B))
          BY <3>2, <3>4 DEF StateOf
        <5>2. Len(L[m - 1].events) = m - 1
          BY <4>2, <5>1, <3>1
        <5>3. Len(L[m].events) = m
          BY <4>1, <5>1, <5>2, <3>1
        <5>4. ASSUME NEW k \in 1..m PROVE L[m].events[k] = s[k]
          BY <4>1, <4>2, <5>1, <5>2, <3>1
        <5>5. L[m].events = [k \in 1..m |-> L[m].events[k]]
          BY <5>1, <5>3
        <5> QED
          BY <5>4, <5>5
      <4>4. L[m].seq = m - 1 /\ s[m].seq = m - 1
        BY <3>1, <4>1, <4>2 DEF Reducible
      <4>5. InSequence(run, s, m)
        BY <4>1, <4>2, <4>4 DEF InSequence, Reducible
      <4>6. \A k \in 1..m : InSequence(run, s, k)
        BY <3>1, <4>2, <4>5
      <4>7. L[m].planned => \E j \in 1..m : s[j].kind = "WORKFLOW_PLANNED"
        BY <3>1, <4>1, <4>2
      <4> QED
        BY <4>1, <4>2, <4>3, <4>4, <4>6, <4>7
    <3>6. ReducedTo(run, s, m)
      BY <3>5 DEF ReducedTo, L
    <3> QED
      BY <2>1, <3>4, <3>6 DEF L
  <2> QED
    BY <1>0, <2>1, <2>2, <2>3
<1> QED
  BY <1>1

--------------------------------------------------------------------------------
(* What a replay that is not refused says of the lines.                    *)

ReplayedLine(s, k) ==
  /\ s[k].whole
  /\ Verify(Loading(s)[k - 1].plan, s[k].record) /\ PlanFrom(Loading(s)[k - 1].plan, s, k - 1)
  /\ s[k].record.run = s[1].record.body["run_id"] /\ s[k].record.seq = k - 1
  /\ s[k].record.kind = "WORKFLOW_COMPLETED" =>
       \E j \in 1..(k - 1) : s[j].record.kind = "WORKFLOW_PLANNED"

LEMMA ReplaySound ==
  ASSUME NEW B, NEW s \in Seq(LineOf(EventOf(B))), Replay(s).valid
  PROVE  /\ Replay(s).events = [k \in 1..Len(s) |-> s[k].record]
         /\ Len(s) > 0 /\ s[1].record.kind = "RUN_CREATED" /\ Has(s[1].record, "run_id")
         /\ Replay(s).run = s[1].record.body["run_id"]
         /\ \A k \in 1..Len(s) : ReplayedLine(s, k)
<1> DEFINE loaded == LoadEvents(s)
           run    == Head(loaded.events).body["run_id"]
           rows   == [k \in 1..Len(s) |-> s[k].record]
<1>1. /\ loaded.valid /\ loaded.events # <<>> /\ Head(loaded.events).kind = "RUN_CREATED"
      /\ Has(Head(loaded.events), "run_id") /\ Begins(loaded.events)
  <2>1. ~Refused.valid
    BY DEF Refused, Idle
  <2>2. loaded.valid /\ Begins(loaded.events)
    BY <2>1 DEF Replay
  <2> HIDE DEF loaded
  <2> QED
    BY <2>2 DEF Begins
<1>2. Replay(s) = ReduceAll(run, loaded.events)
  BY <1>1 DEF Replay
<1>3. Len(s) \in Nat /\ rows \in Seq(EventOf(B)) /\ Len(rows) = Len(s)
  <2>1. \A k \in 1..Len(s) : s[k].record \in EventOf(B)
    <3>1. ASSUME NEW k \in 1..Len(s) PROVE s[k] \in LineOf(EventOf(B))
      OBVIOUS
    <3> QED
      BY <3>1 DEF LineOf
  <2>2. Len(s) \in Nat
    OBVIOUS
  <2> QED
    BY <2>1, <2>2
<1>4. LoadedTo(s, Len(s)) /\ loaded = Loading(s)[Len(s)]
  <2>1. Len(s) \in 0..Len(s)
    BY <1>3
  <2> QED
    BY <2>1, LoadedAt DEF LoadEvents
<1>5. /\ loaded.events = rows
      /\ \A k \in 1..Len(s) : Loading(s)[k - 1].valid /\ s[k].whole /\ Verify(Loading(s)[k - 1].plan, s[k].record)
  BY <1>1, <1>4 DEF LoadedTo
<1>6. Len(s) > 0 /\ Head(loaded.events) = s[1].record
  BY <1>1, <1>3, <1>5
<1> HIDE DEF loaded
<1>7. ReducedTo(run, rows, Len(s)) /\ Replay(s) = Reducing(run, rows)[Len(s)]
  <2>1. run \in {run} /\ Len(rows) \in 0..Len(rows)
    BY <1>3
  <2> HIDE DEF rows, run
  <2> QED
    BY <1>2, <1>3, <1>5, <2>1, ReducedAt DEF ReduceAll
<1>8. /\ Replay(s).events = [k \in 1..Len(s) |-> rows[k]] /\ Replay(s).run = run
      /\ \A k \in 1..Len(s) : InSequence(run, rows, k)
  <2> HIDE DEF rows, run
  <2> QED
    BY <1>7 DEF ReducedTo
<1>9. ASSUME NEW k \in 1..Len(s) PROVE ReplayedLine(s, k)
  <2>1. PlanFrom(Loading(s)[k - 1].plan, s, k - 1)
    <3>1. k - 1 \in 0..Len(s) /\ Loading(s)[k - 1].valid
      BY <1>3, <1>5
    <3> QED
      BY <3>1, LoadedAt DEF LoadedTo
  <2>2. /\ s[k].record.run = run /\ s[k].record.seq = k - 1
        /\ s[k].record.kind = "WORKFLOW_COMPLETED" =>
             \E j \in 1..(k - 1) : s[j].record.kind = "WORKFLOW_PLANNED"
    <3>1. InSequence(run, rows, k) /\ rows[k] = s[k].record
      BY <1>8
    <3>2. \A j \in 1..(k - 1) : rows[j] = s[j].record
      BY <1>3
    <3> HIDE DEF rows
    <3> QED
      BY <3>1, <3>2 DEF InSequence
  <2> QED
    BY <1>5, <1>6, <2>1, <2>2 DEF ReplayedLine
<1>10. Replay(s).events = [k \in 1..Len(s) |-> s[k].record]
  BY <1>8
<1>11. Replay(s).run = s[1].record.body["run_id"]
  BY <1>6, <1>8
<1> QED
  BY <1>1, <1>6, <1>9, <1>10, <1>11

--------------------------------------------------------------------------------
(* What a record that was verified still says.                             *)

WrittenPlan == [f \in Identity \cup {"plan_hash"} |-> "written"]

\* What a record may hold: what was written there, or something that is nowhere else.
LEMMA AlteredHolds ==
  ASSUME NEW e, NEW given, NEW k, Genuine(given, k), Altered(e, given)
  PROVE  \A f \in DOMAIN e.body : f \in Fields(runtime, given.kind) /\ e.body[f] \in {"written", f, "null"}
BY DEF Genuine, Altered, Written

\* Two fields that agree hold what was written.
LEMMA AgreeingIsWritten ==
  ASSUME NEW e, NEW given, NEW k, Genuine(given, k), Altered(e, given),
         NEW f, NEW g, f # g, f \in DOMAIN e.body, g \in DOMAIN e.body,
         e.body[f] = e.body[g], e.body[f] # "null"
  PROVE  e.body[f] = "written" /\ e.body[g] = "written"
BY AlteredHolds

LEMMA CoveredIsWritten ==
  ASSUME NEW e, NEW given, NEW k, Genuine(given, k), Altered(e, given),
         NEW hash, NEW value, hash # value, hash # "null", Covers(e, hash, value)
  PROVE  /\ hash \in DOMAIN e.body /\ value \in DOMAIN e.body
         /\ e.body[hash] = "written" /\ e.body[value] = "written"
<1>1. /\ hash \in DOMAIN e.body /\ value \in DOMAIN e.body
      /\ e.body[hash] = e.body[value] /\ e.body[hash] # "null"
  BY DEF Covers, Get, Has
<1> QED
  BY <1>1, AgreeingIsWritten

\* Which records have a field of this name.
LEMMA FieldsTell ==
  ASSUME NEW by \in {"fixed", "automatic", "plain"}, NEW kind
  PROVE  /\ "plan" \in Fields(by, kind) => kind = "WORKFLOW_PLANNED" /\ by = "fixed"
         /\ "request" \in Fields(by, kind) => kind = "MODEL_TURN_STARTED"
         /\ "trace" \in Fields(by, kind) => kind = "MODEL_TURN_COMPLETED"
         /\ "arguments" \in Fields(by, kind) => kind = "TOOL_STARTED"
         /\ "retryable" \in Fields(by, kind) => kind = "TOOL_COMPLETED"
         /\ "plan_hash" \in Fields(by, kind) => kind \in {"WORKFLOW_PLANNED", "WORKFLOW_COMPLETED"}
<1> USE DEF Fields, CallFields, Identity, Envelope, Result, Turn, Copies
<1>1. CASE kind = "WORKFLOW_PLANNED"
  BY <1>1
<1>2. CASE kind = "WORKFLOW_COMPLETED"
  BY <1>2
<1>3. CASE kind = "MODEL_TURN_STARTED"
  BY <1>3
<1>4. CASE kind = "MODEL_TURN_COMPLETED"
  BY <1>4
<1>5. CASE kind = "TOOL_STARTED"
  <2>1. "plan" \notin CallFields(by) /\ "request" \notin CallFields(by) /\ "trace" \notin CallFields(by)
        /\ "retryable" \notin CallFields(by) /\ "plan_hash" \notin CallFields(by)
    OBVIOUS
  <2> QED
    BY <1>5, <2>1
<1>6. CASE kind = "TOOL_COMPLETED"
  BY <1>6
<1>7. CASE kind = "TOOL_FAILED"
  BY <1>7
<1>8. CASE kind = "RUN_CREATED"
  BY <1>8
<1>9. CASE kind \notin {"WORKFLOW_PLANNED", "WORKFLOW_COMPLETED", "MODEL_TURN_STARTED", "MODEL_TURN_COMPLETED",
                        "TOOL_STARTED", "TOOL_COMPLETED", "TOOL_FAILED", "RUN_CREATED"}
  BY <1>9
<1> QED
  BY <1>1, <1>2, <1>3, <1>4, <1>5, <1>6, <1>7, <1>8, <1>9

\* The fields of an accepted record that the verifier has compared are those written, and
\* the record has kept its kind; of a completed workflow, if it is not the plan's record.
LEMMA VouchedSays ==
  ASSUME runtime \in {"fixed", "automatic", "plain"},
         NEW e, NEW given, NEW k, NEW plan, NEW planned \in BOOLEAN,
         Genuine(given, k), Altered(e, given), Verify(plan, e),
         planned => plan = WrittenPlan,
         e.kind = "WORKFLOW_COMPLETED" /\ planned => given.kind # "WORKFLOW_PLANNED",
         NEW f \in Vouched(e, planned)
  PROVE  e.kind = given.kind /\ f \in DOMAIN e.body /\ e.body[f] = "written"
<1>1. \A g \in DOMAIN e.body : g \in Fields(runtime, given.kind)
  BY AlteredHolds
<1>2. planned => plan # NoPlan
  BY DEF WrittenPlan, NoPlan
<1>3. CASE Plans(e)
  <2>1. e.kind = "WORKFLOW_PLANNED" /\ f \in Identity \cup {"tasks", "plan", "plan_hash"}
    BY <1>3 DEF Plans, Vouched
  <2>2. Covers(e, "plan_hash", "plan") /\ \A g \in Identity \cup {"tasks"} : Agrees(e, g, "plan")
    BY <1>3, <2>1 DEF Verify, VerifyPlanned
  <2>3. /\ "plan" \in DOMAIN e.body /\ "plan_hash" \in DOMAIN e.body
        /\ e.body["plan"] = "written" /\ e.body["plan_hash"] = "written"
    BY <2>2, CoveredIsWritten
  <2>4. \A g \in Identity \cup {"tasks"} : g \in DOMAIN e.body /\ e.body[g] = "written"
    BY <2>2, <2>3 DEF Agrees, Get, Has
  <2> QED
    BY <1>1, <2>1, <2>3, <2>4, FieldsTell
<1>4. CASE e.kind = "WORKFLOW_COMPLETED" /\ planned
  <2>1. f \in Identity \cup {"plan_hash"}
    BY <1>4 DEF Vouched, Plans
  <2>2. \A g \in Identity \cup {"plan_hash"} : Get(e, g) = "written"
    BY <1>4 DEF Verify, VerifyCompleted, WrittenPlan
  <2>3. \A g \in Identity \cup {"plan_hash"} : g \in DOMAIN e.body /\ e.body[g] = "written"
    BY <2>2 DEF Get, Has
  <2>4. given.kind = "WORKFLOW_COMPLETED"
    BY <1>1, <1>4, <2>3, FieldsTell
  <2> QED
    BY <1>4, <2>1, <2>3, <2>4
<1>5. CASE e.kind = "MODEL_TURN_STARTED"
  <2>1. f \in {"request", "request_hash"} /\ Covers(e, "request_hash", "request")
    BY <1>5 DEF Vouched, Plans, Verify
  <2>2. /\ "request" \in DOMAIN e.body /\ "request_hash" \in DOMAIN e.body
        /\ e.body["request"] = "written" /\ e.body["request_hash"] = "written"
    BY <2>1, CoveredIsWritten
  <2> QED
    BY <1>1, <1>5, <2>1, <2>2, FieldsTell
<1>6. CASE e.kind = "MODEL_TURN_COMPLETED"
  <2>1. f \in Turn /\ VerifyTurn(e)
    BY <1>6 DEF Vouched, Plans, Verify
  <2>2. /\ "trace" \in DOMAIN e.body /\ "trace_hash" \in DOMAIN e.body
        /\ e.body["trace"] = "written" /\ e.body["trace_hash"] = "written"
    BY <2>1, CoveredIsWritten DEF VerifyTurn
  <2>3. \A g \in {"output", "output_hash", "output_truncated"} : g \in DOMAIN e.body /\ e.body[g] = "written"
    BY <2>1, <2>2 DEF VerifyTurn, Agrees, Get, Has
  <2> QED
    BY <1>1, <1>6, <2>1, <2>2, <2>3, FieldsTell DEF Turn
<1>7. CASE e.kind = "TOOL_STARTED"
  <2>1. /\ planned \/ Has(e, "task_id") \/ Has(e, "arguments_hash")
        /\ f \in {"arguments", "arguments_hash"}
                  \cup ({"proposed_arguments", "proposed_arguments_hash"} \cap DOMAIN e.body)
    BY <1>7 DEF Vouched, Plans
  <2>2. /\ Covers(e, "arguments_hash", "arguments")
        /\ Has(e, "proposed_arguments") \/ Has(e, "proposed_arguments_hash") =>
             Covers(e, "proposed_arguments_hash", "proposed_arguments")
    BY <1>2, <1>7, <2>1 DEF Verify, VerifyCall
  <2>3. /\ "arguments" \in DOMAIN e.body /\ "arguments_hash" \in DOMAIN e.body
        /\ e.body["arguments"] = "written" /\ e.body["arguments_hash"] = "written"
    BY <2>2, CoveredIsWritten
  <2>4. CASE f \in {"proposed_arguments", "proposed_arguments_hash"}
    <3>1. Covers(e, "proposed_arguments_hash", "proposed_arguments")
      BY <2>1, <2>2, <2>4 DEF Has
    <3>2. f \in DOMAIN e.body /\ e.body[f] = "written"
      BY <2>4, <3>1, CoveredIsWritten
    <3> QED
      BY <1>1, <1>7, <2>3, <3>2, FieldsTell
  <2>5. CASE f \in {"arguments", "arguments_hash"}
    BY <1>1, <1>7, <2>3, <2>5, FieldsTell
  <2> QED
    BY <2>1, <2>4, <2>5
<1>8. CASE e.kind = "TOOL_COMPLETED"
  <2>1. VerifyResult(plan, e)
    BY <1>8 DEF Verify
  <2>2. CASE Get(e, "result_envelope") # "null"
    <3>1. Covers(e, "result_hash", "result_envelope") /\ \A g \in Result : Agrees(e, g, "result_envelope")
      BY <2>1, <2>2 DEF VerifyResult
    <3>2. /\ "result_envelope" \in DOMAIN e.body /\ "result_hash" \in DOMAIN e.body
          /\ e.body["result_envelope"] = "written" /\ e.body["result_hash"] = "written"
      BY <3>1, CoveredIsWritten
    <3>3. \A g \in Result : g \in DOMAIN e.body /\ e.body[g] = "written"
      BY <3>1, <3>2 DEF Agrees, Get, Has
    <3>4. f \in Envelope
      BY <1>8 DEF Vouched, Plans, Envelope
    <3> QED
      BY <1>1, <1>8, <3>2, <3>3, <3>4, FieldsTell DEF Envelope, Result
  <2>3. CASE Get(e, "result_envelope") = "null"
    <3>1. plan = NoPlan /\ ~planned
      BY <1>2, <2>1, <2>3 DEF VerifyResult
    <3>2. Has(e, "result_hash") /\ f \in Result \cup {"result_hash"}
      BY <1>8, <3>1 DEF Vouched, Plans
    <3>3. Get(e, "result_hash") # "null" /\ \A g \in Result : Agrees(e, g, "result_hash")
      BY <2>1, <2>3, <3>2 DEF VerifyResult
    <3>4. "result_hash" \in DOMAIN e.body /\ e.body["result_hash"] # "null"
      BY <3>2, <3>3 DEF Get, Has
    <3>5. \A g \in Result : g \in DOMAIN e.body /\ e.body[g] = e.body["result_hash"]
      BY <3>3, <3>4 DEF Agrees, Get, Has
    <3>6. "retryable" \in Result
      BY DEF Result
    <3>7. e.body["result_hash"] = "written"
      BY <3>4, <3>5, <3>6, AgreeingIsWritten
    <3> QED
      BY <1>1, <1>8, <3>2, <3>4, <3>5, <3>6, <3>7, FieldsTell
  <2> QED
    BY <2>2, <2>3
<1> QED
  BY <1>3, <1>4, <1>5, <1>6, <1>7, <1>8 DEF Vouched

\* The plan a verified plan record leaves is the plan that was written.
LEMMA PlanSays ==
  ASSUME runtime \in {"fixed", "automatic", "plain"}, NEW e, NEW given, NEW k, NEW plan,
         Genuine(given, k), Altered(e, given), Verify(plan, e), Plans(e)
  PROVE  given.kind = "WORKFLOW_PLANNED" /\ PlanIdentity(e) = WrittenPlan
<1>1. e.kind = "WORKFLOW_PLANNED"
  BY DEF Plans
<1>2. \A f \in Identity \cup {"plan_hash"} : f \in Vouched(e, FALSE)
  BY <1>1 DEF Vouched
<1>3. \A f \in Identity \cup {"plan_hash"} : e.kind = given.kind /\ e.body[f] = "written"
  BY <1>1, <1>2, VouchedSays
<1> QED
  BY <1>1, <1>3 DEF PlanIdentity, WrittenPlan

--------------------------------------------------------------------------------
(* DamageShows follows from what is invariant.                             *)

LEMMA RecordsTyped ==
  /\ Record = EventOf(Bodies) /\ Line = LineOf(Record) /\ RunState = StateOf(Bodies, Texts)
BY DEF Record, EventOf, Line, LineOf, RunState, StateOf

LEMMA DamageFollows ==
  ASSUME JournalInv
  PROVE  DamageShows
<1> DEFINE s      == file
           L      == Loading(s)
           events == Replay(s).events
           Genuinely == \A i \in DOMAIN file : \E j \in DOMAIN History : file[i].record = History[j]
<1>1. SUFFICES ASSUME Replay(s).valid
               PROVE  /\ Len(events) <= Len(History) /\ Replay(s).run \in {state.run, "null"}
                      /\ \A i \in DOMAIN events : SameRecord(events, i)
                      /\ Genuinely => events = SubSeq(History, 1, Len(events))
  BY DEF DamageShows
<1>2. /\ s \in Seq(LineOf(EventOf(Bodies))) /\ Len(s) \in Nat /\ DOMAIN s = 1..Len(s)
      /\ History \in Seq(Record) /\ Len(History) \in Nat /\ DOMAIN History = 1..Len(History)
      /\ runtime \in {"fixed", "automatic", "plain"}
  BY JournalAssumption, RecordsTyped DEF JournalInv, TypeOK, RunState, History
<1>3. /\ events = [k \in 1..Len(s) |-> s[k].record]
      /\ Len(s) > 0 /\ s[1].record.kind = "RUN_CREATED" /\ Has(s[1].record, "run_id")
      /\ Replay(s).run = s[1].record.body["run_id"]
      /\ \A k \in 1..Len(s) : ReplayedLine(s, k)
  BY <1>1, <1>2, ReplaySound
<1> HIDE DEF events
<1>4. /\ \A k \in 1..Len(s) : k \in DOMAIN History /\ Altered(s[k].record, History[k])
      /\ \A k \in 1..Len(s) : Genuine(History[k], k)
  <2>1. ASSUME NEW k \in 1..Len(s) PROVE k \in DOMAIN History /\ Altered(s[k].record, History[k])
    <3>1. k \in DOMAIN s /\ s[k].record.seq + 1 = k
      BY <1>2, <1>3 DEF ReplayedLine
    <3> QED
      BY <3>1 DEF JournalInv, Kept, Numbered, InPlace
  <2> QED
    BY <2>1 DEF JournalInv, Recorded
<1>5. Len(events) = Len(s) /\ Len(s) <= Len(History)
  BY <1>2, <1>3, <1>4
<1>6. Replay(s).run \in {state.run, "null"}
  <2>1. ReplayedLine(s, 1) /\ Altered(s[1].record, History[1]) /\ Genuine(History[1], 1)
    BY <1>2, <1>3, <1>4
  <2>2. s[1].record.run = s[1].record.body["run_id"] /\ s[1].record.run \in {"written", "run", "null"}
    BY <2>1 DEF ReplayedLine, Altered, Genuine
  <2>3. s[1].record.body["run_id"] \in {"written", "run_id", "null"}
    BY <1>3, <2>1, AlteredHolds DEF Has
  <2>4. state.run = "written"
    BY DEF JournalInv, Reduced
  <2> QED
    BY <1>3, <2>2, <2>3, <2>4
\* A record that plans is the one that planned.
<1>7. ASSUME NEW j \in 1..Len(s), Plans(s[j].record)
      PROVE  History[j].kind = "WORKFLOW_PLANNED" /\ PlanIdentity(s[j].record) = WrittenPlan
  <2>1. /\ Altered(s[j].record, History[j]) /\ Genuine(History[j], j)
        /\ Verify(L[j - 1].plan, s[j].record)
    BY <1>3, <1>4 DEF ReplayedLine
  <2> QED
    BY <1>2, <1>7, <2>1, PlanSays
<1>8. ASSUME NEW k \in 1..Len(s)
      PROVE  SameRecord(events, k)
  <2> DEFINE e       == s[k].record
             given   == History[k]
             plan    == L[k - 1].plan
             planned == \E j \in 1..(k - 1) : Plans(events[j])
  <2>1. ReplayedLine(s, k) /\ Altered(e, given) /\ Genuine(given, k) /\ Verify(plan, e)
    BY <1>3, <1>4 DEF ReplayedLine
  <2>2. events[k] = e /\ \A j \in 1..(k - 1) : j \in 1..Len(s) /\ j # k /\ events[j] = s[j].record
    BY <1>2, <1>3
  <2>3. planned => plan = WrittenPlan
    <3>1. PlanFrom(plan, s, k - 1)
      BY <2>1 DEF ReplayedLine
    <3> QED
      BY <1>7, <2>2, <3>1 DEF PlanFrom
  <2>4. planned => given.kind # "WORKFLOW_PLANNED"
    <3>1. SUFFICES ASSUME NEW j \in 1..(k - 1), Plans(events[j]), given.kind = "WORKFLOW_PLANNED" PROVE FALSE
      OBVIOUS
    <3>2. j \in 1..Len(s) /\ j # k /\ Plans(s[j].record)
      BY <2>2, <3>1
    <3>3. History[j].kind = "WORKFLOW_PLANNED"
      BY <1>7, <3>2
    <3> QED
      BY <1>4, <3>1, <3>2, <3>3 DEF JournalInv, Recorded
  <2>5. ASSUME NEW f \in Vouched(e, planned)
        PROVE  e.kind = given.kind /\ Has(e, f) /\ e.body[f] = given.body[f]
    <3>1. planned \in BOOLEAN
      OBVIOUS
    <3> HIDE DEF planned, plan, e, given
    <3>2. e.kind = given.kind /\ f \in DOMAIN e.body /\ e.body[f] = "written"
      BY <1>2, <2>1, <2>3, <2>4, <2>5, <3>1, VouchedSays
    <3>3. f \in DOMAIN given.body /\ given.body[f] = "written"
      BY <2>1, <3>2 DEF Altered, Genuine, Written
    <3> QED
      BY <3>2, <3>3 DEF Has
  <2> QED
    BY <2>2, <2>5 DEF SameRecord
<1>9. ASSUME Genuinely
      PROVE  events = SubSeq(History, 1, Len(events))
  <2>1. ASSUME NEW k \in 1..Len(s) PROVE s[k].record = History[k]
    <3>1. PICK j \in DOMAIN History : s[k].record = History[j]
      BY <1>2, <1>9, <2>1
    <3>2. History[j].seq = j - 1 /\ s[k].record.seq = k - 1
      BY <1>3, <3>1 DEF JournalInv, Recorded, Genuine, ReplayedLine
    <3>3. j = k
      BY <1>2, <3>1, <3>2
    <3> QED
      BY <3>1, <3>3
  <2>2. events = [k \in 1..Len(s) |-> History[k]]
    BY <1>3, <2>1
  <2>3. SubSeq(History, 1, Len(s)) = [k \in 1..Len(s) |-> History[k]]
    <3> DEFINE H == History
               n == Len(s)
    <3>1. H \in Seq(Record) /\ n \in Nat /\ n <= Len(H) /\ Len(H) \in Nat
      BY <1>2, <1>5
    <3> HIDE DEF H, n
    <3>2. \A i \in 1..n : H[i] \in Record
      BY <3>1
    <3>3. /\ SubSeq(H, 1, n) \in Seq(Record)
          /\ Len(SubSeq(H, 1, n)) = IF 1 <= n THEN n - 1 + 1 ELSE 0
          /\ \A i \in 1..(n - 1 + 1) : SubSeq(H, 1, n)[i] = H[1 + i - 1]
      BY <3>1, <3>2, SubSeqProperties
    <3>4. Len(SubSeq(H, 1, n)) = n /\ \A i \in 1..n : SubSeq(H, 1, n)[i] = H[i]
      BY <3>1, <3>3
    <3>5. SubSeq(H, 1, n) = [k \in 1..n |-> SubSeq(H, 1, n)[k]]
      BY <3>3, <3>4
    <3>6. SubSeq(H, 1, n) = [k \in 1..n |-> H[k]]
      BY <3>4, <3>5
    <3> QED
      BY <3>6 DEF H, n
  <2> QED
    BY <1>5, <2>2, <2>3
<1>10. DOMAIN events = 1..Len(s)
  BY <1>3
<1> QED
  BY <1>5, <1>6, <1>8, <1>9, <1>10

--------------------------------------------------------------------------------
(* ReplayRebuilds follows from what is invariant.                          *)

\* What the runtimes write passes the verifier.
LEMMA GenuineVerifies ==
  ASSUME runtime \in {"fixed", "automatic", "plain"}, NEW e, NEW k, NEW plan, Genuine(e, k),
         plan = NoPlan \/ (runtime = "fixed" /\ plan = WrittenPlan),
         e.kind = "WORKFLOW_PLANNED" => plan = NoPlan
  PROVE  Verify(plan, e)
<1>1. \A f : Get(e, f) = IF f \in Fields(runtime, e.kind) THEN "written" ELSE "null"
  BY DEF Genuine, Written, Get, Has
<1>2. \A f : Has(e, f) <=> f \in Fields(runtime, e.kind)
  BY DEF Genuine, Written, Has
<1>3. \A f \in Fields(runtime, e.kind) : e.body[f] = "written"
  BY DEF Genuine, Written
<1>4. \A f, g \in Fields(runtime, e.kind) : Covers(e, f, g) /\ Agrees(e, f, g)
  BY <1>1, <1>2, <1>3 DEF Covers, Agrees
<1>5. CASE e.kind = "WORKFLOW_PLANNED"
  <2>1. VerifyPlanned(plan, e)
    <3>1. Plans(e) => "plan" \in Fields(runtime, e.kind) /\ runtime = "fixed"
      BY <1>1, <1>5, FieldsTell DEF Plans
    <3>2. Plans(e) => Identity \cup {"tasks", "plan", "plan_hash"} = Fields(runtime, e.kind)
      BY <1>5, <3>1 DEF Fields
    <3> QED
      BY <1>4, <1>5, <3>2 DEF VerifyPlanned
  <2> QED
    BY <1>5, <2>1 DEF Verify
<1>6. CASE e.kind = "WORKFLOW_COMPLETED"
  <2>1. plan # NoPlan => \A f \in DOMAIN plan : Get(e, f) = plan[f]
    BY <1>1, <1>6 DEF Fields, WrittenPlan
  <2>2. DOMAIN NoPlan = {}
    BY DEF NoPlan
  <2> QED
    BY <1>6, <2>1, <2>2 DEF Verify, VerifyCompleted
<1>7. CASE e.kind = "MODEL_TURN_STARTED"
  <2>1. "request" \in Fields(runtime, e.kind) /\ "request_hash" \in Fields(runtime, e.kind)
    BY <1>7 DEF Fields
  <2> QED
    BY <1>4, <1>7, <2>1 DEF Verify
<1>8. CASE e.kind = "MODEL_TURN_COMPLETED"
  <2>1. Turn \subseteq Fields(runtime, e.kind)
    BY <1>8 DEF Fields
  <2> QED
    BY <1>4, <1>8, <2>1 DEF Verify, VerifyTurn, Turn
<1>9. CASE e.kind = "TOOL_STARTED"
  <2>1. Fields(runtime, e.kind) = CallFields(runtime)
    BY <1>9 DEF Fields
  <2>2. VerifyCall(plan, e)
    <3>1. CASE runtime = "fixed"
      BY <1>4, <2>1, <3>1 DEF VerifyCall, CallFields
    <3>2. CASE runtime = "automatic"
      BY <1>2, <1>4, <2>1, <3>2 DEF VerifyCall, CallFields
    <3>3. CASE runtime = "plain"
      BY <1>2, <2>1, <3>3 DEF VerifyCall, CallFields
    <3> QED
      BY <3>1, <3>2, <3>3
  <2> QED
    BY <1>9, <2>2 DEF Verify
<1>10. CASE e.kind = "TOOL_COMPLETED"
  <2>1. VerifyResult(plan, e)
    <3>1. CASE runtime = "plain"
      <4>1. Get(e, "result_envelope") = "null" /\ ~Has(e, "result_hash") /\ plan = NoPlan
        BY <1>1, <1>2, <1>10, <3>1 DEF Fields
      <4> QED
        BY <4>1 DEF VerifyResult
    <3>2. CASE runtime # "plain"
      <4>1. Fields(runtime, e.kind) = Result \cup {"result_envelope", "result_hash"}
        BY <1>10, <3>2 DEF Fields, Envelope
      <4> QED
        BY <1>1, <1>4, <4>1 DEF VerifyResult
    <3> QED
      BY <3>1, <3>2
  <2> QED
    BY <1>10, <2>1 DEF Verify
<1> QED
  BY <1>5, <1>6, <1>7, <1>8, <1>9, <1>10 DEF Verify

LEMMA GenuinePlan ==
  ASSUME runtime \in {"fixed", "automatic", "plain"}, NEW e, NEW k, Genuine(e, k), Plans(e)
  PROVE  runtime = "fixed" /\ PlanIdentity(e) = WrittenPlan
<1>1. e.body = Written(runtime, "WORKFLOW_PLANNED") /\ "plan" \in DOMAIN e.body
  BY DEF Genuine, Plans, Get, Has
<1>2. runtime = "fixed"
  BY <1>1 DEF Written, Fields, Identity
<1>3. \A f \in Identity \cup {"plan_hash"} : e.body[f] = "written"
  BY <1>1, <1>2 DEF Written, Fields
<1> QED
  BY <1>2, <1>3 DEF PlanIdentity, WrittenPlan

LEMMA GenuineLoads ==
  ASSUME runtime \in {"fixed", "automatic", "plain"},
         NEW B, NEW s \in Seq(LineOf(EventOf(B))),
         \A k \in 1..Len(s) : s[k].whole /\ Genuine(s[k].record, k),
         \A i, j \in 1..Len(s) :
            s[i].record.kind = "WORKFLOW_PLANNED" /\ s[j].record.kind = "WORKFLOW_PLANNED" => i = j
  PROVE  LoadEvents(s).valid /\ LoadEvents(s).events = [k \in 1..Len(s) |-> s[k].record]
<1> DEFINE L == Loading(s)
           Bad == {m \in 0..Len(s) : ~L[m].valid}
<1>0. Len(s) \in Nat /\ L[0] = Unread /\ \A m \in 1..Len(s) : L[m] = LoadLine(L[m - 1], s[m])
  BY LoadingAt
<1>1. ASSUME Bad # {} PROVE FALSE
  <2>1. PICK m \in Bad : \A k \in Bad : m <= k
    <3>1. Bad \in SUBSET Nat
      BY <1>0
    <3> HIDE DEF Bad
    <3> QED
      BY <1>1, <3>1, LeastNat
  <2> HIDE DEF L
  <2>2. m # 0
    BY <1>0, <2>1 DEF Unread
  <2>3. m \in 1..Len(s) /\ m - 1 \in 0..Len(s) /\ s[m] \in LineOf(EventOf(B))
    BY <1>0, <2>1, <2>2
  <2>4. L[m - 1].valid
    BY <2>1, <2>3
  <2>5. L[m - 1] \in LoadedOf(EventOf(B)) /\ PlanFrom(L[m - 1].plan, s, m - 1)
    BY <2>3, <2>4, LoadedAt DEF LoadedTo, L
  <2>6. Verify(L[m - 1].plan, s[m].record)
    <3>1. /\ L[m - 1].plan = NoPlan \/ (runtime = "fixed" /\ L[m - 1].plan = WrittenPlan)
          /\ s[m].record.kind = "WORKFLOW_PLANNED" => L[m - 1].plan = NoPlan
      <4>1. CASE L[m - 1].plan = NoPlan
        BY <4>1
      <4>2. CASE L[m - 1].plan # NoPlan
        <5>1. PICK k \in 1..(m - 1) : Plans(s[k].record) /\ L[m - 1].plan = PlanIdentity(s[k].record)
          BY <2>5, <4>2 DEF PlanFrom
        <5>2. k \in 1..Len(s) /\ k # m
          BY <1>0, <2>3
        <5>3. runtime = "fixed" /\ L[m - 1].plan = WrittenPlan
          BY <5>1, <5>2, GenuinePlan
        <5>4. s[m].record.kind # "WORKFLOW_PLANNED"
          BY <2>3, <5>1, <5>2 DEF Plans
        <5> QED
          BY <5>3, <5>4
      <4> QED
        BY <4>1, <4>2
    <3> QED
      BY <2>3, <3>1, GenuineVerifies
  <2>7. Extended(L[m], L[m - 1], s[m])
    BY <1>0, <2>3, <2>5, LoadLineDoes
  <2> QED
    BY <2>1, <2>3, <2>4, <2>6, <2>7 DEF Extended
<1>2. Len(s) \in 0..Len(s) /\ L[Len(s)].valid
  BY <1>0, <1>1
<1> QED
  BY <1>2, LoadedAt DEF LoadedTo, LoadEvents

\* A file that holds these records as they were written replays to what they reduce to.
LEMMA ReplayWritten ==
  ASSUME JournalInv, NEW evs \in Seq(Record), Len(evs) <= Len(History),
         \A k \in 1..Len(evs) : evs[k] = History[k],
         ReduceAll("written", evs).valid
  PROVE  /\ Lines(evs) \in Seq(Line) /\ Len(Lines(evs)) = Len(evs)
         /\ Replay(Lines(evs)).valid <=> evs # <<>> /\ evs[1].kind = "RUN_CREATED"
         /\ Replay(Lines(evs)).valid => Replay(Lines(evs)) = ReduceAll("written", evs)
<1> DEFINE s == Lines(evs)
<1>0. History \in Seq(Record) /\ DOMAIN History = 1..Len(History) /\ Len(History) \in Nat /\ Len(evs) \in Nat
  BY DEF JournalInv, TypeOK, RunState, History
<1>1. s \in Seq(Line) /\ Len(s) = Len(evs) /\ \A k \in 1..Len(evs) : s[k].whole /\ s[k].record = evs[k]
  <2>1. \A k \in 1..Len(evs) : [whole |-> TRUE, record |-> evs[k]] \in Line
    BY DEF Line
  <2> QED
    BY <1>0, <2>1 DEF Lines
<1> HIDE DEF s
<1>2. \A k \in 1..Len(evs) : k \in DOMAIN History
  BY <1>0
<1>3. LoadEvents(s).valid /\ LoadEvents(s).events = [k \in 1..Len(s) |-> s[k].record]
  <2>1. s \in Seq(LineOf(EventOf(Bodies))) /\ runtime \in {"fixed", "automatic", "plain"}
    BY <1>1, RecordsTyped, JournalAssumption DEF JournalInv, TypeOK
  <2>2. \A k \in 1..Len(s) : s[k].whole /\ Genuine(s[k].record, k)
    BY <1>1, <1>2 DEF JournalInv, Recorded
  <2>3. \A i, j \in 1..Len(s) :
            s[i].record.kind = "WORKFLOW_PLANNED" /\ s[j].record.kind = "WORKFLOW_PLANNED" => i = j
    BY <1>1, <1>2 DEF JournalInv, Recorded
  <2> QED
    BY <2>1, <2>2, <2>3, GenuineLoads
<1>4. LoadEvents(s).events = evs
  <2>1. [k \in 1..Len(evs) |-> s[k].record] = [k \in 1..Len(evs) |-> evs[k]]
    BY <1>1
  <2>2. evs = [k \in 1..Len(evs) |-> evs[k]]
    BY <1>0
  <2> QED
    BY <1>1, <1>3, <2>1, <2>2
<1>5. ASSUME evs # <<>>, evs[1].kind = "RUN_CREATED"
      PROVE  Replay(s) = ReduceAll("written", evs)
  <2>1. Head(evs) = evs[1] /\ 1 \in 1..Len(evs)
    BY <1>0, <1>5
  <2>2. Has(evs[1], "run_id") /\ evs[1].body["run_id"] = "written"
    <3>1. Genuine(evs[1], 1)
      BY <1>2, <2>1 DEF JournalInv, Recorded
    <3> QED
      BY <1>5, <3>1 DEF Genuine, Written, Fields, Has
  <2>3. Begins(evs)
    BY <1>5, <2>1, <2>2 DEF Begins
  <2> QED
    BY <1>3, <1>4, <2>1, <2>2, <2>3 DEF Replay
<1>6. ASSUME ~(evs # <<>> /\ evs[1].kind = "RUN_CREATED")
      PROVE  ~Replay(s).valid
  <2>1. ~Begins(evs)
    BY <1>0, <1>6 DEF Begins
  <2>2. Replay(s) = Refused
    BY <1>4, <2>1 DEF Replay
  <2> QED
    BY <2>2 DEF Refused, Idle
<1> QED
  BY <1>1, <1>5, <1>6 DEF s

LEMMA HistoryIs ==
  ASSUME TypeOK
  PROVE  /\ History \in Seq(Record) /\ Len(History) \in Nat /\ DOMAIN History = 1..Len(History)
         /\ state.events \in Seq(Record) /\ Len(state.events) \in Nat
         /\ writing = Nothing => History = state.events
         /\ writing # Nothing => /\ Head(writing) \in Record /\ writing = <<Head(writing)>>
                                 /\ History = Append(state.events, Head(writing))
<1>1. state.events \in Seq(Record) /\ writing \in Seq(Record) /\ Len(writing) <= 1
  BY DEF TypeOK, RunState
<1>2. CASE writing = Nothing
  BY <1>1, <1>2 DEF History, Nothing
<1>3. CASE writing # Nothing
  <2>1. Len(writing) = 1 /\ Head(writing) = writing[1] /\ writing[1] \in Record
    <3> DEFINE W == writing
    <3>1. W \in Seq(Record) /\ Len(W) <= 1 /\ W # <<>>
      BY <1>1, <1>3 DEF Nothing
    <3> HIDE DEF W
    <3>2. Len(W) \in Nat /\ Len(W) # 0 /\ Head(W) = W[1]
      BY <3>1
    <3>3. W[1] \in Record
      BY <3>1, <3>2
    <3>4. Len(W) = 1
      BY <3>1, <3>2
    <3> QED
      BY <3>2, <3>3, <3>4 DEF W
  <2>2. writing = <<writing[1]>>
    <3> DEFINE W == writing
    <3>1. W \in Seq(Record) /\ Len(W) = 1
      BY <1>1, <2>1
    <3> HIDE DEF W
    <3>2. W = <<W[1]>>
      BY <3>1
    <3> QED
      BY <3>2 DEF W
  <2>3. History = state.events \o <<writing[1]>>
    BY <2>2 DEF History
  <2>4. History = Append(state.events, writing[1])
    <3> DEFINE E == state.events
               w == writing[1]
    <3>1. E \in Seq(Record) /\ w \in Record /\ History = E \o <<w>>
      BY <1>1, <2>1, <2>3
    <3> HIDE DEF E, w
    <3>2. E \o <<w>> = Append(E, w)
      BY <3>1
    <3> QED
      BY <3>1, <3>2 DEF E, w
  <2>5. Append(state.events, writing[1]) \in Seq(Record)
    BY <1>1, <2>1
  <2> QED
    BY <1>1, <1>3, <2>1, <2>2, <2>4, <2>5
<1> QED
  BY <1>1, <1>2, <1>3

LEMMA ReplayFollows ==
  ASSUME JournalInv
  PROVE  ReplayRebuilds
<1> DEFINE cut   == \E i \in DOMAIN file : ~file[i].whole
           begun == file # <<>> /\ Head(file).record.kind = "RUN_CREATED"
           Goal  == /\ Replay(file).valid <=> begun /\ ~cut
                    /\ Replay(file).valid =>
                         \/ Replay(file) = state
                         \/ writing # Nothing /\ Replay(file) = Reduce(state, Head(writing))
<1>1. SUFFICES ASSUME damage = 0 PROVE Goal
  BY DEF ReplayRebuilds
<1>2. TypeOK /\ Undamaged /\ Recorded /\ Reduced
  BY <1>1 DEF JournalInv, Kept
<1>3. file \in Seq(LineOf(EventOf(Bodies))) /\ Len(file) \in Nat /\ DOMAIN file = 1..Len(file)
  BY <1>2, RecordsTyped DEF TypeOK
\* A file that holds the beginning of the history.
<1>4. ASSUME NEW evs \in Seq(Record), file = Lines(evs), Len(evs) <= Len(History),
             \A k \in 1..Len(evs) : evs[k] = History[k],
             ReduceAll("written", evs).valid,
             \/ ReduceAll("written", evs) = state
             \/ writing # Nothing /\ ReduceAll("written", evs) = Reduce(state, Head(writing))
      PROVE  Goal
  <2>1. /\ Replay(file).valid <=> evs # <<>> /\ evs[1].kind = "RUN_CREATED"
        /\ Replay(file).valid => Replay(file) = ReduceAll("written", evs)
        /\ Len(file) = Len(evs)
    BY <1>4, ReplayWritten
  <2>2. ~cut /\ (begun <=> evs # <<>> /\ evs[1].kind = "RUN_CREATED")
    <3>1. \A k \in 1..Len(evs) : file[k].whole /\ file[k].record = evs[k]
      BY <1>4 DEF Lines
    <3>2. file # <<>> <=> evs # <<>>
      BY <1>3, <2>1
    <3>3. file # <<>> => Head(file) = file[1] /\ 1 \in 1..Len(evs)
      BY <1>3, <2>1
    <3> QED
      BY <1>3, <2>1, <3>1, <3>2, <3>3
  <2> QED
    BY <1>4, <2>1, <2>2
<1>5. ReduceAll("written", state.events) = state /\ state.valid
  BY <1>2 DEF Reduced
<1>6. writing # Nothing =>
        /\ ReduceAll("written", History) = Reduce(state, Head(writing))
        /\ Reduce(state, Head(writing)).valid
  <2>1. SUFFICES ASSUME writing # Nothing
                 PROVE  /\ ReduceAll("written", History) = Reduce(state, Head(writing))
                        /\ Reduce(state, Head(writing)).valid
    OBVIOUS
  <2>2. /\ Head(writing) \in Record /\ History = Append(state.events, Head(writing))
        /\ state.events \in Seq(Record)
    BY <1>2, <2>1, HistoryIs
  <2>3. ReduceAll("written", History) = Reduce(state, Head(writing))
    BY <1>5, <2>2, ReduceOneMore
  <2>4. Reducible(state, Head(writing)) /\ state \in StateOf(Bodies, Texts) /\ Head(writing) \in EventOf(Bodies)
    BY <1>2, <2>1, <2>2, RecordsTyped DEF Reduced, TypeOK
  <2>5. Advanced(Reduce(state, Head(writing)), state, Head(writing))
    BY <2>4, ReduceDoes
  <2> QED
    BY <2>3, <2>4, <2>5 DEF Advanced
<1>7. CASE file = Lines(History)
  <2>1. History \in Seq(Record) /\ Len(History) \in Nat
    BY <1>2, HistoryIs
  <2>2. CASE writing = Nothing
    <3>1. History = state.events
      BY <1>2, <2>2, HistoryIs
    <3> HIDE DEF Goal
    <3> QED
      BY <1>4, <1>5, <1>7, <2>1, <3>1
  <2>3. CASE writing # Nothing
    <3> HIDE DEF Goal
    <3> QED
      BY <1>4, <1>6, <1>7, <2>1, <2>3
  <2> QED
    BY <2>2, <2>3
<1>8. CASE writing # Nothing /\ file = Lines(state.events)
  <2>1. /\ state.events \in Seq(Record) /\ Len(state.events) <= Len(History)
        /\ \A k \in 1..Len(state.events) : state.events[k] = History[k]
    BY <1>2, <1>8, HistoryIs
  <2> HIDE DEF Goal
  <2> QED
    BY <1>4, <1>5, <1>8, <2>1
<1>9. CASE writing # Nothing /\ file = [Lines(History) EXCEPT ![Len(History)].whole = FALSE]
  <2>1. History \in Seq(Record) /\ Len(History) \in Nat /\ Len(History) > 0
    BY <1>2, <1>9, HistoryIs
  <2>2. Len(History) \in DOMAIN file /\ ~file[Len(History)].whole
    BY <1>9, <2>1 DEF Lines
  <2>3. ~Replay(file).valid
    BY <1>3, <2>2, ReplaySound DEF ReplayedLine
  <2> QED
    BY <2>2, <2>3
<1> QED
  BY <1>2, <1>7, <1>8, <1>9 DEF Undamaged

--------------------------------------------------------------------------------
(* The invariant: the first state and the writer's steps.                  *)

LEMMA InvInit ==
  ASSUME Init
  PROVE  JournalInv
<1>1. TypeOK
  <2>1. "written" \in Texts
    BY DEF Texts
  <2>2. state \in RunState
    BY <2>1 DEF Init, RunState, Idle, Ending
  <2> QED
    BY <2>2, JournalAssumption DEF Init, TypeOK, Nothing
<1>2. History = <<>>
  BY DEF Init, History, Idle, Nothing
<1>3. Recorded
  BY <1>2 DEF Init, Recorded, Idle, Nothing
<1>4. Reduced
  BY ReduceNone DEF Init, Reduced, Idle, Nothing
<1>5. Kept
  BY <1>2 DEF Init, Kept, Undamaged, Lines, Numbered
<1> QED
  BY <1>1, <1>3, <1>4, <1>5 DEF JournalInv

\* Nothing of what the runtimes write changes with the file.
LEMMA TypesKept ==
  ASSUME runtime' = runtime
  PROVE  /\ Record' = Record /\ Line' = Line /\ RunState' = RunState
         /\ \A e, k : Genuine(e, k)' <=> Genuine(e, k)
<1>1. Bodies' = Bodies
  BY DEF Bodies
<1>2. Record' = Record
  BY <1>1 DEF Record
<1> QED
  BY <1>2 DEF Line, RunState, Genuine

LEMMA EventTyped ==
  ASSUME TypeOK, Reduced, NEW kind \in Kinds
  PROVE  /\ Event(kind) \in Record /\ Event(kind).kind = kind
         /\ Genuine(Event(kind), Len(state.events) + 1)
<1>1. /\ state.seq \in Int /\ state.run = "written" /\ state.seq + 1 = Len(state.events)
      /\ runtime \in {"fixed", "automatic", "plain"}
  BY JournalAssumption DEF TypeOK, RunState, Reduced
<1>2. "written" \in Texts /\ Written(runtime, kind) \in [Fields(runtime, kind) -> Texts]
  BY DEF Written, Texts
<1>3. Written(runtime, kind) \in Bodies
  <2>1. Fields(runtime, kind) \in SUBSET Names
    BY <1>1 DEF Names
  <2> QED
    BY <1>2, <2>1 DEF Bodies
<1>4. Event(kind) \in Record
  <2> DEFINE b == Written(runtime, kind)
             q == state.seq + 1
  <2>1. Event(kind) = [seq |-> q, run |-> "written", version |-> "written", kind |-> kind, body |-> b]
    BY <1>1 DEF Event
  <2>2. q \in Int /\ b \in Bodies
    BY <1>1, <1>3
  <2> HIDE DEF q, b
  <2> QED
    BY <1>2, <2>1, <2>2 DEF Record
<1> QED
  BY <1>1, <1>4 DEF Event, Genuine

LEMMA InvAppend ==
  ASSUME JournalInv, NEW kind \in Kinds, AppendRecord(kind)
  PROVE  JournalInv'
<1> DEFINE e == Event(kind)
           n == Len(state.events)
           row == [whole |-> TRUE, record |-> e]
<1>1. /\ alive /\ writing = Nothing /\ May(kind) /\ Reducible(state, e)
      /\ file' = Append(file, row) /\ writing' = <<e>>
      /\ runtime' = runtime /\ state' = state /\ alive' = alive /\ damage' = damage
      /\ TypeOK /\ Recorded /\ Reduced /\ Kept
  BY DEF AppendRecord, JournalInv
<1>2. e \in Record /\ e.kind = kind /\ Genuine(e, n + 1)
  BY <1>1, EventTyped
<1>3. Record' = Record /\ Line' = Line /\ RunState' = RunState /\ \A x, k : Genuine(x, k)' <=> Genuine(x, k)
  BY <1>1, TypesKept
<1> HIDE DEF e
<1>4. /\ History = state.events /\ state.events \in Seq(Record) /\ n \in Nat
      /\ History' = Append(History, e) /\ n = Len(History)
  <2>1. History = state.events /\ state.events \in Seq(Record) /\ n \in Nat
    BY <1>1, HistoryIs
  <2>2. History' = state.events \o <<e>>
    BY <1>1 DEF History
  <2>3. state.events \o <<e>> = Append(state.events, e)
    <3> DEFINE E == state.events
    <3>1. E \in Seq(Record) /\ e \in Record
      BY <1>2, <2>1
    <3> HIDE DEF E
    <3>2. E \o <<e>> = Append(E, e)
      BY <3>1
    <3> QED
      BY <3>2 DEF E
  <2> QED
    BY <2>1, <2>2, <2>3
<1>5. TypeOK'
  <2>1. row \in Line
    BY <1>2 DEF Line
  <2>2. file' \in Seq(Line)
    BY <1>1, <2>1 DEF TypeOK
  <2>3. writing' \in Seq(Record) /\ Len(writing') <= 1
    BY <1>1, <1>2
  <2> QED
    BY <1>1, <1>3, <2>2, <2>3 DEF TypeOK
<1>6. /\ DOMAIN History' = 1..(n + 1) /\ History'[n + 1] = e
      /\ \A k \in 1..n : History'[k] = History[k]
      /\ DOMAIN History = 1..n
  <2> DEFINE H == History
  <2>1. H \in Seq(Record) /\ n = Len(H) /\ History' = Append(H, e)
    BY <1>4
  <2> HIDE DEF H
  <2>2. /\ DOMAIN Append(H, e) = 1..(n + 1) /\ Append(H, e)[n + 1] = e
        /\ \A k \in 1..n : Append(H, e)[k] = H[k]
        /\ DOMAIN H = 1..n
    BY <1>2, <1>4, <2>1
  <2> QED
    BY <2>1, <2>2 DEF H
<1>7. kind = "WORKFLOW_PLANNED" => \A k \in 1..n : History[k].kind # "WORKFLOW_PLANNED"
  BY <1>1, <1>2, <1>4, <1>6 DEF Reducible, Recorded
<1>8. kind = "RUN_CREATED" => n = 0
  BY <1>1, <1>4 DEF May, Recorded
<1>9. state.status = "idle" => kind \in {"RUN_CREATED", "RUN_CANCELLED"}
  <2>1. state.status = "idle" => ~state.planned
    BY <1>1 DEF Recorded
  <2> QED
    BY <1>1, <2>1 DEF May
<1>10. Recorded'
  <2>1. \A k \in DOMAIN History' : Genuine(History'[k], k)
    BY <1>1, <1>2, <1>4, <1>6 DEF Recorded
  <2>2. \A i, j \in DOMAIN History' :
           History'[i].kind = "WORKFLOW_PLANNED" /\ History'[j].kind = "WORKFLOW_PLANNED" => i = j
    <3>1. ASSUME NEW i \in 1..(n + 1), NEW j \in 1..(n + 1),
                 History'[i].kind = "WORKFLOW_PLANNED", History'[j].kind = "WORKFLOW_PLANNED"
          PROVE  i = j
      <4>1. CASE i \in 1..n /\ j \in 1..n
        BY <1>1, <1>6, <3>1, <4>1 DEF Recorded
      <4>2. i = n + 1 /\ j \in 1..n => FALSE
        BY <1>2, <1>6, <1>7, <3>1
      <4>3. j = n + 1 /\ i \in 1..n => FALSE
        BY <1>2, <1>6, <1>7, <3>1
      <4>4. (i \in 1..n \/ i = n + 1) /\ (j \in 1..n \/ j = n + 1)
        BY <1>4
      <4> QED
        BY <4>1, <4>2, <4>3, <4>4
    <3> QED
      BY <1>6, <3>1
  <2>3. \A i \in DOMAIN History' : History'[i].kind = "RUN_CREATED" => i = 1
    BY <1>1, <1>2, <1>4, <1>6, <1>8 DEF Recorded
  <2>4. Head(writing') = e
    BY <1>1
  <2> QED
    BY <1>1, <1>2, <1>3, <1>9, <2>1, <2>2, <2>3, <2>4 DEF Recorded
<1>11. Reduced'
  <2>1. Head(writing') = e
    BY <1>1
  <2>2. state.valid /\ state.run = "written" /\ state.seq + 1 = n /\ state = ReduceAll("written", state.events)
    BY <1>1 DEF Reduced
  <2> QED
    BY <1>1, <2>1, <2>2 DEF Reduced
<1>12. file' = Lines(History') /\ Numbered'
  <2>1. file = Lines(History) /\ damage = 0
    BY <1>1 DEF Kept, Undamaged
  <2>2. file \in Seq(Line) /\ Len(file) = n /\ row \in Line
    <3>1. Len(Lines(History)) = n
      BY <1>4 DEF Lines
    <3> QED
      BY <1>1, <1>2, <2>1, <3>1 DEF TypeOK, Line
  <2>3. /\ DOMAIN file' = 1..(n + 1) /\ file'[n + 1] = row
        /\ \A k \in 1..n : file'[k] = file[k]
    BY <1>1, <1>4, <2>2
  <2>4. \A k \in 1..n : file[k] = [whole |-> TRUE, record |-> History[k]]
    BY <1>4, <2>1 DEF Lines
  <2>5. \A k \in 1..(n + 1) : file'[k] = [whole |-> TRUE, record |-> History'[k]]
    <3>1. ASSUME NEW k \in 1..n PROVE file'[k] = [whole |-> TRUE, record |-> History'[k]]
      BY <1>6, <2>3, <2>4
    <3>2. file'[n + 1] = [whole |-> TRUE, record |-> History'[n + 1]]
      BY <1>6, <2>3
    <3>3. \A k \in 1..(n + 1) : k \in 1..n \/ k = n + 1
      BY <1>4
    <3> QED
      BY <3>1, <3>2, <3>3
  <2>6. file' = [k \in 1..(n + 1) |-> [whole |-> TRUE, record |-> History'[k]]]
    <3>1. file' = [k \in 1..(n + 1) |-> file'[k]]
      <4>1. file' \in Seq(Line) /\ Len(file') = n + 1
        BY <1>1, <1>4, <2>2
      <4> QED
        BY <4>1
    <3> QED
      BY <2>5, <3>1
  <2>7. Len(History') = n + 1
    BY <1>2, <1>4
  <2>8. file' = Lines(History')
    BY <2>6, <2>7 DEF Lines
  <2>9. ASSUME NEW k \in DOMAIN file'
        PROVE  /\ file'[k].record.seq + 1 \in DOMAIN History'
               /\ Altered(file'[k].record, History'[file'[k].record.seq + 1])
    <3>1. k \in DOMAIN History' /\ file'[k].record = History'[k]
      <4>1. k \in 1..(n + 1)
        BY <2>3
      <4>2. file'[k] = [whole |-> TRUE, record |-> History'[k]]
        BY <2>5, <4>1
      <4> QED
        BY <1>6, <4>1, <4>2
    <3>2. Genuine(History'[k], k)
      BY <1>3, <1>10, <3>1 DEF Recorded
    <3>3. History'[k].seq + 1 = k
      BY <1>4, <1>6, <3>1, <3>2 DEF Genuine
    <3> QED
      BY <3>1, <3>3 DEF Altered
  <2> QED
    BY <2>8, <2>9 DEF Numbered
<1>13. Kept'
  BY <1>1, <1>12 DEF Kept, Undamaged
<1> QED
  BY <1>5, <1>10, <1>11, <1>13 DEF JournalInv

LEMMA InvPublish ==
  ASSUME JournalInv, Publish
  PROVE  JournalInv'
<1> DEFINE e == Head(writing)
           n == Len(state.events)
<1>1. /\ alive /\ writing # Nothing /\ state' = Reduce(state, e) /\ writing' = Nothing
      /\ runtime' = runtime /\ file' = file /\ alive' = alive /\ damage' = damage
      /\ TypeOK /\ Recorded /\ Reduced /\ Kept
  BY DEF Publish, JournalInv
<1>2. Record' = Record /\ Line' = Line /\ RunState' = RunState /\ \A x, k : Genuine(x, k)' <=> Genuine(x, k)
  BY <1>1, TypesKept
<1>3. /\ e \in Record /\ History = Append(state.events, e) /\ state.events \in Seq(Record) /\ n \in Nat
      /\ History \in Seq(Record) /\ DOMAIN History = 1..Len(History)
  BY <1>1, HistoryIs
<1>4. Reducible(state, e) /\ state.valid /\ state.run = "written" /\ state.seq + 1 = n
  BY <1>1, <1>3 DEF Reduced
<1>5. state' \in RunState /\ Advanced(state', state, e)
  <2>1. state \in StateOf(Bodies, Texts) /\ e \in EventOf(Bodies)
    BY <1>1, <1>3, RecordsTyped DEF TypeOK
  <2> QED
    BY <1>1, <2>1, ReduceDoes, RecordsTyped
<1>6. /\ state'.valid /\ state'.run = "written" /\ state'.events = Append(state.events, e)
      /\ state'.seq = e.seq /\ (state'.planned <=> state.planned \/ e.kind = "WORKFLOW_PLANNED")
  BY <1>4, <1>5 DEF Advanced
<1>7. History' = History
  <2>1. History' = state'.events
    <3>1. state'.events \in Seq(Record)
      BY <1>5 DEF RunState
    <3> DEFINE E == state'.events
    <3>2. E \o <<>> = E
      <4> HIDE DEF E
      <4>1. E \in Seq(Record)
        BY <3>1 DEF E
      <4> QED
        BY <4>1
    <3> QED
      BY <1>1, <3>2 DEF History, Nothing
  <2> QED
    BY <1>3, <1>6, <2>1
<1>8. TypeOK'
  <2>1. Nothing \in Seq(Record) /\ Len(Nothing) <= 1
    BY DEF Nothing
  <2> QED
    BY <1>1, <1>2, <1>5, <2>1 DEF TypeOK
<1>9. state'.planned <=> \E i \in DOMAIN state'.events : state'.events[i].kind = "WORKFLOW_PLANNED"
  <2> DEFINE E == state.events
             T == Append(E, e)
  <2>1. E \in Seq(Record)
    BY <1>3
  <2>2. state.planned <=> \E i \in DOMAIN E : E[i].kind = "WORKFLOW_PLANNED"
    BY <1>1 DEF Recorded
  <2>3. T = state'.events
    BY <1>6
  <2> HIDE DEF E
  <2>4. /\ DOMAIN E = 1..Len(E) /\ DOMAIN T = 1..(Len(E) + 1) /\ Len(E) \in Nat
        /\ \A i \in 1..Len(E) : T[i] = E[i]
        /\ T[Len(E) + 1] = e
    BY <1>3, <2>1
  <2> HIDE DEF T
  <2>5. state.planned \/ e.kind = "WORKFLOW_PLANNED" <=> \E i \in DOMAIN T : T[i].kind = "WORKFLOW_PLANNED"
    <3>1. ASSUME state.planned PROVE \E i \in DOMAIN T : T[i].kind = "WORKFLOW_PLANNED"
      BY <2>2, <2>4, <3>1
    <3>2. ASSUME e.kind = "WORKFLOW_PLANNED" PROVE \E i \in DOMAIN T : T[i].kind = "WORKFLOW_PLANNED"
      BY <2>4, <3>2
    <3>3. ASSUME NEW i \in DOMAIN T, T[i].kind = "WORKFLOW_PLANNED"
          PROVE  state.planned \/ e.kind = "WORKFLOW_PLANNED"
      <4>1. i \in 1..Len(E) \/ i = Len(E) + 1
        BY <2>4
      <4> QED
        BY <2>2, <2>4, <3>3, <4>1
    <3> QED
      BY <3>1, <3>2, <3>3
  <2> QED
    BY <1>6, <2>3, <2>5
<1>10. state'.status # "idle"
  <2>1. state' = [state EXCEPT !.status = StatusAfter(@, e.kind), !.seq = e.seq, !.events = Append(@, e),
                               !.planned = @ \/ e.kind = "WORKFLOW_PLANNED"]
    BY <1>1, <1>4 DEF Reduce
  <2>2. state'.status = StatusAfter(state.status, e.kind)
    BY <1>1, <2>1 DEF TypeOK, RunState
  <2>3. state.status = "idle" => e.kind \in {"RUN_CREATED", "RUN_CANCELLED"}
    BY <1>1 DEF Recorded
  <2> QED
    BY <2>2, <2>3 DEF StatusAfter
<1>11. Recorded'
  BY <1>1, <1>2, <1>7, <1>9, <1>10 DEF Recorded
<1>12. Reduced'
  <2>1. state = ReduceAll("written", state.events)
    BY <1>1 DEF Reduced
  <2>2. ReduceAll("written", Append(state.events, e)) = state'
    BY <1>1, <1>3, <2>1, ReduceOneMore
  <2>3. Genuine(History[n + 1], n + 1) /\ History[n + 1] = e /\ Len(Append(state.events, e)) = n + 1
    <3> DEFINE E == state.events
    <3>1. E \in Seq(Record) /\ e \in Record
      BY <1>3
    <3> HIDE DEF E, e
    <3>2. /\ Append(E, e)[Len(E) + 1] = e /\ Len(Append(E, e)) = Len(E) + 1
          /\ Len(E) + 1 \in DOMAIN Append(E, e)
      BY <3>1
    <3> QED
      BY <1>1, <1>3, <3>2 DEF Recorded, E
  <2>4. e.seq = n
    BY <1>3, <2>3 DEF Genuine
  <2> QED
    BY <1>1, <1>6, <2>2, <2>3, <2>4 DEF Reduced
<1>13. Kept'
  BY <1>1, <1>7 DEF Kept, Undamaged, Numbered, InPlace
<1> QED
  BY <1>8, <1>11, <1>12, <1>13 DEF JournalInv

--------------------------------------------------------------------------------
(* The invariant: death and damage.                                        *)

\* With the writer at rest, its part of the invariant stays.
LEMMA AtRest ==
  ASSUME JournalInv, UNCHANGED <<runtime, state, writing>>
  PROVE  /\ Recorded' /\ Reduced' /\ History' = History
         /\ alive' \in BOOLEAN /\ damage' \in 0..MaxDamage /\ file' \in Seq(Line) => TypeOK'
<1>1. Record' = Record /\ Line' = Line /\ RunState' = RunState /\ \A x, k : Genuine(x, k)' <=> Genuine(x, k)
  BY TypesKept
<1>2. History' = History
  BY DEF History
<1> QED
  BY <1>1, <1>2 DEF JournalInv, TypeOK, Recorded, Reduced

LEMMA InvClose ==
  ASSUME JournalInv, Close
  PROVE  JournalInv'
<1>1. /\ UNCHANGED <<runtime, file, state, writing, damage>> /\ alive' = FALSE /\ alive
      /\ TypeOK /\ Kept
  BY DEF Close, JournalInv
<1>2. Recorded' /\ Reduced' /\ History' = History /\ TypeOK'
  BY <1>1, AtRest DEF TypeOK
<1>3. Kept'
  BY <1>1, <1>2 DEF Kept, Undamaged, Numbered, InPlace
<1> QED
  BY <1>2, <1>3 DEF JournalInv

\* Every line of t is one of s.
From(t, s) == \A j \in 1..Len(t) : \E i \in 1..Len(s) : t[j] = s[i]

LEMMA Slice ==
  ASSUME NEW X, NEW s \in Seq(X), NEW m \in Nat \ {0}, NEW n \in Int, n <= Len(s)
  PROVE  SubSeq(s, m, n) \in Seq(X) /\ From(SubSeq(s, m, n), s)
<1>1. \A i \in m..n : s[i] \in X /\ i \in 1..Len(s)
  OBVIOUS
<1>2. /\ SubSeq(s, m, n) \in Seq(X)
      /\ Len(SubSeq(s, m, n)) = IF m <= n THEN n - m + 1 ELSE 0
      /\ \A i \in 1..(n - m + 1) : SubSeq(s, m, n)[i] = s[m + i - 1]
  BY <1>1, SubSeqProperties
<1>3. ASSUME NEW j \in 1..Len(SubSeq(s, m, n))
      PROVE  \E i \in 1..Len(s) : SubSeq(s, m, n)[j] = s[i]
  <2>1. j \in 1..(n - m + 1) /\ m + j - 1 \in 1..Len(s)
    BY <1>2
  <2> QED
    BY <1>2, <2>1
<1> QED
  BY <1>2, <1>3 DEF From

LEMMA Joined ==
  ASSUME NEW X, NEW s \in Seq(X), NEW t \in Seq(X), NEW u \in Seq(X), From(t, s), From(u, s)
  PROVE  t \o u \in Seq(X) /\ From(t \o u, s)
<1>1. /\ t \o u \in Seq(X) /\ Len(t \o u) = Len(t) + Len(u) /\ Len(t) \in Nat /\ Len(u) \in Nat
      /\ \A i \in 1..(Len(t) + Len(u)) : (t \o u)[i] = IF i <= Len(t) THEN t[i] ELSE u[i - Len(t)]
  BY ConcatProperties
<1>2. ASSUME NEW j \in 1..Len(t \o u)
      PROVE  \E i \in 1..Len(s) : (t \o u)[j] = s[i]
  <2>1. CASE j <= Len(t)
    <3>1. j \in 1..Len(t) /\ (t \o u)[j] = t[j]
      BY <1>1, <2>1
    <3> QED
      BY <3>1 DEF From
  <2>2. CASE ~(j <= Len(t))
    <3>1. j - Len(t) \in 1..Len(u) /\ (t \o u)[j] = u[j - Len(t)]
      BY <1>1, <2>2
    <3> QED
      BY <3>1 DEF From
  <2> QED
    BY <2>1, <2>2
<1> QED
  BY <1>1, <1>2 DEF From

LEMMA InvDie ==
  ASSUME JournalInv, Die
  PROVE  JournalInv'
<1>1. /\ UNCHANGED <<runtime, state, writing, damage>> /\ alive' = FALSE /\ alive
      /\ TypeOK /\ Kept /\ damage = 0 /\ file = Lines(History) /\ Numbered
  BY DEF Die, JournalInv, Kept, Undamaged
<1>2. /\ History \in Seq(Record) /\ Len(History) \in Nat /\ file \in Seq(Line) /\ Len(file) = Len(History)
      /\ writing # Nothing => /\ History = Append(state.events, Head(writing)) /\ Head(writing) \in Record
                              /\ state.events \in Seq(Record)
  BY <1>1, HistoryIs DEF TypeOK, Lines
<1>3. CASE file' = file
  <2>1. Recorded' /\ Reduced' /\ History' = History /\ TypeOK'
    BY <1>1, <1>3, AtRest DEF TypeOK
  <2>2. Kept'
    BY <1>1, <1>3, <2>1 DEF Kept, Undamaged, Numbered
  <2> QED
    BY <2>1, <2>2 DEF JournalInv
<1>4. CASE writing # Nothing /\ file' = [file EXCEPT ![Len(file)].whole = FALSE]
  <2>1. /\ file' \in Seq(Line) /\ DOMAIN file' = DOMAIN file
        /\ \A k \in DOMAIN file : file'[k].record = file[k].record
    <3>1. [file[Len(file)] EXCEPT !.whole = FALSE] \in Line /\ Len(file) \in 1..Len(file)
      <4>1. Len(History) > 0
        BY <1>2, <1>4
      <4>2. Len(file) \in 1..Len(file) /\ file[Len(file)] \in Line
        BY <1>2, <4>1
      <4> QED
        BY <4>2 DEF Line
    <3>2. file' = [file EXCEPT ![Len(file)] = [file[Len(file)] EXCEPT !.whole = FALSE]]
      BY <1>4
    <3>3. [file[Len(file)] EXCEPT !.whole = FALSE].record = file[Len(file)].record
      BY <1>2, <3>1 DEF Line
    <3> QED
      BY <1>2, <3>1, <3>2, <3>3
  <2>2. Recorded' /\ Reduced' /\ History' = History /\ TypeOK'
    BY <1>1, <2>1, AtRest DEF TypeOK
  <2>3. file' = [Lines(History) EXCEPT ![Len(History)].whole = FALSE]
    BY <1>1, <1>2, <1>4
  <2>4. Undamaged'
    BY <1>1, <1>4, <2>2, <2>3 DEF Undamaged
  <2>5. Numbered'
    BY <1>1, <2>1, <2>2 DEF Numbered
  <2> QED
    BY <1>1, <2>2, <2>4, <2>5 DEF JournalInv, Kept
<1>5. CASE writing # Nothing /\ file' = Front(file)
  <2> DEFINE E == state.events
             n == Len(E)
  <2>1. E \in Seq(Record) /\ n \in Nat /\ Len(History) = n + 1 /\ \A k \in 1..n : History[k] = E[k]
    BY <1>2, <1>5
  <2>2. file' = SubSeq(file, 1, n)
    BY <1>2, <1>5, <2>1 DEF Front
  <2>3. /\ file' \in Seq(Line) /\ Len(file') = n /\ \A k \in 1..n : file'[k] = file[k]
    <3>1. \A k \in 1..n : file[k] \in Line
      BY <1>2, <2>1
    <3>2. /\ SubSeq(file, 1, n) \in Seq(Line) /\ Len(SubSeq(file, 1, n)) = IF 1 <= n THEN n - 1 + 1 ELSE 0
          /\ \A k \in 1..(n - 1 + 1) : SubSeq(file, 1, n)[k] = file[1 + k - 1]
      BY <2>1, <3>1, SubSeqProperties
    <3> HIDE DEF n
    <3> QED
      BY <2>1, <2>2, <3>2
  <2>4. Recorded' /\ Reduced' /\ History' = History /\ TypeOK'
    BY <1>1, <2>3, AtRest DEF TypeOK
  <2>5. \A k \in 1..n : file'[k] = [whole |-> TRUE, record |-> E[k]]
    <3>1. ASSUME NEW k \in 1..n PROVE file'[k] = [whole |-> TRUE, record |-> E[k]]
      <4>1. k \in 1..Len(History) /\ History[k] = E[k] /\ file'[k] = file[k]
        BY <2>1, <2>3
      <4> QED
        BY <1>1, <4>1 DEF Lines
    <3> QED
      BY <3>1
  <2>6. file' = Lines(E)
    <3>1. file' = [k \in 1..n |-> file'[k]]
      BY <2>1, <2>3
    <3> QED
      BY <2>5, <3>1 DEF Lines
  <2>7. Undamaged'
    BY <1>1, <1>5, <2>4, <2>6 DEF Undamaged
  <2>8. Numbered'
    <3>1. ASSUME NEW k \in DOMAIN file'
          PROVE  k \in DOMAIN file /\ file'[k].record = file[k].record
      BY <1>2, <2>1, <2>3
    <3> QED
      BY <1>1, <2>4, <3>1 DEF Numbered
  <2> QED
    BY <1>1, <2>4, <2>7, <2>8 DEF JournalInv, Kept
<1> QED
  BY <1>3, <1>4, <1>5 DEF Die

\* e is old, or old with its kind or one of its fields another.
Still(e, old) ==
  e \in Record /\ e.seq = old.seq /\ \A given : Altered(old, given) => Altered(e, given)

LEMMA BodySpoiled ==
  ASSUME NEW b \in Bodies, NEW c \in Spoiling(b)
  PROVE  c \in Bodies /\ DOMAIN c \subseteq DOMAIN b /\ \A g \in DOMAIN c : c[g] \in {b[g], g, "null"}
<1>1. PICK D \in SUBSET Names : b \in [D -> Texts]
  BY DEF Bodies
<1>2. \A f \in DOMAIN b : f \in Texts
  BY <1>1 DEF Texts
<1>3. "null" \in Texts
  BY DEF Texts
<1>4. ASSUME NEW f \in DOMAIN b, NEW v \in {f, "null"}, c = [b EXCEPT ![f] = v]
      PROVE  c \in [D -> Texts] /\ DOMAIN c \subseteq DOMAIN b /\ \A g \in DOMAIN c : c[g] \in {b[g], g, "null"}
  BY <1>1, <1>2, <1>3, <1>4
<1>5. ASSUME NEW f \in DOMAIN b, c = Restrict(b, DOMAIN b \ {f})
      PROVE  /\ c \in [D \ {f} -> Texts] /\ D \ {f} \in SUBSET Names
             /\ DOMAIN c \subseteq DOMAIN b /\ \A g \in DOMAIN c : c[g] \in {b[g], g, "null"}
  BY <1>1, <1>5 DEF Restrict
<1>6. CASE \E f \in DOMAIN b : c = [b EXCEPT ![f] = f]
  BY <1>4, <1>6 DEF Bodies
<1>7. CASE \E f \in DOMAIN b : c = [b EXCEPT ![f] = "null"]
  BY <1>4, <1>7 DEF Bodies
<1>8. CASE \E f \in DOMAIN b : c = Restrict(b, DOMAIN b \ {f})
  <2>1. PICK f \in DOMAIN b : c = Restrict(b, DOMAIN b \ {f})
    BY <1>8
  <2>2. c \in [D \ {f} -> Texts] /\ D \ {f} \in SUBSET Names
    BY <1>5, <2>1
  <2>3. c \in Bodies
    BY <2>2 DEF Bodies
  <2> QED
    BY <1>5, <2>1, <2>3
<1> QED
  BY <1>6, <1>7, <1>8 DEF Spoiling

LEMMA AlteringOne ==
  ASSUME NEW old \in Record
  PROVE  Still(old, old) /\ \A e \in Altering(old) : Still(e, old)
<1>1. Still(old, old)
  BY DEF Still
<1>2. ASSUME NEW run \in {"run", "null"} PROVE Still([old EXCEPT !.run = run], old)
  BY DEF Still, Altered, Record, Texts
<1>3. Still([old EXCEPT !.version = "version"], old)
  BY DEF Still, Altered, Record, Texts
<1>4. ASSUME NEW kind \in Kinds PROVE Still([old EXCEPT !.kind = kind], old)
  BY DEF Still, Altered, Record
<1>5. ASSUME NEW b \in Spoiling(old.body)
      PROVE  Still([old EXCEPT !.body = b], old)
  <2> DEFINE e == [old EXCEPT !.body = b]
  <2>1. /\ b \in Bodies /\ DOMAIN b \subseteq DOMAIN old.body
        /\ \A g \in DOMAIN b : b[g] \in {old.body[g], g, "null"}
    BY BodySpoiled DEF Record
  <2>2. e \in Record /\ e.seq = old.seq /\ e.run = old.run /\ e.body = b
    BY <2>1 DEF Record
  <2> HIDE DEF e
  <2>3. ASSUME NEW given, Altered(old, given) PROVE Altered(e, given)
    BY <2>1, <2>2, <2>3 DEF Altered
  <2> QED
    BY <2>2, <2>3 DEF Still, e
<1> QED
  BY <1>1, <1>2, <1>3, <1>4, <1>5 DEF Altering

LEMMA InvDamage ==
  ASSUME JournalInv, Damage
  PROVE  JournalInv'
<1>1. /\ UNCHANGED <<runtime, state, writing, alive>> /\ ~alive /\ damage < MaxDamage /\ damage' = damage + 1
      /\ TypeOK /\ Kept /\ damage \in 0..MaxDamage /\ alive \in BOOLEAN /\ MaxDamage \in Nat
      /\ file \in Seq(Line) /\ DOMAIN file = 1..Len(file) /\ Len(file) \in Nat
      /\ runtime \in {"fixed", "automatic", "plain"}
  BY JournalAssumption DEF Damage, JournalInv, TypeOK
<1>2. Numbered
  BY <1>1 DEF Kept
<1>3. \A i \in DOMAIN file : file[i] \in Line /\ file[i].record \in Record
  <2>1. ASSUME NEW i \in DOMAIN file PROVE file[i] \in Line
    BY <1>1
  <2> QED
    BY <2>1 DEF Line
<1>4. SUFFICES /\ file' \in Seq(Line)
               /\ \A j \in 1..Len(file') : \E i \in 1..Len(file) : Still(file'[j].record, file[i].record)
  <2>1. ASSUME /\ file' \in Seq(Line)
               /\ \A j \in 1..Len(file') : \E i \in 1..Len(file) : Still(file'[j].record, file[i].record)
        PROVE  JournalInv'
    <3>1. damage' \in 0..MaxDamage /\ damage' # 0
      BY <1>1
    <3>2. Recorded' /\ Reduced' /\ History' = History /\ TypeOK'
      BY <1>1, <2>1, <3>1, AtRest
    <3>3. Numbered'
      <4>1. ASSUME NEW j \in DOMAIN file'
            PROVE  /\ file'[j].record.seq + 1 \in DOMAIN History
                   /\ Altered(file'[j].record, History[file'[j].record.seq + 1])
        <5>1. DOMAIN file' = 1..Len(file')
          BY <2>1
        <5>2. PICK i \in 1..Len(file) : Still(file'[j].record, file[i].record)
          BY <2>1, <4>1, <5>1
        <5> QED
          BY <1>1, <1>2, <5>2 DEF Numbered, Still
      <4> QED
        BY <3>2, <4>1 DEF Numbered
    <3> QED
      BY <1>1, <3>1, <3>2, <3>3 DEF JournalInv, Kept
  <2> QED
    BY <2>1
\* The lines are those there were.
<1>5. ASSUME file' \in Seq(Line), From(file', file)
      PROVE  /\ file' \in Seq(Line)
             /\ \A j \in 1..Len(file') : \E i \in 1..Len(file) : Still(file'[j].record, file[i].record)
  <2>1. ASSUME NEW j \in 1..Len(file') PROVE \E i \in 1..Len(file) : Still(file'[j].record, file[i].record)
    <3>1. PICK i \in 1..Len(file) : file'[j] = file[i]
      BY <1>5 DEF From
    <3> QED
      BY <1>1, <1>3, <3>1, AlteringOne
  <2> QED
    BY <1>5, <2>1
\* One line is another one.
<1>6. ASSUME NEW i \in DOMAIN file, NEW line \in Line, file' = [file EXCEPT ![i] = line],
             Still(line.record, file[i].record)
      PROVE  /\ file' \in Seq(Line)
             /\ \A j \in 1..Len(file') : \E k \in 1..Len(file) : Still(file'[j].record, file[k].record)
  <2>1. file' \in Seq(Line) /\ Len(file') = Len(file)
    BY <1>1, <1>6
  <2>2. ASSUME NEW j \in 1..Len(file') PROVE Still(file'[j].record, file[j].record)
    <3>1. CASE j = i
      BY <1>1, <1>6, <3>1
    <3>2. CASE j # i
      <4>1. file'[j] = file[j] /\ j \in DOMAIN file
        BY <1>1, <1>6, <2>1, <3>2
      <4> QED
        BY <1>1, <1>3, <4>1, AlteringOne
    <3> QED
      BY <3>1, <3>2
  <2> QED
    BY <2>1, <2>2
<1>7. PICK i \in DOMAIN file :
        \/ file' \in {Losing(i), Doubling(i), Cutting(i)}
        \/ i < Len(file) /\ file' = Swapping(i)
        \/ \E e \in Altering(file[i].record) : file' = [file EXCEPT ![i].record = e]
  BY DEF Damage
<1>8. i \in 1..Len(file) /\ i \in Nat /\ file[i] \in Line /\ file[i].record \in Record
  BY <1>1, <1>3
<1>9. CASE file' = Losing(i)
  <2>1. /\ SubSeq(file, 1, i - 1) \in Seq(Line) /\ From(SubSeq(file, 1, i - 1), file)
        /\ SubSeq(file, i + 1, Len(file)) \in Seq(Line) /\ From(SubSeq(file, i + 1, Len(file)), file)
    BY <1>1, <1>8, Slice
  <2> QED
    BY <1>1, <1>5, <1>9, <2>1, Joined DEF Losing, RemoveAt
<1>10. CASE file' = Doubling(i)
  <2>1. /\ SubSeq(file, 1, i - 1) \in Seq(Line) /\ From(SubSeq(file, 1, i - 1), file)
        /\ SubSeq(file, i, Len(file)) \in Seq(Line) /\ From(SubSeq(file, i, Len(file)), file)
    BY <1>1, <1>8, Slice
  <2>2. <<file[i]>> \in Seq(Line) /\ From(<<file[i]>>, file)
    BY <1>8 DEF From
  <2>3. /\ SubSeq(file, 1, i - 1) \o <<file[i]>> \in Seq(Line)
        /\ From(SubSeq(file, 1, i - 1) \o <<file[i]>>, file)
    BY <1>1, <2>1, <2>2, Joined
  <2>4. file' = (SubSeq(file, 1, i - 1) \o <<file[i]>>) \o SubSeq(file, i, Len(file))
    BY <1>10 DEF Doubling, InsertAt
  <2> QED
    BY <1>1, <1>5, <2>1, <2>3, <2>4, Joined
<1>11. CASE file' = Cutting(i)
  <2>1. file' = [file EXCEPT ![i] = [file[i] EXCEPT !.whole = FALSE]]
    BY <1>11 DEF Cutting
  <2>2. [file[i] EXCEPT !.whole = FALSE] \in Line /\ [file[i] EXCEPT !.whole = FALSE].record = file[i].record
    BY <1>8 DEF Line
  <2> QED
    BY <1>1, <1>6, <1>8, <2>1, <2>2, AlteringOne
<1>12. CASE i < Len(file) /\ file' = Swapping(i)
  <2>1. /\ i + 1 \in 1..Len(file) /\ i + 1 # i /\ file[i + 1] \in Line
        /\ file' = [[file EXCEPT ![i] = file[i + 1]] EXCEPT ![i + 1] = file[i]]
    BY <1>1, <1>8, <1>12 DEF Swapping
  <2>2. /\ file' \in Seq(Line) /\ Len(file') = Len(file)
        /\ \A j \in 1..Len(file) : file'[j] = IF j = i + 1 THEN file[i] ELSE IF j = i THEN file[i + 1] ELSE file[j]
    BY <1>1, <1>8, <2>1
  <2>3. From(file', file)
    BY <1>8, <2>1, <2>2 DEF From
  <2> QED
    BY <1>5, <2>2, <2>3
<1>13. ASSUME NEW e \in Altering(file[i].record), file' = [file EXCEPT ![i].record = e]
       PROVE  /\ file' \in Seq(Line)
              /\ \A j \in 1..Len(file') : \E k \in 1..Len(file) : Still(file'[j].record, file[k].record)
  <2>1. Still(e, file[i].record)
    BY <1>8, <1>13, AlteringOne
  <2>2. [file[i] EXCEPT !.record = e] \in Line /\ [file[i] EXCEPT !.record = e].record = e
    BY <1>8, <2>1 DEF Line, Still
  <2>3. file' = [file EXCEPT ![i] = [file[i] EXCEPT !.record = e]]
    BY <1>13
  <2> QED
    BY <1>6, <1>8, <2>1, <2>2, <2>3
<1> QED
  BY <1>7, <1>9, <1>10, <1>11, <1>12, <1>13

LEMMA InvRenumber ==
  ASSUME JournalInv, Renumber
  PROVE  JournalInv'
<1>1. /\ UNCHANGED <<runtime, state, writing, alive>> /\ ~alive /\ damage = 0 /\ damage < MaxDamage
      /\ damage' = MaxDamage /\ TypeOK /\ Kept /\ Undamaged /\ alive \in BOOLEAN
      /\ MaxDamage \in Nat /\ MaxRecords \in Nat
      /\ file \in Seq(Line) /\ DOMAIN file = 1..Len(file) /\ Len(file) \in Nat
  BY JournalAssumption DEF Renumber, JournalInv, TypeOK, Kept
<1>2. PICK i \in DOMAIN file, n \in 0..MaxRecords : file' = [file EXCEPT ![i].record.seq = n]
  BY DEF Renumber
<1>3. ASSUME NEW k \in DOMAIN file PROVE k \in DOMAIN History /\ file[k].record = History[k]
  <2>1. History \in Seq(Record) /\ Len(History) \in Nat /\ DOMAIN History = 1..Len(History)
    BY <1>1, HistoryIs
  <2>2. CASE file = Lines(History)
    BY <2>1, <2>2 DEF Lines
  <2>3. CASE writing # Nothing /\ file = Lines(state.events)
    <3>1. /\ Len(state.events) \in Nat /\ Len(state.events) <= Len(History)
          /\ \A j \in 1..Len(state.events) : History[j] = state.events[j]
      <4> DEFINE E == state.events
                 e == Head(writing)
      <4>1. E \in Seq(Record) /\ e \in Record /\ History = Append(E, e)
        BY <1>1, <2>3, HistoryIs
      <4> HIDE DEF E, e
      <4>2. Len(E) \in Nat /\ Len(E) <= Len(Append(E, e)) /\ \A j \in 1..Len(E) : Append(E, e)[j] = E[j]
        BY <4>1
      <4> QED
        BY <4>1, <4>2 DEF E
    <3>2. k \in 1..Len(state.events) /\ file[k].record = state.events[k]
      BY <2>3 DEF Lines
    <3> QED
      BY <2>1, <3>1, <3>2
  <2>4. CASE file = [Lines(History) EXCEPT ![Len(History)].whole = FALSE]
    <3>1. k \in 1..Len(History) /\ file[k].record = Lines(History)[k].record
      BY <2>1, <2>4 DEF Lines
    <3> QED
      BY <2>1, <3>1 DEF Lines
  <2> QED
    BY <1>1, <2>2, <2>3, <2>4 DEF Undamaged
<1>4. /\ file' \in Seq(Line) /\ DOMAIN file' = DOMAIN file
      /\ \A k \in DOMAIN file : Altered(file'[k].record, file[k].record)
  <2> DEFINE old  == file[i].record
             new  == [old EXCEPT !.seq = n]
             line == [file[i] EXCEPT !.record = new]
  <2>1. file[i] \in Line /\ old \in Record
    <3>1. file[i] \in Line
      BY <1>1
    <3> QED
      BY <3>1 DEF Line
  <2>2. new \in Record /\ new.kind = old.kind /\ new.body = old.body /\ new.run = old.run
    BY <1>1, <2>1 DEF Record
  <2>3. line \in Line /\ line.record = new
    BY <2>1, <2>2 DEF Line
  <2>4. file' = [file EXCEPT ![i] = line]
    BY <1>2
  <2> HIDE DEF new, line, old
  <2>5. file' \in Seq(Line) /\ DOMAIN file' = DOMAIN file
    BY <1>1, <2>3, <2>4
  <2>6. ASSUME NEW k \in DOMAIN file PROVE Altered(file'[k].record, file[k].record)
    <3>1. CASE k = i
      BY <1>1, <2>2, <2>3, <2>4, <3>1 DEF Altered, old
    <3>2. CASE k # i
      BY <1>1, <2>4, <3>2 DEF Altered
    <3> QED
      BY <3>1, <3>2
  <2> QED
    BY <2>5, <2>6
<1>5. damage' \in 0..MaxDamage /\ damage' # 0
  BY <1>1
<1>6. Recorded' /\ Reduced' /\ History' = History /\ TypeOK'
  BY <1>1, <1>4, <1>5, AtRest
<1>7. InPlace'
  BY <1>3, <1>4, <1>6 DEF InPlace
<1> QED
  BY <1>1, <1>5, <1>6, <1>7 DEF JournalInv, Kept

--------------------------------------------------------------------------------
(* The theorems.                                                           *)

LEMMA InvStep ==
  ASSUME JournalInv, [Next]_vars
  PROVE  JournalInv'
<1>1. CASE \E kind \in Kinds : AppendRecord(kind)
  BY <1>1, InvAppend
<1>2. CASE Publish
  BY <1>2, InvPublish
<1>3. CASE Close
  BY <1>3, InvClose
<1>4. CASE Die
  BY <1>4, InvDie
<1>5. CASE Damage
  BY <1>5, InvDamage
<1>6. CASE Renumber
  BY <1>6, InvRenumber
<1>7. CASE UNCHANGED vars
  <2>1. UNCHANGED <<runtime, state, writing>> /\ file' = file /\ alive' = alive /\ damage' = damage
    BY <1>7 DEF vars
  <2>2. Recorded' /\ Reduced' /\ History' = History /\ TypeOK'
    BY <2>1, AtRest DEF JournalInv, TypeOK
  <2>3. Kept'
    BY <2>1, <2>2 DEF JournalInv, Kept, Undamaged, Numbered, InPlace
  <2> QED
    BY <2>2, <2>3 DEF JournalInv
<1> QED
  BY <1>1, <1>2, <1>3, <1>4, <1>5, <1>6, <1>7 DEF Next

\* What Journal.tla says of its variables in every state: the records of the run are
\* those its runtime wrote, in order (Recorded), the published state is what reducing
\* them gives (Reduced), and the file has kept them (Kept).
THEOREM Invariant == Spec => []JournalInv
<1>1. Init => JournalInv
  BY InvInit
<1>2. JournalInv /\ [Next]_vars => JournalInv'
  BY InvStep
<1> QED
  BY <1>1, <1>2, PTL DEF Spec

\* journal.py, load_events and replay, with reducer.py: whatever the runtime, a file that
\* nobody damaged replays to the state that was published, or to the next one when the
\* process died between the write and the assignment; a cut line, an empty file and a
\* run that was never created are refused.  For every bound on records and damage.
THEOREM ReplayAlwaysRebuilds == Spec => []ReplayRebuilds
<1>1. JournalInv => ReplayRebuilds
  BY ReplayFollows
<1> QED
  BY <1>1, Invariant, PTL

\* _IntegrityVerifier, with the reducer: however often lines are lost, doubled, cut, swapped
\* or exchanged for others, their kinds, fields set to null and fields removed included, or
\* a number is changed: what replays are records in their places and of one run, those the
\* verifier looks at read as they were recorded, and with no record exchanged it is the
\* beginning of the run.  For every bound on records and damages.
THEOREM DamageAlwaysShows == Spec => []DamageShows
<1>1. JournalInv => DamageShows
  BY DamageFollows
<1> QED
  BY <1>1, Invariant, PTL
================================================================================
