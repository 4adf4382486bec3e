--------------------------- MODULE RunControllerProofs --------------------------
(***************************************************************************)
(* The controller's journal and its lifecycle, for every set of failures,  *)
(* every bound and every runtime.                                          *)
(***************************************************************************)
EXTENDS RunController, SequenceTheorems, TLAPS

Kind == EventKind \cup {"INVALID"}

(* What a publication leaves typed, whatever its outcome.                  *)
LEMMA PublishTyped ==
  ASSUME TypeOK, NEW kind \in Kind, NEW outcome \in Outcomes(kind), Publish(kind, outcome)
  PROVE  /\ status' \in Status
         /\ last' \in Int
         /\ journal' \in Seq([seq : Int, kind : EventKind])
         /\ faults' \in 0..MaxFaults
<1>. USE ControllerAssumption DEF TypeOK, Publish, Kind
<1>1. kind \in EventKind \/ outcome = "refused"
  BY DEF Outcomes, Reducible
<1>2. status' \in Status
  BY DEF StatusAfter, Status, Ending, EventKind
<1>3. outcome \in Faults => faults < MaxFaults
  BY DEF Outcomes
<1>4. journal' \in Seq([seq : Int, kind : EventKind])
  <2>1. CASE kind \in EventKind
    <3>1. [seq |-> last + 1, kind |-> kind] \in [seq : Int, kind : EventKind]
      BY <2>1
    <3>2. Append(journal, [seq |-> last + 1, kind |-> kind]) \in Seq([seq : Int, kind : EventKind])
      BY <3>1, AppendProperties
    <3>. QED
      BY <3>2
  <2>2. CASE outcome = "refused"
    BY <2>2
  <2>. QED
    BY <1>1, <2>1, <2>2
<1>. QED
  BY <1>2, <1>3, <1>4

(* The type invariant and the gate: a draft is held exactly at the gate,    *)
(* and nobody waits at an open one.                                        *)
TypedGate == TypeOK /\ WaitsOnlyWhenClosed

LEMMA ConsumeTyped ==
  ASSUME TypeOK, NEW kind \in DraftKind, Consume(kind)
  PROVE  /\ status' \in Status
         /\ last' \in Int
         /\ journal' \in Seq([seq : Int, kind : EventKind])
         /\ faults' \in 0..MaxFaults
         /\ drive' \in {"stream", "unwinding"}
         /\ fate' \in {"none", "failed", "cancelled"}
<1>. kind \in Kind
  BY DEF Kind, EventKind, DraftKind
<1>1. CASE cancelled
  BY <1>1 DEF Consume, published, TypeOK
<1>2. CASE ~cancelled
  <2>1. PICK outcome \in Outcomes(kind) :
          /\ Publish(kind, outcome)
          /\ drive' = IF outcome = "ok" THEN "stream" ELSE "unwinding"
          /\ fate' = IF outcome = "ok" THEN fate ELSE "failed"
    BY <1>2 DEF Consume
  <2>. QED
    BY <2>1, PublishTyped DEF TypeOK
<1>. QED
  BY <1>1, <1>2

LEMMA KnownKinds ==
  /\ {"RUN_CREATED", "RUN_STARTED", "RUN_PAUSED", "RUN_RESUMED", "RUN_COMPLETED",
      "RUN_CANCELLED", "RUN_FAILED"} \subseteq Kind
  /\ DraftKind \subseteq Kind
BY DEF Kind, EventKind, DraftKind

LEMMA TypedGateStep == TypedGate /\ [Next]_vars => TypedGate'
<1>. SUFFICES ASSUME TypeOK, WaitsOnlyWhenClosed, [Next]_vars PROVE TypeOK' /\ WaitsOnlyWhenClosed'
  BY DEF TypedGate
<1>. USE ControllerAssumption, KnownKinds DEF TypeOK, DriveState, WaitsOnlyWhenClosed
<1>1. CASE Start
  BY <1>1, PublishTyped DEF Start
<1>2. CASE Pause
  <2>1. PICK outcome \in Outcomes("RUN_PAUSED") :
          Publish("RUN_PAUSED", outcome) /\ gate' = IF outcome = "ok" THEN FALSE ELSE gate
    BY <1>2 DEF Pause
  <2>2. /\ pauses' \in 0..MaxPauses
        /\ UNCHANGED <<closed, drive, held, fate, interrupt, cancelled, drafts, swallowed>>
    BY <1>2 DEF Pause
  <2>3. gate' \in BOOLEAN /\ (gate' => gate)
    BY <2>1
  <2>4. (drive' = "gate" => ~gate') /\ (held' # "none" <=> drive' \in {"gate", "woken"})
    BY <2>2, <2>3
  <2>. QED
    BY <2>1, <2>2, <2>3, <2>4, PublishTyped
<1>3. CASE Resume
  BY <1>3, PublishTyped DEF Resume, OpenGate
<1>4. CASE CancelUnstarted
  BY <1>4, PublishTyped DEF CancelUnstarted
<1>5. CASE Cancel
  BY <1>5 DEF Cancel, OpenGate, published
<1>6. CASE AbandonWait
  BY <1>6 DEF AbandonWait, published
<1>7. CASE NeverBegins
  BY <1>7 DEF NeverBegins, published
<1>8. CASE Begin
  BY <1>8, PublishTyped DEF Begin, Raise
<1>9. CASE PassGate
  BY <1>9, ConsumeTyped DEF PassGate
<1>10. CASE Interrupted
  BY <1>10 DEF Interrupted, published
<1>11. CASE Handle
  BY <1>11, PublishTyped DEF Handle
<1>12. ASSUME NEW kind \in DraftKind, DraftArrives(kind)
       PROVE TypeOK' /\ WaitsOnlyWhenClosed'
  <2>1. CASE gate
    <3>1. Consume(kind) /\ UNCHANGED <<held, closed, gate, interrupt, cancelled, pauses, swallowed>>
      BY <2>1, <1>12 DEF DraftArrives
    <3>2. drafts' \in 0..MaxDrafts /\ drive = "stream"
      BY <1>12 DEF DraftArrives
    <3>. QED
      BY <3>1, <3>2, <2>1, ConsumeTyped
  <2>2. CASE ~gate
    BY <2>2, <1>12 DEF DraftArrives, published, DraftKind
  <2>. QED
    BY <2>1, <2>2
<1>13. CASE StreamEnds
  BY <1>13, PublishTyped DEF StreamEnds, Raise, published
<1>14. CASE StreamRaises
  BY <1>14 DEF StreamRaises, Raise, published
<1>15. CASE Swallowed
  BY <1>15 DEF Swallowed, published
<1>16. CASE Unwound
  <2>1. /\ UNCHANGED <<status, last, journal, faults, gate, held, interrupt, cancelled, drafts, pauses, swallowed>>
        /\ drive = "unwinding"
    BY <1>16 DEF Unwound, published
  <2>2. drive' \in {"handler", "done"} /\ closed' \in BOOLEAN /\ fate' \in {"none", "failed", "cancelled"}
    BY <1>16 DEF Unwound, Raise
  <2>. QED
    BY <2>1, <2>2
<1>17. CASE UNCHANGED vars
  BY <1>17 DEF vars
<1>. QED
  BY <1>1, <1>2, <1>3, <1>4, <1>5, <1>6, <1>7, <1>8, <1>9, <1>10, <1>11, <1>12, <1>13,
     <1>14, <1>15, <1>16, <1>17 DEF Next, Operator, Drive, Runtime, Answers

LEMMA AlwaysTyped == Spec => []TypedGate
<1>1. Init => TypedGate
  <2>1. Init => TypeOK
    <3>1. Init => journal \in Seq([seq : Int, kind : EventKind])
      BY DEF Init
    <3>2. Init => drafts \in 0..MaxDrafts /\ pauses \in 0..MaxPauses /\ faults \in 0..MaxFaults
      BY ControllerAssumption DEF Init
    <3>3. Init => status \in Status /\ last \in Int /\ drive \in DriveState
                  /\ held \in DraftKind \cup {"none"} /\ fate \in {"none", "failed", "cancelled"}
      BY DEF Init, Status, DriveState
    <3>4. Init => closed \in BOOLEAN /\ gate \in BOOLEAN /\ interrupt \in BOOLEAN /\ cancelled \in BOOLEAN
                  /\ swallowed \in BOOLEAN
      BY DEF Init
    <3>. QED
      BY <3>1, <3>2, <3>3, <3>4 DEF TypeOK
  <2>2. Init => WaitsOnlyWhenClosed
    BY DEF Init, WaitsOnlyWhenClosed
  <2>. QED
    BY <2>1, <2>2 DEF TypedGate
<1>. QED
  BY <1>1, TypedGateStep, PTL DEF Spec

(* Every variable stays in its type whatever fails and whoever interrupts. *)
THEOREM TypeCorrect == Spec => []TypeOK
BY AlwaysTyped, PTL DEF TypedGate

(* A draft that arrives at a closed gate is held until the gate opens or   *)
(* the run is unwound: never lost, never held at an open gate.             *)
THEOREM DraftsHeld == Spec => []WaitsOnlyWhenClosed
BY AlwaysTyped, PTL DEF TypedGate

--------------------------------------------------------------------------------
(* The refinement of RunJournal.  Without "retained" faults the next       *)
(* sequence number is the number of records.                               *)
Counted == last = Len(journal) - 1

LEMMA PublishRecords ==
  ASSUME TypeOK, Counted, "retained" \notin Faults,
         NEW kind \in Kind, NEW outcome \in Outcomes(kind), Publish(kind, outcome)
  PROVE  /\ Counted'
         /\ Contract!Next \/ UNCHANGED <<journal, status>>
<1>. USE DEF Outcomes, Publish
<1>0. outcome # "retained"
  BY DEF Kind
<1>1. CASE outcome \in {"ok", "unseen"}
  <2>1. kind \in EventKind /\ status \notin Ending
    BY <1>1, ControllerAssumption DEF Kind, Reducible
  <2>2. journal' = Append(journal, [seq |-> last + 1, kind |-> kind]) /\ last' = last + 1
    BY <1>1
  <2>3. Len(journal) \in Nat /\ last + 1 = Len(journal)
    BY LenProperties DEF TypeOK, Counted
  <2>4. journal' = Append(journal, [seq |-> Len(journal), kind |-> kind])
    BY <2>2, <2>3
  <2>5. Len(journal') = Len(journal) + 1
    BY <2>2, AppendProperties, <2>1 DEF TypeOK
  <2>6. status' = StatusAfter(status, kind)
    BY <1>1
  <2>7. StatusAfter(status, kind) = Contract!StatusAfter(status, kind)
    BY DEF StatusAfter, Contract!StatusAfter
  <2>8. Contract!Record(kind)
    BY <2>1, <2>4, <2>6, <2>7 DEF Contract!Record, Ending, Contract!Ending
  <2>. QED
    BY <2>1, <2>2, <2>3, <2>5, <2>8 DEF Counted, Contract!Next, EventKind, Contract!EventKind
<1>2. CASE outcome \notin {"ok", "unseen"}
  BY <1>0, <1>2 DEF Counted
<1>. QED
  BY <1>1, <1>2

LEMMA StepRecords ==
  ASSUME TypedGate, Counted, "retained" \notin Faults, [Next]_vars
  PROVE  /\ Counted'
         /\ Contract!Next \/ UNCHANGED <<journal, status>>
<1>. USE KnownKinds DEF TypedGate
<1>1. UNCHANGED published => Counted' /\ UNCHANGED <<journal, status>>
  BY DEF published, Counted
<1>2. ASSUME NEW kind \in Kind, Consume(kind)
      PROVE Counted' /\ (Contract!Next \/ UNCHANGED <<journal, status>>)
  BY <1>1, <1>2, PublishRecords DEF Consume
<1>3. CASE Start
  BY <1>3, PublishRecords DEF Start
<1>4. CASE Pause
  BY <1>4, PublishRecords DEF Pause
<1>5. CASE Resume
  BY <1>5, PublishRecords DEF Resume
<1>6. CASE CancelUnstarted
  BY <1>6, PublishRecords DEF CancelUnstarted
<1>7. CASE Begin
  BY <1>7, PublishRecords DEF Begin
<1>8. CASE PassGate
  BY <1>2, <1>8 DEF PassGate, WaitsOnlyWhenClosed, TypeOK
<1>9. CASE Handle
  BY <1>9, PublishRecords DEF Handle
<1>10. ASSUME NEW kind \in DraftKind, DraftArrives(kind)
       PROVE Counted' /\ (Contract!Next \/ UNCHANGED <<journal, status>>)
  BY <1>1, <1>2, <1>10 DEF DraftArrives
<1>11. CASE StreamEnds
  BY <1>1, <1>11, PublishRecords DEF StreamEnds
<1>12. CASE Cancel \/ AbandonWait \/ NeverBegins \/ Interrupted \/ StreamRaises \/ Swallowed \/ Unwound
  BY <1>1, <1>12 DEF Cancel, AbandonWait, NeverBegins, Interrupted, StreamRaises, Swallowed, Unwound
<1>13. CASE UNCHANGED vars
  BY <1>1, <1>13 DEF vars, published
<1>. QED
  BY <1>3, <1>4, <1>5, <1>6, <1>7, <1>8, <1>9, <1>10, <1>11, <1>12, <1>13
     DEF Next, Operator, Drive, Runtime, Answers

(* Unless a record is left in the write buffer, the controller implements  *)
(* RunJournal: whatever the operator, the runtime, the subscribers and the *)
(* journal do, the file is gapless, append-only, reduces to the state that *)
(* was published, and holds nothing after the end of the run.              *)
THEOREM JournalImplemented ==
  ASSUME "retained" \notin Faults
  PROVE  Spec => ImplementsJournal
<1>1. Init => Counted /\ Contract!Init
  BY DEF Init, Counted, Contract!Init
<1>2. TypedGate /\ Counted /\ [Next]_vars => Counted' /\ [Contract!Next]_(Contract!vars)
  BY StepRecords DEF Contract!vars
<1>. QED
  BY <1>1, <1>2, AlwaysTyped, PTL DEF Spec, ImplementsJournal, Contract!Spec

--------------------------------------------------------------------------------
(* The lifecycle of _drive.                                                *)

(* What a publication does to the parts Lifecycle reads.                   *)
LEMMA PublishEffect ==
  ASSUME TypeOK, NEW kind \in Kind, NEW outcome \in Outcomes(kind), Publish(kind, outcome)
  PROVE  /\ kind # "RUN_STARTED" => Begun' = Begun
         /\ faults > 0 => faults' > 0
         /\ outcome = "refused" => UNCHANGED published
         /\ outcome = "ok" => status' = StatusAfter(status, kind) /\ faults' = faults
         /\ outcome # "ok" /\ outcome # "refused" => faults' > 0
         /\ status' \in {status, StatusAfter(status, kind)}
         /\ status \in Ending \/ closed => outcome = "refused"
         /\ outcome = "refused" => status \in Ending \/ closed \/ kind = "INVALID"
<1>. USE ControllerAssumption DEF TypeOK, Outcomes, Publish
<1>0. outcome \in Faults \cup {"ok", "refused"} /\ "refused" \notin Faults /\ "ok" \notin Faults
  OBVIOUS
<1>1. kind # "RUN_STARTED" => Begun' = Begun
  <2>1. CASE journal' = journal
    BY <2>1 DEF Begun
  <2>2. CASE journal' = Append(journal, [seq |-> last + 1, kind |-> kind]) /\ kind # "RUN_STARTED"
    <3>1. /\ DOMAIN journal = 1..Len(journal) /\ Len(journal) \in Nat
          /\ DOMAIN journal' = 1..(Len(journal) + 1)
          /\ \A i \in 1..Len(journal) : journal'[i] = journal[i]
          /\ journal'[Len(journal) + 1].kind = kind
      BY <2>2
    <3>. QED
      BY <2>2, <3>1 DEF Begun
  <2>. QED
    BY <2>1, <2>2
<1>2. outcome = "refused" => UNCHANGED published
  BY <1>0 DEF published
<1>3. outcome = "ok" => status' = StatusAfter(status, kind) /\ faults' = faults
  BY <1>0
<1>4. outcome # "ok" /\ outcome # "refused" => faults' > 0
  BY <1>0
<1>5. faults > 0 => faults' > 0
  OBVIOUS
<1>. QED
  BY <1>1, <1>2, <1>3, <1>4, <1>5 DEF Reducible

LEMMA BegunStays == UNCHANGED journal => Begun' = Begun
BY DEF Begun

LEMMA LifecycleStep ==
  ASSUME TypedGate, Lifecycle, [Next]_vars
  PROVE  Lifecycle'
<1>. USE KnownKinds, BegunStays DEF TypedGate, Lifecycle, SettledWhenDone
<1>1. CASE Start
  <2>1. PICK outcome \in Outcomes("RUN_CREATED") :
          /\ Publish("RUN_CREATED", outcome)
          /\ drive' = IF outcome = "ok" THEN "created" ELSE "absent"
    BY <1>1 DEF Start
  <2>2. drive = "absent" /\ UNCHANGED <<closed, interrupt, cancelled, swallowed>>
    BY <1>1 DEF Start
  <2>. QED
    BY <2>1, <2>2, PublishEffect DEF StatusAfter, Ending, published
<1>2. CASE Pause
  <2>1. PICK outcome \in Outcomes("RUN_PAUSED") : Publish("RUN_PAUSED", outcome)
    BY <1>2 DEF Pause
  <2>2. status \in {"running", "synthesizing"} /\ UNCHANGED <<closed, drive, fate, interrupt, cancelled, swallowed>>
    BY <1>2 DEF Pause
  <2>. QED
    BY <2>1, <2>2, PublishEffect DEF StatusAfter, Ending, published
<1>3. CASE Resume
  <2>1. PICK outcome \in Outcomes("RUN_RESUMED") : Publish("RUN_RESUMED", outcome)
    BY <1>3 DEF Resume
  <2>2. /\ status = "paused" /\ UNCHANGED <<closed, fate, interrupt, cancelled, swallowed>>
        /\ drive' = IF drive = "gate" THEN "woken" ELSE drive
    BY <1>3 DEF Resume, OpenGate
  <2>. QED
    BY <2>1, <2>2, PublishEffect DEF StatusAfter, Ending, published
<1>4. CASE CancelUnstarted
  <2>1. PICK outcome \in Outcomes("RUN_CANCELLED") :
          Publish("RUN_CANCELLED", outcome) /\ closed' = (closed \/ outcome = "ok")
    BY <1>4 DEF CancelUnstarted
  <2>2. drive = "absent" /\ status \notin Ending /\ cancelled' /\ UNCHANGED <<drive, fate, interrupt, swallowed>>
    BY <1>4 DEF CancelUnstarted
  <2>3. outcome # "refused"
    BY <2>1, <2>2, PublishEffect DEF Ending
  <2>4. status' = "cancelled" \/ faults' > 0
    BY <2>1, <2>3, PublishEffect DEF StatusAfter
  <2>5. status' \in {status, "cancelled"}
    BY <2>1, PublishEffect DEF StatusAfter
  <2>6. closed' => status' = "cancelled"
    BY <2>1, <2>2, PublishEffect DEF StatusAfter, Ending
  <2>7. ~Begun'
    BY <2>1, <2>2, PublishEffect
  <2>. QED
    BY <2>2, <2>4, <2>5, <2>6, <2>7
<1>5. CASE Cancel
  <2>1. /\ UNCHANGED <<published, closed, fate, swallowed>>
        /\ drive' = IF drive = "gate" THEN "woken" ELSE drive
        /\ drive # "absent"
    BY <1>5 DEF Cancel, OpenGate
  <2>2. cancelled' /\ (drive # "done" => interrupt')
    BY <1>5 DEF Cancel
  <2>. QED
    BY <2>1, <2>2 DEF published
<1>6. CASE AbandonWait
  BY <1>6 DEF AbandonWait, published
<1>7. CASE NeverBegins
  BY <1>7 DEF NeverBegins, published
<1>8. CASE Begin
  <2>1. PICK outcome \in Outcomes("RUN_STARTED") :
          /\ Publish("RUN_STARTED", outcome)
          /\ IF outcome = "ok" THEN drive' = "stream" /\ UNCHANGED fate ELSE Raise("failed")
    BY <1>8 DEF Begin
  <2>2. drive = "created" /\ ~interrupt /\ UNCHANGED <<closed, interrupt, cancelled, swallowed>>
    BY <1>8 DEF Begin
  <2>. QED
    BY <2>1, <2>2, PublishEffect DEF Raise, StatusAfter, Ending, published
<1>9. ASSUME NEW kind \in DraftKind, Consume(kind), drive \in {"stream", "woken"}, ~interrupt,
             UNCHANGED <<closed, interrupt, cancelled, swallowed>>
      PROVE Lifecycle'
  <2>1. CASE cancelled
    BY <1>9, <2>1 DEF Consume, published
  <2>2. CASE ~cancelled
    <3>1. PICK outcome \in Outcomes(kind) :
            /\ Publish(kind, outcome)
            /\ drive' = IF outcome = "ok" THEN "stream" ELSE "unwinding"
            /\ fate' = IF outcome = "ok" THEN fate ELSE "failed"
      BY <1>9, <2>2 DEF Consume
    <3>. QED
      BY <1>9, <2>2, <3>1, PublishEffect
  <2>. QED
    BY <2>1, <2>2
<1>10. CASE PassGate
  BY <1>9, <1>10 DEF PassGate, WaitsOnlyWhenClosed, TypeOK
<1>11. CASE Interrupted
  BY <1>11 DEF Interrupted, published
<1>12. CASE Handle
  <2> DEFINE final == IF fate = "cancelled" THEN "RUN_CANCELLED" ELSE "RUN_FAILED"
  <2>1. PICK outcome \in Outcomes(final) : Publish(final, outcome)
    BY <1>12 DEF Handle
  <2>2. drive = "handler" /\ closed' /\ drive' = "done" /\ UNCHANGED <<fate, interrupt, cancelled, swallowed>>
    BY <1>12 DEF Handle
  <2>. QED
    BY <2>1, <2>2, PublishEffect DEF StatusAfter, Ending, published
<1>13. ASSUME NEW kind \in DraftKind, DraftArrives(kind)
       PROVE Lifecycle'
  <2>1. CASE gate
    BY <2>1, <1>9, <1>13 DEF DraftArrives
  <2>2. CASE ~gate
    BY <2>2, <1>13 DEF DraftArrives, published
  <2>. QED
    BY <2>1, <2>2
<1>14. CASE StreamEnds
  <2>1. CASE cancelled
    BY <2>1, <1>14 DEF StreamEnds, published
  <2>2. CASE ~cancelled
    <3>1. PICK outcome \in Outcomes("RUN_COMPLETED") :
            /\ Publish("RUN_COMPLETED", outcome)
            /\ IF outcome = "ok" THEN drive' = "done" /\ closed' = TRUE /\ UNCHANGED fate
               ELSE Raise("failed") /\ UNCHANGED closed
      BY <1>14, <2>2 DEF StreamEnds
    <3>2. drive = "stream" /\ UNCHANGED <<interrupt, cancelled, swallowed>>
      BY <1>14 DEF StreamEnds
    <3>. QED
      BY <2>2, <3>1, <3>2, PublishEffect DEF Raise, StatusAfter, Ending
  <2>. QED
    BY <2>1, <2>2
<1>15. CASE StreamRaises
  BY <1>15 DEF StreamRaises, Raise, published
<1>16. CASE Swallowed
  BY <1>16 DEF Swallowed, published
<1>17. CASE Unwound
  BY <1>17 DEF Unwound, Raise, published
<1>18. CASE UNCHANGED vars
  BY <1>18 DEF vars
<1>. QED
  BY <1>1, <1>2, <1>3, <1>4, <1>5, <1>6, <1>7, <1>8, <1>10, <1>11, <1>12, <1>13, <1>14,
     <1>15, <1>16, <1>17, <1>18 DEF Next, Operator, Drive, Runtime, Answers

LEMMA AlwaysLifecycle == Spec => []Lifecycle
<1>1. Init => Lifecycle
  BY DEF Init, Lifecycle, Begun, SettledWhenDone
<1>. QED
  BY <1>1, AlwaysTyped, LifecycleStep, PTL DEF Spec

(* Once RUN_STARTED is published, every way out of _drive closes the       *)
(* journal and, failures and swallowed cancellations aside, leaves a       *)
(* terminal status.                                                        *)
THEOREM DriveSettles == Spec => []SettledWhenDone
BY AlwaysLifecycle, PTL DEF Lifecycle

(* And nothing is published into a journal that _drive has closed: by then *)
(* the status lets no call of the operator through.                        *)
THEOREM NothingAfterClose == Spec => []ClosedMeansOver
<1>1. Lifecycle /\ TypedGate => ClosedMeansOver
  BY DEF Lifecycle, ClosedMeansOver, SettledWhenDone, TypedGate, TypeOK
<1>. QED
  BY <1>1, AlwaysLifecycle, AlwaysTyped, PTL

--------------------------------------------------------------------------------
(* One slip per pause.                                                     *)

(* One more record, of this kind, at the end of the journal.               *)
Grown(kind) ==
  /\ DOMAIN journal = 1..Len(journal) /\ Len(journal) \in Nat
  /\ DOMAIN journal' = 1..(Len(journal) + 1)
  /\ \A i \in 1..Len(journal) : journal'[i] = journal[i]
  /\ journal'[Len(journal) + 1].kind = kind

LEMMA PublishGrows ==
  ASSUME TypeOK, NEW kind \in Kind, NEW outcome \in Outcomes(kind), Publish(kind, outcome)
  PROVE  /\ UNCHANGED journal \/ Grown(kind)
         /\ outcome = "ok" => Grown(kind)
         /\ faults' = 0 => faults = 0 /\ outcome \in {"ok", "refused"}
<1>1. CASE journal' = Append(journal, [seq |-> last + 1, kind |-> kind])
  <2>1. Grown(kind)
    BY <1>1 DEF TypeOK, Grown
  <2>. QED
    BY <2>1, ControllerAssumption DEF TypeOK, Outcomes, Publish
<1>2. CASE journal' = journal /\ outcome \notin {"ok", "unseen", "retained"}
  BY <1>2, ControllerAssumption DEF TypeOK, Outcomes, Publish
<1>. QED
  BY <1>1, <1>2 DEF Publish

(* A step that records nothing, neither opens the gate to an unresumed     *)
(* pause nor lets a draft go.                                              *)
LEMMA SilentSlip ==
  ASSUME SlipInv, UNCHANGED journal, faults' = 0 => faults = 0,
         drive' \in {"absent", "created"} => drive \in {"absent", "created"},
         gate' /\ ~cancelled' /\ drive' # "done" => gate /\ ~cancelled /\ drive # "done",
         drive' = "woken" /\ ~cancelled' => drive = "woken" /\ ~cancelled
  PROVE  SlipInv'
BY DEF SlipInv, OneSlipPerPause, Unresumed

(* A record keeps the property, unless it is a second slip.                *)
LEMMA RecordSlip ==
  ASSUME SlipInv, NEW kind, Grown(kind), faults = 0,
         Consumed(kind) => \A i \in DOMAIN journal : Unresumed(i) =>
                             \A j \in DOMAIN journal : i < j => ~Consumed(journal[j].kind)
  PROVE  /\ OneSlipPerPause'
         /\ \A i \in DOMAIN journal' : Unresumed(i)' =>
              /\ kind # "RUN_RESUMED" \/ i = Len(journal) + 1
              /\ \/ i = Len(journal) + 1 /\ kind = "RUN_PAUSED"
                 \/ i \in DOMAIN journal /\ Unresumed(i)
<1> DEFINE n == Len(journal)
<1>0. n \in Nat /\ DOMAIN journal = 1..n /\ DOMAIN journal' = 1..(n + 1)
  BY DEF Grown
<1>1. \A i \in 1..n : journal'[i] = journal[i]
  BY DEF Grown
<1>2. journal'[n + 1].kind = kind
  BY DEF Grown
<1>. HIDE DEF n
<1>3. ASSUME NEW i \in DOMAIN journal', NEW j \in DOMAIN journal', NEW k \in DOMAIN journal',
             i < j, j < k, journal'[i].kind = "RUN_PAUSED",
             Consumed(journal'[j].kind), Consumed(journal'[k].kind)
      PROVE  \E m \in i..k : journal'[m].kind = "RUN_RESUMED"
  <2>1. i \in 1..n /\ j \in 1..n
    BY <1>0, <1>3
  <2>2. CASE k \in 1..n
    <3>1. PICK m \in i..k : journal[m].kind = "RUN_RESUMED"
      BY <1>0, <1>1, <1>3, <2>1, <2>2 DEF SlipInv, OneSlipPerPause
    <3>2. m \in 1..n
      BY <1>0, <2>1, <2>2
    <3>. QED
      BY <1>1, <3>1, <3>2
  <2>3. CASE k = n + 1
    <3>1. ~Unresumed(i)
      BY <1>0, <1>1, <1>2, <1>3, <2>1, <2>3
    <3>2. PICK m \in DOMAIN journal : i < m /\ journal[m].kind = "RUN_RESUMED"
      BY <1>1, <1>3, <2>1, <3>1 DEF Unresumed
    <3>3. m \in 1..n /\ m \in i..k
      BY <1>0, <2>1, <2>3, <3>2
    <3>. QED
      BY <1>1, <3>2, <3>3
  <2>. QED
    BY <1>0, <1>3, <2>2, <2>3
<1>4. OneSlipPerPause'
  BY <1>3 DEF OneSlipPerPause, Consumed
<1>5. ASSUME NEW i \in DOMAIN journal', Unresumed(i)'
      PROVE  /\ kind # "RUN_RESUMED" \/ i = n + 1
             /\ (i = n + 1 /\ kind = "RUN_PAUSED") \/ (i \in DOMAIN journal /\ Unresumed(i))
  BY <1>0, <1>1, <1>2, <1>5 DEF Unresumed
<1>. QED
  BY <1>4, <1>5 DEF n

(* A publication that is no draft of the runtime: only RUN_RESUMED and     *)
(* cancel() open the gate, and RUN_PAUSED closes it.                       *)
LEMMA PublishSlip ==
  ASSUME TypeOK, SlipInv, NEW kind \in Kind, NEW outcome \in Outcomes(kind), Publish(kind, outcome),
         ~Consumed(kind),
         drive' \in {"absent", "created"} => drive \in {"absent", "created"} /\ kind # "RUN_PAUSED",
         kind = "RUN_PAUSED" /\ outcome = "ok" => ~gate',
         kind # "RUN_RESUMED" \/ outcome # "ok" =>
           /\ gate' /\ ~cancelled' /\ drive' # "done" => gate /\ ~cancelled /\ drive # "done"
           /\ drive' = "woken" /\ ~cancelled' => drive = "woken" /\ ~cancelled
  PROVE  SlipInv'
<1> DEFINE n == Len(journal)
<1>1. /\ UNCHANGED journal \/ Grown(kind)
      /\ outcome = "ok" => Grown(kind)
      /\ faults' = 0 => faults = 0 /\ outcome \in {"ok", "refused"}
  BY PublishGrows
<1>2. drive' \in {"absent", "created"} => \A i \in DOMAIN journal' : journal'[i].kind # "RUN_PAUSED"
  BY <1>1 DEF SlipInv, Grown
<1>3. CASE outcome = "refused"
  <2>1. UNCHANGED journal /\ (faults' = 0 => faults = 0)
    BY <1>1, <1>3, PublishEffect DEF published
  <2>. QED
    BY <1>3, <2>1, SilentSlip
<1>4. CASE outcome = "ok"
  <2>1. Grown(kind) /\ faults' = faults
    BY <1>1, <1>4, PublishEffect
  <2>2. CASE faults # 0
    BY <1>2, <2>1, <2>2 DEF SlipInv, OneSlipPerPause
  <2>3. CASE faults = 0
    <3>1. /\ OneSlipPerPause'
          /\ \A i \in DOMAIN journal' : Unresumed(i)' =>
               /\ kind # "RUN_RESUMED" \/ i = n + 1
               /\ (i = n + 1 /\ kind = "RUN_PAUSED") \/ (i \in DOMAIN journal /\ Unresumed(i))
      BY <2>1, <2>3, RecordSlip
    <3>2. /\ n \in Nat /\ DOMAIN journal = 1..n /\ DOMAIN journal' = 1..(n + 1)
          /\ \A i \in 1..n : journal'[i] = journal[i]
          /\ journal'[n + 1].kind = kind
      BY <2>1 DEF Grown
    <3>. HIDE DEF n
    <3>3. ASSUME NEW i \in DOMAIN journal', Unresumed(i)'
          PROVE  /\ ~gate' \/ cancelled' \/ drive' = "done"
                 /\ drive' = "woken" /\ ~cancelled' =>
                      \A j \in DOMAIN journal' : i < j => ~Consumed(journal'[j].kind)
      <4>1. CASE i = n + 1 /\ kind = "RUN_PAUSED"
        BY <1>4, <3>2, <4>1
      <4>2. CASE i \in DOMAIN journal /\ Unresumed(i) /\ kind # "RUN_RESUMED"
        <5>1. /\ ~gate \/ cancelled \/ drive = "done"
              /\ drive = "woken" /\ ~cancelled =>
                   \A j \in DOMAIN journal : i < j => ~Consumed(journal[j].kind)
          BY <2>3, <4>2 DEF SlipInv
        <5>2. drive' = "woken" /\ ~cancelled' => \A j \in 1..n : i < j => ~Consumed(journal'[j].kind)
          BY <3>2, <4>2, <5>1
        <5>. QED
          BY <3>2, <4>2, <5>1, <5>2
      <4>. QED
        BY <3>1, <3>2, <3>3, <4>1, <4>2
    <3>. QED
      BY <1>2, <3>1, <3>3 DEF SlipInv
  <2>. QED
    BY <2>2, <2>3
<1>5. CASE outcome \notin {"ok", "refused"}
  BY <1>1, <1>2, <1>5 DEF SlipInv, OneSlipPerPause
<1>. QED
  BY <1>3, <1>4, <1>5

(* The loop body consumes the draft the gate let go: the first one after   *)
(* an unresumed pause, if there is one.                                    *)
LEMMA ConsumeSlip ==
  ASSUME TypeOK, SlipInv, NEW kind \in DraftKind, Consume(kind),
         (gate /\ drive = "stream") \/ drive = "woken", UNCHANGED <<gate, cancelled>>
  PROVE  SlipInv'
<1>. USE KnownKinds
<1>0. drive' \in {"stream", "unwinding"}
  BY ConsumeTyped
<1>1. CASE cancelled
  BY <1>0, <1>1, SilentSlip DEF Consume, published
<1>2. CASE ~cancelled
  <2>1. PICK outcome \in Outcomes(kind) : Publish(kind, outcome)
    BY <1>2 DEF Consume
  <2>2. /\ UNCHANGED journal \/ Grown(kind)
        /\ faults' = 0 => faults = 0 /\ outcome \in {"ok", "refused"}
    BY <2>1, PublishGrows
  <2>3. CASE faults' # 0
    BY <1>0, <2>3 DEF SlipInv, OneSlipPerPause
  <2>4. CASE faults' = 0 /\ UNCHANGED journal
    <3>1. ~(gate' /\ ~cancelled' /\ drive' # "done") \/ (gate /\ ~cancelled /\ drive # "done")
      BY <1>2
    <3>. QED
      BY <1>0, <2>2, <2>4, <3>1, SilentSlip
  <2>5. CASE faults' = 0 /\ Grown(kind)
    <3>1. \A i \in DOMAIN journal : Unresumed(i) =>
            \A j \in DOMAIN journal : i < j => ~Consumed(journal[j].kind)
      BY <1>2, <2>2, <2>5 DEF SlipInv
    <3>2. /\ OneSlipPerPause'
          /\ \A i \in DOMAIN journal' : Unresumed(i)' => i \in DOMAIN journal /\ Unresumed(i)
      BY <2>2, <2>5, <3>1, RecordSlip DEF DraftKind
    <3>. QED
      BY <1>0, <1>2, <2>2, <2>5, <3>2 DEF SlipInv
  <2>. QED
    BY <2>2, <2>3, <2>4, <2>5
<1>. QED
  BY <1>1, <1>2

LEMMA SlipStep ==
  ASSUME TypedGate, Lifecycle, SlipInv, [Next]_vars
  PROVE  SlipInv'
<1>. USE KnownKinds DEF TypedGate, Consumed
<1>1. CASE Start
  BY <1>1, PublishSlip DEF Start
<1>2. CASE Pause
  <2>1. PICK outcome \in Outcomes("RUN_PAUSED") :
          Publish("RUN_PAUSED", outcome) /\ gate' = IF outcome = "ok" THEN FALSE ELSE gate
    BY <1>2 DEF Pause
  <2>2. drive \notin {"absent", "created"} /\ UNCHANGED <<drive, cancelled>>
    BY <1>2 DEF Pause, Lifecycle
  <2>. QED
    BY <2>1, <2>2, PublishSlip
<1>3. CASE Resume
  <2>1. PICK outcome \in Outcomes("RUN_RESUMED") : Publish("RUN_RESUMED", outcome)
    BY <1>3 DEF Resume
  <2>2. /\ status = "paused" /\ UNCHANGED cancelled
        /\ drive' = IF drive = "gate" THEN "woken" ELSE drive
    BY <1>3 DEF Resume, OpenGate
  <2>3. drive \notin {"absent", "created"}
    BY <2>2 DEF Lifecycle
  <2>4. CASE outcome = "ok"
    BY <2>1, <2>2, <2>3, <2>4, PublishSlip
  <2>5. CASE outcome = "refused"
    <3>1. closed /\ drive = "done"
      BY <2>1, <2>2, <2>5, PublishEffect DEF Ending, Lifecycle
    <3>. QED
      BY <2>1, <2>2, <2>5, <3>1, PublishSlip
  <2>6. CASE outcome \notin {"ok", "refused"}
    <3>1. faults' # 0
      BY <2>1, <2>6, PublishGrows
    <3>. QED
      BY <2>2, <2>3, <3>1 DEF SlipInv, OneSlipPerPause
  <2>. QED
    BY <2>4, <2>5, <2>6
<1>4. CASE CancelUnstarted
  BY <1>4, PublishSlip DEF CancelUnstarted
<1>5. CASE Begin
  BY <1>5, PublishSlip DEF Begin, Raise
<1>6. CASE PassGate
  BY <1>6, ConsumeSlip DEF PassGate, WaitsOnlyWhenClosed, TypeOK
<1>7. ASSUME NEW kind \in DraftKind, DraftArrives(kind)
      PROVE SlipInv'
  <2>1. CASE gate
    BY <2>1, <1>7, ConsumeSlip DEF DraftArrives
  <2>2. CASE ~gate
    BY <2>2, <1>7, SilentSlip DEF DraftArrives, published
  <2>. QED
    BY <2>1, <2>2
<1>8. CASE StreamEnds
  <2>1. CASE cancelled
    BY <2>1, <1>8, SilentSlip DEF StreamEnds, published
  <2>2. CASE ~cancelled
    <3>1. PICK outcome \in Outcomes("RUN_COMPLETED") : Publish("RUN_COMPLETED", outcome)
      BY <1>8, <2>2 DEF StreamEnds
    <3>2. drive = "stream" /\ drive' \in {"done", "handler"} /\ UNCHANGED <<gate, cancelled>>
      BY <1>8 DEF StreamEnds, Raise
    <3>. QED
      BY <3>1, <3>2, PublishSlip
  <2>. QED
    BY <2>1, <2>2
<1>9. CASE Handle
  <2> DEFINE final == IF fate = "cancelled" THEN "RUN_CANCELLED" ELSE "RUN_FAILED"
  <2>1. PICK outcome \in Outcomes(final) : Publish(final, outcome)
    BY <1>9 DEF Handle
  <2>2. drive = "handler" /\ drive' = "done" /\ UNCHANGED <<gate, cancelled>>
    BY <1>9 DEF Handle
  <2>. QED
    BY <2>1, <2>2, PublishSlip
<1>10. CASE Cancel
  BY <1>10, SilentSlip DEF Cancel, OpenGate, published
<1>11. CASE AbandonWait \/ NeverBegins \/ Interrupted \/ StreamRaises \/ Swallowed
  BY <1>11, SilentSlip DEF AbandonWait, NeverBegins, Interrupted, StreamRaises, Swallowed, Raise, published
<1>12. CASE Unwound
  BY <1>12, SilentSlip DEF Unwound, Raise, published
<1>13. CASE UNCHANGED vars
  BY <1>13, SilentSlip DEF vars
<1>. QED
  BY <1>1, <1>2, <1>3, <1>4, <1>5, <1>6, <1>7, <1>8, <1>9, <1>10, <1>11, <1>12, <1>13
     DEF Next, Operator, Drive, Runtime, Answers

(* However pause(), resume() and cancel() interleave with the drafts, at   *)
(* most one draft is published between a RUN_PAUSED and the next           *)
(* RUN_RESUMED, as long as no publication fails: the one the gate had      *)
(* already let go.                                                         *)
THEOREM OneSlip == Spec => []OneSlipPerPause
<1>1. Init => SlipInv
  BY DEF Init, SlipInv, OneSlipPerPause
<1>2. Spec => []SlipInv
  BY <1>1, AlwaysTyped, AlwaysLifecycle, SlipStep, PTL DEF Spec
<1>. QED
  BY <1>2, PTL DEF SlipInv
================================================================================
