--------------------------------- MODULE Ledger --------------------------------
(***************************************************************************)
(* ObservationLedger (data/ledger.py): batches of observations and of the  *)
(* evidence they cite are taken in whole or not at all; the same ID must   *)
(* always come with the same record; packets carry exactly the evidence    *)
(* of the observations asked for.                                          *)
(*                                                                         *)
(* A record is [id, body] for evidence and [id, series, cites, body] for   *)
(* an observation: series stands for (entity, name), body for what an ID   *)
(* does not determine (an evidence ID is a hash of the locator alone, the  *)
(* time of the retrieval is in the record).                                *)
(***************************************************************************)
EXTENDS Integers, Sequences, SequencesExt, FiniteSetsExt

Empty == [observations |-> {}, evidence |-> {}, index |-> [s \in {} |-> {}]]

\* ObservationBatch.__post_init__
BatchSelfContained(b) ==
  /\ \A o, q \in b.observations : o.id = q.id => o = q
  /\ \A e, g \in b.evidence : e.id = g.id => e = g
  /\ \A o \in b.observations : o.cites \subseteq {e.id : e \in b.evidence}

Collides(stored, records) == \E x \in stored, y \in records : x.id = y.id /\ x # y

\* ingest: both checks come before the first write.  index is _by_entity_name.
Ingest(ledger, b) ==
  IF Collides(ledger.evidence, b.evidence) \/ Collides(ledger.observations, b.observations)
  THEN ledger
  ELSE LET new    == b.observations \ ledger.observations
           series == DOMAIN ledger.index \cup {o.series : o \in new}
           listed(s) == IF s \in DOMAIN ledger.index THEN ledger.index[s] ELSE {}
       IN  [observations |-> ledger.observations \cup new,
            evidence     |-> ledger.evidence \cup b.evidence,
            index |-> [s \in series |-> listed(s) \cup {o.id : o \in {q \in new : q.series = s}}]]

Rejects(ledger, b) == Collides(ledger.evidence, b.evidence)
                        \/ Collides(ledger.observations, b.observations)

\* select, for a series without a period.
Select(ledger, s) ==
  {o \in ledger.observations : s \in DOMAIN ledger.index /\ o.id \in ledger.index[s]}

\* evidence_packet and EvidencePacket.__post_init__: the limits raise, nothing is
\* cut off.
PacketError(ledger, ids, maxObservations, maxEvidence) ==
  LET chosen == {o \in ledger.observations : o.id \in ids}
      cited  == UNION {o.cites : o \in chosen}
  IN  IF ids = {} THEN "empty"
      ELSE IF ~(ids \subseteq {o.id : o \in ledger.observations}) THEN "unknown"
      ELSE IF Cardinality(ids) > maxObservations \/ Cardinality(cited) > maxEvidence THEN "limit"
      ELSE "none"

EvidencePacket(ledger, ids) ==
  LET chosen == {o \in ledger.observations : o.id \in ids}
  IN  [observations |-> chosen,
       evidence |-> {e \in ledger.evidence : e.id \in UNION {o.cites : o \in chosen}}]

\* The ledger before the first batch and after each.
Ingesting(bs) ==
  LET ledger[n \in 0..Len(bs)] == IF n = 0 THEN Empty ELSE Ingest(ledger[n - 1], bs[n])
  IN  ledger

IngestAll(bs) == Ingesting(bs)[Len(bs)]

--------------------------------------------------------------------------------
(* What a ledger promises after any batches, refused ones included.             *)

\* One record for each ID.
OneRecordEach(ledger) ==
  /\ \A x, y \in ledger.observations : x.id = y.id => x = y
  /\ \A x, y \in ledger.evidence : x.id = y.id => x = y

\* No citation without its record.
CitationsKept(ledger) == \A o \in ledger.observations : o.cites \subseteq {e.id : e \in ledger.evidence}

\* The index agrees with a scan.
IndexAgrees(ledger) == \A o \in ledger.observations :
  Select(ledger, o.series) = {q \in ledger.observations : q.series = o.series}

\* A packet is closed under citation and carries no evidence of another observation.
PacketsClosed(ledger, ids, maxObservations, maxEvidence) ==
  LET packet == EvidencePacket(ledger, ids)
  IN  PacketError(ledger, ids, maxObservations, maxEvidence) = "none" =>
        /\ {e.id : e \in packet.evidence} = UNION {o.cites : o \in packet.observations}
        /\ {o.id : o \in packet.observations} = ids

CollisionFree(bs) == \A i, j \in DOMAIN bs :
  ~Collides(bs[i].evidence, bs[j].evidence) /\ ~Collides(bs[i].observations, bs[j].observations)

\* A refused batch leaves no trace, a batch that is repeated changes nothing, and
\* without collisions the order of the batches does not matter.
LedgerSound(bs, ids, maxObservations, maxEvidence) ==
  LET ledger == IngestAll(bs)
      before == IngestAll(Front(bs))
  IN  (\A i \in DOMAIN bs : BatchSelfContained(bs[i])) =>
        /\ OneRecordEach(ledger) /\ CitationsKept(ledger) /\ IndexAgrees(ledger)
        /\ Rejects(before, Last(bs)) => ledger = before
        /\ Ingest(ledger, Last(bs)) = ledger
        /\ CollisionFree(bs) => IngestAll(Reverse(bs)) = ledger
        /\ PacketsClosed(ledger, ids, maxObservations, maxEvidence)
================================================================================
