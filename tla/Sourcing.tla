-------------------------------- MODULE Sourcing -------------------------------
(***************************************************************************)
(* Where an observation comes from and where it is kept: the mappings of   *)
(* the providers' payloads and the ledger, as subjects of an evaluation.   *)
(***************************************************************************)
EXTENDS Ledger, Observations, Evaluation

\* sec_mapping.py, yfinance_mapping.py, ledger.py: the observations are the latest
\* and best of the payload whatever its order, and no citation dangles.
EvidenceSound ==
  /\ Is("facts")   => SecFactsSound(subject.input)
  /\ Is("quotes")  => HistorySound(subject.input)
  /\ Is("batches") => LedgerSound(subject.input[1], subject.input[2], 2, 2)
================================================================================
