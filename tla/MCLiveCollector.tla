----------------------------- MODULE MCLiveCollector ----------------------------
(* LiveCollector on three issuers, two of them share classes of one company.    *)
EXTENDS LiveCollector

SharedCik == [m \in Members |-> IF m = 2 THEN 1 ELSE m]
================================================================================
