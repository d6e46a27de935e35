----------------------------- MODULE MCIngestion -----------------------------
(* Regimes of faults of Ingestion for TLC. *)
EXTENDS Ingestion

Restarts == {"api crash", "kill"}

\* Processes that die; every fault but overlapping runs; every fault.
Faulty == {Restarts, AllFaults \ {"duplicate"}, AllFaults}

\* Nothing dies, but the stored keys cannot be decrypted.
KeyLost == {{"unreadable key"}}
=============================================================================
