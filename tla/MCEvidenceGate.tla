--------------------------- MODULE MCEvidenceGate ---------------------------
(* Small briefs for TLC. Who writes, in which brief, against which requirement
   and with which note makes no difference to what may be written. *)
EXTENDS EvidenceGate, TLC
Alike == Permutations(Clients) \cup Permutations(Briefs)
           \cup Permutations(Reqs) \cup Permutations(Notes)
=============================================================================
