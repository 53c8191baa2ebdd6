------------------------------ MODULE MCOutbox ------------------------------
(* Small spools for TLC. *)
EXTENDS Outbox
TwoRuns == [r \in Records |-> IF r = 1 THEN "a" ELSE "b"]
OneRun  == [r \in Records |-> "a"]
=============================================================================
