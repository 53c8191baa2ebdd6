---------------------------- MODULE MCTaskBoard ----------------------------
(* Small boards for TLC. *)
EXTENDS TaskBoard
AnyRole == [s \in Sessions |-> Tasks]
=============================================================================
