---------------------------- MODULE MCInstances ----------------------------
(* Three asqs for TLC: two of one release on two hosts, and one of another. *)
EXTENDS Instances
CONSTANTS a, b, c
TwoReleases == [x \in Asqs |-> IF x = b THEN 2 ELSE 1]
TwoHosts == [x \in Asqs |-> IF x = c THEN "far" ELSE "near"]
=============================================================================
