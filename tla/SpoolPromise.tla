---------------------------- MODULE SpoolPromise ----------------------------
(***************************************************************************)
(* What the explainability spool promises its writers, with no sweeper, no *)
(* file and no clock: a record that was accepted is kept until it is       *)
(* settled (delivered to the gateway, or set aside as a dead letter), and  *)
(* no record is settled that was never accepted.  Outbox implements this.  *)
(***************************************************************************)
CONSTANT Records

VARIABLES kept,      \* records some file of the queue directory still holds
          settled    \* records delivered at least once, or dead-lettered

vars == <<kept, settled>>

TypeOK == /\ kept \subseteq Records
          /\ settled \subseteq Records

Init == kept = {} /\ settled = {}

\* A writer's record enters the spool.
Accept(r) == /\ r \notin kept \cup settled
             /\ kept' = kept \cup {r}
             /\ UNCHANGED settled

\* A batch of records reaches the gateway, or the dead letters.
Settle(R) == /\ R \subseteq kept \cup settled
             /\ settled' = settled \cup R
             /\ UNCHANGED kept

\* The queue directory lets go of a record, and only of a settled one.
Forget(r) == /\ r \in settled
             /\ kept' = kept \ {r}
             /\ UNCHANGED settled

Next == \/ \E r \in Records : Accept(r) \/ Forget(r)
        \/ \E R \in SUBSET Records : Settle(R)

Spec == Init /\ [][Next]_vars
=============================================================================
