------------------------------ MODULE TaskRow ------------------------------
(***************************************************************************)
(* One row of team_task (core/store.py), and what each statement that the  *)
(* store runs on it makes of it.  TaskBoard and EvidenceGate both move     *)
(* their tasks with these operators.                                       *)
(*                                                                         *)
(* A lease is the number of ticks until claim_expires_at has passed.  The  *)
(* store writes claimed_by and claim_expires_at together, so a NULL pair   *)
(* is the holder NoOne with lease 0.                                       *)
(***************************************************************************)
EXTENDS Naturals

CONSTANTS Holders,     \* who a claim can name: session ids, and "cli"
          NoOne,       \* claimed_by is NULL
          Lease        \* orchestrator.lease_minutes, in ticks

ASSUME NoOneAssumption == NoOne \notin Holders
ASSUME LeaseAssumption == Lease \in Nat \ {0}

\* models.py: TaskStatus and CLOSED_STATUSES.
Statuses == {"todo", "doing", "review", "blocked", "done", "dropped"}
Closed == {"done", "dropped"}

Rows == [status : Statuses, holder : Holders \cup {NoOne}, lease : Nat]

NewRow == [status |-> "todo", holder |-> NoOne, lease |-> 0]
Unheld(status) == [status |-> status, holder |-> NoOne, lease |-> 0]

Lapsed(row) == row.status = "doing" /\ row.lease = 0

\* Mutant: a claim does not ask whether the lease still runs.
ClaimableWhileDoing(row) == row.status \in {"todo", "blocked", "doing"}

\* The WHERE of claim_task.
Claimable(row) == row.status \in {"todo", "blocked"} \/ Lapsed(row)
Claimed(row, h) == [status |-> "doing", holder |-> h, lease |-> Lease]

\* Mutant: the holder alone is compared, so claims in review count too.
HeldAnyhow(row, h) == row.holder = h

\* The WHERE of renew_leases, _doing_claims and _release_doing_claims.
HeldDoing(row, h) == row.status = "doing" /\ row.holder = h
\* Mutant: a heartbeat renews every lease on the board.
RenewedForAll(row, h) == IF row.status = "doing" THEN [row EXCEPT !.lease = Lease] ELSE row
Renewed(row, h) == IF HeldDoing(row, h) THEN [row EXCEPT !.lease = Lease] ELSE row
Dropped(row, h) == IF HeldDoing(row, h) THEN Unheld("todo") ELSE row

\* Mutant: a closing status forgets to clear the claim.
WithStatusOnly(row, status) == [row EXCEPT !.status = status]

\* set_task_status: a closing status clears the claim, any other keeps it.
WithStatus(row, status) ==
  IF status \in Closed THEN Unheld(status) ELSE [row EXCEPT !.status = status]

\* release_task and reopen_task each have their own guard, and clear the claim.
Releasable(row) == row.status = "doing"
Reopenable(row) == row.status \in {"doing", "review", "blocked", "done"}

\* Mutant: the reopening UPDATE has no guard on the status.
SentBackAlways(row) == Unheld("todo")

\* Mutant: the transition's name is written as the status.
SentBackAsNamed(row) == IF row.status \in {"review", "done"} THEN Unheld("reopen") ELSE row

\* save_brief's two transitions: a row whose status moved on is left as it is.
SentBack(row) == IF row.status \in {"review", "done"} THEN Unheld("todo") ELSE row
Blocked(row) ==
  IF row.status \in {"dropped", "blocked"} THEN row ELSE [row EXCEPT !.status = "blocked"]

\* Mutant: a lease goes on counting after it has passed.
AgedPastZero(row) == [row EXCEPT !.lease = IF row.status = "doing" THEN @ - 1 ELSE @]

\* A tick of the wall clock.
Aged(row) == [row EXCEPT !.lease = IF @ > 0 THEN @ - 1 ELSE 0]

(* What every writer of the row keeps: work in progress has a holder, and  *)
(* a row that is open to all or closed names nobody.                       *)
Coherent(row) ==
  /\ row.status = "doing" => row.holder # NoOne
  /\ row.status \in {"todo"} \cup Closed => row.holder = NoOne
  /\ row.holder = NoOne => row.lease = 0
  /\ row.lease <= Lease
=============================================================================
