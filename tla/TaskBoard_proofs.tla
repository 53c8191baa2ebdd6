-------------------------- MODULE TaskBoard_proofs --------------------------
(***************************************************************************)
(* The task board's invariants for any tasks, sessions, leases and clocks. *)
(* The proofs need no strengthening: every statement on a row keeps it     *)
(* coherent by itself (CoherentWrites), whatever interleaves.              *)
(***************************************************************************)
EXTENDS TaskBoard, TLAPS

-----------------------------------------------------------------------------
(* What every statement on a task's row keeps, for any holders and lease.  *)

(* Each write of a row makes a row: those that name no holder, ...         *)
LEMMA RowTypes ==
  ASSUME NEW row \in Rows, NEW status \in Statuses
  PROVE  /\ NewRow \in Rows
         /\ Unheld(status) \in Rows
         /\ WithStatus(row, status) \in Rows
         /\ SentBack(row) \in Rows
         /\ Blocked(row) \in Rows
         /\ Aged(row) \in Rows
  BY DEF Rows, Statuses, NewRow, Unheld, WithStatus, Closed, SentBack, Blocked, Aged

(* ... and those made for one.                                             *)
LEMMA ClaimTypes ==
  ASSUME NEW row \in Rows, NEW h \in Holders
  PROVE  /\ Claimed(row, h) \in Rows
         /\ Renewed(row, h) \in Rows
         /\ Dropped(row, h) \in Rows
  BY LeaseAssumption
     DEF Rows, Statuses, Claimed, Renewed, Dropped, Unheld, HeldDoing

(* Each write of a coherent row leaves a coherent row; set_task_status is  *)
(* asked only for review, blocked and the closing statuses.                *)
LEMMA CoherentWrites ==
  ASSUME NEW row \in Rows, NEW h \in Holders, NEW status \in {"review", "blocked"} \cup Closed,
         Coherent(row)
  PROVE  /\ Coherent(NewRow)
         /\ Coherent(Unheld("todo"))
         /\ Coherent(Claimed(row, h))
         /\ Coherent(Renewed(row, h))
         /\ Coherent(Dropped(row, h))
         /\ Coherent(WithStatus(row, status))
         /\ Coherent(SentBack(row))
         /\ Coherent(Blocked(row))
         /\ Coherent(Aged(row))
<1>1. Coherent(NewRow) /\ Coherent(Unheld("todo"))
  BY LeaseAssumption DEF Coherent, NewRow, Unheld, Closed
<1>2. Coherent(Claimed(row, h))
  BY LeaseAssumption, NoOneAssumption DEF Coherent, Claimed, Closed
<1>3. Coherent(Renewed(row, h))
  BY LeaseAssumption, NoOneAssumption DEF Coherent, Renewed, HeldDoing, Rows, Closed
<1>4. Coherent(Dropped(row, h))
  BY <1>1 DEF Dropped
<1>5. Coherent(WithStatus(row, status))
  BY LeaseAssumption DEF Coherent, WithStatus, Unheld, Closed, Rows
<1>6. Coherent(SentBack(row))
  BY <1>1 DEF SentBack
<1>7. Coherent(Blocked(row))
  BY DEF Coherent, Blocked, Closed, Rows
<1>8. Coherent(Aged(row))
  BY LeaseAssumption DEF Coherent, Aged, Closed, Rows
<1> QED
  BY <1>1, <1>2, <1>3, <1>4, <1>5, <1>6, <1>7, <1>8
-----------------------------------------------------------------------------

LEMMA HoldersFact == Sessions \subseteq Holders /\ Cli \in Holders
  BY HoldersAssumption

LEMMA TypeInit == Init => TypeOK
  BY RowTypes, ClaimTypes, HoldersFact
     DEF Init, TypeOK, NewRow, Rows, Statuses, NoPrune, Seats

LEMMA TypeStep == TypeOK /\ [Next]_vars => TypeOK'
<1> SUFFICES ASSUME TypeOK, [Next]_vars
             PROVE  TypeOK'
  OBVIOUS
<1> USE HoldersFact DEF TypeOK
<1>todo. "todo" \in Statuses
  BY DEF Statuses
<1>1. ASSUME NEW t \in Tasks, Add(t) PROVE TypeOK'
  BY <1>1 DEF Add, sessionVars
<1>2. ASSUME NEW t \in Tasks, NEW h \in Holders, Claim(h, t) PROVE TypeOK'
  <2>1. Claimed(task[t], h) \in Rows
    BY RowTypes, ClaimTypes, <1>todo
  <2> QED
    BY <1>2, <2>1 DEF Claim, Move, sessionVars
<1>3. ASSUME NEW t \in Tasks, Finish(t) PROVE TypeOK'
  <2>1. PICK status \in {"review", "blocked", "dropped", "done"} :
          Move(t, WithStatus(task[t], status))
    BY <1>3 DEF Finish
  <2>2. WithStatus(task[t], status) \in Rows
    BY RowTypes, ClaimTypes DEF Statuses
  <2> QED
    BY <1>3, <2>1, <2>2 DEF Finish, Move, sessionVars
<1>4. ASSUME NEW t \in Tasks, Release(t) \/ Reopen(t) PROVE TypeOK'
  <2>1. Unheld("todo") \in Rows
    BY RowTypes, ClaimTypes, <1>todo
  <2> QED
    BY <1>4, <2>1 DEF Release, Reopen, Move, sessionVars
<1>5. ASSUME NEW s \in Sessions, Start(s) PROVE TypeOK'
  BY <1>5 DEF Start, boardVars, Seats
<1>6. ASSUME NEW s \in Sessions, Renew(s) PROVE TypeOK'
  <2>1. \A t \in Tasks : Renewed(task[t], s) \in Rows
    BY RowTypes, ClaimTypes, <1>todo
  <2> QED
    BY <1>6, <2>1 DEF Renew
<1>7. ASSUME NEW s \in Sessions, Touch(s) PROVE TypeOK'
  BY <1>7 DEF Touch, boardVars, Seats
<1>8. ASSUME NEW s \in Sessions, Exit(s) PROVE TypeOK'
  <2>1. \A t \in Tasks : Dropped(task[t], s) \in Rows
    BY RowTypes, ClaimTypes, <1>todo
  <2> QED
    BY <1>8, <2>1 DEF Exit, Gone, Seats
<1>9. ASSUME NEW s \in Sessions, Die(s) PROVE TypeOK'
  BY <1>9 DEF Die, Gone, boardVars
<1>10. ASSUME NEW s \in Sessions, NextRead(s) PROVE TypeOK'
  BY <1>10 DEF NextRead, Ready, Is, boardVars, sessionVars
<1>11. ASSUME NEW s \in Sessions, NEW t \in Tasks, NextClaim(s, t) PROVE TypeOK'
  <2>1. Claimed(task[t], s) \in Rows
    BY RowTypes, ClaimTypes, <1>todo
  <2> QED
    BY <1>11, <2>1 DEF NextClaim, Move, sessionVars
<1>12. ASSUME NEW s \in Sessions, PruneEnd(s) PROVE TypeOK'
  <2>1. \A t \in Tasks : Dropped(task[t], s) \in Rows
    BY RowTypes, ClaimTypes, <1>todo
  <2> QED
    BY <1>12, <2>1 DEF PruneEnd, Seats
<1>13. ASSUME PruneList \/ PruneReturn PROVE TypeOK'
  <2>1. prune' \in [on : BOOLEAN, ghosts : SUBSET Sessions, orphans : SUBSET Sessions]
    <3>1. CASE PruneReturn
      BY <3>1 DEF PruneReturn, NoPrune
    <3>2. CASE PruneList
      <4>1. PICK release \in BOOLEAN :
              prune' = [on |-> TRUE,
                        ghosts |-> {s \in Sessions : Idle(s, StaleAfter)},
                        orphans |-> {s \in Sessions :
                          Idle(s, IF release THEN StaleAfter ELSE ClaimThreshold)}]
        BY <3>2 DEF PruneList
      <4> QED
        BY <4>1
    <3> QED
      BY <1>13, <3>1, <3>2
  <2>2. UNCHANGED <<boardVars, sessionVars, picked>>
    BY <1>13 DEF PruneList, PruneReturn
  <2> QED
    BY <2>1, <2>2 DEF boardVars, sessionVars
<1>14. ASSUME Tick PROVE TypeOK'
  <2>1. \A t \in Tasks : Aged(task[t]) \in Rows
    BY RowTypes, ClaimTypes, <1>todo, HoldersFact
  <2>2. Later(seen) \in [Sessions -> Nat]
    BY DEF Later
  <2> QED
    BY <1>14, <2>1, <2>2 DEF Tick
<1>15. CASE UNCHANGED vars
  BY <1>15 DEF vars
<1> QED
  BY <1>1, <1>2, <1>3, <1>4, <1>5, <1>6, <1>7, <1>8, <1>9, <1>10, <1>11, <1>12, <1>13, <1>14,
     <1>15 DEF Next, TaskCommand, SessionStep

(* Every variable keeps its type, whatever the constants.                  *)
THEOREM TypeCorrect == Spec => []TypeOK
  BY TypeInit, TypeStep, PTL DEF Spec
-----------------------------------------------------------------------------
\* What the steps keep is that EVERY row is coherent: one that is not added yet is new.
AllCoherent == \A t \in Tasks : Coherent(task[t])

LEMMA CoherentInit == Init => AllCoherent
<1>1. "todo" \in Statuses /\ NewRow \in Rows
  BY DEF Statuses, NewRow, Rows
<1>2. Coherent(NewRow)
  BY LeaseAssumption DEF Coherent, NewRow, Closed
<1> QED
  BY <1>2 DEF Init, AllCoherent

LEMMA CoherentStep == TypeOK /\ AllCoherent /\ [Next]_vars => AllCoherent'
<1> SUFFICES ASSUME TypeOK, AllCoherent, [Next]_vars
             PROVE  AllCoherent'
  OBVIOUS
<1>row. \A t \in Tasks : task[t] \in Rows /\ Coherent(task[t])
  BY DEF TypeOK, AllCoherent
<1>fun. task \in [Tasks -> Rows]
  BY DEF TypeOK
<1>st. {"review", "blocked", "dropped", "done"} \subseteq {"review", "blocked"} \cup Closed
  BY DEF Closed
<1>1. ASSUME UNCHANGED task PROVE AllCoherent'
  BY <1>1 DEF AllCoherent
<1>2. ASSUME NEW t \in Tasks, NEW row, Coherent(row), Move(t, row) PROVE AllCoherent'
  BY <1>2, <1>row, <1>fun DEF AllCoherent, Move
<1>3. ASSUME NEW t \in Tasks, NEW h \in Holders PROVE Coherent(Claimed(task[t], h))
  BY <1>row, <1>st, CoherentWrites
<1>4. ASSUME NEW t \in Tasks, Finish(t) PROVE AllCoherent'
  <2>1. PICK status \in {"review", "blocked", "dropped", "done"} :
          Move(t, WithStatus(task[t], status))
    BY <1>4 DEF Finish
  <2>2. Coherent(WithStatus(task[t], status))
    BY <1>row, <1>st, CoherentWrites, HoldersFact
  <2> QED
    BY <1>2, <2>1, <2>2
<1>5. ASSUME NEW t \in Tasks, Release(t) \/ Reopen(t) PROVE AllCoherent'
  <2>1. Coherent(Unheld("todo"))
    BY LeaseAssumption DEF Coherent, Unheld, Closed
  <2> QED
    BY <1>2, <1>5, <2>1 DEF Release, Reopen
<1>6. ASSUME NEW s \in Sessions, Renew(s) \/ Exit(s) \/ PruneEnd(s) PROVE AllCoherent'
  <2>1. \A t \in Tasks : Coherent(Renewed(task[t], s)) /\ Coherent(Dropped(task[t], s))
    BY <1>row, <1>st, CoherentWrites, HoldersFact
  <2> QED
    BY <1>6, <1>row, <2>1 DEF Renew, Exit, PruneEnd, AllCoherent
<1>7. ASSUME NEW s \in Sessions, NEW t \in Tasks, NextClaim(s, t) PROVE AllCoherent'
  BY <1>1, <1>2, <1>3, <1>7, HoldersFact DEF NextClaim
<1>8. ASSUME Tick PROVE AllCoherent'
  <2>1. \A t \in Tasks : Coherent(Aged(task[t]))
    BY <1>row, <1>st, CoherentWrites, HoldersFact
  <2> QED
    BY <1>8, <2>1 DEF Tick, AllCoherent
<1>9. ASSUME NEW t \in Tasks, TaskCommand(t) PROVE AllCoherent'
  BY <1>1, <1>2, <1>3, <1>4, <1>5, <1>9, HoldersFact DEF TaskCommand, Add, Claim
<1>10. ASSUME NEW s \in Sessions, SessionStep(s) PROVE AllCoherent'
  <2>1. CASE \E t \in Tasks : Claim(s, t) \/ NextClaim(s, t)
    BY <2>1, <1>2, <1>3, <1>7, HoldersFact DEF Claim
  <2>2. CASE Start(s) \/ Touch(s) \/ Die(s) \/ NextRead(s)
    BY <2>2, <1>1 DEF Start, Touch, Die, NextRead, boardVars
  <2> QED
    BY <1>6, <1>10, <2>1, <2>2 DEF SessionStep
<1>11. ASSUME PruneList \/ PruneReturn \/ UNCHANGED vars PROVE AllCoherent'
  BY <1>1, <1>11 DEF PruneList, PruneReturn, boardVars, vars
<1> QED
  BY <1>6, <1>8, <1>9, <1>10, <1>11 DEF Next

(* A task in progress has a holder, and one that is open to all or closed  *)
(* names nobody, whatever claims, hooks, ends and prunes interleave.       *)
THEOREM ClaimsStayCoherent == Spec => []ClaimsCoherent
<1>1. AllCoherent /\ TypeOK => ClaimsCoherent
  BY DEF AllCoherent, ClaimsCoherent, TypeOK
<1> QED
  BY <1>1, TypeCorrect, CoherentInit, CoherentStep, PTL DEF Spec
-----------------------------------------------------------------------------
\* What one write of a row may do to work whose lease still runs.
KeepsHolder(old, new) ==
  old.status = "doing" /\ old.lease > 0 /\ new.status = "doing" => new.holder = old.holder

LEMMA RowsKeepHolder ==
  ASSUME NEW row \in Rows, NEW h \in Holders, NEW status \in {"review", "blocked", "dropped", "done"}
  PROVE  /\ KeepsHolder(row, row)
         /\ KeepsHolder(row, Unheld("todo"))
         /\ Claimable(row) => KeepsHolder(row, Claimed(row, h))
         /\ KeepsHolder(row, WithStatus(row, status))
         /\ KeepsHolder(row, Renewed(row, h))
         /\ KeepsHolder(row, Dropped(row, h))
         /\ KeepsHolder(row, Aged(row))
  BY DEF KeepsHolder, Unheld, Claimable, Lapsed, Claimed, WithStatus, Closed, Renewed, Dropped,
         HeldDoing, Aged, Rows

LEMMA HolderStep == TypeOK /\ [Next]_vars => \A t \in Tasks : KeepsHolder(task[t], task'[t])
<1> SUFFICES ASSUME TypeOK, [Next]_vars, NEW u \in Tasks
             PROVE  KeepsHolder(task[u], task'[u])
  OBVIOUS
<1>row. \A t \in Tasks : task[t] \in Rows
  BY DEF TypeOK
<1>fun. task \in [Tasks -> Rows]
  BY DEF TypeOK
<1>0. KeepsHolder(task[u], task[u])
  BY DEF KeepsHolder
<1>1. ASSUME UNCHANGED task PROVE KeepsHolder(task[u], task'[u])
  BY <1>0, <1>1
<1>2. ASSUME NEW t \in Tasks, NEW row, KeepsHolder(task[t], row), Move(t, row)
      PROVE  KeepsHolder(task[u], task'[u])
  BY <1>0, <1>2, <1>fun DEF Move
<1>3. ASSUME NEW t \in Tasks, NEW h \in Holders, Claimable(task[t])
      PROVE  KeepsHolder(task[t], Claimed(task[t], h))
  BY <1>row, <1>3, RowsKeepHolder
<1>4. ASSUME NEW t \in Tasks, Finish(t) PROVE KeepsHolder(task[u], task'[u])
  <2>1. PICK status \in {"review", "blocked", "dropped", "done"} :
          Move(t, WithStatus(task[t], status))
    BY <1>4 DEF Finish
  <2>2. KeepsHolder(task[t], WithStatus(task[t], status))
    BY <1>row, RowsKeepHolder, HoldersFact
  <2> QED
    BY <1>2, <2>1, <2>2
<1>5. ASSUME NEW t \in Tasks, Release(t) \/ Reopen(t) PROVE KeepsHolder(task[u], task'[u])
  <2>1. KeepsHolder(task[t], Unheld("todo"))
    BY DEF KeepsHolder, Unheld
  <2> QED
    BY <1>2, <1>5, <2>1 DEF Release, Reopen
<1>6. ASSUME NEW s \in Sessions, Renew(s) \/ Exit(s) \/ PruneEnd(s)
      PROVE  KeepsHolder(task[u], task'[u])
  <2>1. KeepsHolder(task[u], Renewed(task[u], s)) /\ KeepsHolder(task[u], Dropped(task[u], s))
    BY <1>row, RowsKeepHolder, HoldersFact
  <2> QED
    BY <1>0, <1>6, <2>1 DEF Renew, Exit, PruneEnd
<1>7. ASSUME NEW s \in Sessions, NEW t \in Tasks, NextClaim(s, t)
      PROVE  KeepsHolder(task[u], task'[u])
  BY <1>1, <1>2, <1>3, <1>7, HoldersFact DEF NextClaim
<1>8. ASSUME Tick PROVE KeepsHolder(task[u], task'[u])
  <2>1. KeepsHolder(task[u], Aged(task[u]))
    BY <1>row, RowsKeepHolder, HoldersFact
  <2> QED
    BY <1>8, <2>1 DEF Tick
<1>9. ASSUME NEW t \in Tasks, TaskCommand(t) PROVE KeepsHolder(task[u], task'[u])
  BY <1>1, <1>2, <1>3, <1>4, <1>5, <1>9, HoldersFact DEF TaskCommand, Add, Claim
<1>10. ASSUME NEW s \in Sessions, SessionStep(s) PROVE KeepsHolder(task[u], task'[u])
  <2>1. CASE \E t \in Tasks : Claim(s, t) \/ NextClaim(s, t)
    BY <2>1, <1>2, <1>3, <1>7, HoldersFact DEF Claim
  <2>2. CASE Start(s) \/ Touch(s) \/ Die(s) \/ NextRead(s)
    BY <2>2, <1>1 DEF Start, Touch, Die, NextRead, boardVars
  <2> QED
    BY <1>6, <1>10, <2>1, <2>2 DEF SessionStep
<1>11. ASSUME PruneList \/ PruneReturn \/ UNCHANGED vars PROVE KeepsHolder(task[u], task'[u])
  BY <1>1, <1>11 DEF PruneList, PruneReturn, boardVars, vars
<1> QED
  BY <1>6, <1>8, <1>9, <1>10, <1>11 DEF Next

(* While a lease runs, a task in progress passes to nobody else: of any    *)
(* number of concurrent claimers at most one is the holder until it gives  *)
(* the task up, finishes it or lets the lease lapse.                       *)
THEOREM LeasesHold == Spec => LiveLeaseNeverStolen
<1>1. TypeOK /\ [Next]_vars =>
        [\A t \in added : task[t].status = "doing" /\ task[t].lease > 0
           /\ task'[t].status = "doing" => task'[t].holder = task[t].holder]_vars
  BY HolderStep DEF KeepsHolder, TypeOK
<1> QED
  BY <1>1, TypeCorrect, PTL DEF Spec, LiveLeaseNeverStolen
-----------------------------------------------------------------------------
LEMMA ParkedRows ==
  ASSUME NEW row, NEW h, row.status \in {"review", "blocked"}
  PROVE  Dropped(row, h) = row
  BY DEF Dropped, HeldDoing

LEMMA ParkedStep ==
  TypeOK /\ [Next]_vars /\ (seat' # seat \/ alive' # alive) =>
    \A t \in Tasks : task[t].status \in {"review", "blocked"} => task'[t] = task[t]
<1> SUFFICES ASSUME TypeOK, [Next]_vars, seat' # seat \/ alive' # alive,
                    NEW t \in Tasks, task[t].status \in {"review", "blocked"}
             PROVE  task'[t] = task[t]
  OBVIOUS
<1>1. CASE \E u \in Tasks : TaskCommand(u)
  BY <1>1 DEF TaskCommand, Add, Finish, Release, Reopen, Claim, sessionVars
<1>2. ASSUME NEW s \in Sessions, SessionStep(s) PROVE task'[t] = task[t]
  <2>1. CASE Exit(s)
    BY <2>1, ParkedRows DEF Exit
  <2>2. CASE Start(s) \/ Touch(s) \/ Die(s) \/ NextRead(s) \/ Renew(s)
    BY <2>2 DEF Start, Touch, Die, NextRead, Renew, boardVars, sessionVars
  <2>3. CASE \E u \in Tasks : Claim(s, u) \/ NextClaim(s, u)
    BY <2>3 DEF Claim, NextClaim, sessionVars
  <2> QED
    BY <1>2, <2>1, <2>2, <2>3 DEF SessionStep
<1>3. CASE \E s \in Sessions : PruneEnd(s)
  BY <1>3, ParkedRows DEF PruneEnd
<1>4. CASE PruneList \/ PruneReturn \/ Tick \/ UNCHANGED vars
  BY <1>4 DEF PruneList, PruneReturn, Tick, vars, boardVars, sessionVars
<1> QED
  BY <1>1, <1>2, <1>3, <1>4 DEF Next

(* No session's start, exit, death or pruning moves a task in review or    *)
(* blocked, whoever holds it.                                              *)
THEOREM ParkedWorkSurvives == Spec => ParkedWorkSurvivesSessions
<1>1. TypeOK /\ [Next]_vars =>
        [seat' # seat \/ alive' # alive =>
           \A t \in added : task[t].status \in {"review", "blocked"} => task'[t] = task[t]]_vars
  BY ParkedStep DEF TypeOK
<1> QED
  BY <1>1, TypeCorrect, PTL DEF Spec, ParkedWorkSurvivesSessions
=============================================================================
