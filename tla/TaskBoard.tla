----------------------------- MODULE TaskBoard -----------------------------
(***************************************************************************)
(* The shared task board: team tasks, the sessions that claim them, and    *)
(* the hooks and commands that move both (services/team.py over            *)
(* core/store.py).  There is no daemon: every hook and every command is a  *)
(* process of its own, and each SQLite transaction is one action, so a     *)
(* command that reads in one and writes in the next is two actions with    *)
(* anything in between.  Time is counted in ticks.                         *)
(***************************************************************************)
EXTENDS TaskRow, FiniteSets

CONSTANTS Tasks,        \* numbered in the order they are added (upsert_task's MAX + 1)
          Sessions,     \* Claude Code sessions
          Cli,          \* the claimant of a command no session runs
          Suits,        \* [Sessions -> SUBSET Tasks]: the tasks its role may be handed
          StaleAfter,   \* _STALE_AFTER: silence after which prune retires presence
          OrphanAfter,  \* _CLAIM_ORPHAN_AFTER: silence after which it frees claims
          Pruning       \* BOUND: whether anybody runs `team prune`

ASSUME TasksAssumption == Tasks \subseteq Nat
ASSUME HoldersAssumption == Sessions \subseteq Holders /\ Cli \in Holders \ Sessions
ASSUME SuitsAssumption == Suits \in [Sessions -> SUBSET Tasks]
ASSUME ClocksAssumption == StaleAfter \in Nat /\ OrphanAfter \in Nat /\ Pruning \in BOOLEAN

VARIABLES added,      \* the tasks that exist
          task,       \* [Tasks -> Rows]
          needs,      \* [Tasks -> SUBSET Tasks]: what each waits for, fixed when added
          alive,      \* sessions whose process runs
          seat,       \* [Sessions -> Seats]: the team_session row, by its ended_at
          seen,       \* [Sessions -> Nat]: ticks since last_seen_at
          hook,       \* sessions whose heartbeat hook has renewed and not yet touched
          picked,     \* [Sessions -> SUBSET Tasks]: what `task next --claim` read
          prune       \* the pass in progress

boardVars == <<added, task, needs>>
sessionVars == <<alive, seat, seen, hook>>
vars == <<added, task, needs, alive, seat, seen, hook, picked, prune>>

Seats == {"none", "live", "ended"}
LongSilence == OrphanAfter + StaleAfter + 1
NoPrune == [on |-> FALSE, ghosts |-> {}, orphans |-> {}]

TypeOK == /\ added \subseteq Tasks
          /\ task \in [Tasks -> Rows]
          /\ needs \in [Tasks -> SUBSET Tasks]
          /\ alive \subseteq Sessions
          /\ seat \in [Sessions -> Seats]
          /\ seen \in [Sessions -> Nat]
          /\ hook \subseteq Sessions
          /\ picked \in [Sessions -> SUBSET Tasks]
          /\ prune \in [on : BOOLEAN, ghosts : SUBSET Sessions, orphans : SUBSET Sessions]

Init == /\ added = {}
        /\ task = [t \in Tasks |-> NewRow]
        /\ needs = [t \in Tasks |-> {}]
        /\ alive = {}
        /\ seat = [s \in Sessions |-> "none"]
        /\ seen = [s \in Sessions |-> 0]
        /\ hook = {}
        /\ picked = [s \in Sessions |-> {}]
        /\ prune = NoPrune

Is(t, status) == t \in added /\ task[t].status = status
Move(t, row) == task' = [task EXCEPT ![t] = row]
-----------------------------------------------------------------------------
(* The task commands: one guarded statement each.                          *)

\* upsert_task: the next number; needs name tasks that already exist.
Add(t) == /\ t \notin added /\ \A u \in Tasks : u < t => u \in added
          /\ \E N \in SUBSET added : needs' = [needs EXCEPT ![t] = N]
          /\ added' = added \cup {t}
          /\ UNCHANGED <<task, sessionVars, picked, prune>>

\* claim_task, for a session or for a shell that has none.
Claim(h, t) == /\ h \in {s \in alive : picked[s] = {}} \cup {Cli} /\ t \in added
               /\ Claimable(task[t])
               /\ Move(t, Claimed(task[t], h))
               /\ UNCHANGED <<added, needs, sessionVars, picked, prune>>

\* _finish_task: review, block and drop, and done for a task no brief links.
Finish(t) == /\ t \in added
             /\ \E status \in {"review", "blocked", "dropped", "done"} :
                  Move(t, WithStatus(task[t], status))
             /\ UNCHANGED <<added, needs, sessionVars, picked, prune>>

Release(t) == /\ t \in added /\ Releasable(task[t])
              /\ Move(t, Unheld("todo"))
              /\ UNCHANGED <<added, needs, sessionVars, picked, prune>>

Reopen(t) == /\ t \in added /\ Reopenable(task[t])
             /\ Move(t, Unheld("todo"))
             /\ UNCHANGED <<added, needs, sessionVars, picked, prune>>
-----------------------------------------------------------------------------
(* `task next --claim`: a read, then the claim, in a loop.                 *)

\* next_task: todo, of the caller's role, and every need resolved.  Which of them comes
\* first is left open: the one its fleet row or --task names, else the lowest id.
Ready(s) == {t \in Suits[s] : Is(t, "todo") /\ \A n \in needs[t] : task[n].status \in Closed}

NextRead(s) == /\ s \in alive /\ picked[s] = {}
               /\ \E t \in Ready(s) : picked' = [picked EXCEPT ![s] = {t}]
               /\ UNCHANGED <<boardVars, sessionVars, prune>>

\* The claim asks only what claim_task asks; a lost one goes round the loop.
NextClaim(s, t) == /\ t \in picked[s]
                   /\ picked' = [picked EXCEPT ![s] = {}]
                   /\ IF Claimable(task[t]) THEN Move(t, Claimed(task[t], s)) ELSE UNCHANGED task
                   /\ UNCHANGED <<added, needs, sessionVars, prune>>
-----------------------------------------------------------------------------
(* The hooks of a session.                                                 *)

\* hook_session_start: upsert_session registers it, or revives its row.
Start(s) == /\ s \notin alive
            /\ alive' = alive \cup {s}
            /\ seat' = [seat EXCEPT ![s] = "live"]
            /\ seen' = [seen EXCEPT ![s] = 0]
            /\ UNCHANGED <<boardVars, hook, picked, prune>>

\* A prompt or a turn's end renews the session's leases (renew_leases) ...
Renew(s) == /\ s \in alive \ hook
            /\ task' = [t \in Tasks |-> Renewed(task[t], s)]
            /\ hook' = hook \cup {s}
            /\ UNCHANGED <<added, needs, alive, seat, seen, picked, prune>>

\* ... and then touches its row, which un-retires one a prune ended (touch_session).
Touch(s) == /\ s \in hook
            /\ hook' = hook \ {s}
            /\ seat' = [seat EXCEPT ![s] = "live"]
            /\ seen' = [seen EXCEPT ![s] = 0]
            /\ UNCHANGED <<boardVars, alive, picked, prune>>

Gone(s) == /\ alive' = alive \ {s} /\ hook' = hook \ {s}
           /\ picked' = [picked EXCEPT ![s] = {}]

\* hook_session_end of a session no fleet row parks: end_session, or release_claims
\* alone for a row that ended before.
Exit(s) == /\ s \in alive \ hook /\ picked[s] = {}
           /\ Gone(s)
           /\ task' = [t \in Tasks |-> Dropped(task[t], s)]
           /\ seen' = [seen EXCEPT ![s] = IF seat[s] = "live" THEN 0 ELSE @]
           /\ seat' = [seat EXCEPT ![s] = "ended"]
           /\ UNCHANGED <<added, needs, prune>>

\* The process is killed, at any point of a hook or a command: nothing is written.
Die(s) == s \in alive /\ Gone(s) /\ UNCHANGED <<boardVars, seat, seen, prune>>
-----------------------------------------------------------------------------
(* `aisquare team prune`: a list read once, then one end_session per ghost. *)

Idle(s, ticks) == seat[s] = "live" /\ seen[s] > ticks

ClaimThreshold == IF StaleAfter > OrphanAfter THEN StaleAfter ELSE OrphanAfter

\* `release` is --release-claims: claims then go at the presence threshold.
PruneList == /\ Pruning /\ ~prune.on
             /\ \E release \in BOOLEAN :
                  LET clock == IF release THEN StaleAfter ELSE ClaimThreshold
                  IN prune' = [on |-> TRUE,
                               ghosts |-> {s \in Sessions : Idle(s, StaleAfter)},
                               orphans |-> {s \in Sessions : Idle(s, clock)}]
             /\ UNCHANGED <<boardVars, sessionVars, picked>>

PruneEnd(s) == /\ s \in prune.ghosts
               /\ prune' = [prune EXCEPT !.ghosts = @ \ {s}]
               /\ task' = [t \in Tasks |-> IF s \in prune.orphans THEN Dropped(task[t], s) ELSE task[t]]
               /\ seat' = [seat EXCEPT ![s] = "ended"]
               /\ seen' = [seen EXCEPT ![s] = 0]
               /\ UNCHANGED <<added, needs, alive, hook, picked>>

PruneReturn == /\ prune.on /\ prune.ghosts = {}
               /\ prune' = NoPrune
               /\ UNCHANGED <<boardVars, sessionVars, picked>>

\* BOUND: silence is counted no further than a prune can tell apart.
Later(clock) == [s \in Sessions |-> IF clock[s] < LongSilence THEN clock[s] + 1 ELSE clock[s]]

Tick == /\ task' = [t \in Tasks |-> Aged(task[t])]
        /\ seen' = Later(seen)
        /\ UNCHANGED <<added, needs, alive, seat, hook, picked, prune>>
-----------------------------------------------------------------------------
TaskCommand(t) == Add(t) \/ Finish(t) \/ Release(t) \/ Reopen(t) \/ Claim(Cli, t)

SessionStep(s) == \/ Start(s) \/ Renew(s) \/ Touch(s) \/ Exit(s) \/ Die(s) \/ NextRead(s)
                  \/ \E t \in Tasks : Claim(s, t) \/ NextClaim(s, t)

Next == \/ \E t \in Tasks : TaskCommand(t)
        \/ \E s \in Sessions : SessionStep(s) \/ PruneEnd(s)
        \/ PruneList \/ PruneReturn
        \/ Tick

Spec == Init /\ [][Next]_vars

\* The clock is the only thing that moves by itself.
FairSpec == Spec /\ WF_vars(Tick)
-----------------------------------------------------------------------------
Working(s, t) == t \in added /\ HeldDoing(task[t], s)

(* However claims, hooks, ends, prunes and status writes interleave, work  *)
(* in progress has a holder with a lease and every other open or closed    *)
(* task names nobody (set_task_status: a lingering claimed_by "invites a   *)
(* bogus release").                                                        *)
ClaimsCoherent == \A t \in added : Coherent(task[t])

(* A task whose lease runs never passes from one holder straight to        *)
(* another: it is given up, closed or lapsed first (claim_task: "exactly   *)
(* one concurrent claimer wins").                                          *)
LiveLeaseNeverStolen ==
  [][\A t \in added : task[t].status = "doing" /\ task[t].lease > 0
       /\ task'[t].status = "doing" => task'[t].holder = task[t].holder]_vars

(* Sessions that start, exit, die or are pruned move no task in review or  *)
(* blocked: those keep their holder indefinitely (CLAIM_KEEPING_STATUSES), *)
(* so rework goes back to its author.                                      *)
ParkedWorkSurvivesSessions ==
  [][seat' # seat \/ alive' # alive =>
       \A t \in added : task[t].status \in {"review", "blocked"} => task'[t] = task[t]]_vars

(* Work whose session died without a hook can be claimed again, or has     *)
(* been moved by somebody: no other session's heartbeat keeps it held.     *)
AbandonedWorkComesFree ==
  \A s \in Sessions, t \in Tasks :
    (Working(s, t) /\ s \notin alive) ~> (Claimable(task[t]) \/ ~Working(s, t) \/ s \in alive)
=============================================================================
