------------------------------ MODULE HandOver ------------------------------
(***************************************************************************)
(* One fleet agent through its switches, restarts, pauses and stops        *)
(* (services/fleet.py), with the hooks its own process runs                *)
(* (services/team.py) and the rows both write (core/store.py).             *)
(*                                                                         *)
(* A hand-over (switch, restart of a running agent, pause) takes many      *)
(* steps, each a store session or a tmux call of its own: it marks the     *)
(* agent's session "switching", sends /exit, kills the window, ends the    *)
(* row, takes the mark back and starts a replacement.  Between any two of  *)
(* them another hand-over, the owner's stop, a listing or a reap, and the  *)
(* agent's own hooks may run, and the process may be killed.               *)
(*                                                                         *)
(* The agent keeps its label, which its live row holds alone, and works on *)
(* one claim.  Rows are numbered in the order they are recorded; a session *)
(* has the number of the row whose process minted it.  Each store session  *)
(* is one step; so is a session-end hook with the death it comes with.     *)
(***************************************************************************)
EXTENDS Naturals, FiniteSets

CONSTANTS
  Movers,      \* processes running fleet switch, restart or pause
  MaxRows,     \* BOUND: fleet rows recorded for the label
  MaxCommands, \* BOUND: switches, restarts, pauses and stops asked for
  MaxKills,    \* BOUND: movers killed on their way
  LateStarts   \* may a start hook run while its session is marked?

ASSUME HandOverAssumption ==
  /\ MaxRows \in Nat \ {0} /\ MaxCommands \in Nat /\ MaxKills \in Nat
  /\ LateStarts \in BOOLEAN

Rows     == 1 .. MaxRows
Sessions == Rows
Pool     == 0   \* the claim is the pool's, or another worker's
NoRow    == 0

VARIABLES
  rows,     \* fleet_agent: how each row stands
  pane,     \* what tmux has of each row's pane
  session,  \* team_session
  holder,   \* team_task.claimed_by of the agent's task
  exits,    \* agent_exited events on the board, by row
  mover,    \* the local state of switch, restart and pause
  owner,    \* the local state of the owner's `fleet stop`
  look,     \* the pane a listing or a reap saw dead or gone, not yet recorded
  robbed,   \* history: rows whose hand-over had its mark taken back by another row's
  commands, kills

vars == <<rows, pane, session, holder, exits, mover, owner, look, robbed, commands, kills>>

Made == Cardinality({r \in Rows : rows[r].st # "none"})
Live(r) == rows[r].st = "live"
Paused(r) == rows[r].paused
Running(r) == pane[r] \in {"up", "exiting"}

Marked(s) == session[s].mark # NoRow

\* Mutant: a heartbeat replaces the mark.
StampedOver(s, n) == [s EXCEPT !.mark = NoRow]
(* last_seen_at matters on a marked session alone: every row recorded so far was
   created before it, and the hand-over grace counts from it. *)
Stamped(s, n) == IF s.mark = NoRow THEN s ELSE [s EXCEPT !.mark = n, !.fresh = TRUE]
Retired(s, n) == [Stamped(s, n) EXCEPT !.ended = TRUE]

\* Mutant: a mark holds for ever.
HandedOverForever(r, s) == r <= session[s].mark
(* fleet._handed_over, and the held_after of _mark_handing_over: the session
   bears the mark, the row predates its last_seen_at, and that is fresh. *)
HandedOver(r, s) == r <= session[s].mark /\ session[s].fresh

Idle == [pc |-> "idle", pausing |-> FALSE, row |-> NoRow, sess |-> NoRow,
         snap |-> "none", exited |-> FALSE, paused |-> FALSE, guarded |-> FALSE,
         res |-> "none", new |-> NoRow]

Resting == [pc |-> "idle", row |-> NoRow, exited |-> FALSE]
NoLook == [row |-> NoRow, kind |-> "none"]

(* The agent has joined the board: its start hook has run. *)
Init ==
  /\ rows = [r \in Rows |->
       [st |-> IF r = 1 THEN "live" ELSE "none", by |-> "none", paused |-> FALSE,
        sess |-> IF r = 1 THEN 1 ELSE NoRow, own |-> IF r = 1 THEN 1 ELSE NoRow]]
  /\ pane = [r \in Rows |-> IF r = 1 THEN "up" ELSE "none"]
  /\ session \in [Sessions -> [on : BOOLEAN, mark : {NoRow}, fresh : {TRUE},
                               ended : {FALSE}]]
  /\ \A s \in Sessions \ {1} : ~ session[s].on
  /\ ~ LateStarts => session[1].on
  /\ holder \in {Pool, 1} /\ (holder = 1 => session[1].on)
  /\ exits = [r \in Rows |-> 0]
  /\ mover = [m \in Movers |-> Idle]
  /\ owner = Resting
  /\ look = NoLook
  /\ robbed = {}
  /\ commands = 0 /\ kills = 0

-----------------------------------------------------------------------------
(* What several of them do. *)

(* team.release_agent_claims: the session's claims go back to the pool and its
   presence is retired, unless the board has no such session. *)
Release(s) ==
  /\ holder' = IF session[s].on /\ holder = s THEN Pool ELSE holder
  /\ session' = IF session[s].on /\ ~ session[s].ended
                THEN [session EXCEPT ![s] = Retired(@, Made)]
                ELSE session

\* Mutant: the reason lands in the column of the end.
EndRowSwapped(r, by, paused) == rows' = [rows EXCEPT ![r].st = by, ![r].paused = paused]
(* store.end_fleet_agent_if_live, once the row was found live. *)
EndRow(r, by, paused) ==
  rows' = [rows EXCEPT ![r].st = "ended", ![r].by = by, ![r].paused = paused]

(* store.mark_fleet_agent_stopped *)
MarkStopped(r) == rows' = [rows EXCEPT ![r].by = "stopped", ![r].paused = FALSE]

Announce(r) == exits' = [exits EXCEPT ![r] = @ + 1]

\* Mutant: a death is recorded by everybody who sees it.
EndDeadAgain(r) == EndRow(r, "died", FALSE) /\ Release(rows[r].sess) /\ Announce(r)
(* A dead row is ended, its claims released and its exit announced by whoever ends
   it; the others change nothing. *)
EndDead(r) ==
  IF Live(r)
  THEN EndRow(r, "died", FALSE) /\ Release(rows[r].sess) /\ Announce(r)
  ELSE UNCHANGED <<rows, session, holder, exits>>

-----------------------------------------------------------------------------
(* The agent's own process: its hooks, and its death. *)

(* hook_session_start: the session joins the board, or is revived, its state
   replaced whatever it was; a row still on its predecessor's session is
   adopted with the claims of that session. *)
StartHook(r) ==
  LET s == rows[r].own IN
  /\ Running(r)
  /\ ~ LateStarts => (pane[r] = "up" /\ ~ HandedOver(r, s))
  /\ session' = [session EXCEPT ![s] =
       [on |-> TRUE, mark |-> NoRow, fresh |-> TRUE, ended |-> FALSE]]
  /\ IF Live(r) /\ rows[r].sess # s
     THEN /\ rows' = [rows EXCEPT ![r].sess = s]
          /\ holder' = IF holder = rows[r].sess THEN s ELSE holder
     ELSE UNCHANGED <<rows, holder>>
  /\ UNCHANGED <<pane, exits, mover, owner, look, robbed, commands, kills>>

(* A hook's heartbeat (touch_session): proof of life, which keeps a mark. *)
Beat(r) ==
  LET s == rows[r].own IN
  /\ Running(r) /\ session[s].on
  /\ session' = [session EXCEPT ![s] = Stamped([@ EXCEPT !.ended = FALSE], Made)]
  /\ UNCHANGED <<rows, pane, holder, exits, mover, owner, look, robbed, commands, kills>>

(* task claim by the agent. *)
Claim ==
  /\ holder = Pool
  /\ \E r \in Rows : pane[r] = "up" /\ session[rows[r].own].on /\ holder' = rows[r].own
  /\ UNCHANGED <<rows, pane, session, exits, mover, owner, look, robbed, commands, kills>>

(* hook_session_end, and the process is gone: the claims of a marked session
   of a live row are parked for the replacement, any other's released. *)
Exit(r) ==
  LET s == rows[r].own
      parks == Marked(s) /\ \E q \in Rows : Live(q) /\ rows[q].sess = s
  IN
  /\ Running(r)
  /\ pane' = [pane EXCEPT ![r] = "dead"]
  /\ IF session[s].on
     THEN /\ session' = [session EXCEPT ![s] =
               IF parks \/ ~ @.ended THEN Retired(@, Made) ELSE @]
          /\ holder' = IF ~ parks /\ holder = s THEN Pool ELSE holder
     ELSE UNCHANGED <<session, holder>>
  /\ UNCHANGED <<rows, exits, mover, owner, look, robbed, commands, kills>>

(* It dies without a hook, or its window goes with it. *)
Die(r) ==
  /\ \/ Running(r) /\ pane' = [pane EXCEPT ![r] = "dead"]
     \/ pane[r] \in {"up", "exiting", "dead"} /\ pane' = [pane EXCEPT ![r] = "gone"]
  /\ UNCHANGED <<rows, session, holder, exits, mover, owner, look, robbed, commands, kills>>

-----------------------------------------------------------------------------
(* switch, restart and pause. *)

At(m, pc) == mover[m].pc = pc
Goes(m, pc) == mover' = [mover EXCEPT ![m].pc = pc]
Refused(m) == mover' = [mover EXCEPT ![m] = Idle]

(* The hand-over has its agent's session marked; and still stops the agent. *)
Marks(m) == mover[m].pc \in {"stop", "kill", "end", "unmark"} /\ mover[m].snap # "none"
Stops(m) == Marks(m) /\ ~ At(m, "unmark")

(* The first store session of each: the label's newest row, its session as it
   stands (the snapshot the mark is later taken back to), and the refusal of a
   row a hand-over is already moving. *)
Read(m, verb) ==
  LET r == Made
      s == rows[r].sess
  IN
  /\ At(m, "idle") /\ commands < MaxCommands
  /\ verb # "restart" => Live(r)
  /\ verb # "pause" => ~ (Live(r) /\ HandedOver(r, s))
  /\ ~ LateStarts /\ Live(r) => session[rows[r].own].on /\ session[s].on
  /\ mover' = [mover EXCEPT ![m] =
       [Idle EXCEPT !.pc = CASE verb = "pause" -> "mark"
                             [] verb = "switch" -> "recheck"
                             [] verb = "restart" -> IF Live(r) THEN "choose" ELSE "respawn",
                    !.pausing = (verb = "pause"), !.row = r, !.sess = s,
                    !.snap = CASE ~ session[s].on -> "none"
                                [] session[s].on /\ Marked(s) -> "switching"
                                [] OTHER -> "working",
                    !.paused = Paused(r),
                    !.guarded = ~ Live(r) /\ (rows[r].by # "stopped" \/ Paused(r))]]
  /\ commands' = commands + 1
  /\ UNCHANGED <<rows, pane, session, holder, exits, owner, look, robbed, kills>>

(* switch, after the account lookup: is it still that row? *)
Recheck(m) ==
  /\ At(m, "recheck")
  /\ IF Live(mover[m].row) THEN Goes(m, "mark") ELSE Refused(m)
  /\ UNCHANGED <<rows, pane, session, holder, exits, owner, look, robbed, commands, kills>>

(* What restart found dead it brings back, unless the owner stopped it meanwhile,
   and from here on any stop before the replacement is recorded wins. *)
BringsBack(m) ==
  IF rows[mover[m].row].by = "stopped" THEN Refused(m)
  ELSE mover' = [mover EXCEPT ![m].pc = "respawn", ![m].guarded = TRUE]

(* restart of a row read live: a running pane is handed over.  A dead one is
   recorded as a listing records it, or, gone or held by a hand-over, stopped. *)
Choose(m) ==
  LET r == mover[m].row
      s == rows[r].sess
  IN
  /\ At(m, "choose")
  /\ \/ Running(r) /\ Goes(m, "mark") /\ UNCHANGED <<rows, session, holder, exits>>
     \/ /\ pane[r] = "gone" \/ (pane[r] = "dead" /\ HandedOver(r, s))
        /\ Goes(m, "clear")
        /\ UNCHANGED <<rows, session, holder, exits>>
     \/ /\ pane[r] = "dead" /\ ~ HandedOver(r, s)
        /\ EndDead(r)
        /\ BringsBack(m)
  /\ UNCHANGED <<pane, owner, look, robbed, commands, kills>>

(* restart's stop(nudge=False, ended_by="died") of a pane that is not running. *)
Clear(m) ==
  LET r == mover[m].row IN
  /\ At(m, "clear")
  /\ pane' = [pane EXCEPT ![r] = IF Live(r) THEN "gone" ELSE @]
  /\ EndDead(r)
  /\ BringsBack(m)
  /\ UNCHANGED <<owner, look, robbed, commands, kills>>

\* Mutant: the mark is a plain heartbeat.
MarkBlindly(m) ==
  /\ At(m, "mark") /\ Goes(m, "stop")
  /\ session' = IF mover[m].snap = "none" THEN session
                ELSE [session EXCEPT ![mover[m].sess].mark = Made,
                                     ![mover[m].sess].fresh = TRUE]
  /\ UNCHANGED <<rows, pane, holder, exits, owner, look, robbed, commands, kills>>
(* _mark_handing_over: the compare-and-set that refuses the second hand-over.
   A session that is not on the board has nothing to mark. *)
Mark(m) ==
  LET s == mover[m].sess IN
  /\ At(m, "mark")
  /\ CASE mover[m].snap = "none" -> Goes(m, "stop") /\ UNCHANGED session
       [] mover[m].snap # "none" /\ HandedOver(mover[m].row, s) ->
            Refused(m) /\ UNCHANGED session
       [] OTHER ->
            /\ Goes(m, "stop")
            /\ session' = [session EXCEPT ![s] =
                 [@ EXCEPT !.mark = Made, !.fresh = TRUE, !.ended = FALSE]]
  /\ UNCHANGED <<rows, pane, holder, exits, owner, look, robbed, commands, kills>>

(* stop(handover=True): the live row again, and the /exit to a running pane. *)
SendExit(m) ==
  LET r == mover[m].row IN
  /\ At(m, "stop")
  /\ IF Live(r)
     THEN /\ mover' = [mover EXCEPT ![m].pc = "kill", ![m].exited = Running(r)]
          /\ pane' = [pane EXCEPT ![r] = IF Running(r) THEN "exiting" ELSE @]
     ELSE /\ mover' = [mover EXCEPT ![m].pc = "unmark", ![m].res = "raised"]
          /\ UNCHANGED pane
  /\ UNCHANGED <<rows, session, holder, exits, owner, look, robbed, commands, kills>>

(* The grace is over: the window is killed, or tmux refuses and the second look
   finds the agent still running, which raises. *)
Kill(m) ==
  LET r == mover[m].row IN
  /\ At(m, "kill")
  /\ \/ pane' = [pane EXCEPT ![r] = "gone"] /\ Goes(m, "end")
     \/ /\ Running(r)
        /\ mover' = [mover EXCEPT ![m].pc = "unmark", ![m].res = "raised"]
        /\ UNCHANGED pane
  /\ UNCHANGED <<rows, session, holder, exits, owner, look, robbed, commands, kills>>

(* _stop_row's end under handover: the row ended with its claims withheld; or,
   ended meanwhile, a stop that worked if this /exit did it and no mark holds. *)
End(m) ==
  LET r == mover[m].row
      res == CASE Live(r) -> "withheld"
               [] ~ Live(r) /\ mover[m].exited /\ ~ HandedOver(r, rows[r].sess) -> "plain"
               [] OTHER -> "raised"
  IN
  /\ At(m, "end")
  /\ IF Live(r) THEN EndRow(r, "stopped", mover[m].pausing) ELSE UNCHANGED rows
  /\ mover' = [mover EXCEPT ![m].pc = "unmark", ![m].res = res, ![m].exited = FALSE]
  /\ UNCHANGED <<pane, session, holder, exits, owner, look, robbed, commands, kills>>

(* _unmark_handing_over, however the stop ended; the store may refuse it.  It asks
   only that the session bears a mark, its own or that of a later row's hand-over. *)
Unmark(m) ==
  LET s == mover[m].sess IN
  /\ At(m, "unmark")
  /\ \/ UNCHANGED <<session, robbed>>
     \/ /\ mover[m].snap = "working" /\ Marked(s)
        /\ session' = [session EXCEPT ![s].mark = NoRow, ![s].fresh = TRUE]
        /\ robbed' = robbed \cup
             ({mover[n].row : n \in {n \in Movers : Marks(n) /\ mover[n].sess = s}} \ {mover[m].row})
  /\ CASE mover[m].res = "raised" -> Refused(m)
       [] mover[m].res # "raised" /\ mover[m].pausing -> Goes(m, "parked")
       [] OTHER -> Goes(m, "respawn")
  /\ UNCHANGED <<rows, pane, holder, exits, owner, look, commands, kills>>

(* pause_agent's last store session: paused whoever ended it, unless the owner
   stopped it; its presence retired and its claims kept. *)
Park(m) ==
  LET r == mover[m].row
      s == mover[m].sess
  IN
  /\ At(m, "parked")
  /\ rows' = IF rows[r].by = "died"
             THEN [rows EXCEPT ![r].by = "stopped", ![r].paused = TRUE]
             ELSE rows
  /\ session' = IF mover[m].snap # "none" /\ ~ session[s].ended
                THEN [session EXCEPT ![s] = Retired(@, Made)]
                ELSE session
  /\ Refused(m)
  /\ UNCHANGED <<pane, holder, exits, owner, look, robbed, commands, kills>>

Handed(m) == mover[m].res \in {"withheld", "plain"}

(* spawn's row, under the label no live row holds: the session resumed from its
   transcript, or a fresh one, which a hand-over records on the old session.
   With `replaces`, not when the row was stopped for good meanwhile. *)
Insert(m, resumed) ==
  LET r == mover[m].row
      n == Made + 1
      takes == (Handed(m) \/ mover[m].paused) /\ mover[m].snap # "none" /\ ~ resumed
  IN
  /\ At(m, "respawn") /\ Made < MaxRows /\ ~ Live(Made)
  /\ resumed => mover[m].snap # "none"
  /\ mover[m].guarded => (rows[r].by # "stopped" \/ Paused(r))
  /\ rows' = [rows EXCEPT ![n] =
       [st |-> "live", by |-> "none", paused |-> FALSE,
        sess |-> IF resumed \/ takes THEN mover[m].sess ELSE n,
        own |-> IF resumed THEN mover[m].sess ELSE n]]
  /\ pane' = [pane EXCEPT ![n] = "up"]
  /\ mover' = [mover EXCEPT ![m].pc = IF takes THEN "take" ELSE "started", ![m].new = n]
  /\ UNCHANGED <<session, holder, exits, owner, look, robbed, commands, kills>>

(* _take_over: the old session's presence retired, then the row and the claims
   moved together if the row is still on it.  The store may refuse either. *)
TakeOver(m) ==
  LET n == mover[m].new
      s == mover[m].sess
  IN
  /\ At(m, "take")
  /\ \/ UNCHANGED session
     \/ /\ ~ session[s].ended
        /\ session' = [session EXCEPT ![s] = Retired(@, Made)]
  /\ \/ UNCHANGED <<rows, holder>>
     \/ /\ Live(n) /\ rows[n].sess = s
        /\ rows' = [rows EXCEPT ![n].sess = n]
        /\ holder' = IF holder = s THEN n ELSE holder
  /\ Goes(m, "started")
  /\ UNCHANGED <<pane, exits, owner, look, robbed, commands, kills>>

(* The replacement is up: the paused row it brought back is history. *)
Started(m) ==
  /\ At(m, "started")
  /\ IF mover[m].paused THEN MarkStopped(mover[m].row) ELSE UNCHANGED rows
  /\ Refused(m)
  /\ UNCHANGED <<pane, session, holder, exits, owner, look, robbed, commands, kills>>

\* Mutant: what was parked is forgotten when no replacement comes.
SpawnFailsQuietly(m) ==
  /\ At(m, "respawn") /\ Refused(m)
  /\ UNCHANGED <<rows, pane, session, holder, exits, owner, look, robbed, commands, kills>>
(* The spawn fails: no seat, a taken label, a tmux that starts no window. *)
SpawnFails(m) ==
  /\ At(m, "respawn")
  /\ IF mover[m].res = "withheld" THEN Goes(m, "abandon") ELSE Refused(m)
  /\ UNCHANGED <<rows, pane, session, holder, exits, owner, look, robbed, commands, kills>>

(* _abandon_handover: what was parked is released, the withheld exit announced. *)
Abandon(m) ==
  /\ At(m, "abandon")
  /\ Release(rows[mover[m].row].sess)
  /\ Announce(mover[m].row)
  /\ Refused(m)
  /\ UNCHANGED <<rows, pane, owner, look, robbed, commands, kills>>

(* The command is killed: nothing is taken back. *)
Killed(m) ==
  /\ ~ At(m, "idle") /\ kills < MaxKills
  /\ kills' = kills + 1
  /\ Refused(m)
  /\ UNCHANGED <<rows, pane, session, holder, exits, owner, look, robbed, commands>>

-----------------------------------------------------------------------------
(* The owner's `fleet stop`. *)

(* A live row is sent /exit.  A paused one is recorded stopped, its claims
   released and its exit announced; an ended one that died is recorded stopped,
   and so is any whose dead window is still there to remove. *)
OwnerStop ==
  LET r == Made IN
  /\ owner.pc = "idle" /\ commands < MaxCommands /\ commands' = commands + 1
  /\ \/ /\ Live(r)
        /\ owner' = [pc |-> "kill", row |-> r, exited |-> Running(r)]
        /\ pane' = [pane EXCEPT ![r] = IF Running(r) THEN "exiting" ELSE @]
        /\ UNCHANGED <<rows, session, holder, exits>>
     \/ /\ ~ Live(r) /\ Paused(r)
        /\ MarkStopped(r) /\ Release(rows[r].sess) /\ Announce(r)
        /\ UNCHANGED <<pane, owner>>
     \/ /\ ~ Live(r) /\ ~ Paused(r) /\ (pane[r] = "dead" \/ rows[r].by = "died")
        /\ MarkStopped(r)
        /\ pane' = [pane EXCEPT ![r] = "gone"]
        /\ UNCHANGED <<session, holder, exits, owner>>
  /\ UNCHANGED <<mover, look, robbed, kills>>

OwnerKill ==
  /\ owner.pc = "kill"
  /\ \/ pane' = [pane EXCEPT ![owner.row] = "gone"] /\ owner' = [owner EXCEPT !.pc = "end"]
     \/ Running(owner.row) /\ owner' = Resting /\ UNCHANGED pane
  /\ UNCHANGED <<rows, session, holder, exits, mover, look, robbed, commands, kills>>

(* _stop_row's end: the row ended, its claims released and its exit announced;
   ended meanwhile, a stop that worked if this /exit reached the pane. *)
OwnerEnd ==
  LET r == owner.row IN
  /\ owner.pc = "end" /\ owner' = Resting
  /\ CASE Live(r) ->
            /\ EndRow(r, "stopped", FALSE) /\ Release(rows[r].sess)
            /\ Announce(r)
       [] ~ Live(r) /\ owner.exited ->
            /\ MarkStopped(r) /\ Release(rows[r].sess)
            /\ UNCHANGED exits
       [] OTHER -> UNCHANGED <<rows, session, holder, exits>>
  /\ UNCHANGED <<pane, mover, look, robbed, commands, kills>>

-----------------------------------------------------------------------------
(* Listings and reap: the rows and the panes are read, then recorded. *)

Look ==
  /\ look = NoLook
  /\ \E r \in Rows : Live(r) /\ pane[r] \in {"dead", "gone"}
                     /\ look' = [row |-> r, kind |-> pane[r]]
  /\ UNCHANGED <<rows, pane, session, holder, exits, mover, owner, robbed, commands, kills>>

(* A row a hand-over is stopping is left.  A dead pane's row is ended
   (_end_dead_rows, and reap alike); a vanished one is lost: ended, and its
   session's claims released, whoever ended it. *)
Record ==
  LET r == look.row
      s == rows[r].sess
  IN
  /\ look # NoLook /\ look' = NoLook
  /\ \/ HandedOver(r, s) /\ UNCHANGED <<rows, session, holder, exits>>
     \/ ~ HandedOver(r, s) /\ look.kind = "dead" /\ EndDead(r)
     \/ /\ ~ HandedOver(r, s) /\ look.kind = "gone"
        /\ IF Live(r) THEN EndRow(r, "died", FALSE) ELSE UNCHANGED rows
        /\ Release(s)
        /\ UNCHANGED exits
  /\ UNCHANGED <<pane, mover, owner, robbed, commands, kills>>

(* HANDOVER_GRACE has passed since the session was last seen: five minutes, which
   a stop that is alive never takes (its own grace is five seconds). *)
Lapse(s) ==
  /\ Marked(s) /\ session[s].fresh
  /\ \A m \in Movers : mover[m].sess = s => mover[m].pc \in {"idle", "recheck", "choose", "mark"}
  /\ session' = [session EXCEPT ![s].fresh = FALSE]
  /\ UNCHANGED <<rows, pane, holder, exits, mover, owner, look, robbed, commands, kills>>

(* The lease of a claim nobody renews runs out, and it is any worker's to take
   (store.claim_task).  A pause holds its claim's lease for as long as it lasts. *)
LeaseLapses ==
  /\ holder \in Sessions
  /\ \A r \in Rows : Running(r) => rows[r].own # holder
  /\ \A r \in Rows : Paused(r) => rows[r].sess # holder
  /\ \A m \in Movers : At(m, "idle") \/ mover[m].sess # holder
  /\ holder' = Pool
  /\ UNCHANGED <<rows, pane, session, exits, mover, owner, look, robbed, commands, kills>>

-----------------------------------------------------------------------------
Agent == Claim \/ \E r \in Rows : StartHook(r) \/ Beat(r) \/ Exit(r) \/ Die(r)

Move(m) ==
  \/ Recheck(m) \/ Choose(m) \/ Clear(m) \/ Mark(m) \/ SendExit(m) \/ Kill(m) \/ End(m)
  \/ Unmark(m) \/ Park(m) \/ \E resumed \in BOOLEAN : Insert(m, resumed)
  \/ TakeOver(m) \/ Started(m) \/ SpawnFails(m) \/ Abandon(m)

Owner == OwnerStop \/ OwnerKill \/ OwnerEnd

Next ==
  \/ Agent
  \/ \E m \in Movers : Move(m) \/ Killed(m) \/ \E v \in {"switch", "restart", "pause"} : Read(m, v)
  \/ Owner \/ Look \/ Record \/ LeaseLapses \/ \E s \in Sessions : Lapse(s)

Spec == Init /\ [][Next]_vars

(* A command that is not killed goes on, listings come again and again, and
   the clock moves.  Each is a union of actions a command or a listing takes in
   turn, and of a command's there are finitely many. *)
FairSpec ==
  /\ Spec
  /\ WF_vars(\E m \in Movers : Move(m))
  /\ WF_vars(Look \/ Record)
  /\ WF_vars(\E s \in Sessions : Lapse(s))

-----------------------------------------------------------------------------
(* Every variable keeps its type: a mark counts recorded rows, and each command is
   at one of its steps with what it read. *)
TypeOK ==
  /\ rows \in [Rows -> [st : {"none", "live", "ended"}, by : {"none", "died", "stopped"},
                        paused : BOOLEAN, sess : Sessions \cup {NoRow},
                        own : Sessions \cup {NoRow}]]
  /\ pane \in [Rows -> {"none", "up", "exiting", "dead", "gone"}]
  /\ session \in [Sessions -> [on : BOOLEAN, mark : 0 .. MaxRows, fresh : BOOLEAN,
                               ended : BOOLEAN]]
  /\ holder \in Sessions \cup {Pool}
  /\ exits \in [Rows -> Nat]
  /\ mover \in [Movers -> [
       pc : {"idle", "recheck", "choose", "mark", "clear", "stop", "kill", "end", "unmark", "parked",
             "respawn", "take", "started", "abandon"},
       pausing : BOOLEAN, row : Rows \cup {NoRow},
       sess : Sessions \cup {NoRow}, snap : {"none", "working", "switching"},
       exited : BOOLEAN, paused : BOOLEAN, guarded : BOOLEAN,
       res : {"none", "withheld", "plain", "raised"}, new : Rows \cup {NoRow}]]
  /\ owner \in [pc : {"idle", "kill", "end"}, row : Rows \cup {NoRow}, exited : BOOLEAN]
  /\ look \in [row : Rows \cup {NoRow}, kind : {"none", "dead", "gone"}]
  /\ robbed \subseteq Rows
  /\ commands \in 0 .. MaxCommands /\ kills \in 0 .. MaxKills

(* At most one hand-over of a row comes away having stopped it: two switches,
   restarts or pauses, however their steps interleave with each other, with
   listings and with the agent's hooks, never both go on to start a replacement
   for it (the compare-and-set of _mark_handing_over and the ending of the row),
   unless a hand-over of another row of the session took their mark back. *)
OneHandOver ==
  \A m, n \in Movers : m # n /\ mover[m].row = mover[n].row /\ mover[m].row \notin robbed
     => ~ (At(m, "respawn") /\ Handed(m) /\ At(n, "respawn") /\ Handed(n))

(* A death is announced once, and only of a row that ended: whichever of a
   listing, a reap, a restart, an abandoned hand-over and the owner's stop ends
   the row, no second one posts agent_exited for it (_emit_exit's callers), with
   the same exception. *)
ExitOnce ==
  \A r \in Rows \ robbed : exits[r] <= 1 /\ (exits[r] = 1 => rows[r].st = "ended")

(* Somebody will give the session's claims back or take them over: a live row, a
   paused one, or a command that has the session in hand. *)
InReach(s) ==
  \/ \E r \in Rows : Live(r) /\ s \in {rows[r].sess, rows[r].own}
  \/ \E r \in Rows : Paused(r) /\ s = rows[r].sess
  \/ \E m \in Movers : ~ At(m, "idle") /\ s = mover[m].sess

(* While a hand-over stops its agent the agent's claim stays for the replacement:
   neither a listing or a reap that sees the dead pane, nor a heartbeat, nor the
   agent's own session-end hook gives it to the pool.  Other commands may: the
   owner's stop, and a restart that read the row before it was marked. *)
Parks(m) ==
  Stops(m) /\ Live(mover[m].row) /\ holder = mover[m].sess /\ holder' = Pool
     => mover' # mover \/ owner' # owner
ParkedStays == [][\A m \in Movers : mover[m].row \notin robbed => Parks(m)]_vars

(* The docstring of _mark_handing_over has no exception: marked for ONE hand-over,
   the session's own SessionEnd parks its claims for the replacement. *)
SessionEndParks == [][\A m \in Movers : Parks(m)]_vars

(* Parked work is never forgotten: as long as no command is killed, a claim of a
   session the board knows stays in somebody's reach, through failed spawns,
   refused take-overs, pauses, and deaths with no hook at any step. *)
NobodyStranded ==
  (kills = 0 /\ holder \in Sessions /\ session[holder].on) => InReach(holder)

(* A row whose process is gone does not stay live, even when the hand-over that
   was stopping it was killed and its mark is left behind: the mark loses its
   hold after HANDOVER_GRACE and the next listing ends the row (_handed_over). *)
DeadRowEnds == []<>(\A r \in Rows : Live(r) => Running(r))

(* The docstring of end_session: claims are released only of a session proved
   dead.  No step but its own gives back the claim of an agent that runs. *)
LiveWorkKept ==
  [][\A r \in Rows : pane[r] = "up" /\ pane'[r] = "up" /\ holder = rows[r].own
        => holder' # Pool]_vars
=============================================================================
