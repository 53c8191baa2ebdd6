------------------------------- MODULE Wakes --------------------------------
(***************************************************************************)
(* How what teammates write on the board reaches the manager: the hooks of *)
(* its session (services/team.py), the nudges typed into its pane          *)
(* (services/fleet.py nudge_manager, services/delivery.py deliver_typed)   *)
(* and the rows both go by (core/store.py).                                *)
(*                                                                         *)
(* The manager's Claude Code process runs a prompt hook when a prompt is   *)
(* submitted and a stop hook when its turn ends; each reads the events     *)
(* past the session's cursor and moves it.  Whoever writes an event worth  *)
(* waking for then types one line into the manager's input box, if its row *)
(* says waiting; `asq` sends again what a draft held back.  A human may be *)
(* typing into the same box.  Nobody holds a lock.                         *)
(*                                                                         *)
(* Events are numbered by seq.  Each store session, tmux call and look at  *)
(* the screen is one step.                                                 *)
(***************************************************************************)
EXTENDS Naturals, FiniteSets

CONSTANTS
  Writers,     \* teammates' commands that write on the board
  Refresh,     \* asq's refresh, which retries held-back nudges
  StopHook,    \* the manager's own stop hook, when it nudges
  MaxEvents,   \* BOUND: events on the board
  DeltaLimit,  \* _DELTA_LIMIT: events one delta shows
  Cap,         \* max_continuations_per_hour, and the run is within one hour
  MaxDrafts,   \* BOUND: drafts a human begins
  MaxMishaps   \* BOUND: hooks killed at their timeout, Enters that Claude Code lets go by

Senders == Writers \cup {Refresh, StopHook}
Events == 1 .. MaxEvents

ASSUME WakesAssumption ==
  /\ MaxEvents \in Nat /\ DeltaLimit \in Nat \ {0} /\ Cap \in Nat
  /\ MaxDrafts \in Nat /\ MaxMishaps \in Nat
  /\ Refresh \notin Writers /\ StopHook \notin Writers /\ Refresh # StopHook

VARIABLES
  last,     \* latest_seq: the newest event
  kind,     \* what each event is to the manager (wake_class, HUMAN_BOARD_KINDS)
  row,      \* team_session: its state and its cursor
  mgr,      \* the manager's process and the hook it runs
  used,     \* continuations counted this hour
  heard,    \* how often each event was put before the manager (history)
  dropped,  \* events a killed hook had in hand (history)
  box,      \* the input box of its pane
  queue,    \* prompts submitted and not yet taken up
  sender,   \* the nudge each sender is at
  lately,   \* nudge:<session> is younger than NUDGE_DEBOUNCE
  held,     \* nudge_deferred:<session>, and whether the manager prompted since
  drafts, mishaps

boardVars == <<last, kind>>
hookVars == <<row, mgr, used, heard, dropped>>
nudgeVars == <<sender, lately, held>>
vars == <<last, kind, row, mgr, used, heard, dropped, box, queue,
          sender, lately, held, drafts, mishaps>>

\* wake and info are news to the manager; left is its own, or for the human only.
Kinds == {"none", "wake", "info", "left"}
News == {"wake", "info"}

\* events_since, with what the query leaves out.
Since(c) == {e \in Events : c < e /\ e <= last /\ kind[e] \in News}
Oldest(S, n) == {e \in S : Cardinality({d \in S : d < e}) < n}
Candidates(c) == Oldest(Since(c), DeltaLimit * 3 + 1)
Shown(c) == Oldest(Candidates(c), DeltaLimit)

\* the seq of the last of them
Newest(S) == CHOOSE e \in S : \A d \in S : d <= e

Empty == [ours |-> 0, draft |-> FALSE]
\* delivery.holds: the line we paste and nothing else
Holds == box.ours = 1 /\ ~ box.draft

Rest == [pc |-> "rest", acked |-> FALSE, presses |-> 0, late |-> FALSE]

Init ==
  /\ last = 0 /\ kind = [e \in Events |-> "none"]
  /\ \E pc \in {"idle", "turn"} :
       /\ row = [state |-> IF pc = "idle" THEN "waiting" ELSE "working", cursor |-> 0]
       /\ mgr = [pc |-> pc, shown |-> {}, upto |-> 0, active |-> FALSE, owes |-> FALSE]
  /\ used = 0
  /\ heard = [e \in Events |-> 0] /\ dropped = {}
  /\ box = Empty /\ queue = 0
  /\ sender = [s \in Senders |-> Rest]
  /\ lately = FALSE /\ held = "no"
  /\ drafts = 0 /\ mishaps = 0

-----------------------------------------------------------------------------
(* The prompt hook (hook_prompt_heartbeat).                                *)

Hears(S) == heard' = [e \in Events |-> IF e \in S THEN heard[e] + 1 ELSE heard[e]]

(* A submitted prompt is taken up: prompted_at is stamped, which acknowledges every
   nudge on its way, and the newest seq is read. *)
TakePrompt ==
  /\ mgr.pc = "idle" /\ queue > 0 /\ queue' = queue - 1
  /\ mgr' = [mgr EXCEPT !.pc = "prompted", !.upto = last]
  /\ sender' = [s \in Senders |->
       IF sender[s].pc = "rest" THEN sender[s] ELSE [sender[s] EXCEPT !.acked = TRUE]]
  /\ held' = IF held = "held" THEN "answered" ELSE held
  /\ UNCHANGED <<boardVars, row, used, heard, dropped, box, lately, drafts, mishaps>>

(* The delta is read: its last line, or the newest seq when there is none. *)
PromptReads ==
  /\ mgr.pc = "prompted"
  /\ mgr' = [mgr EXCEPT !.pc = "moves", !.shown = Shown(row.cursor),
                        !.upto = IF Shown(row.cursor) = {} THEN @ ELSE Newest(Shown(row.cursor))]
  /\ UNCHANGED <<boardVars, row, used, heard, dropped, box, queue, nudgeVars, drafts, mishaps>>

\* Mutant: with nothing to show, the newest seq is read only now.
MovedToLatest == IF mgr.shown = {} THEN last ELSE mgr.upto
Moved == IF mgr.upto > row.cursor THEN mgr.upto ELSE row.cursor

(* touch_session, then the delta is printed. *)
PromptMoves ==
  /\ mgr.pc = "moves"
  /\ row' = [state |-> "working", cursor |-> Moved]
  /\ mgr' = [mgr EXCEPT !.pc = "prints"]
  /\ UNCHANGED <<boardVars, used, heard, dropped, box, queue, nudgeVars, drafts, mishaps>>

PromptPrints ==
  /\ mgr.pc = "prints"
  /\ Hears(mgr.shown)
  /\ mgr' = [mgr EXCEPT !.pc = "turn", !.shown = {}, !.upto = 0]
  /\ UNCHANGED <<boardVars, row, used, dropped, box, queue, nudgeVars, drafts, mishaps>>

-----------------------------------------------------------------------------
(* The stop hook (hook_stop).                                              *)

TurnEnds ==
  /\ mgr.pc = "turn"
  /\ mgr' = [mgr EXCEPT !.pc = "stop"]
  /\ UNCHANGED <<boardVars, row, used, heard, dropped, box, queue, nudgeVars, drafts, mishaps>>

(* _manager_wakeup: kept going on news worth waking for, but not twice in a row and
   not past the hour's cap.  Else it waits, and owes itself a nudge when this turn
   was a continuation and such news is there (_deferred_wake_reason). *)
StopReads ==
  LET wakes == \E e \in Candidates(row.cursor) : kind[e] = "wake"
      keeps == wakes /\ ~ mgr.active /\ used < Cap
  IN
  /\ mgr.pc = "stop"
  /\ mgr' = IF keeps
            THEN [mgr EXCEPT !.pc = "counts", !.shown = Shown(row.cursor),
                             !.upto = Newest(Shown(row.cursor))]
            ELSE [mgr EXCEPT !.pc = "parks", !.owes = wakes /\ mgr.active]
  /\ UNCHANGED <<boardVars, row, used, heard, dropped, box, queue, nudgeVars, drafts, mishaps>>

(* The counter first: a lost increment is cheaper than a moved cursor. *)
StopCounts ==
  /\ mgr.pc = "counts"
  /\ used' = used + 1
  /\ mgr' = [mgr EXCEPT !.pc = "keeps"]
  /\ UNCHANGED <<boardVars, row, heard, dropped, box, queue, nudgeVars, drafts, mishaps>>

\* Mutant: the continuation leaves the cursor to the next prompt.
StopKeepsCursor ==
  /\ mgr.pc = "keeps"
  /\ row' = [row EXCEPT !.state = "working"]
  /\ mgr' = [mgr EXCEPT !.pc = "says"]
  /\ UNCHANGED <<boardVars, used, heard, dropped, box, queue, nudgeVars, drafts, mishaps>>
StopKeeps ==
  /\ mgr.pc = "keeps"
  /\ row' = [state |-> "working", cursor |-> mgr.upto]
  /\ mgr' = [mgr EXCEPT !.pc = "says"]
  /\ UNCHANGED <<boardVars, used, heard, dropped, box, queue, nudgeVars, drafts, mishaps>>

StopSays ==
  /\ mgr.pc = "says"
  /\ Hears(mgr.shown)
  /\ mgr' = [mgr EXCEPT !.pc = "turn", !.shown = {}, !.upto = 0, !.active = TRUE]
  /\ UNCHANGED <<boardVars, row, used, dropped, box, queue, nudgeVars, drafts, mishaps>>

(* The row says waiting, and only then the nudge it owes itself begins. *)
StopParks ==
  /\ mgr.pc = "parks"
  /\ row' = [row EXCEPT !.state = "waiting"]
  /\ mgr' = [mgr EXCEPT !.pc = IF mgr.owes THEN "nudging" ELSE "idle",
                        !.active = FALSE, !.owes = FALSE]
  /\ sender' = [sender EXCEPT ![StopHook].pc = IF mgr.owes THEN "check" ELSE @]
  /\ UNCHANGED <<boardVars, used, heard, dropped, box, queue, lately, held, drafts, mishaps>>

StopEnds ==
  /\ mgr.pc = "nudging" /\ sender[StopHook].pc = "rest"
  /\ mgr' = [mgr EXCEPT !.pc = "idle"]
  /\ UNCHANGED <<boardVars, row, used, heard, dropped, box, queue, nudgeVars, drafts, mishaps>>

(* Claude Code kills a hook that hangs and goes on: with the turn, or to its box. *)
HookKilled ==
  /\ mgr.pc \notin {"idle", "turn"} /\ mishaps < MaxMishaps /\ mishaps' = mishaps + 1
  /\ dropped' = IF mgr.pc \in {"prints", "says"} THEN dropped \cup mgr.shown ELSE dropped
  /\ mgr' = [mgr EXCEPT !.pc = IF @ \in {"prompted", "moves", "prints"} THEN "turn" ELSE "idle",
                        !.shown = {}, !.upto = 0, !.active = FALSE, !.owes = FALSE]
  /\ sender' = [sender EXCEPT ![StopHook] = Rest]
  /\ UNCHANGED <<boardVars, row, used, heard, box, queue, lately, held, drafts>>

-----------------------------------------------------------------------------
(* A nudge (nudge_manager and deliver_typed).                              *)

At(s, pc) == sender[s].pc = pc
Goes(s, pc) == sender' = [sender EXCEPT ![s].pc = pc]

(* An event is committed; one the manager should wake for is followed by a nudge. *)
Write(w, k) ==
  /\ At(w, "rest") /\ last < MaxEvents
  /\ last' = last + 1 /\ kind' = [kind EXCEPT ![last + 1] = k]
  /\ IF k = "wake" THEN Goes(w, "check") ELSE UNCHANGED sender
  /\ UNCHANGED <<hookVars, box, queue, lately, held, drafts, mishaps>>

\* Mutant: the refresh only lets go of what a prompt has answered.
RetryLetsGo ==
  /\ At(Refresh, "rest") /\ held = "answered" /\ held' = "no"
  /\ UNCHANGED <<boardVars, hookVars, box, queue, sender, lately, drafts, mishaps>>
(* asq's refresh: a held-back nudge is tried again, or let go when the manager has
   prompted since. *)
Retry ==
  /\ At(Refresh, "rest") /\ held # "no"
  /\ IF held = "held" THEN Goes(Refresh, "check") /\ UNCHANGED held
     ELSE held' = "no" /\ UNCHANGED sender
  /\ UNCHANGED <<boardVars, hookVars, box, queue, lately, drafts, mishaps>>

(* Debounced, or a manager that is not waiting: not sent, and not held back. *)
Check(s) ==
  /\ At(s, "check")
  /\ IF lately \/ row.state = "working"
     THEN sender' = [sender EXCEPT ![s] = Rest]
     ELSE sender' = [sender EXCEPT ![s] = [Rest EXCEPT !.pc = "guard"]]
  /\ UNCHANGED <<boardVars, hookVars, box, queue, lately, held, drafts, mishaps>>

(* Held back: the first time is what counts. *)
HoldBack(s) ==
  /\ held' = CASE held # "no" -> held
               [] held = "no" /\ sender[s].acked -> "answered"
               [] OTHER -> "held"
  /\ sender' = [sender EXCEPT ![s] = Rest]

(* draft_guard: nothing is typed beside what is not ours; our line is not typed twice. *)
Guard(s) ==
  /\ At(s, "guard")
  /\ \/ box # Empty /\ ~ Holds /\ HoldBack(s)
     \/ Holds /\ Goes(s, "render") /\ UNCHANGED held
     \/ box = Empty /\ Goes(s, "paste") /\ UNCHANGED held
  /\ UNCHANGED <<boardVars, hookVars, box, queue, lately, drafts, mishaps>>

Paste(s) ==
  /\ At(s, "paste")
  /\ box' = [box EXCEPT !.ours = @ + 1]
  /\ Goes(s, "render")
  /\ UNCHANGED <<boardVars, hookVars, queue, lately, held, drafts, mishaps>>

\* Mutant: nothing is looked at before the Enter.
RenderBlindly(s) ==
  /\ At(s, "render") /\ Goes(s, "press")
  /\ UNCHANGED <<boardVars, hookVars, box, queue, lately, held, drafts, mishaps>>
(* The render check: the box holds our line, or another line is in it by the time the
   wait is over; an empty one is taken for a screen still to be drawn. *)
Render(s) ==
  /\ At(s, "render")
  /\ \/ box # Empty /\ ~ Holds /\ HoldBack(s)
     \/ (Holds \/ box = Empty) /\ Goes(s, "press") /\ UNCHANGED held
  /\ UNCHANGED <<boardVars, hookVars, box, queue, lately, drafts, mishaps>>

Submits == box' = Empty /\ queue' = IF box = Empty THEN queue ELSE queue + 1

Press(s) ==
  /\ At(s, "press")
  /\ \/ Submits /\ UNCHANGED mishaps
     \/ mishaps < MaxMishaps /\ mishaps' = mishaps + 1 /\ UNCHANGED <<box, queue>>
  /\ sender' = [sender EXCEPT ![s].pc = "look", ![s].presses = @ + 1, ![s].late = FALSE]
  /\ UNCHANGED <<boardVars, hookVars, lately, held, drafts>>

\* Mutant: Enter again as long as the line is there.
LookAgain(s) ==
  /\ At(s, "look")
  /\ IF ~ sender[s].acked /\ Holds THEN Goes(s, "press") ELSE Goes(s, "record")
  /\ UNCHANGED <<boardVars, hookVars, box, queue, lately, held, drafts, mishaps>>
(* Acknowledged or not by the end of the wait: pressed once more while the line is
   still there alone, and recorded as sent. *)
Look(s) ==
  /\ At(s, "look")
  /\ IF ~ sender[s].acked /\ Holds /\ sender[s].presses < 2
     THEN Goes(s, "press")
     ELSE Goes(s, "record")
  /\ UNCHANGED <<boardVars, hookVars, box, queue, lately, held, drafts, mishaps>>

Record(s) ==
  /\ At(s, "record")
  /\ lately' = TRUE /\ held' = "no"
  /\ sender' = [sender EXCEPT ![s] = Rest]
  /\ UNCHANGED <<boardVars, hookVars, box, queue, drafts, mishaps>>

(* No hook for half an hour: the board's word is not taken any more, and a quiet
   pane is waiting (_derive). *)
GoesStale ==
  /\ mgr.pc \in {"idle", "turn"} /\ row.state = "working"
  /\ row' = [row EXCEPT !.state = "stale"]
  /\ UNCHANGED <<boardVars, mgr, used, heard, dropped, box, queue, nudgeVars, drafts, mishaps>>

(* NUDGE_DEBOUNCE passes. *)
Calm ==
  /\ lately /\ lately' = FALSE
  /\ UNCHANGED <<boardVars, hookVars, box, queue, sender, held, drafts, mishaps>>

-----------------------------------------------------------------------------
(* A human at the manager's pane.                                          *)

Types ==
  /\ drafts < MaxDrafts /\ ~ box.draft
  /\ drafts' = drafts + 1 /\ box' = [box EXCEPT !.draft = TRUE]
  /\ sender' = [s \in Senders |->
       IF At(s, "press") THEN [sender[s] EXCEPT !.late = TRUE] ELSE sender[s]]
  /\ UNCHANGED <<boardVars, hookVars, queue, lately, held, mishaps>>

(* What is not one line of ours is sent, or cleared away. *)
HumanActs ==
  /\ MaxDrafts > 0 /\ box # Empty /\ ~ Holds
  /\ Submits \/ (box' = Empty /\ UNCHANGED queue)
  /\ UNCHANGED <<boardVars, hookVars, nudgeVars, drafts, mishaps>>

-----------------------------------------------------------------------------
Manager ==
  \/ TakePrompt \/ PromptReads \/ PromptMoves \/ PromptPrints
  \/ TurnEnds \/ StopReads \/ StopCounts \/ StopKeeps \/ StopSays \/ StopParks \/ StopEnds

Nudge(s) ==
  Check(s) \/ Guard(s) \/ Paste(s) \/ Render(s) \/ Press(s) \/ Look(s) \/ Record(s)

Next ==
  \/ Manager \/ HookKilled
  \/ \E w \in Writers, k \in {"wake", "info", "left"} : Write(w, k)
  \/ Retry \/ GoesStale \/ Calm \/ Types \/ HumanActs
  \/ \E s \in Senders : Nudge(s)

Spec == Init /\ [][Next]_vars

(* The manager's process and every command that has begun go on, asq goes on
   refreshing, five seconds pass, and a human does not leave a draft for ever. *)
FairSpec ==
  /\ Spec
  /\ WF_vars(Manager) /\ WF_vars(Retry) /\ WF_vars(HumanActs)
  /\ WF_vars(Calm) /\ WF_vars(GoesStale)
  /\ \A s \in Senders : WF_vars(Nudge(s))

-----------------------------------------------------------------------------
(* Every variable keeps its type: no hour counts more continuations than the cap,
   and no nudge presses Enter more than twice (_NUDGE_RE_PRESS). *)
TypeOK ==
  /\ last \in 0 .. MaxEvents /\ kind \in [Events -> Kinds]
  /\ row \in [state : {"waiting", "working", "stale"}, cursor : 0 .. MaxEvents]
  /\ mgr \in [pc : {"idle", "prompted", "moves", "prints", "turn", "stop", "counts", "keeps",
                    "says", "parks", "nudging"},
              shown : SUBSET Events, upto : 0 .. MaxEvents, active : BOOLEAN, owes : BOOLEAN]
  /\ used \in 0 .. Cap
  /\ heard \in [Events -> Nat] /\ dropped \subseteq Events
  /\ box \in [ours : Nat, draft : BOOLEAN] /\ queue \in Nat
  /\ sender \in [Senders -> [pc : {"rest", "check", "guard", "paste", "render", "press", "look",
                                   "record"},
                             acked : BOOLEAN, presses : 0 .. 2, late : BOOLEAN]]
  /\ lately \in BOOLEAN /\ held \in {"no", "held", "answered"}
  /\ drafts \in 0 .. MaxDrafts /\ mishaps \in 0 .. MaxMishaps

InHand == IF mgr.pc \in {"prints", "says"} THEN mgr.shown ELSE {}

(* The cursor never passes news the manager has not been given: what teammates write
   while a hook reads, counts or moves the cursor stays in front of it, whichever of
   the prompt's delta and the turn's end delivers.  Only a hook that is killed after
   it moved the cursor takes what it had in hand with it. *)
NothingSkipped ==
  \A e \in 1 .. row.cursor :
    kind[e] \in News => heard[e] > 0 \/ e \in InHand \cup dropped

(* Nor is any event given to it twice, by two deltas or by a delta and a continuation
   ("the same events can never wake it twice", hook_stop). *)
NothingTwice == \A e \in Events : heard[e] <= 1 /\ (heard[e] = 1 => e <= row.cursor)

(* No nudge sends a human's draft it could have seen: when its Enter takes a draft
   along, the draft was begun after its last look at the box, however many nudges,
   retries and humans are at that box (draft_guard, the render check and the look
   before a second Enter in deliver_typed). *)
DraftsAreSeen ==
  [][\A s \in Senders : box.draft /\ At(s, "press") /\ ~ At(s, "press")' /\ box' = Empty
       => sender[s].late]_vars

(* A nudge a draft held back does not stay held: it is sent once the box is clear, or
   let go when the manager prompted since (retry_deferred_nudges), even when hooks
   are killed, the row is left saying working and Enters are lost. *)
HeldNudgeGoes == (held = "held") ~> (held # "held")

(* hook_stop: this turn's news is "only deferred"; _deferred_wake_reason: a manager
   that parks with an unseen question or result past its cursor "is a stalled fleet".
   What it should wake for is put before it in the end. *)
NewsReachesManager ==
  \A e \in Events : (kind[e] = "wake") ~> (heard[e] > 0)
=============================================================================
