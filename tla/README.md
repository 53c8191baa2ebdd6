# A verification project for aisquare-cli

`aisquare` (`asq`) runs fleets of coding agents from one machine: a manager
agent plans, coders, testers and reviewers work, and all of them share a task
board, notes, work briefs and a memory kept in one SQLite file. There is no
daemon. Every Claude Code hook, every command, every MCP server and the
terminal UI is a process of its own, started by somebody else's schedule and
killed without warning, and they meet only in the store, in small files under
`~/.aisquare`, and in tmux panes. That is where the program is hard to test,
and what these TLA+ modules are about.

Line numbers below are of `src/src/aisquare/`; `PROJECT.json` maps every
definition to the lines it models.

## 1. Inventory

| Component | State it keeps | Operations | Talks to | What makes it hard | What makes it correct |
|---|---|---|---|---|---|
| **Task board** (`services/team.py`, `core/store.py`) | `team_task`: status, `claimed_by`, `claim_expires_at`, `needs` | add, claim, `next --claim`, review, block, drop, done, release, reopen, renew, returns at a session's end or prune | sessions, briefs, fleet | claims race; leases lapse while their owner works; a read in one transaction is used in the next | one holder per running lease; status and claim agree; parked work stays with its author; a dead worker's task comes back |
| **Sessions** (same files) | `team_session`: `last_seen_at`, `ended_at`, cursor, state | start hook, prompt and stop heartbeats, end hook, `team prune` | board, notes, fleet | hooks are separate transactions; a killed process fires none; prune judges a list it read earlier | warm sessions are spared, long-dead ones return their claims |
| **Work briefs and the evidence gate** (`services/briefs.py`, `store.save_brief`, `complete_task_if_unchanged`) | brief documents with a revision, requirements with theirs, checks | create, update, link, evidence, finding, `task done` | board, checkouts, command reports | every command reads, thinks, then writes; several agents write one brief | done means proven now; no writer overwrites another; a late write never takes work from who picked it up |
| **Explainability spool** (`core/outbox.py`, `services/explainability.py` `ship_once`/`_drain`) | one file per record: staging, queue, claimed, dead | enqueue, claim, load, ship, mark sent, mark dead, release, reclaim stale | gateway SDK | any number of sweepers, killed at any point; age by file time | nothing lost; nothing shipped by two but a stale claim; everything settles |
| **Fleet** (`services/fleet.py`, `core/tmux.py`) | `fleet_agent` rows, session marks, panes | spawn, list, stop, switch, restart, pause, resume, reap | tmux, board, accounts | minutes-long hand-overs race listings, hooks and each other; crash between stop and respawn | one replacement per agent; claims carried over; one announcement per exit |
| **Notes, deltas and wake-ups** (`services/team.py` hooks) | events, per-session cursors, continuation counters, deferred nudges | note, prompt delta, turn-end delivery, manager wake-up, nudge, retry | fleet, delivery | a cursor moved before its text arrived; the last news of a burst; a wake deferred to a nudge that is refused | no news is skipped or given twice; bounded continuations; a held-back nudge goes |
| **Typed delivery** (`services/delivery.py`) | a pane's input box (external), typing lease, first-prompt state | draft guard, paste, render check, Enter, re-press | tmux, hooks' acknowledgement | a human types meanwhile; Enter is dropped | never sends a human's draft; no second Enter that could answer something else |
| **Remote Control** (`services/remote_*.py`, `web/remote/app.js`) | on the page: pending writes, orphans, the socket, locked; on the server: devices, the request ledger, the write pool's queue, push state, `remote.json` | tap (tell, stop, restart, switch), retry, unlock, reload; gate, run, refuse, replay, revoke; needs-you, push | fleet, phone | retries on a lossy link, calls that overtake each other, writes queued while their permission is revoked, a phone that comes back as another device | a tap runs once; what the page is told is true; what ran is told |
| **Captain** (`services/captain/`) | owner gate and its throttle, pending question, attention queue, undo log, speech spool, busy mark | unlock, lock, enrol, ask and answer, observe/fold, resolve, snooze, undo, speak | every project's board, `state.json` | one record, many writers; codes replayed or guessed; a secret replaced under a process | a code opens one window; a closed window stays closed; a yes answers one question; items are not lost or doubled |
| **state.json and locks** (`core/state_file.py`, `locking.py`, `atomic.py`) | one JSON object, a lock file, temporaries | read, update, modify | all | stalled holders, crashes mid-write, power cuts before the sync | no change a caller was told of is lost; no torn file |
| **Instances** (`core/instances.py`, `cli/ui/instance_gate.py`) | per running UI a record, a lock and a quit request; the gate's lock | gate, register, beat, roll, ask to quit, deregister | UI | readers clear up after others, and hold their locks for a moment to look | no two releases run together; a live asq is never forgotten, a dead one is |
| **Claude accounts** (`services/claude_accounts.py`) | readings, back-off, refresh turn | choose, read usage, refresh | fleet, network | rate limits, two refreshers | one refresher at a time |
| Hooks, context, personas, usage and metrics, explainability wiring, install and upgrade, sign-in, CI test bed, MCP, ngrok, CLI and UI | configuration, files, sums | mostly sequential | | little concurrency of their own | listed in `PROJECT.json` with the reason each is left out |

## 2. Modules

| Module | Models | Role |
|---|---|---|
| `SpoolPromise` | what the spool promises a writer | abstract specification |
| `Outbox` | `core/outbox.py` and the drain of `services/explainability.py` | detailed; implements `SpoolPromise` |
| `TaskRow` | one `team_task` row and every UPDATE the store has for it | operators shared by the next two |
| `TaskBoard` | board commands, session hooks, prune | state machine |
| `EvidenceGate` | brief commands and the gate of `task done`, on the same rows | state machine |
| `RequestLedger` | the three books `ActionLedger` keeps of a device | operators on one device's book |
| `RemoteWrites` | the Remote page's `apiWrite`, the connection, and the server's gates, ledger and write pool | state machine over `RequestLedger` |
| `HandOver` | switch, restart, pause and stop of one agent, with listings, reaps and its own hooks | state machine |
| `Wakes` | the manager's hooks, its cursor, the nudges typed into its pane | state machine |
| `Instances` | the registry of running UIs and its gate | state machine |
| `OwnerGate` | the owner gate and its question, on `state.json` rewritten under a lock | state machine |
| `*_proofs` | | theorems |
| `MC*` | | values for TLC |

### Outbox

`place[r]` is the one path that holds record `r`: the staging file, the queue,
a claim, or none. Every action is one system call: the staging write and the
publishing rename of `enqueue`, the stat and the rename of `reclaim_stale`
(apart, so that the file can move between them), the claiming rename, the read
of `load`, the two halves of `mark_dead` (letter, then unlink), the gateway
exchange (which may fail after the gateway took everything), `mark_sent` and
`release` record by record. `Kill` ends a sweeper between any two. `age` counts
ticks since the file was *written*, for a rename does not touch the
modification time. A record is readable, of an unknown version, or corrupt.
The batch goes through session by session, as `_group_by_session` has it.

Left out: counts and the delivered counter (a display number by its own
docstring); which run name a shipment carries.

### TaskRow and TaskBoard

`TaskRow` gives each SQL statement as an operator on a row: its WHERE is a
predicate (`Claimable`, `HeldDoing`, `Releasable`, `Reopenable`), its SET a new
row. A lease is the number of ticks left. `TaskBoard` has one action per
transaction: `next --claim` is `NextRead` then `NextClaim`, a heartbeat `Renew`
then `Touch`, `team prune` `PruneList`, then one `PruneEnd` per ghost, then
`PruneReturn`. `Die` is a process killed anywhere, with no hook. `Finish` is
`_finish_task` for a task no brief links; the gate of linked tasks is
`EvidenceGate`'s.

Left out: priorities, roles and `--task` only choose which ready task `next`
offers first (any is allowed); `prune --keep` and `--dry-run`; events and
nudges (`Wakes` has those); whole-project deletion.

### EvidenceGate

A brief is its revision, its requirements (each with a revision and its linked
tasks) and its sequence of checks; a check keeps the requirement's revision it
was made at, a verdict, a note standing for summary, artifact and report, and
the version of the source. Each command is two actions: `Begin...` reads and
drafts, `Save` compares the revision and installs, with the transitions'
guarded UPDATEs in the same transaction; `Gate` reads, `Complete` compares.
`BoardCommand` is everything the board does meanwhile, `EditSource` the checkout
changing under a check. The gate's several SELECTs are one action: what
`Complete` accepts was read from briefs that did not change since.

### RequestLedger and RemoteWrites

`RequestLedger` has one operator per method of `ActionLedger`: `LedgerSeen`,
`LedgerBegun`, `LedgerFinished`, `LedgerRecent`, and `Forgotten` for the pass
that every method begins with. A book is three sequences, oldest first, as
Python's dicts are: running, finished with an answer, and spent (the id alone,
its answer having made room).

`RemoteWrites` has a page, a connection and a server. The page's half is one
action per event: `Tap` (`apiWrite` to its fetch), `FirstFails` (the fetch is
lost, `wake(true)` replaces the socket), `Connect` (the socket opens:
`flushRetries`), `Answered`, `GiveUp`, `ActionFrame` and `RefreshActions` (the
ledger's word, through `settleFromLedger`), `ToUnlock` and a 401's `GoLocked`,
`Unlock`, `Reload`. The server's is one action per point where something else
can happen: `Arrive` is everything from the device gate to the executor, which
has one await (the body), after which nothing read before it is used but the
write switch, and that may have been either; then `Start` or `Refuse` when a
thread takes the write up, and `End`. A call on its way may `Vanish`, be late
(`Tick`), or be answered to nobody. `Revoke` and `Restart` may come at any
moment. `ran` is history: which taps had their handler started, and whether in
this life of the server.

The write switch has no variable: what a read of it finds is either. Other
writes of the device appear as what they do to this one (`OtherWrite` takes
room in the ledger, a full queue answers busy).

Left out: the digest that tells two requests under one id apart, which only a
script that reuses ids can meet; bodies refused as malformed and writes with no
id; the page's other ways off the screen (`offScreen`, a tab another replaced)
and its queue of keys; the audit; the handlers.

### HandOver

One label, its rows in the order they are recorded (`rows`), what tmux has of
each row's pane (`pane`), the sessions of the rows' processes (`session`), and
the one claim the agent works on (`holder`). Each store session and each tmux
call of `switch`, `restart` and `pause` is an action of a mover, in the order
of the code: `Read`, `Recheck` or `Choose`, `Mark` (the compare-and-set),
`SendExit`, `Kill`, `End`, `Unmark`, then `Park` or `Insert`, `TakeOver`,
`Started`, with `SpawnFails` and `Abandon` when no replacement comes. The
owner's stop is three steps. `Look` and `Record` are a listing or a reap: they
read the row and its pane, then write. The agent's hooks are `StartHook`,
`Beat`, `Exit`; `Die` is a death without one, at any point, and `Killed` a
command killed at any point. A mark is the number of rows recorded before it
was last stamped, which is all `_handed_over` asks of its time; `Lapse` is
`HANDOVER_GRACE` going by.

`robbed` is history. A session is resumed, so its mark can be that of a later
row's hand-over by the time the one that ended an earlier row takes back its
own: `unmark_handover` replaces any mark. A row whose hand-over lost its mark so
is robbed, and `OneHandOver`, `ExitOnce` and `ParkedStays` except it; the run
`handover_mark` shows what happens to it. An unmark by a hand-over of the same
row is no excuse: that two of them never are there is what the mark is for.

A session-end hook is one step with the death it comes with, a mark does not
lapse under a stop that is alive (five minutes against five seconds), and a
listing's release of claims is never refused by the store. `LateStarts =
FALSE` keeps the runs to agents that have joined the board before anything is
asked of them, and to start hooks outside a mark: a start hook that runs inside
one replaces the mark (`upsert_session` sets the state whatever it was), and
then a second hand-over, a listing and the pool all get at the claim. Whether
Claude Code can run it there is not this repository's to say, so the promise is
checked without it. A fresh replacement that dies before its start hook leaves
its claims to the lease: a session the board does not know is outside
`NobodyStranded`.

Left out: the choice of account and model, seats, worktrees, renames, rows on
another tmux server, the text handed to a fresh replacement, `shutdown` and
`restart --all`, which loop over these steps.

### Wakes

Events are numbers; each is wake-worthy, informative or nothing to the
manager. The manager's process is its two hooks, step by step: `TakePrompt`,
`PromptReads`, `PromptMoves`, `PromptPrints`, and from `TurnEnds` to
`StopEnds`, where the hook continues the turn, or parks, and a debt of news it
could not give becomes a nudge of its own. `HookKilled` is Claude Code's
timeout. A nudge is `Check` (state and debounce), `Guard`, `Paste`, `Render`,
`Press`, `Look`, `Record`: `deliver_typed` with the nudge's schedule, by any
number of writers, by the stop hook and by `asq`'s retry of what a draft held
back. `box` is the pane's input box: lines of ours, a human's draft, or both.
`heard`, `dropped` and `late` are history.

Left out: the other roles' turn-end notes, other boards, muted deltas, the
hand-over's mark (a stop hook then does nothing), an exception in the stop hook
(it fails open to waiting), the typing lease (it only refuses more), dialogs,
reading the screen, tmux failing. All of a run is within one hour, so the count
of continuations is not reset.

The model shows three things that are no violation of a stated promise and are
worth knowing: a nudge refused because another was sent within five seconds is
recorded nowhere; two nudges pasted at the same moment leave two lines in the
box, which no sender will touch (`Holds`) until a person does; and a prompt
given before a nudge is held back a second time counts as its answer, since the
row keeps the first time.

### Instances

An asq goes through the gate (`Enter`, the read of the registry, `Judge`,
`TakeLock`, `WriteRecord`), runs (`Shows`, `Beat`, each beat a read under no
lock), and leaves (`Unlist`, `Unlock`, `CleanUp`, `Ends`); or it asks the ones
in its way to quit and waits (`AnswersYes`, `SeesLeft`, `TriesAgain`,
`GivesUp`). The read (`roll`) is per record: `Load`, `Probe`, which takes the
other's lock for a moment, `Unprobe`, `Forget`. `Kill` may come at any step and
drops the process's locks, a probe's among them. Hosts share the home; a lock
and a pid tell of one's own host, a heartbeat of another.

Left out: the look in `ps` for releases from before the registry, a record
that does not parse, a home that cannot be written (the asq then runs
unregistered, as its message says), the sweep of leftover files, pids used
again. `_forget`'s three unlinks are one step, so are the quit requests of one
yes. A reader's probe of a crashed asq's lock looks to another reader like that
asq running: the gate then asks or refuses once too often, never too seldom.

### OwnerGate

A change of one key of `state.json` is `Take`, `Decide` (the change function
on what was read), `Rename`, `Answer` (the rename made durable, the lock
dropped, the caller told), with `TimesOut`, `WriteFails`, `AnswerUnwritten`
(the file says so already), `Kill` and `PowerCut` between. `disk` is what a
power cut could leave: the file of the last durable rename, or the file. The
requests are `gate.py`'s unlock, lock and enrol and `state.py`'s question and
its answer. Time is counted in TOTP steps; a code is a secret and a step.
`said`, `opened`, `closed` and `answered` are what callers were told: the
properties relate the file to them.

Left out: `admit` (a read), the window's fifteen minutes, a file that is not an
object, symbolic links, modes, Windows' contention. Whether a question is still
live is a choice. Two enrolments at once are left out (`EnrollBegins`): the
later one's reset could drop the step of a code the earlier one's secret had
already opened. An answer that needed no write promises nothing past a power
cut where a killed writer's rename was not durable yet. A directory that
cannot be synced is let pass by the code and here assumed to succeed.

## 3. Runs

| Run | Instance | Shows |
|---|---|---|
| `outbox_race` | 2 records of one session (one corrupt), 2 sweepers, claim age 2, 1 kill | `NeverLost`, `SharedOnlyWhenStale`, `ReadableBuriedOnlyWhenStale`, the types, and that every behaviour is one of `SpoolPromise` |
| `outbox_live` | 3 records of two sessions (one corrupt), 1 sweeper, 2 kills | `PublishedSettles` |
| `taskboard_prune` | 1 task, 2 sessions, a shell, lease 2, prunes in flight | `ClaimsCoherent`, `LiveLeaseNeverStolen`, `ParkedWorkSurvivesSessions`, `AbandonedWorkComesFree`, types |
| `evidence_one` | 1 task, 1 brief of 2 requirements, 2 clients, 3 revisions, 2 kinds of failure, block at 2, a checkout that changes | `DoneIsProven`, `NothingOverwritten`, `BriefWritesSpareWorkers`, types |
| `remote_lost` | 1 tap, 1 other write, 1 answer kept of 2 ids, a device and its successor, 1 restart | `RunsOnce`, `AnswersAreTrue`, `OrphansHear`, types |
| `handover` | 2 movers and the owner, 2 commands, 2 rows, 1 command killed | `OneHandOver`, `ExitOnce`, `NobodyStranded`, `ParkedStays`, `DeadRowEnds`, types |
| `handover_reap`, `handover_mark` | the same, no kill; 3 commands in the second | two docstrings that the code does not keep |
| `wakes` | 1 writer, `asq` and the stop hook nudging, 2 events of which a delta shows 1, 1 continuation, 1 draft, 1 mishap | `NothingSkipped`, `NothingTwice`, `DraftsAreSeen`, `HeldNudgeGoes`, types |
| `wakes_lost` | 1 writer, 1 event, no draft, no mishap | one docstring that the code does not keep |
| `instances` | 3 asqs of 2 releases on 2 hosts, 1 killed | `OneRelease`, `RunningStaysListed`, `CrashedIsForgotten`, types |
| `ownergate` | 2 processes, 2 steps of time, 2 secrets, 3 codes tried, locked at the second wrong one, 1 question, 1 kill or power cut | `SaidIsKept`, `OpensOnce`, `StaysClosed`, `YesOnce`, types |

**Why these bounds.** Every hazard here is a race of two: two sweepers, two
sessions (and a shell), two commands over one object, two hand-overs (and the
owner, a listing, the agent); a third actor repeats one of their roles. Two
requirements are needed for a completion that rests on several passes. Two
briefs, one linking a task after the gate's read, are too many states to check
beside two clients: there `CompletionsAreProven` is what shows `DoneIsProven`.
Ages and leases count to two so that fresh, ageing and over are three different
things. In `remote_lost` one followed tap has its two calls and the device's
other write pushes its answer out of the ledger; two unlocks are the device and
its successor. `Delay` bounds how late a call arrives, in the code a matter of
seconds against the ledger's fifteen minutes (`ClockAssumption`). A second row
is the replacement, which is also what a wrong second hand-over would need. A
row can be robbed only from the third command on: what two commands cannot meet
is in the theorems, and was met by runs of three commands (and of four over three
rows) that take longer than these.
Two events with a limit of one make a delta that leaves something behind; one
mishap is a killed hook or a lost Enter. Three asqs are one that runs, one that
reads and one that starts; 2 hosts make every pair near or far. Two codes wrong
in a row lock the gate, and the third try meets the lock; the doubling of later
locks would take four and is only in the proof, as is anything over two steps of
time. Every bound that cuts behaviours is named as a BOUND where it is declared
(`MaxKills`, `MaxRev`, `MaxSource`, `Pruning`, `Delay`, `Unlocks`,
`MaxRestarts`, `Others`, `Later`, `MaxRows`, `MaxCommands`, `LateStarts`,
`MaxEvents`, `MaxDrafts`, `MaxMishaps`, `MaxTime`, `MaxSecrets`, `MaxTries`,
`MaxAsks`), and the theorems hold for every value of theirs.

Deadlock is not checked where the system may really stop: in `remote_lost` its
one tap is over and the devices are revoked, in `handover` and `wakes` no
command is left to give, in `instances` every asq has ended. `evidence_one` and
`ownergate` are checked up to permutations of what the code does not order; no
run with a liveness property uses symmetry.

### The three violations

Each is a run of one property, quoted from the code's own words.

- `handover_reap`: `end_session` is to release claims only where the caller *"can
  PROVE the session is dead"*. A reap that read a live row whose pane had
  vanished releases its session's claims whoever ended that row since; a restart
  that ended it and resumed the session in a new pane loses its running agent's
  claim.
- `handover_mark`: a session is marked *"for ONE hand-over"*, and its own
  `SessionEnd` *"parks its claims for the replacement"*. A pause that has ended
  its row takes the mark back in a step of its own; when a restart has resumed
  the session by then and a further hand-over has marked it, that mark is what
  it takes, and the agent the further one stops releases its claims to the pool.
  It takes three commands.
- `wakes_lost`: news is *"only deferred"*, never stalled. An event committed
  between the events the stop hook reads and the row it then sets to waiting is
  nudged for by nobody: its writer's nudge finds the manager working, and is
  refused without a record. It waits for the next event or prompt.

Other places where the code and its words part, met while modelling and not
run: `core/outbox.py` says two sweepers cannot both ship a record, where a claim
is as old as its file and so may be taken back at once (what holds is
`SharedOnlyWhenStale`), and that a dead letter holds what would have been
shipped, where one that does not parse is buried empty; `next` says prerequisites
are done, which is true when read and not when claimed; a first prune ends a dead
session's row, after which the longer clock for its claims never strikes and
only the lease frees them; a correction sends stale work in review back to todo,
but not a task that went to review after it read the statuses; an owner's `fleet
stop` *"that lands at any point before the new row exists wins"* over a restart
of an agent found dead, but one whose `/exit` meets a hand-over's answers stopped
and the replacement is recorded all the same.

## 4. Fairness

`Outbox.FairSpec`: weak fairness of the clock and of a sweeper's own steps (a
timer starts drains again and again, and a started process runs), strong
fairness of listing a batch, of a successful exchange and of writing a dead
letter: an SDK, a gateway and a disk that are asked again and again answer in
the end. Nothing is assumed of writers, of failures or of kills beyond their
bound. Liveness is checked for one sweeper: with several, each may keep taking
the other's stale claim back, and nothing in the code rules that out.

`TaskBoard.FairSpec`: weak fairness of the clock alone. No session, command or
prune is assumed ever to run again.

`RemoteWrites.FairSpec`: weak fairness of `Connect` (the page schedules a
reconnect whenever its socket is gone, and a wake makes one at once) and strong
fairness of `ActionFrame` (the server's loop sends the ledger's entries on a
new socket's first tick; a link that drops does not drop for ever before it).
No call, retry or person is assumed to get anywhere.

`HandOver.FairSpec`: weak fairness of the movers' steps together (a command
that is not killed goes on; each takes finitely many steps), of looking and
recording (listings come again and again) and of the lapse of a mark (time).
Nothing is assumed of the agent or its owner. `DeadRowEnds` holds with a
command killed anywhere, because the mark it leaves lapses.

`Wakes.FairSpec`: weak fairness of the manager's process and of each sender's
own steps, of `asq`'s retry (it refreshes for ever), of the debounce and of a
row going stale (time), and of `HumanActs`: a person does not leave text in the
box for ever. Without the last, a held-back nudge rightly stays held back.

`Instances.FairSpec`: for each asq, weak fairness of its reads (one that runs
beats every few seconds and reads each time), of its way through the gate and
of its way out, and of a dead one's heartbeat growing old. Nobody is assumed to
start, to say yes or to quit.

`OwnerGate` and `EvidenceGate` make no liveness claim: whether a person
retries a refused command is not the program's to promise.

## 5. Proofs

TLAPS checks every theorem for all values of the constants; TLC had agreed on
small instances first. Assumptions are the named `ASSUME`s of the modules (ids
of sessions are claim names, a lease is positive, a record that is readable is
a record, ...), which TLC evaluates on the runs.

| Theorem (module) | States | Argument |
|---|---|---|
| `TypeCorrect` (each other `_proofs`) | `[]TypeOK` | by action |
| `NothingIsLost` (`Outbox_proofs`) | `[]NeverLost` | `SpoolInv`: that a file may be unlinked was decided steps before, so a sweeper in `sent` must hold only delivered records, and one in `unlink_dead` one with a letter; settled and published only grow (`Monotone`) |
| `SpoolKeepsPromise` | the spool implements `SpoolPromise` | `SpoolInv`, one step of the promise or a stutter per kind of step (`StepKinds`) |
| `SharedRecordsAreStale` | `[]SharedOnlyWhenStale` | `MutexInv`: whoever has a young record in hand has its claim, and nobody else has; a taken-back or re-stat'ed claim is old |
| `YoungRecordsAreNotBuried` | `[]ReadableBuriedOnlyWhenStale` | `BuriedInv`: a sweeper about to bury a readable record found its claim moved, which needs age |
| `ClaimsStayCoherent` (`TaskBoard_proofs`) | `[]ClaimsCoherent` | every row operator keeps `Coherent` (`CoherentWrites`), so no strengthening is needed |
| `LeasesHold`, `ParkedWorkSurvives` | the action properties | case by action over what each does to a row |
| `CompletionsAreProven` (`EvidenceGate_proofs`) | `DoneIsProven` | `GateInv`: what a completion read is proven for as long as the revision it read stands |
| `BriefsKeepEverything` | `NothingOverwritten` | `GateInv`: a draft keeps everything of the version it was drafted from, which is the one it replaces |
| `WritesSpareWorkers` | `BriefWritesSpareWorkers` | the guards of the two transitions |
| `ReleasesNeverMix` (`Instances_proofs`) | `[]OneRelease` | whoever is in the gate has seen every running asq (`SightKept`): one it has not yet read is still to do, one read is found or was let go by its own process, and nobody else can have begun to run since; so whom it finds none of does not run when it registers |
| `RunningIsListed` | `[]RunningStaysListed` | a reader about to forget a record read it as not live, and that stays true of it: who has lost its lock never takes it again (`ReadsStayTrue`) |
| `NothingToldIsLost` (`OwnerGate_proofs`) | `[]SaidIsKept` | the one with the lock has a plan that follows from the file as it is (`PlansKept`: nobody else writes), a plan only raises what was told or begins it anew, and what is told is on the disk |
| `CodesOpenOnce` | `OpensOnce` | `CodesPass`: a code that opened a window is of a secret gone by, or of a step that file and disk have passed; only an enrolment lowers the step, and till then nobody has its secret (`Secrets`) |
| `ClosedStaysClosed` | `[]StaysClosed` | from `CodesPass`, since only a code that never opened a window becomes one |
| `YesAnswersOnce` | `YesOnce` | `Questions`: a question still to be asked is in nobody else's hands, so one that was answered is never asked again |
| `NewsIsNeverSkipped` (`Wakes_proofs`) | `[]NothingSkipped` | `Hand`: from its read to its move a hook holds every piece of news up to where it will move the cursor (`ShownIs`: a delta is the oldest of the unseen, and empty only when nothing is), and what is written meanwhile comes after `last`, which is not before that place |
| `NewsComesOnce` | `[]NothingTwice` | `Hand` too: what a hook holds lies past the cursor until it moves it, and was never heard of |
| `SeenDraftsStay` | `DraftsAreSeen` | `Careful`: who is about to press found the box without a draft, or one was begun since |
| `TypesHold` (`HandOver_proofs`) | `[]TypeOK` | `Base`: rows are numbered as they are recorded and only the newest may live; what a command, the owner or a listing read names a recorded row |
| `OneHandOverOfARow` | `[]OneHandOver` | `MarkHolds` and `OneMark`: from the compare-and-set until it is taken back the mark holds, and whoever reads it meanwhile is refused; so one hand-over of a row gets as far as its end (`OneGrip`), which `end_fleet_agent_if_live` lets happen once |
| `ExitAnnouncedOnce` | `[]ExitOnce` | `Unannounced`: an exit a hand-over withholds was announced by nobody; `AnnouncedOnce`: under the mark no stop takes another's end for its own |
| `ParkedClaimsStay` | `ParkedStays` | `MarkHolds` is what the listing and the session-end hook look for; `MoversMove`: every step of a command is seen in `mover` |
| `NobodyIsStranded` | `[]NobodyStranded` | `NoneLost`: every claim is `Tended` by a live row on its session, by a paused one nobody is closing, or by a hand-over that withheld it and has neither started nor abandoned the replacement |
| `TypesHold` (`RemoteWrites_proofs`) | `[]TypeOK` | `PageInv`: no operation of the ledger takes a book out of shape (`Whole`: ids once, no more of them than fit) |
| `TapsRunOnce` | `RunsOnce` | `Remembered`: while a request of a begun tap may still come, the book of the one device it names (`OneDevice`) has the tap; `Recent`: what it has is younger than the tap, so not expired; `FinishedIs`: making room forgets no id. So a second request finds the first (`OneRun`) |
| `PageHearsTheTruth` | `AnswersAreTrue` | `Truths`: the ledger says of a tap what became of it, and a tap that ran or is about to is nowhere recorded as turned away |

The theorems of `HandOver_proofs` but the first assume `~ LateStarts`, as the
runs do and for the reason given in section 2; robbed rows are no exception to
`NobodyIsStranded`. From three commands on `OneHandOver` and
`ParkedStays` do not hold of robbed rows, which a run of two commands cannot
show: the proofs failed without the exception, and TLC then found the behaviours. `Kept`
sums up what any step does (one command moves at most, no recorded row comes
back, whose exit is announced), and each further conjunct is kept by every
`Kept` step.

None of these invariants is inductive alone. `SaidIsKept` needs the mutex that
`TypeOK` states, and that a plan was made from the very file it replaces;
`OneRelease` needs what a reader in the gate knows of every other asq; the
inductive `IInv` of each module is the conjunction of such parts, one lemma
for each. In `OwnerGate_proofs`, `PowersType` (a power of two is a natural
number) goes by the cardinality of a powerset, the only fact about powers the
library has.

`LeastImage` (of finitely many sets one has none of the others below it) gives
`Wakes_proofs` the first and the last event of a delta: it goes by the library's
fact that strict inclusion of finite sets is well founded, since an induction
over the events is out of the prover's reach.

`RemoteWrites_proofs` rests on two assumptions about constants. A request is on
its way for less than the ledger's memory (`RETRY_WITHIN_MS` is 15
seconds, `ACTION_LEDGER_TTL` 15 minutes), and a device has no more ids out
within that memory than the ledger keeps (`IdsAssumption`; `ACTION_LEDGER_IDS`
is 1000): past that the oldest is forgotten, as the code says, and its retry
would run again. The taps followed are counted for good, the ids of other
writes are used again once forgotten. Of the answers themselves any number may be kept, one included. Its
first part is about one book: what each walk and each way of making room leaves
in a sequence of records (`YoungIs`, `WithoutKeeps`, `FinishedIs`), where
`FewIds` bounds the records of distinct ids by the ids.

Only model-checked: the liveness properties (fairness and ENABLED are out of
the prover's reach) and the violations. Every other property of a run has a
theorem.

## 6. Plan

What is modelled came in this order: the board and its briefs, the spool, the
Remote page's writes, hand-overs, wake-ups with typed delivery, instances, and
the owner gate on `state.json`. Left, in order of worth:

1. The captain's attention queue, its watermarks and its undo log: the fold of
   observations by several writers over the same `state.json`.
2. The store's revocation ledger, the usage readings' back-off and the token
   refresh's turn.
3. A row's first prompt, from pending to delivered, with the longer schedules
   of typed delivery, and the adoption of a conversation started by hand.
4. Web Push's once-only promise; the marks of quiet compaction.

## 7. Not modelled

What has no concurrency or state worth a model (presentation, parsing,
configuration, installers, sums over transcripts, HTTP plumbing, wire formats)
is listed in `PROJECT.json` with its reason. The program is about 180 000
lines, most of it presentation and adapters; the map covers the lines whose
order of steps matters and does not aim at the rest. Each subsection of
section 2 says what its module leaves out of the code it does model.
