----------------------------- MODULE Instances -----------------------------
(***************************************************************************)
(* The registry of the asq UIs that run on one home (core/instances.py)    *)
(* and the gate an asq passes before it starts (cli/ui/instance_gate.py).  *)
(*                                                                         *)
(* Each asq has a record, a lock it holds as long as it runs, and a file   *)
(* in which another asks it to quit.  An asq reads the others and writes   *)
(* its own record under the gate's lock; it does not start beside one of   *)
(* another release, unless that one quits on a yes.  Every asq that runs   *)
(* also reads the others at each heartbeat, under no lock, and every       *)
(* reader deletes the record of an asq it finds gone.                      *)
(*                                                                         *)
(* To ask whether a lock is held a reader takes it for a moment.  Each     *)
(* file operation is one step; any process may be killed at any step.      *)
(***************************************************************************)
EXTENDS Naturals

CONSTANTS
  Asqs,       \* asq processes, each with an id of its own
  None,
  ReleaseOf,  \* the release (and store schema) each one is
  HostOf,     \* the host each one runs on; the home is shared
  MaxKills    \* BOUND: processes killed

ASSUME InstancesAssumption == None \notin Asqs /\ MaxKills \in Nat

VARIABLES
  pc,      \* where each process is
  gate,    \* who holds .gate.lock
  record,  \* whose <id>.json is there
  stale,   \* whose heartbeat is STALE_SECONDS old
  quit,    \* whose <id>.quit is there
  lock,    \* <id>.lock: absent, free, held by its process, or taken by a reader's probe
  reader,  \* the read of the registry each process is at (roll)
  asked,   \* the others an asq asked to quit and waits for
  kills

files == <<record, stale, quit, lock>>
vars == <<pc, gate, record, stale, quit, lock, reader, asked, kills>>

Steps == {"rest", "load", "probe", "probed", "forget"}
Rest == [step |-> "rest", todo |-> {}, at |-> None, found |-> {}]

InGate == {"reads", "locks", "writes"}
Beating == {"starting", "up", "leaving"}
Holding == {"writes", "starting", "up", "leaving", "unlisted"}
Over == {"gone", "dead"}

Init ==
  /\ pc = [x \in Asqs |-> "door"]
  /\ gate = None
  /\ record = {} /\ stale = {} /\ quit = {}
  /\ lock = [x \in Asqs |-> "absent"]
  /\ reader = [x \in Asqs |-> Rest]
  /\ asked = [x \in Asqs |-> {}]
  /\ kills = 0

At(x, p) == pc[x] = p
Goes(x, p) == pc' = [pc EXCEPT ![x] = p]

-----------------------------------------------------------------------------
(* Whether a record is a running asq's (is_live).                          *)

Alive(y) == pc[y] \notin Over
Near(x, y) == HostOf[x] = HostOf[y]

\* Mutant: the heartbeat alone is asked, whoever holds the lock.
LiveByHeartbeat(x, y, held) == IF Near(x, y) THEN held = "none" /\ Alive(y) ELSE y \notin stale
\* Mutant: another host's record is believed at any age.
LiveAtAnyAge(x, y, held) ==
  \/ held = "yes" \/ ~ Near(x, y)
  \/ Near(x, y) /\ held = "none" /\ Alive(y)
(* held is what the probe of its lock said: a held lock is a running asq's; else on this
   host its pid tells, if it keeps no lock, and on another its heartbeat. *)
Live(x, y, held) ==
  \/ held = "yes"
  \/ Near(x, y) /\ held = "none" /\ Alive(y)
  \/ ~ Near(x, y) /\ y \notin stale

Held(y) == CASE lock[y] = "absent" -> "none"
             [] lock[y] = "free" -> "no"
             [] OTHER -> "yes"

-----------------------------------------------------------------------------
(* A read of the registry (roll), at the gate or at a heartbeat.           *)

(* The folder is listed. *)
List(x) ==
  /\ pc[x] \in Beating /\ reader[x].step = "rest"
  /\ reader' = [reader EXCEPT ![x] = [Rest EXCEPT !.step = "load", !.todo = record \ {x}]]
  /\ UNCHANGED <<pc, gate, files, asked, kills>>

(* A record is read; one that went since the listing is no asq at all. *)
Load(x, y) ==
  /\ reader[x].step = "load" /\ y \in reader[x].todo
  /\ reader' = [reader EXCEPT ![x] =
       [step |-> IF y \in record THEN "probe" ELSE "load",
        at |-> IF y \in record THEN y ELSE None,
        todo |-> @.todo \ {y}, found |-> @.found]]
  /\ UNCHANGED <<pc, gate, files, asked, kills>>

\* What was read of y is settled: it counts as found at the gate, or its files go.
Settle(x, live) ==
  reader' = [reader EXCEPT ![x] =
    [step |-> IF live THEN "load" ELSE "forget",
     at |-> IF live THEN None ELSE @.at,
     todo |-> @.todo,
     found |-> IF live /\ At(x, "reads") THEN @.found \cup {@.at} ELSE @.found]]

(* Its lock is tried: a free one is taken. *)
Probe(x) ==
  LET y == reader[x].at IN
  /\ reader[x].step = "probe"
  /\ \/ /\ Held(y) = "no"
        /\ lock' = [lock EXCEPT ![y] = "probed"]
        /\ reader' = [reader EXCEPT ![x].step = "probed"]
     \/ /\ Held(y) # "no"
        /\ Settle(x, Live(x, y, Held(y)))
        /\ UNCHANGED lock
  /\ UNCHANGED <<pc, gate, record, stale, quit, asked, kills>>

\* A lock let go: its file may have been deleted meanwhile.
LetGo(y) == lock' = [lock EXCEPT ![y] = IF @ = "absent" THEN @ ELSE "free"]

Unprobe(x) ==
  /\ reader[x].step = "probed"
  /\ LetGo(reader[x].at)
  /\ Settle(x, Live(x, reader[x].at, "no"))
  /\ UNCHANGED <<pc, gate, record, stale, quit, asked, kills>>

\* _forget: the record, its quit request and its lock are deleted.
Forgotten(y) ==
  /\ record' = record \ {y} /\ quit' = quit \ {y}
  /\ lock' = [lock EXCEPT ![y] = "absent"]

Forget(x) ==
  /\ reader[x].step = "forget"
  /\ Forgotten(reader[x].at)
  /\ reader' = [reader EXCEPT ![x].step = "load", ![x].at = None]
  /\ UNCHANGED <<pc, gate, stale, asked, kills>>

ListEnds(x) ==
  /\ pc[x] \in Beating /\ reader[x].step = "load" /\ reader[x].todo = {}
  /\ reader' = [reader EXCEPT ![x] = Rest]
  /\ UNCHANGED <<pc, gate, files, asked, kills>>

-----------------------------------------------------------------------------
(* The gate (instance_gate._pass, instances.gate, register).               *)

Enter(x) ==
  /\ At(x, "door") /\ gate = None
  /\ gate' = x /\ Goes(x, "reads")
  /\ reader' = [reader EXCEPT ![x] = [Rest EXCEPT !.step = "load", !.todo = record]]
  /\ UNCHANGED <<files, asked, kills>>

(* Another's gate held past the wait: it does not start. *)
TimesOut(x) ==
  /\ At(x, "door") /\ gate # None
  /\ Goes(x, "gone")
  /\ UNCHANGED <<gate, files, reader, asked, kills>>

Differing(x) == {y \in reader[x].found : ReleaseOf[y] # ReleaseOf[x]}

\* Mutant: the gate is let go before the asq registers.
JudgeAndLeave(x) ==
  /\ At(x, "reads") /\ reader[x].step = "load" /\ reader[x].todo = {}
  /\ Goes(x, IF Differing(x) = {} THEN "locks" ELSE "asks")
  /\ asked' = [asked EXCEPT ![x] = Differing(x)] /\ gate' = None
  /\ reader' = [reader EXCEPT ![x] = Rest]
  /\ UNCHANGED <<files, kills>>
\* Mutant: the question is put with the gate still held.
JudgeAndHold(x) ==
  /\ At(x, "reads") /\ reader[x].step = "load" /\ reader[x].todo = {}
  /\ Goes(x, IF Differing(x) = {} THEN "locks" ELSE "asks")
  /\ asked' = [asked EXCEPT ![x] = Differing(x)]
  /\ reader' = [reader EXCEPT ![x] = Rest]
  /\ UNCHANGED <<gate, files, kills>>
(* Beside none of another release it registers, the gate still held; else it leaves the
   gate and asks. *)
Judge(x) ==
  /\ At(x, "reads") /\ reader[x].step = "load" /\ reader[x].todo = {}
  /\ \/ Differing(x) = {} /\ Goes(x, "locks") /\ UNCHANGED <<gate, asked>>
     \/ /\ Differing(x) # {} /\ Goes(x, "asks")
        /\ asked' = [asked EXCEPT ![x] = Differing(x)] /\ gate' = None
  /\ reader' = [reader EXCEPT ![x] = Rest]
  /\ UNCHANGED <<files, kills>>

(* register: its lock first, then its record, then the gate is let go. *)
TakeLock(x) ==
  /\ At(x, "locks") /\ Goes(x, "writes")
  /\ lock' = [lock EXCEPT ![x] = "held"]
  /\ UNCHANGED <<gate, record, stale, quit, reader, asked, kills>>

WriteRecord(x) ==
  /\ At(x, "writes") /\ Goes(x, "starting")
  /\ record' = record \cup {x} /\ stale' = stale \ {x}
  /\ gate' = None
  /\ UNCHANGED <<quit, lock, reader, asked, kills>>

(* The question: a no, or no terminal to ask in, and it does not start. *)
AnswersNo(x) ==
  /\ At(x, "asks") /\ Goes(x, "gone")
  /\ asked' = [asked EXCEPT ![x] = {}]
  /\ UNCHANGED <<gate, files, reader, kills>>

(* A yes: every one of them is asked to quit (request_quit). *)
AnswersYes(x) ==
  /\ At(x, "asks") /\ Goes(x, "waits")
  /\ quit' = quit \cup asked[x]
  /\ UNCHANGED <<gate, record, stale, lock, reader, asked, kills>>

(* wait_gone: its record gone, or no running asq's any more, and on this host its
   process ended. *)
HasLeft(x, y) ==
  /\ y \in record => ~ Live(x, y, Held(y))
  /\ Near(x, y) => ~ Alive(y)

SeesLeft(x, y) ==
  /\ At(x, "waits") /\ y \in asked[x] /\ HasLeft(x, y)
  /\ asked' = [asked EXCEPT ![x] = @ \ {y}]
  /\ UNCHANGED <<pc, gate, files, reader, kills>>

(* All have quit: through the gate again. *)
TriesAgain(x) ==
  /\ At(x, "waits") /\ asked[x] = {} /\ Goes(x, "door")
  /\ UNCHANGED <<gate, files, reader, asked, kills>>

GivesUp(x) ==
  /\ At(x, "waits") /\ asked[x] # {} /\ Goes(x, "gone")
  /\ asked' = [asked EXCEPT ![x] = {}]
  /\ UNCHANGED <<gate, files, reader, kills>>

-----------------------------------------------------------------------------
(* An asq that runs (Registration).                                        *)

(* The app is up: from now on it hears of a quit request. *)
Shows(x) ==
  /\ At(x, "starting") /\ Goes(x, "up")
  /\ UNCHANGED <<gate, files, reader, asked, kills>>

Beat(x) ==
  /\ pc[x] \in Beating
  /\ record' = record \cup {x} /\ stale' = stale \ {x}
  /\ UNCHANGED <<pc, gate, quit, lock, reader, asked, kills>>

(* _look_for_quit: the request is taken; the app quits, or refuses to just now. *)
HearsQuit(x) ==
  /\ At(x, "up") /\ x \in quit
  /\ quit' = quit \ {x}
  /\ \E p \in {"up", "leaving"} : Goes(x, p)
  /\ UNCHANGED <<gate, record, stale, lock, reader, asked, kills>>

Quits(x) ==
  /\ pc[x] \in {"starting", "up"} /\ Goes(x, "leaving")
  /\ UNCHANGED <<gate, files, reader, asked, kills>>

(* deregister: no beat comes after; the record goes, then the lock, then the rest. *)
Unlist(x) ==
  /\ At(x, "leaving") /\ reader[x].step = "rest" /\ Goes(x, "unlisted")
  /\ record' = record \ {x}
  /\ UNCHANGED <<gate, stale, quit, lock, reader, asked, kills>>

Unlock(x) ==
  /\ At(x, "unlisted") /\ Goes(x, "unlocked")
  /\ LetGo(x)
  /\ UNCHANGED <<gate, record, stale, quit, reader, asked, kills>>

CleanUp(x) ==
  /\ At(x, "unlocked") /\ Goes(x, "ending")
  /\ Forgotten(x)
  /\ UNCHANGED <<gate, stale, reader, asked, kills>>

Ends(x) ==
  /\ At(x, "ending") /\ Goes(x, "gone")
  /\ UNCHANGED <<gate, files, reader, asked, kills>>

-----------------------------------------------------------------------------
(* Killed: the system drops every lock the process has. *)
Kill(x) ==
  /\ pc[x] \notin Over \cup {"door"} /\ kills < MaxKills /\ kills' = kills + 1
  /\ Goes(x, "dead")
  /\ gate' = IF gate = x THEN None ELSE gate
  /\ lock' = [y \in Asqs |->
       IF \/ y = x /\ lock[y] = "held"
          \/ reader[x].step = "probed" /\ y = reader[x].at /\ lock[y] = "probed"
       THEN "free" ELSE lock[y]]
  /\ reader' = [reader EXCEPT ![x] = Rest]
  /\ asked' = [asked EXCEPT ![x] = {}]
  /\ UNCHANGED <<record, stale, quit>>

(* A minute without a heartbeat: its process is dead, or was stopped meanwhile. *)
GoesStale(x) ==
  /\ x \in record \ stale
  /\ stale' = stale \cup {x}
  /\ UNCHANGED <<pc, gate, record, quit, lock, reader, asked, kills>>

Reads(x) ==
  \/ List(x) \/ Probe(x) \/ Unprobe(x) \/ Forget(x) \/ ListEnds(x)
  \/ \E y \in Asqs : Load(x, y)
Starts(x) == Judge(x) \/ TakeLock(x) \/ WriteRecord(x)
Leaves(x) == Unlist(x) \/ Unlock(x) \/ CleanUp(x) \/ Ends(x)
Asks(x) ==
  \/ AnswersNo(x) \/ AnswersYes(x) \/ TriesAgain(x) \/ GivesUp(x)
  \/ \E y \in Asqs : SeesLeft(x, y)

Next ==
  \E x \in Asqs :
    \/ Enter(x) \/ TimesOut(x) \/ Reads(x) \/ Starts(x) \/ Asks(x)
    \/ Shows(x) \/ Beat(x) \/ HearsQuit(x) \/ Quits(x) \/ Leaves(x)
    \/ Kill(x) \/ GoesStale(x)

Spec == Init /\ [][Next]_vars

(* What a process has begun goes on while it lives, each one that runs reads the others
   again and again, and time passes. *)
FairSpec ==
  /\ Spec
  /\ \A x \in Asqs :
       /\ WF_vars(Reads(x)) /\ WF_vars(Starts(x)) /\ WF_vars(Leaves(x))
       /\ WF_vars(GoesStale(x) /\ pc[x] = "dead")

-----------------------------------------------------------------------------
(* Every variable keeps its type; a lock file is locked by its own process exactly while
   that one is between register and the end of deregister, and the gate only by the one
   that reads or registers. *)
TypeOK ==
  /\ pc \in [Asqs -> {"door", "reads", "locks", "writes", "asks", "waits", "starting", "up",
                      "leaving", "unlisted", "unlocked", "ending", "gone", "dead"}]
  /\ gate \in Asqs \cup {None}
  /\ record \subseteq Asqs /\ stale \subseteq Asqs /\ quit \subseteq Asqs
  /\ lock \in [Asqs -> {"absent", "free", "held", "probed"}]
  /\ reader \in [Asqs -> [step : Steps, todo : SUBSET Asqs, at : Asqs \cup {None},
                          found : SUBSET Asqs]]
  /\ asked \in [Asqs -> SUBSET Asqs]
  /\ kills \in 0 .. MaxKills
  /\ \A x \in Asqs : (lock[x] = "held") <=> (pc[x] \in Holding)
  /\ \A x \in Asqs : (gate = x) <=> (pc[x] \in InGate)

(* No two asqs that run are of different releases: not when they start at the same
   moment, nor past a crash, a quit under way, a clean-up by any reader or a heartbeat
   that stopped ("two asqs of different releases started at the same moment cannot both
   find nobody there", core/instances.py). *)
OneRelease ==
  \A x, y \in Asqs : pc[x] \in Beating /\ pc[y] \in Beating => ReleaseOf[x] = ReleaseOf[y]

(* Nobody deletes the record of an asq that runs, however old its heartbeat and whatever
   host reads it: the next to start would not see it (_live before _forget in roll). *)
RunningStaysListed == \A x \in Asqs : pc[x] \in Beating => x \in record

(* A crashed asq's record does not stay while another asq runs: some heartbeat's read
   clears it away, however the readers' probes of its lock interleave (roll). *)
CrashedIsForgotten ==
  \A y \in Asqs :
    (pc[y] = "dead" /\ y \in record) ~> (y \notin record \/ \A x \in Asqs : pc[x] \notin Beating)
=============================================================================
