----------------------------- MODULE OwnerGate -----------------------------
(***************************************************************************)
(* The captain's owner gate (services/captain/gate.py) and the owner's     *)
(* confirmation questions (services/captain/state.py), as several          *)
(* processes keep them in one state.json (core/state_file.py,              *)
(* core/atomic.py): the captain's Actions server, the owner's commands,    *)
(* the voice page.                                                         *)
(*                                                                         *)
(* A change of one key reads the whole file under a lock, writes it anew   *)
(* beside it and renames that over it, then makes the rename durable.  A   *)
(* process may be killed between any two of these steps, a write may fail, *)
(* and the power may go, with a rename that was not durable undone.        *)
(*                                                                         *)
(* A code is the secret it was made from and its time step; time is        *)
(* counted in steps.                                                       *)
(***************************************************************************)
EXTENDS Naturals

CONSTANTS
  Procs, None,
  Throttle,    \* wrong codes in a row that lock code entry
  Lockout,     \* how long the first lock lasts
  LockoutMax,  \* how long any lock lasts at most
  Drift,       \* steps a code may be off either side
  MaxTime, MaxSecrets, MaxTries, MaxAsks, MaxMishaps  \* BOUNDS

ASSUME GateAssumption ==
  /\ None \notin Procs
  /\ Throttle \in Nat \ {0} /\ Lockout \in Nat \ {0} /\ LockoutMax \in Nat /\ Drift \in Nat
  /\ {MaxTime, MaxSecrets, MaxTries, MaxAsks, MaxMishaps} \subseteq Nat

VARIABLES
  now,
  secret,  \* the one in gate.secret
  shown,   \* the secrets an enrolment has shown its owner
  file,    \* state.json: the gate's record and the question asked
  disk,    \* state.json as a power cut could leave it: not older than the last durable rename
  lock,    \* who holds state.json.lock
  pc, req, \* where each process is, and with what request
  next,    \* what it decided: the new file, the answer, and the question found asked
  said,    \* what callers were told since the gate's record was last begun anew
  opened, closed, answered,  \* codes that opened a window, windows closed, questions answered
  used     \* tries, asks and mishaps so far

vars == <<now, secret, shown, file, disk, lock, pc, req, next, said, opened, closed, answered,
          used>>
stored == <<file, disk>>
told == <<said, opened, closed, answered>>

Codes == [secret : Nat, step : Nat]
NoCode == [secret |-> 0, step |-> 0]
Blank == [window |-> NoCode, last |-> 0, fails |-> 0, locked |-> 0]

Ops == {"none", "unlock", "lock", "reset", "ask", "yes"}
Request(op, code, at, question) == [op |-> op, code |-> code, at |-> at, question |-> question]
NoReq == Request("none", NoCode, 0, 0)
File(gate, asked) == [gate |-> gate, asked |-> asked]
NoPlan == [file |-> File(Blank, 0), out |-> "none", question |-> 0]

Init ==
  /\ now = 1 /\ secret = 1 /\ shown = {1}
  /\ file = File(Blank, 0) /\ disk = file
  /\ lock = None
  /\ pc = [p \in Procs |-> "idle"]
  /\ req = [p \in Procs |-> NoReq] /\ next = [p \in Procs |-> NoPlan]
  /\ said = [step |-> 0, wrong |-> 0, locked |-> 0, asked |-> 0]
  /\ opened = {} /\ closed = {} /\ answered = {}
  /\ used = [tries |-> 0, asks |-> 0, mishaps |-> 0]

-----------------------------------------------------------------------------
(* What a request makes of the file (the change functions).                *)

Smaller(a, b) == IF a < b THEN a ELSE b
Doublings(locks) == IF locks > 1 THEN Smaller(locks - 1, 16) ELSE 0
LockoutOf(locks) == Smaller(Lockout * 2 ^ Doublings(locks), LockoutMax)

\* Mutant: a long-lived process that read the secret once takes its codes for good.
MatchesOnceRead(q) ==
  q.code.secret # 0 /\ q.code.step <= q.at + Drift /\ q.at <= q.code.step + Drift
(* matched_step: the secret of now, and a step within the drift of the request's moment. *)
Matches(q) ==
  q.code.secret = secret /\ q.code.step <= q.at + Drift /\ q.at <= q.code.step + Drift

Accepts(q, g) == Matches(q) /\ q.code.step > g.last

(* A correct code: the window opens, and what was counted is forgotten. *)
Opened(code) == [window |-> code, last |-> code.step, fails |-> 0, locked |-> 0]

(* A wrong code, or one used before: counted, and each Throttle-th locks code entry. *)
Wrong(q, g) ==
  LET n == g.fails + 1 IN
  [window |-> g.window, last |-> g.last, fails |-> n,
   locked |-> IF n % Throttle = 0 THEN q.at + LockoutOf(n \div Throttle) ELSE g.locked]

Plan(f, out) == [file |-> f, out |-> out, question |-> file.asked]
Decides(p, f, out) == next' = [next EXCEPT ![p] = Plan(f, out)]

Unlocks(p, q) ==
  /\ q.op = "unlock"
  /\ \/ file.gate.locked > q.at /\ Decides(p, file, "refused")
     \/ /\ ~ file.gate.locked > q.at /\ Accepts(q, file.gate)
        /\ Decides(p, File(Opened(q.code), file.asked), "opened")
     \/ /\ ~ file.gate.locked > q.at /\ ~ Accepts(q, file.gate)
        /\ Decides(p, File(Wrong(q, file.gate), file.asked), "wrong")

\* Mutant: the whole record goes, as a window that is closed leaves nothing to keep.
LocksForgetting(p, q) ==
  q.op = "lock" /\ Decides(p, File(Blank, file.asked), "closed")
(* lock: the window goes; the last step and the count stay. *)
Locks(p, q) ==
  q.op = "lock" /\ Decides(p, File([file.gate EXCEPT !.window = NoCode], file.asked), "closed")

Resets(p, q) ==
  q.op = "reset" /\ Decides(p, File(Blank, file.asked), "enrolled")

\* Mutant: the question stays, for its time to run out.
YesLeavesIt(p, q) ==
  q.op = "yes" /\ Decides(p, file, IF file.asked = 0 THEN "no" ELSE "yes")
(* answer_pending: taken either way; live unless it was asked too long ago.  clear_pending
   is the same with nothing found live. *)
Yes(p, q) ==
  q.op = "yes" /\ \E out \in {"no", IF file.asked = 0 THEN "no" ELSE "yes"} :
                    Decides(p, File(file.gate, 0), out)

Asks(p, q) == q.op = "ask" /\ Decides(p, File(file.gate, q.question), "asked")

-----------------------------------------------------------------------------
(* Requests.                                                               *)

Begins(p, q) ==
  /\ pc[p] = "idle" /\ pc' = [pc EXCEPT ![p] = "waits"]
  /\ req' = [req EXCEPT ![p] = q]

(* A code of some secret its owner has, of any step up to now, or digits that are none. *)
UnlockBegins(p) ==
  /\ used.tries < MaxTries /\ used' = [used EXCEPT !.tries = @ + 1]
  /\ \E code \in {NoCode} \cup [secret : shown, step : 1 .. now + Drift] :
       Begins(p, Request("unlock", code, now, 0))
  /\ UNCHANGED <<now, secret, shown, stored, lock, next, told>>

LockBegins(p) ==
  /\ Begins(p, Request("lock", NoCode, 0, 0))
  /\ UNCHANGED <<now, secret, shown, stored, lock, next, told, used>>

(* enroll --replace: the new secret is in place before the record is dropped.  One at a
   time: two at once are not modelled. *)
EnrollBegins(p) ==
  /\ secret < MaxSecrets /\ \A r \in Procs : req[r].op # "reset" /\ next[r].out # "enrolled"
  /\ secret' = secret + 1
  /\ Begins(p, Request("reset", NoCode, 0, 0))
  /\ UNCHANGED <<now, shown, stored, lock, next, told, used>>

AskBegins(p) ==
  /\ used.asks < MaxAsks /\ used' = [used EXCEPT !.asks = @ + 1]
  /\ Begins(p, Request("ask", NoCode, 0, used.asks + 1))
  /\ UNCHANGED <<now, secret, shown, stored, lock, next, told>>

YesBegins(p) ==
  /\ Begins(p, Request("yes", NoCode, 0, 0))
  /\ UNCHANGED <<now, secret, shown, stored, lock, next, told, used>>

-----------------------------------------------------------------------------
(* The locked rewrite (_rewrite, write_replacing).                         *)

\* Mutant: the file is read and written under no lock.
TakeUnasked(p) ==
  /\ pc[p] = "waits" /\ lock' = p /\ pc' = [pc EXCEPT ![p] = "reads"]
  /\ UNCHANGED <<now, secret, shown, stored, req, next, told, used>>
Take(p) ==
  /\ pc[p] = "waits" /\ lock = None
  /\ lock' = p /\ pc' = [pc EXCEPT ![p] = "reads"]
  /\ UNCHANGED <<now, secret, shown, stored, req, next, told, used>>

Leaves(p) ==
  /\ pc' = [pc EXCEPT ![p] = "idle"]
  /\ req' = [req EXCEPT ![p] = NoReq] /\ next' = [next EXCEPT ![p] = NoPlan]

(* Another's turn took longer than the wait: refused, nothing changed. *)
TimesOut(p) ==
  /\ pc[p] = "waits" /\ lock # None
  /\ Leaves(p)
  /\ UNCHANGED <<now, secret, shown, stored, lock, told, used>>

Decide(p) ==
  LET q == req[p] IN
  /\ pc[p] = "reads" /\ pc' = [pc EXCEPT ![p] = "writes"]
  /\ Unlocks(p, q) \/ Locks(p, q) \/ Resets(p, q) \/ Asks(p, q) \/ Yes(p, q)
  /\ req' = [req EXCEPT ![p] = NoReq]
  /\ UNCHANGED <<now, secret, shown, stored, lock, told, used>>

(* The rename: the file is new for every reader.  What begins a record or a question anew
   ends what was said of the old one. *)
Rename(p) ==
  LET out == next[p].out IN
  /\ pc[p] = "writes" /\ next[p].file # file
  /\ file' = next[p].file
  /\ pc' = [pc EXCEPT ![p] = "syncs"]
  /\ said' =
       [step |-> IF out = "enrolled" THEN 0 ELSE said.step,
        wrong |-> IF out \in {"opened", "enrolled"} THEN 0 ELSE said.wrong,
        locked |-> IF out \in {"opened", "enrolled"} THEN 0 ELSE said.locked,
        asked |-> IF file'.asked = file.asked THEN said.asked ELSE 0]
  /\ UNCHANGED <<now, secret, shown, disk, lock, req, next, opened, closed, answered, used>>

WriteFails(p) ==
  /\ pc[p] = "writes" /\ next[p].file # file
  /\ Leaves(p) /\ lock' = None
  /\ UNCHANGED <<now, secret, shown, stored, told, used>>

(* The caller's answer: what it is told of the gate and of its question. *)
Tells(p) ==
  LET out == next[p].out  g == next[p].file.gate IN
  /\ said' =
       [step |-> IF out = "opened" THEN g.last ELSE said.step,
        wrong |-> IF out = "wrong" THEN g.fails ELSE said.wrong,
        locked |-> IF out = "wrong" THEN g.locked ELSE said.locked,
        asked |-> IF out = "asked" THEN next[p].file.asked ELSE said.asked]
  /\ opened' = IF out = "opened" THEN opened \cup {g.window} ELSE opened
  /\ closed' = IF out \in {"closed", "enrolled"} THEN closed \cup opened ELSE closed
  /\ answered' = IF out = "yes" THEN answered \cup {next[p].question} ELSE answered

Shows(p) == shown' = IF next[p].out = "enrolled" THEN shown \cup {secret} ELSE shown

\* Mutant: the answer does not wait for the disk.
AnswerEarly(p) ==
  /\ pc[p] = "syncs" /\ UNCHANGED disk
  /\ Tells(p) /\ Shows(p) /\ Leaves(p) /\ lock' = None
  /\ UNCHANGED <<now, secret, file, used>>
(* The rename is made durable, the lock let go, the caller answered. *)
Answer(p) ==
  /\ pc[p] = "syncs" /\ disk' = file
  /\ Tells(p) /\ Shows(p) /\ Leaves(p) /\ lock' = None
  /\ UNCHANGED <<now, secret, file, used>>

(* The file says so already: nothing is written, and nothing made durable.  Where a killed
   writer's rename is not durable yet, the answer does not count as what must be kept. *)
AnswerUnwritten(p) ==
  /\ pc[p] = "writes" /\ next[p].file = file
  /\ IF disk = file THEN Tells(p) ELSE UNCHANGED told
  /\ Shows(p) /\ Leaves(p) /\ lock' = None
  /\ UNCHANGED <<now, secret, stored, used>>

-----------------------------------------------------------------------------
\* Mutant: a killed process keeps its lock.
KillKeepsLock(p) ==
  /\ pc[p] # "idle" /\ used.mishaps < MaxMishaps /\ used' = [used EXCEPT !.mishaps = @ + 1]
  /\ Leaves(p)
  /\ UNCHANGED <<now, secret, shown, stored, lock, told>>
(* Killed: the system drops its lock. *)
Kill(p) ==
  /\ pc[p] # "idle" /\ used.mishaps < MaxMishaps /\ used' = [used EXCEPT !.mishaps = @ + 1]
  /\ Leaves(p) /\ lock' = IF lock = p THEN None ELSE lock
  /\ UNCHANGED <<now, secret, shown, stored, told>>

(* The power goes: no process is left, and the file is the new or the old one. *)
PowerCut ==
  /\ used.mishaps < MaxMishaps /\ used' = [used EXCEPT !.mishaps = @ + 1]
  /\ file' \in {file, disk} /\ disk' = file'
  /\ pc' = [p \in Procs |-> "idle"] /\ lock' = None
  /\ req' = [p \in Procs |-> NoReq] /\ next' = [p \in Procs |-> NoPlan]
  /\ UNCHANGED <<now, secret, shown, told>>

Tick ==
  /\ now < MaxTime /\ now' = now + 1
  /\ UNCHANGED <<secret, shown, stored, lock, pc, req, next, told, used>>

Requests(p) ==
  UnlockBegins(p) \/ LockBegins(p) \/ EnrollBegins(p) \/ AskBegins(p) \/ YesBegins(p)
Rewrites(p) ==
  \/ Take(p) \/ TimesOut(p) \/ Decide(p) \/ Rename(p) \/ WriteFails(p)
  \/ Answer(p) \/ AnswerUnwritten(p)

Next == PowerCut \/ Tick \/ \E p \in Procs : Requests(p) \/ Rewrites(p) \/ Kill(p)

Spec == Init /\ [][Next]_vars

-----------------------------------------------------------------------------
Records == [window : Codes, last : Nat, fails : Nat, locked : Nat]
Files == [gate : Records, asked : Nat]

(* Every variable keeps its type, and the lock is held exactly by the one process that
   reads and writes the file. *)
TypeOK ==
  /\ now \in 1 .. MaxTime + 1 /\ secret \in Nat /\ shown \subseteq Nat
  /\ file \in Files /\ disk \in Files
  /\ lock \in Procs \cup {None}
  /\ pc \in [Procs -> {"idle", "waits", "reads", "writes", "syncs"}]
  /\ req \in [Procs -> [op : Ops, code : Codes, at : Nat, question : Nat]]
  /\ next \in [Procs -> [file : Files,
       out : {"none", "refused", "opened", "wrong", "closed", "enrolled", "asked", "yes", "no"},
       question : Nat]]
  /\ said \in [step : Nat, wrong : Nat, locked : Nat, asked : Nat]
  /\ opened \subseteq Codes /\ closed \subseteq Codes /\ answered \subseteq Nat
  /\ used \in [tries : Nat, asks : Nat, mishaps : Nat]
  /\ \A p \in Procs : (lock = p) <=> (pc[p] \in {"reads", "writes", "syncs"})

(* What a caller was told stays so, whoever writes another key or another change, is killed
   or loses power: a count of wrong codes, the lock it came to and the step of an accepted
   code are in the file until a correct code or an enrolment begins the record anew, and a
   question is until it is answered, asked anew or closed ("cannot lose each other's key",
   core/state_file.py). *)
Keeps(f) ==
  /\ said.wrong <= f.gate.fails /\ said.locked <= f.gate.locked /\ said.step <= f.gate.last
  /\ said.asked # 0 => f.asked = said.asked
SaidIsKept == Keeps(file) /\ Keeps(disk)

(* A code opens one window: once its caller was told so, no process accepts it again, not
   after a lock, a wrong code, an enrolment, a kill or a power cut ("A code that was accepted
   is never accepted again", gate.py). *)
OpensOnce == [][\A p \in Procs :
  next'[p].out = "opened" /\ next[p].out # "opened" => req[p].code \notin opened]_vars

(* A window that a lock or an enrolment closed is never open again. *)
StaysClosed == file.gate.window \notin closed

(* One yes answers one question: no question is found live twice (answer_pending). *)
YesOnce == [][\A p \in Procs :
  next'[p].out = "yes" /\ next[p].out # "yes" => file.asked \notin answered]_vars
=============================================================================
