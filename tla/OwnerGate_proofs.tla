-------------------------- MODULE OwnerGate_proofs --------------------------
(* What OwnerGate promises, proved for any number of processes, of codes, of questions, of
   enrolments, of kills and of power cuts. *)
EXTENDS OwnerGate, FiniteSetTheorems, TLAPS

LEMMA PowersType == ASSUME NEW k \in Nat PROVE 2 ^ k \in Nat
<1>1. IsFiniteSet(1 .. k) /\ Cardinality(1 .. k) = k
  BY FS_Interval
<1>2. IsFiniteSet(SUBSET (1 .. k)) /\ Cardinality(SUBSET (1 .. k)) = 2 ^ Cardinality(1 .. k)
  BY <1>1, FS_SUBSET
<1>3. Cardinality(SUBSET (1 .. k)) \in Nat
  BY <1>2, FS_CardinalityType
<1>4. QED
  BY <1>1, <1>2, <1>3

LEMMA LockoutType == ASSUME NEW locks \in Int PROVE LockoutOf(locks) \in Nat
<1>1. Doublings(locks) \in Nat
  BY DEF Doublings, Smaller
<1>2. 2 ^ Doublings(locks) \in Nat
  BY <1>1, PowersType
<1>3. \A power \in Nat : Smaller(Lockout * power, LockoutMax) \in Nat
  BY GateAssumption DEF Smaller
<1>4. QED
  BY <1>2, <1>3 DEF LockoutOf

Outs == {"none", "refused", "opened", "wrong", "closed", "enrolled", "asked", "yes", "no"}
Requested == [op : Ops, code : Codes, at : Nat, question : Nat]
Planned == [file : Files, out : Outs, question : Nat]

LEMMA WrongType ==
  ASSUME NEW g \in Records, NEW q \in Requested
  PROVE  /\ Wrong(q, g) \in Records
         /\ Wrong(q, g).window = g.window /\ Wrong(q, g).last = g.last
         /\ Wrong(q, g).fails = g.fails + 1
<1>1. (g.fails + 1) \div Throttle \in Int
  BY GateAssumption DEF Records
<1>2. LockoutOf((g.fails + 1) \div Throttle) \in Nat
  BY <1>1, LockoutType
<1>3. QED
  BY <1>2 DEF Wrong, Records, Requested

(* What may be decided of the file, spelled out for each answer. *)
Fits(f, out) ==
  \/ out = "refused" /\ f = file
  \/ \E code \in Codes :
       /\ out = "opened" /\ f = File(Opened(code), file.asked)
       /\ code.step > file.gate.last /\ code.secret \in shown /\ code \notin opened
  \/ \E g \in Records :
       /\ out = "wrong" /\ f = File(g, file.asked)
       /\ g.window = file.gate.window /\ g.last = file.gate.last
       /\ g.fails > file.gate.fails /\ g.locked >= file.gate.locked
  \/ out = "closed" /\ f = File([file.gate EXCEPT !.window = NoCode], file.asked)
  \/ out = "enrolled" /\ f = File(Blank, file.asked) /\ secret \notin shown
  \/ out = "asked" /\ \E question \in Nat \ answered : f = File(file.gate, question)
  \/ out = "no" /\ f = File(file.gate, 0)
  \/ out = "yes" /\ file.asked # 0 /\ f = File(file.gate, 0)

Follows(plan) == plan.question = file.asked /\ Fits(plan.file, plan.out)

(* What the file says where its writer's answer is told. *)
Means(plan) ==
  /\ plan.out = "opened" => /\ plan.file.gate.window.secret \in shown
                            /\ plan.file.gate.window.step = plan.file.gate.last
  /\ plan.out \in {"closed", "enrolled"} => plan.file.gate.window = NoCode
  /\ plan.out = "yes" => plan.question # 0 /\ plan.file.asked = 0

Wrote(plan) == plan.file = file /\ Means(plan)

Plans == \A p \in Procs :
  /\ pc[p] = "writes" => Follows(next[p])
  /\ pc[p] = "syncs" => Wrote(next[p])

(* A process has a request before it decides, and a plan after. *)
Phases == \A p \in Procs :
  /\ pc[p] \notin {"waits", "reads"} => req[p] = NoReq
  /\ pc[p] \notin {"writes", "syncs"} => next[p] = NoPlan

(* One enrolment at a time, and until it is told nobody has its secret. *)
Enrols(p) == req[p].op = "reset" \/ next[p].out = "enrolled"
Secrets ==
  /\ secret \in Nat \ {0} /\ shown \subseteq 1 .. secret
  /\ \A p \in Procs : req[p].op = "unlock" => req[p].code.secret \in shown \cup {0}
  /\ \A p \in Procs : Enrols(p) => secret \notin shown /\ \A r \in Procs : Enrols(r) => r = p

(* A code that opened a window is of a secret gone by, or of a step the file has passed. *)
Passed(c, f) == c.secret = secret => c.step <= f.gate.last
CodesPass == \A c \in opened : c.secret \in shown /\ Passed(c, file) /\ Passed(c, disk)

WindowsClose ==
  /\ closed \subseteq opened
  /\ file.gate.window \notin closed /\ disk.gate.window \notin closed

(* A question still to be asked is in nobody else's hands, and one answered is not asked. *)
Free(n, p) ==
  /\ n # 0 /\ n # file.asked /\ n # disk.asked /\ n \notin answered
  /\ \A r \in Procs \ {p} : req[r].question # n /\ next[r].file.asked # n /\ next[r].question # n
Numbered == 0 .. used.asks
Questions ==
  /\ file.asked \in Numbered \ answered /\ disk.asked \in Numbered \ answered
  /\ answered \subseteq Numbered \ {0}
  /\ \A p \in Procs :
       /\ req[p].question \in Numbered
       /\ next[p].file.asked \in Numbered /\ next[p].question \in Numbered
       /\ req[p].op = "ask" => Free(req[p].question, p)

IInv ==
  /\ TypeOK /\ Phases /\ Plans /\ Secrets /\ SaidIsKept
  /\ CodesPass /\ WindowsClose /\ Questions

LEMMA OneWriter ==
  ASSUME TypeOK, NEW p \in Procs, NEW r \in Procs,
         pc[p] \in {"reads", "writes", "syncs"}, pc[r] \in {"reads", "writes", "syncs"}
  PROVE  p = r
  BY DEF TypeOK

(* What a process decides follows from the file it read. *)
LEMMA Decided ==
  ASSUME IInv, NEW p \in Procs, Decide(p)
  PROVE  /\ Follows(next'[p]) /\ next'[p] \in Planned
         /\ next' = [next EXCEPT ![p] = next'[p]]
<1> DEFINE q == req[p]
<1>1. /\ q \in Requested /\ file \in Files /\ file.gate \in Records /\ file.asked \in Nat
      /\ next \in [Procs -> Planned] /\ secret \in Nat
  BY DEF IInv, TypeOK, Requested, Planned, Outs, Files
<1>2. ASSUME NEW f \in Files, NEW out \in Outs, Decides(p, f, out), Fits(f, out)
      PROVE  /\ Follows(next'[p]) /\ next'[p] \in Planned
             /\ next' = [next EXCEPT ![p] = next'[p]]
  <2>1. next'[p] = Plan(f, out) /\ next' = [next EXCEPT ![p] = next'[p]]
    BY <1>1, <1>2 DEF Decides
  <2>2. Plan(f, out) \in Planned /\ Follows(Plan(f, out))
    BY <1>1, <1>2 DEF Plan, Planned, Follows
  <2>3. QED
    BY <2>1, <2>2
<1>3. \A g \in Records, n \in Nat : File(g, n) \in Files
  BY DEF File, Files
<1>4. CASE Unlocks(p, q)
  <2>1. CASE Decides(p, file, "refused")
    BY <2>1, <1>1, <1>2 DEF Fits, Outs
  <2>2. CASE Accepts(q, file.gate) /\ Decides(p, File(Opened(q.code), file.asked), "opened")
    <3>1. q.code \in Codes /\ q.code.step > file.gate.last /\ q.code.secret = secret
      BY <2>2, <1>1 DEF Accepts, Matches, Requested
    <3>2. q.code.secret \in shown
      BY <3>1, <1>4 DEF IInv, Secrets, Unlocks
    <3>3. q.code \notin opened
      BY <3>1, <1>1 DEF IInv, CodesPass, Passed, Records, Codes
    <3>4. Opened(q.code) \in Records
      BY <3>1 DEF Opened, Records, Codes
    <3>5. Fits(File(Opened(q.code), file.asked), "opened")
      BY <3>1, <3>2, <3>3 DEF Fits
    <3>6. QED
      BY <2>2, <3>4, <3>5, <1>1, <1>2, <1>3 DEF Outs
  <2>3. CASE ~ file.gate.locked > q.at /\ Decides(p, File(Wrong(q, file.gate), file.asked), "wrong")
    <3>1. Wrong(q, file.gate) \in Records /\ Wrong(q, file.gate).window = file.gate.window
          /\ Wrong(q, file.gate).last = file.gate.last
          /\ Wrong(q, file.gate).fails > file.gate.fails
      BY <1>1, WrongType DEF Records
    <3>2. Wrong(q, file.gate).locked >= file.gate.locked
      <4>1. (file.gate.fails + 1) \div Throttle \in Int
        BY <1>1, GateAssumption DEF Records
      <4>2. LockoutOf((file.gate.fails + 1) \div Throttle) \in Nat
        BY <4>1, LockoutType
      <4>3. QED
        BY <2>3, <4>2, <1>1 DEF Wrong, Records, Requested
    <3>3. Fits(File(Wrong(q, file.gate), file.asked), "wrong")
      BY <3>1, <3>2 DEF Fits
    <3>4. QED
      BY <2>3, <3>1, <3>3, <1>1, <1>2, <1>3 DEF Outs
  <2>4. QED
    BY <1>4, <2>1, <2>2, <2>3 DEF Unlocks
<1>5. CASE Locks(p, q)
  <2>1. [file.gate EXCEPT !.window = NoCode] \in Records
    BY <1>1 DEF Records, NoCode, Codes
  <2>2. Fits(File([file.gate EXCEPT !.window = NoCode], file.asked), "closed")
    BY DEF Fits
  <2>3. QED
    BY <1>5, <2>1, <2>2, <1>1, <1>2, <1>3 DEF Locks, Outs
<1>6. CASE Resets(p, q)
  <2>1. Blank \in Records /\ secret \notin shown
    BY <1>6 DEF Blank, Records, NoCode, Codes, Resets, IInv, Secrets, Enrols
  <2>2. Fits(File(Blank, file.asked), "enrolled")
    BY <2>1 DEF Fits
  <2>3. QED
    BY <1>6, <2>1, <2>2, <1>1, <1>2, <1>3 DEF Resets, Outs
<1>7. CASE Asks(p, q)
  <2>1. q.question \in Nat \ answered
    BY <1>7, <1>1 DEF Asks, IInv, Questions, Free, Requested
  <2>2. Fits(File(file.gate, q.question), "asked")
    BY <2>1 DEF Fits
  <2>3. QED
    BY <1>7, <2>1, <2>2, <1>1, <1>2, <1>3 DEF Asks, Outs
<1>8. CASE Yes(p, q)
  <2>1. Fits(File(file.gate, 0), "no") /\ (file.asked # 0 => Fits(File(file.gate, 0), "yes"))
    BY DEF Fits
  <2>2. QED
    BY <1>8, <2>1, <1>1, <1>2, <1>3 DEF Yes, Outs
<1>9. QED
  BY <1>4, <1>5, <1>6, <1>7, <1>8 DEF Decide

LEMMA BeginsType ==
  ASSUME IInv, NEW p \in Procs, NEW q \in Requested, Begins(p, q)
  PROVE  /\ req' \in [Procs -> Requested]
         /\ pc' \in [Procs -> {"idle", "waits", "reads", "writes", "syncs"}]
         /\ \A r \in Procs : (lock = r) <=> (pc'[r] \in {"reads", "writes", "syncs"})
  BY DEF IInv, TypeOK, Begins, Requested

LEMMA LeavesType ==
  ASSUME IInv, NEW p \in Procs, Leaves(p)
  PROVE  /\ req' \in [Procs -> Requested] /\ next' \in [Procs -> Planned]
         /\ pc' \in [Procs -> {"idle", "waits", "reads", "writes", "syncs"}]
         /\ \A r \in Procs : (r # p /\ lock = r) <=> (pc'[r] \in {"reads", "writes", "syncs"})
<1>1. NoReq \in Requested /\ NoPlan \in Planned
  BY DEF NoReq, Request, NoPlan, File, Blank, NoCode, Requested, Planned, Ops, Outs, Codes, Files,
         Records
<1>2. QED
  BY <1>1 DEF IInv, TypeOK, Leaves, Requested, Planned, Outs

LEMMA TypesKept == ASSUME IInv, [Next]_vars PROVE TypeOK'
<1> DEFINE Steps == {"idle", "waits", "reads", "writes", "syncs"}
<1> DEFINE Saying == [step : Nat, wrong : Nat, locked : Nat, asked : Nat]
<1> DEFINE Used == [tries : Nat, asks : Nat, mishaps : Nat]
<1>1. /\ now \in 1 .. MaxTime + 1 /\ secret \in Nat /\ shown \subseteq Nat
      /\ file \in Files /\ disk \in Files /\ lock \in Procs \cup {None} /\ None \notin Procs
      /\ pc \in [Procs -> Steps]
      /\ req \in [Procs -> Requested] /\ next \in [Procs -> Planned]
      /\ said \in Saying /\ used \in Used
      /\ opened \subseteq Codes /\ closed \subseteq Codes /\ answered \subseteq Nat
      /\ \A p \in Procs : (lock = p) <=> (pc[p] \in {"reads", "writes", "syncs"})
  BY GateAssumption DEF IInv, TypeOK, Requested, Planned, Outs
<1>2. ASSUME /\ now' \in 1 .. MaxTime + 1 /\ secret' \in Nat /\ shown' \subseteq Nat
             /\ file' \in Files /\ disk' \in Files /\ lock' \in Procs \cup {None}
             /\ pc' \in [Procs -> Steps]
             /\ req' \in [Procs -> Requested] /\ next' \in [Procs -> Planned]
             /\ said' \in Saying /\ used' \in Used
             /\ opened' \subseteq Codes /\ closed' \subseteq Codes /\ answered' \subseteq Nat
             /\ \A p \in Procs : (lock' = p) <=> (pc'[p] \in {"reads", "writes", "syncs"})
      PROVE  TypeOK'
  BY <1>2 DEF TypeOK, Requested, Planned, Outs
<1> HIDE DEF Steps, Saying, Used
<1>3. CASE UNCHANGED vars
  BY <1>1, <1>2, <1>3 DEF vars, stored, told
<1>4. ASSUME NEW p \in Procs, Requests(p) PROVE TypeOK'
  <2>1. CASE UnlockBegins(p)
    <3>1. PICK code \in {NoCode} \cup [secret : shown, step : 1 .. now + Drift] :
            Begins(p, Request("unlock", code, now, 0))
      BY <2>1 DEF UnlockBegins
    <3>2. code \in Codes
      <4>1. code = NoCode \/ code \in [secret : shown, step : 1 .. now + Drift]
        BY <3>1
      <4>2. shown \subseteq Nat /\ 1 .. now + Drift \subseteq Nat
        BY <1>1, GateAssumption
      <4>3. NoCode \in Codes
        BY DEF NoCode, Codes
      <4>4. CASE code \in [secret : shown, step : 1 .. now + Drift]
        BY <4>2, <4>4 DEF Codes
      <4>5. QED
        BY <4>1, <4>3, <4>4
    <3>3. Request("unlock", code, now, 0) \in Requested
      BY <3>2, <1>1, GateAssumption DEF Request, Requested, Ops
    <3>4. used' \in Used
      BY <2>1, <1>1 DEF UnlockBegins, Used
    <3>5. QED
      BY <2>1, <3>1, <3>3, <3>4, <1>1, <1>2, BeginsType DEF UnlockBegins, stored, told, Steps
  <2>2. CASE LockBegins(p)
    <3>1. Request("lock", NoCode, 0, 0) \in Requested
      BY DEF Request, Requested, Ops, NoCode, Codes
    <3>2. QED
      BY <2>2, <3>1, <1>1, <1>2, BeginsType DEF LockBegins, stored, told, Steps
  <2>3. CASE EnrollBegins(p)
    <3>1. Request("reset", NoCode, 0, 0) \in Requested
      BY DEF Request, Requested, Ops, NoCode, Codes
    <3>2. QED
      BY <2>3, <3>1, <1>1, <1>2, BeginsType DEF EnrollBegins, stored, told, Steps
  <2>4. CASE AskBegins(p)
    <3>1. Request("ask", NoCode, 0, used.asks + 1) \in Requested
      BY <1>1 DEF Request, Requested, Ops, NoCode, Codes, Used
    <3>2. used' \in Used
      BY <2>4, <1>1 DEF AskBegins, Used
    <3>3. QED
      BY <2>4, <3>1, <3>2, <1>1, <1>2, BeginsType DEF AskBegins, stored, told, Steps
  <2>5. CASE YesBegins(p)
    <3>1. Request("yes", NoCode, 0, 0) \in Requested
      BY DEF Request, Requested, Ops, NoCode, Codes
    <3>2. QED
      BY <2>5, <3>1, <1>1, <1>2, BeginsType DEF YesBegins, stored, told, Steps
  <2>6. QED
    BY <1>4, <2>1, <2>2, <2>3, <2>4, <2>5 DEF Requests
<1>5. ASSUME NEW p \in Procs, Rewrites(p) PROVE TypeOK'
  <2>1. CASE Take(p)
    BY <2>1, <1>1, <1>2 DEF Take, stored, told, Steps
  <2>2. CASE TimesOut(p)
    <3>1. lock # p
      BY <2>2, <1>1 DEF TimesOut
    <3>2. QED
      BY <2>2, <3>1, <1>1, <1>2, LeavesType DEF TimesOut, stored, told, Steps
  <2>3. CASE Decide(p)
    <3>1. next' \in [Procs -> Planned]
      BY <2>3, <1>1, Decided
    <3>2. req' \in [Procs -> Requested]
      BY <2>3, <1>1 DEF Decide, NoReq, Request, Requested, Ops, NoCode, Codes
    <3>3. QED
      BY <2>3, <3>1, <3>2, <1>1, <1>2 DEF Decide, stored, told, Steps
  <2>4. CASE Rename(p)
    <3>1. file' \in Files
      BY <2>4, <1>1 DEF Rename, Planned
    <3>2. said' \in Saying
      BY <2>4, <1>1 DEF Rename, Saying
    <3>3. QED
      BY <2>4, <3>1, <3>2, <1>1, <1>2 DEF Rename, stored, told, Steps
  <2>5. CASE WriteFails(p)
    <3>1. lock = p
      BY <2>5, <1>1 DEF WriteFails
    <3>2. QED
      BY <2>5, <3>1, <1>1, <1>2, LeavesType DEF WriteFails, stored, told, Steps
  <2>6. ASSUME Tells(p)
        PROVE  /\ said' \in Saying /\ opened' \subseteq Codes /\ closed' \subseteq Codes
               /\ answered' \subseteq Nat
    <3>1. next[p].file.gate \in Records /\ next[p].file.asked \in Nat /\ next[p].question \in Nat
      BY <1>1 DEF Planned, Files
    <3>2. said' \in Saying
      BY <2>6, <3>1, <1>1 DEF Tells, Saying, Records
    <3>3. opened' \subseteq Codes /\ closed' \subseteq Codes /\ answered' \subseteq Nat
      BY <2>6, <3>1, <1>1 DEF Tells, Records
    <3>4. QED
      BY <3>2, <3>3
  <2>7. CASE Answer(p)
    <3>1. lock = p
      BY <2>7, <1>1 DEF Answer
    <3>2. shown' \subseteq Nat
      BY <2>7, <1>1 DEF Answer, Shows
    <3>3. QED
      BY <2>7, <3>1, <3>2, <1>1, <1>2, <2>6, LeavesType DEF Answer, Steps
  <2>8. CASE AnswerUnwritten(p)
    <3>1. lock = p
      BY <2>8, <1>1 DEF AnswerUnwritten
    <3>2. shown' \subseteq Nat
      BY <2>8, <1>1 DEF AnswerUnwritten, Shows
    <3>3. said' \in Saying /\ opened' \subseteq Codes /\ closed' \subseteq Codes /\ answered' \subseteq Nat
      BY <2>8, <1>1, <2>6 DEF AnswerUnwritten, told
    <3>4. QED
      BY <2>8, <3>1, <3>2, <3>3, <1>1, <1>2, LeavesType DEF AnswerUnwritten, stored, Steps
  <2>9. QED
    BY <1>5, <2>1, <2>2, <2>3, <2>4, <2>5, <2>7, <2>8 DEF Rewrites
<1>6. ASSUME NEW p \in Procs, Kill(p) PROVE TypeOK'
  <2>1. used' \in Used
    BY <1>6, <1>1 DEF Kill, Used
  <2>2. QED
    BY <1>6, <2>1, <1>1, <1>2, LeavesType DEF Kill, stored, told, Steps
<1>7. CASE PowerCut
  <2>1. used' \in Used
    BY <1>7, <1>1 DEF PowerCut, Used
  <2>2. NoReq \in Requested /\ NoPlan \in Planned
    BY DEF NoReq, Request, NoPlan, File, Blank, NoCode, Requested, Planned, Ops, Outs, Codes,
           Files, Records
  <2>3. QED
    BY <1>7, <2>1, <2>2, <1>1, <1>2 DEF PowerCut, told, Steps
<1>8. CASE Tick
  <2>1. now' \in 1 .. MaxTime + 1
    BY <1>8, <1>1, GateAssumption DEF Tick
  <2>2. QED
    BY <1>8, <2>1, <1>1, <1>2 DEF Tick, stored, told
<1>9. QED
  BY <1>3, <1>4, <1>5, <1>6, <1>7, <1>8 DEF Next

LEMMA FileAsked == ASSUME NEW g, NEW n PROVE File(g, n).asked = n
  BY DEF File

LEMMA DecidedFrom ==
  ASSUME IInv, NEW p \in Procs, Decide(p)
  PROVE  /\ next'[p].question = file.asked
         /\ next'[p].out = "enrolled" => req[p].op = "reset"
         /\ \/ next'[p].file.asked = file.asked
            \/ next'[p].file.asked = 0
            \/ req[p].op = "ask" /\ next'[p].file.asked = req[p].question
<1>1. p \in DOMAIN next
  BY DEF IInv, TypeOK
<1>2. ASSUME NEW f, NEW out, Decides(p, f, out)
      PROVE  next'[p].file = f /\ next'[p].out = out /\ next'[p].question = file.asked
  BY <1>1, <1>2 DEF Decides, Plan
<1>3. CASE Unlocks(p, req[p])
  BY <1>2, <1>3, FileAsked DEF Unlocks
<1>4. CASE Locks(p, req[p])
  BY <1>2, <1>4, FileAsked DEF Locks
<1>5. CASE Resets(p, req[p])
  BY <1>2, <1>5, FileAsked DEF Resets
<1>6. CASE Asks(p, req[p])
  BY <1>2, <1>6, FileAsked DEF Asks
<1>7. CASE Yes(p, req[p])
  BY <1>2, <1>7, FileAsked DEF Yes
<1>8. QED
  BY <1>3, <1>4, <1>5, <1>6, <1>7 DEF Decide

LEMMA PhasesKept == ASSUME IInv, [Next]_vars PROVE Phases'
<1>1. /\ Phases /\ \A p \in Procs : p \in DOMAIN pc /\ p \in DOMAIN req /\ p \in DOMAIN next
      /\ pc = [p \in Procs |-> pc[p]] /\ req = [p \in Procs |-> req[p]]
      /\ next = [p \in Procs |-> next[p]]
  BY DEF IInv, TypeOK
<1>2. CASE UNCHANGED vars
  BY <1>1, <1>2 DEF vars, Phases
<1>3. ASSUME NEW p \in Procs, Requests(p) PROVE Phases'
  <2>1. UNCHANGED next /\ \E q : Begins(p, q)
    BY <1>3 DEF Requests, UnlockBegins, LockBegins, EnrollBegins, AskBegins, YesBegins
  <2>2. QED
    BY <2>1, <1>1 DEF Begins, Phases
<1>4. ASSUME NEW p \in Procs, Leaves(p) PROVE Phases'
  BY <1>4, <1>1 DEF Leaves, Phases
<1>5. ASSUME NEW p \in Procs, Rewrites(p) PROVE Phases'
  <2>1. CASE Take(p)
    BY <2>1, <1>1 DEF Take, Phases
  <2>2. CASE Decide(p)
    <3>1. next' = [next EXCEPT ![p] = next'[p]]
      BY <2>2, Decided
    <3>2. QED
      BY <2>2, <3>1, <1>1 DEF Decide, Phases
  <2>3. CASE Rename(p)
    BY <2>3, <1>1 DEF Rename, Phases
  <2>4. QED
    BY <1>5, <2>1, <2>2, <2>3, <1>4 DEF Rewrites, TimesOut, WriteFails, Answer, AnswerUnwritten
<1>6. ASSUME NEW p \in Procs, Kill(p) PROVE Phases'
  BY <1>6, <1>4 DEF Kill
<1>7. CASE PowerCut
  BY <1>7 DEF PowerCut, Phases
<1>8. CASE Tick
  BY <1>8, <1>1 DEF Tick, Phases
<1>9. QED
  BY <1>2, <1>3, <1>5, <1>6, <1>7, <1>8 DEF Next

(* A step that leaves the file and what its writer's plan rests on leaves the plan good. *)
LEMMA PlanKept ==
  ASSUME IInv, NEW r \in Procs, UNCHANGED <<file, shown, opened, answered>>,
         secret' = secret \/ ~ Enrols(r),
         pc'[r] = pc[r], next'[r] = next[r]
  PROVE  /\ pc'[r] = "writes" => Follows(next[r])'
         /\ pc'[r] = "syncs" => Wrote(next[r])'
<1>1. CASE pc[r] = "writes"
  <2>1. Follows(next[r])
    BY <1>1 DEF IInv, Plans
  <2>2. next[r].out = "enrolled" => secret' = secret
    BY DEF Enrols
  <2>3. QED
    BY <1>1, <2>1, <2>2 DEF Follows, Fits
<1>2. CASE pc[r] = "syncs"
  BY <1>2 DEF IInv, Plans, Wrote, Means
<1>3. QED
  BY <1>1, <1>2

LEMMA PlanMeans ==
  ASSUME IInv, NEW p \in Procs, pc[p] = "writes"
  PROVE  Means(next[p])
<1>1. Follows(next[p]) /\ file.gate \in Records
  BY DEF IInv, Plans, TypeOK, Files
<1>2. CASE next[p].out = "opened"
  <2>1. PICK code \in Codes : next[p].file = File(Opened(code), file.asked) /\ code.secret \in shown
    BY <1>1, <1>2 DEF Follows, Fits
  <2>2. next[p].file.gate.window = code /\ next[p].file.gate.last = code.step
    BY <2>1 DEF File, Opened
  <2>3. QED
    BY <1>2, <2>1, <2>2 DEF Means
<1>3. CASE next[p].out = "closed"
  <2>1. next[p].file.gate = [file.gate EXCEPT !.window = NoCode]
    BY <1>1, <1>3 DEF Follows, Fits, File
  <2>2. next[p].file.gate.window = NoCode
    BY <1>1, <2>1 DEF Records
  <2>3. QED
    BY <1>3, <2>2 DEF Means
<1>4. CASE next[p].out = "enrolled"
  <2>1. next[p].file.gate.window = NoCode
    BY <1>1, <1>4 DEF Follows, Fits, File, Blank
  <2>2. QED
    BY <1>4, <2>1 DEF Means
<1>5. CASE next[p].out = "yes"
  <2>1. next[p].file.asked = 0 /\ next[p].question # 0
    BY <1>1, <1>5 DEF Follows, Fits, File
  <2>2. QED
    BY <1>5, <2>1 DEF Means
<1>6. QED
  BY <1>2, <1>3, <1>4, <1>5 DEF Means

(* What it wrote is what it decided. *)
LEMMA PlanWritten ==
  ASSUME IInv, NEW p \in Procs, Rename(p)
  PROVE  Wrote(next[p])'
<1>1. Means(next[p]) /\ file' = next[p].file /\ next' = next /\ shown' = shown
  BY PlanMeans DEF Rename
<1>2. QED
  BY <1>1 DEF Wrote, Means

LEMMA PlansKept == ASSUME IInv, [Next]_vars PROVE Plans'
<1> SUFFICES ASSUME NEW r \in Procs
             PROVE  /\ pc'[r] = "writes" => Follows(next[r])'
                    /\ pc'[r] = "syncs" => Wrote(next[r])'
  BY DEF Plans
<1>1. \A p \in Procs : p \in DOMAIN pc /\ p \in DOMAIN next
  BY DEF IInv, TypeOK
<1>2. CASE UNCHANGED vars
  BY <1>2, PlanKept DEF vars, stored, told
<1>3. ASSUME NEW p \in Procs, Requests(p)
      PROVE  /\ pc'[r] = "writes" => Follows(next[r])'
             /\ pc'[r] = "syncs" => Wrote(next[r])'
  <2>1. UNCHANGED <<file, shown, opened, answered, next>> /\ (secret' = secret \/ ~ Enrols(r))
    BY <1>3 DEF Requests, UnlockBegins, LockBegins, EnrollBegins, AskBegins, YesBegins, stored, told,
                Enrols
  <2>2. pc' = [pc EXCEPT ![p] = "waits"]
    BY <1>3 DEF Requests, UnlockBegins, LockBegins, EnrollBegins, AskBegins, YesBegins, Begins
  <2>3. QED
    BY <2>1, <2>2, <1>1, PlanKept
<1>4. ASSUME NEW p \in Procs, Leaves(p), r # p => UNCHANGED <<file, shown, opened, answered, secret>>
      PROVE  /\ pc'[r] = "writes" => Follows(next[r])'
             /\ pc'[r] = "syncs" => Wrote(next[r])'
  <2>1. CASE r = p
    BY <1>4, <2>1, <1>1 DEF Leaves
  <2>2. CASE r # p
    BY <1>4, <2>2, <1>1, PlanKept DEF Leaves
  <2>3. QED
    BY <2>1, <2>2
<1>5. ASSUME NEW p \in Procs, pc[p] \in {"writes", "syncs"}, r # p,
             pc' = [pc EXCEPT ![p] = pc'[p]]
      PROVE  pc'[r] \notin {"writes", "syncs"}
  BY <1>5, <1>1, OneWriter DEF IInv
<1>6. ASSUME NEW p \in Procs, Rewrites(p)
      PROVE  /\ pc'[r] = "writes" => Follows(next[r])'
             /\ pc'[r] = "syncs" => Wrote(next[r])'
  <2>1. CASE Take(p)
    <3>1. CASE r = p
      BY <2>1, <3>1, <1>1 DEF Take
    <3>2. CASE r # p
      BY <2>1, <3>2, <1>1, PlanKept DEF Take, stored, told
    <3>3. QED
      BY <3>1, <3>2
  <2>2. CASE TimesOut(p)
    BY <2>2, <1>4 DEF TimesOut, stored, told
  <2>3. CASE Decide(p)
    <3>1. /\ Follows(next'[p]) /\ next' = [next EXCEPT ![p] = next'[p]]
          /\ pc' = [pc EXCEPT ![p] = "writes"]
          /\ UNCHANGED <<file, shown, opened, answered, secret>>
      BY <2>3, Decided DEF Decide, stored, told
    <3>2. CASE r = p
      BY <3>1, <3>2, <1>1 DEF Follows, Fits
    <3>3. CASE r # p
      BY <3>1, <3>3, <1>1, PlanKept
    <3>4. QED
      BY <3>2, <3>3
  <2>4. CASE Rename(p)
    <3>1. CASE r = p
      BY <2>4, <3>1, <1>1, PlanWritten DEF Rename
    <3>2. CASE r # p
      BY <2>4, <3>2, <1>1, <1>5 DEF Rename
    <3>3. QED
      BY <3>1, <3>2
  <2>5. CASE WriteFails(p)
    BY <2>5, <1>4 DEF WriteFails, stored, told
  <2>6. CASE Answer(p) \/ AnswerUnwritten(p)
    <3>1. pc[p] \in {"writes", "syncs"} /\ pc' = [pc EXCEPT ![p] = "idle"]
      BY <2>6 DEF Answer, AnswerUnwritten, Leaves
    <3>2. CASE r = p
      BY <3>1, <3>2, <1>1
    <3>3. CASE r # p
      BY <3>1, <3>3, <1>1, <1>5
    <3>4. QED
      BY <3>2, <3>3
  <2>7. QED
    BY <1>6, <2>1, <2>2, <2>3, <2>4, <2>5, <2>6 DEF Rewrites
<1>7. ASSUME NEW p \in Procs, Kill(p)
      PROVE  /\ pc'[r] = "writes" => Follows(next[r])'
             /\ pc'[r] = "syncs" => Wrote(next[r])'
  BY <1>7, <1>4 DEF Kill, stored, told
<1>8. CASE PowerCut
  BY <1>8 DEF PowerCut
<1>9. CASE Tick
  BY <1>9, PlanKept DEF Tick, stored, told
<1>10. QED
  BY <1>2, <1>3, <1>6, <1>7, <1>8, <1>9 DEF Next

(* A process that leaves takes its request and its plan with it. *)
LEMMA LeavesEnrolsLess ==
  ASSUME IInv, NEW p \in Procs, Leaves(p), NEW r \in Procs
  PROVE  /\ Enrols(r)' <=> Enrols(r) /\ r # p
         /\ req'[r].op = "unlock" => req'[r] = req[r] /\ r # p
  BY DEF IInv, TypeOK, Leaves, Enrols, NoReq, NoPlan, Request

LEMMA SecretsKept == ASSUME IInv, [Next]_vars PROVE Secrets'
<1>1. /\ secret \in Nat \ {0} /\ shown \subseteq 1 .. secret
      /\ \A r \in Procs : req[r].op = "unlock" => req[r].code.secret \in shown \cup {0}
      /\ \A r \in Procs : Enrols(r) => secret \notin shown /\ \A t \in Procs : Enrols(t) => t = r
      /\ \A p \in Procs : p \in DOMAIN pc /\ p \in DOMAIN req /\ p \in DOMAIN next
  BY DEF IInv, Secrets, TypeOK
<1>2. CASE UNCHANGED vars
  BY <1>1, <1>2 DEF vars, Secrets, Enrols
<1>3. ASSUME NEW p \in Procs, NEW q, Begins(p, q), q.op # "reset",
             q.op = "unlock" => q.code.secret \in shown \cup {0},
             UNCHANGED <<secret, shown, next>>
      PROVE  Secrets'
  BY <1>1, <1>3 DEF Begins, Secrets, Enrols
<1>4. ASSUME NEW p \in Procs, Requests(p) PROVE Secrets'
  <2>1. CASE UnlockBegins(p)
    <3>1. PICK code \in {NoCode} \cup [secret : shown, step : 1 .. now + Drift] :
            Begins(p, Request("unlock", code, now, 0))
      BY <2>1 DEF UnlockBegins
    <3>2. code.secret \in shown \cup {0}
      BY <3>1 DEF NoCode
    <3>3. QED
      BY <2>1, <3>1, <3>2, <1>3 DEF UnlockBegins, Request
  <2>2. CASE EnrollBegins(p)
    <3>1. /\ \A r \in Procs : ~ Enrols(r)
          /\ secret' = secret + 1 /\ UNCHANGED <<shown, next>>
          /\ req' = [req EXCEPT ![p] = Request("reset", NoCode, 0, 0)]
      BY <2>2 DEF EnrollBegins, Begins, Enrols
    <3>2. secret' \in Nat \ {0} /\ shown' \subseteq 1 .. secret' /\ secret' \notin shown'
      BY <3>1, <1>1
    <3>3. \A r \in Procs : req'[r].op = "unlock" => req'[r] = req[r]
      BY <3>1, <1>1 DEF Request
    <3>4. \A r \in Procs : Enrols(r)' => r = p
      BY <3>1, <1>1 DEF Enrols
    <3>5. QED
      BY <3>1, <3>2, <3>3, <3>4, <1>1 DEF Secrets
  <2>3. CASE LockBegins(p) \/ AskBegins(p) \/ YesBegins(p)
    BY <2>3, <1>3 DEF LockBegins, AskBegins, YesBegins, Request
  <2>4. QED
    BY <1>4, <2>1, <2>2, <2>3 DEF Requests
<1>5. ASSUME NEW p \in Procs, Leaves(p), UNCHANGED <<secret, shown>> PROVE Secrets'
  BY <1>1, <1>5, LeavesEnrolsLess DEF Secrets
<1>6. ASSUME NEW p \in Procs, Leaves(p), Shows(p), UNCHANGED secret PROVE Secrets'
  <2>1. CASE next[p].out # "enrolled"
    BY <2>1, <1>5, <1>6 DEF Shows
  <2>2. CASE next[p].out = "enrolled"
    <3>1. Enrols(p) /\ shown' = shown \cup {secret} /\ secret' = secret
      BY <2>2, <1>6 DEF Enrols, Shows
    <3>2. \A r \in Procs : ~ Enrols(r)'
      BY <3>1, <1>1, <1>6, LeavesEnrolsLess
    <3>3. \A r \in Procs : req'[r].op = "unlock" => req'[r] = req[r]
      BY <1>6, LeavesEnrolsLess
    <3>4. QED
      BY <3>1, <3>2, <3>3, <1>1 DEF Secrets
  <2>3. QED
    BY <2>1, <2>2
<1>7. ASSUME NEW p \in Procs, Rewrites(p) PROVE Secrets'
  <2>1. CASE Take(p) \/ Rename(p)
    BY <2>1, <1>1 DEF Take, Rename, Secrets, Enrols
  <2>2. CASE Decide(p)
    <3>1. /\ next' = [next EXCEPT ![p] = next'[p]] /\ req' = [req EXCEPT ![p] = NoReq]
          /\ UNCHANGED <<secret, shown>>
      BY <2>2, Decided DEF Decide
    <3>2. \A r \in Procs : Enrols(r)' => Enrols(r)
      BY <2>2, <3>1, <1>1, DecidedFrom DEF Enrols, NoReq, Request
    <3>3. \A r \in Procs : req'[r].op = "unlock" => req'[r] = req[r]
      BY <3>1, <1>1 DEF NoReq, Request
    <3>4. QED
      BY <3>1, <3>2, <3>3, <1>1 DEF Secrets
  <2>3. CASE TimesOut(p) \/ WriteFails(p)
    BY <2>3, <1>5 DEF TimesOut, WriteFails
  <2>4. CASE Answer(p) \/ AnswerUnwritten(p)
    BY <2>4, <1>6 DEF Answer, AnswerUnwritten
  <2>5. QED
    BY <1>7, <2>1, <2>2, <2>3, <2>4 DEF Rewrites
<1>8. ASSUME NEW p \in Procs, Kill(p) PROVE Secrets'
  BY <1>8, <1>5 DEF Kill
<1>9. CASE PowerCut
  BY <1>1, <1>9 DEF PowerCut, Secrets, Enrols, NoReq, NoPlan, Request
<1>10. CASE Tick
  BY <1>1, <1>10 DEF Tick, Secrets, Enrols
<1>11. QED
  BY <1>2, <1>4, <1>7, <1>8, <1>9, <1>10 DEF Next

(* Only these steps touch the file, its durable copy or what callers were told. *)
LEMMA QuietSteps ==
  ASSUME IInv, [Next]_vars
  PROVE  \/ UNCHANGED <<file, disk, said, opened, closed, answered>>
            /\ (UNCHANGED secret \/ \E p \in Procs : EnrollBegins(p))
            /\ UNCHANGED shown
         \/ \E p \in Procs : Rename(p) \/ Answer(p) \/ AnswerUnwritten(p)
         \/ PowerCut
  BY DEF Next, vars, stored, told, Requests, Rewrites, UnlockBegins, LockBegins, EnrollBegins,
         AskBegins, YesBegins, Take, TimesOut, Decide, WriteFails, Kill, Tick

LEMMA RenameEffect ==
  ASSUME IInv, NEW p \in Procs, Rename(p)
  PROVE  /\ \/ next[p].out = "enrolled" /\ file'.gate = Blank /\ secret \notin shown
            \/ \E code \in Codes \ opened :
                 /\ next[p].out = "opened" /\ file'.gate = Opened(code)
                 /\ code.step > file.gate.last /\ code.secret \in shown
            \/ /\ next[p].out \notin {"enrolled", "opened"} /\ file'.gate.last = file.gate.last
               /\ file'.gate.fails >= file.gate.fails /\ file'.gate.locked >= file.gate.locked
               /\ file'.gate.window \in {file.gate.window, NoCode}
         /\ file'.asked \notin answered
<1>1. /\ file' = next[p].file /\ Follows(next[p]) /\ file.gate \in Records
      /\ file.asked \notin answered /\ 0 \notin answered
  BY DEF IInv, Plans, Questions, Numbered, Rename, TypeOK, Files
<1>2. CASE next[p].out \in {"refused", "asked", "no", "yes"}
  <2>1. CASE next[p].out = "refused"
    BY <1>1, <2>1 DEF Follows, Fits, Records
  <2>2. CASE next[p].out = "asked"
    <3>1. PICK question \in Nat \ answered : file' = File(file.gate, question)
      BY <1>1, <2>2 DEF Follows, Fits
    <3>2. file'.gate = file.gate /\ file'.asked \notin answered
      BY <3>1 DEF File
    <3>3. QED
      BY <1>1, <2>2, <3>2 DEF Records
  <2>3. CASE next[p].out \in {"no", "yes"}
    <3>1. file' = File(file.gate, 0)
      BY <1>1, <2>3 DEF Follows, Fits
    <3>2. file'.gate = file.gate /\ file'.asked \notin answered
      BY <1>1, <3>1 DEF File
    <3>3. QED
      BY <1>1, <2>3, <3>2 DEF Records
  <2>4. QED
    BY <1>2, <2>1, <2>2, <2>3
<1>3. CASE next[p].out = "opened"
  <2>1. PICK code \in Codes :
          /\ file' = File(Opened(code), file.asked) /\ code \notin opened
          /\ code.step > file.gate.last /\ code.secret \in shown
    BY <1>1, <1>3 DEF Follows, Fits
  <2>2. file'.gate = Opened(code) /\ file'.asked = file.asked
    BY <2>1 DEF File
  <2>3. QED
    BY <1>1, <1>3, <2>1, <2>2
<1>4. CASE next[p].out = "wrong"
  <2>1. PICK g \in Records :
          /\ file' = File(g, file.asked) /\ g.window = file.gate.window /\ g.last = file.gate.last
          /\ g.fails > file.gate.fails /\ g.locked >= file.gate.locked
    BY <1>1, <1>4 DEF Follows, Fits
  <2>2. file'.gate = g /\ file'.asked = file.asked
    BY <2>1 DEF File
  <2>3. QED
    BY <1>1, <1>4, <2>1, <2>2 DEF Records
<1>5. CASE next[p].out = "closed"
  <2>1. file'.gate = [file.gate EXCEPT !.window = NoCode] /\ file'.asked = file.asked
    BY <1>1, <1>5 DEF Follows, Fits, File
  <2>2. QED
    BY <1>1, <1>5, <2>1 DEF Records
<1>6. CASE next[p].out = "enrolled"
  BY <1>1, <1>6 DEF Follows, Fits, File
<1>7. QED
  BY <1>1, <1>2, <1>3, <1>4, <1>5, <1>6 DEF Follows, Fits

(* A caller is told what both copies of the file say, or nothing that counts. *)
LEMMA AnswerEffect ==
  ASSUME IInv, NEW p \in Procs, Answer(p) \/ AnswerUnwritten(p)
  PROVE  /\ file' = file /\ secret' = secret /\ Shows(p) /\ Leaves(p) /\ used' = used
         /\ \/ UNCHANGED <<said, opened, closed, answered>> /\ disk' \in {file, disk}
            \/ Tells(p) /\ disk' = file /\ Wrote(next[p])
<1>1. CASE Answer(p)
  BY <1>1 DEF Answer, IInv, Plans
<1>2. CASE AnswerUnwritten(p)
  <2>1. Means(next[p]) /\ next[p].file = file
    BY <1>2, PlanMeans DEF AnswerUnwritten
  <2>2. QED
    BY <1>2, <2>1 DEF AnswerUnwritten, Wrote, told, stored
<1>3. QED
  BY <1>1, <1>2

LEMMA SaidKept == ASSUME IInv, [Next]_vars PROVE SaidIsKept'
<1>1. /\ Keeps(file) /\ Keeps(disk) /\ file \in Files /\ disk \in Files
      /\ file.gate \in Records /\ disk.gate \in Records
      /\ said \in [step : Nat, wrong : Nat, locked : Nat, asked : Nat]
  BY DEF IInv, SaidIsKept, TypeOK, Files
<1>2. CASE UNCHANGED <<file, disk, said>>
  BY <1>1, <1>2 DEF SaidIsKept, Keeps
<1>3. ASSUME NEW p \in Procs, Rename(p) PROVE SaidIsKept'
  <2>1. disk' = disk /\ file' = next[p].file
    BY <1>3 DEF Rename
  <2>2. /\ said'.step = IF next[p].out = "enrolled" THEN 0 ELSE said.step
        /\ said'.wrong = IF next[p].out \in {"opened", "enrolled"} THEN 0 ELSE said.wrong
        /\ said'.locked = IF next[p].out \in {"opened", "enrolled"} THEN 0 ELSE said.locked
        /\ said'.asked = IF file'.asked = file.asked THEN said.asked ELSE 0
    BY <1>3 DEF Rename
  <2>3. Keeps(disk)'
    BY <2>1, <2>2, <1>1 DEF Keeps, Records
  <2>4. CASE next[p].out = "enrolled"
    <3>1. file'.gate = Blank
      BY <2>4, <1>3, RenameEffect
    <3>2. QED
      BY <2>2, <2>3, <2>4, <3>1, <1>1 DEF SaidIsKept, Keeps, Blank
  <2>5. CASE next[p].out = "opened"
    <3>1. PICK code \in Codes : file'.gate = Opened(code) /\ code.step > file.gate.last
      BY <2>5, <1>3, RenameEffect
    <3>2. file'.gate.last > file.gate.last /\ file'.gate.fails = 0 /\ file'.gate.locked = 0
      BY <3>1 DEF Opened
    <3>3. file'.gate.last >= said.step
      BY <3>1, <3>2, <1>1 DEF Keeps, Records, Codes, Opened
    <3>4. QED
      BY <2>2, <2>3, <2>5, <3>2, <3>3, <1>1 DEF SaidIsKept, Keeps
  <2>6. CASE next[p].out \notin {"enrolled", "opened"}
    <3>1. /\ file'.gate.last = file.gate.last
          /\ file'.gate.fails >= file.gate.fails /\ file'.gate.locked >= file.gate.locked
      BY <2>6, <1>3, RenameEffect
    <3>2. file'.gate \in Records
      BY TypesKept DEF TypeOK, Files
    <3>3. QED
      BY <2>2, <2>3, <2>6, <3>1, <3>2, <1>1 DEF SaidIsKept, Keeps, Records
  <2>7. QED
    BY <2>4, <2>5, <2>6
<1>4. ASSUME NEW p \in Procs, Answer(p) \/ AnswerUnwritten(p) PROVE SaidIsKept'
  <2>1. CASE UNCHANGED said
    BY <1>4, <2>1, <1>1, AnswerEffect DEF SaidIsKept, Keeps
  <2>2. CASE Tells(p) /\ disk' = file /\ Wrote(next[p])
    <3>1. file' = file /\ next[p].file = file
      BY <1>4, <2>2, AnswerEffect DEF Wrote
    <3>2. Keeps(file)'
      BY <2>2, <3>1, <1>1 DEF Tells, Keeps, Records
    <3>3. QED
      BY <2>2, <3>1, <3>2 DEF SaidIsKept, Keeps
  <2>3. QED
    BY <1>4, <2>1, <2>2, AnswerEffect
<1>5. CASE PowerCut
  BY <1>5, <1>1 DEF PowerCut, told, SaidIsKept, Keeps
<1>6. QED
  BY <1>2, <1>3, <1>4, <1>5, QuietSteps

LEMMA CodesKept == ASSUME IInv, [Next]_vars PROVE CodesPass'
<1>1. /\ \A c \in opened : c \in Codes /\ c.secret \in shown /\ Passed(c, file) /\ Passed(c, disk)
      /\ shown \subseteq 1 .. secret /\ secret \in Nat
      /\ file.gate.last \in Nat /\ disk.gate.last \in Nat
  BY DEF IInv, CodesPass, Secrets, TypeOK, Files, Records
<1>2. CASE UNCHANGED <<file, disk, opened, shown, secret>>
  BY <1>1, <1>2 DEF CodesPass, Passed
<1>3. ASSUME NEW p \in Procs, EnrollBegins(p) PROVE CodesPass'
  <2>1. secret' = secret + 1 /\ opened' = opened /\ shown' = shown
    BY <1>3 DEF EnrollBegins, told
  <2>2. \A c \in opened : c.secret # secret'
    BY <1>1, <2>1
  <2>3. QED
    BY <1>1, <2>1, <2>2 DEF CodesPass, Passed
<1>4. ASSUME NEW p \in Procs, Rename(p) PROVE CodesPass'
  <2>1. UNCHANGED <<disk, opened, shown, secret>>
    BY <1>4 DEF Rename
  <2>2. secret \notin shown \/ file'.gate.last >= file.gate.last
    <3>1. CASE next[p].out = "opened"
      <4>1. PICK code \in Codes : file'.gate = Opened(code) /\ code.step > file.gate.last
        BY <3>1, <1>4, <1>1, RenameEffect
      <4>2. QED
        BY <4>1, <1>1 DEF Opened, Codes
    <3>2. CASE next[p].out # "opened"
      BY <3>2, <1>4, <1>1, RenameEffect
    <3>3. QED
      BY <3>1, <3>2
  <2>3. file'.gate.last \in Nat
    BY TypesKept DEF TypeOK, Files, Records
  <2>4. QED
    BY <1>1, <2>1, <2>2, <2>3 DEF CodesPass, Passed, Codes
<1>5. ASSUME NEW p \in Procs, Answer(p) \/ AnswerUnwritten(p) PROVE CodesPass'
  <2>1. file' = file /\ secret' = secret /\ shown \subseteq shown'
    BY <1>5, AnswerEffect DEF Shows
  <2>2. CASE opened' = opened /\ disk' \in {file, disk}
    BY <1>1, <2>1, <2>2 DEF CodesPass, Passed
  <2>3. CASE Tells(p) /\ disk' = file /\ Wrote(next[p])
    <3>1. opened' = IF next[p].out = "opened" THEN opened \cup {file.gate.window} ELSE opened
      BY <2>3 DEF Tells, Wrote
    <3>2. next[p].out = "opened" => /\ file.gate.window.secret \in shown
                                    /\ file.gate.window.step = file.gate.last
      BY <2>3 DEF Wrote, Means
    <3>3. ASSUME NEW c \in opened'
          PROVE  c.secret \in shown /\ (c.secret = secret => c.step <= file.gate.last)
      BY <1>1, <3>1, <3>2, <3>3 DEF Passed
    <3>4. QED
      BY <2>1, <2>3, <3>3 DEF CodesPass, Passed
  <2>4. QED
    BY <1>5, <2>2, <2>3, AnswerEffect
<1>6. CASE PowerCut
  BY <1>1, <1>6 DEF PowerCut, told, CodesPass, Passed
<1>7. QED
  BY <1>2, <1>3, <1>4, <1>5, <1>6, QuietSteps

LEMMA WindowsKept == ASSUME IInv, [Next]_vars PROVE WindowsClose'
<1>1. /\ closed \subseteq opened /\ opened \subseteq Codes
      /\ file.gate.window \notin closed /\ disk.gate.window \notin closed /\ NoCode \notin opened
  BY DEF IInv, WindowsClose, CodesPass, Secrets, NoCode, TypeOK
<1>2. CASE UNCHANGED <<file, disk, opened, closed>>
  BY <1>1, <1>2 DEF WindowsClose
<1>3. ASSUME NEW p \in Procs, Rename(p) PROVE WindowsClose'
  <2>1. UNCHANGED <<disk, opened, closed>>
    BY <1>3 DEF Rename
  <2>2. file'.gate.window \notin closed
    <3>1. CASE next[p].out = "opened"
      <4>1. PICK code \in Codes \ opened : file'.gate = Opened(code)
        BY <3>1, <1>3, RenameEffect
      <4>2. QED
        BY <4>1, <1>1 DEF Opened
    <3>2. CASE next[p].out = "enrolled"
      <4>1. file'.gate.window = NoCode
        BY <3>2, <1>3, RenameEffect DEF Blank
      <4>2. QED
        BY <4>1, <1>1
    <3>3. CASE next[p].out \notin {"opened", "enrolled"}
      BY <3>3, <1>1, <1>3, RenameEffect
    <3>4. QED
      BY <3>1, <3>2, <3>3
  <2>3. QED
    BY <1>1, <2>1, <2>2 DEF WindowsClose
<1>4. ASSUME NEW p \in Procs, Answer(p) \/ AnswerUnwritten(p) PROVE WindowsClose'
  <2>1. CASE UNCHANGED <<opened, closed>> /\ disk' \in {file, disk} /\ file' = file
    BY <1>1, <2>1 DEF WindowsClose
  <2>2. CASE Tells(p) /\ disk' = file /\ Wrote(next[p]) /\ file' = file
    <3>1. CASE next[p].out \in {"closed", "enrolled"}
      <4>1. closed' = closed \cup opened /\ opened' = opened /\ file.gate.window = NoCode
        BY <2>2, <3>1 DEF Tells, Wrote, Means
      <4>2. QED
        BY <1>1, <2>2, <4>1 DEF WindowsClose
    <3>2. CASE next[p].out \notin {"closed", "enrolled"}
      BY <1>1, <2>2, <3>2 DEF Tells, WindowsClose
    <3>3. QED
      BY <3>1, <3>2
  <2>3. QED
    BY <1>4, <2>1, <2>2, AnswerEffect
<1>5. CASE PowerCut
  BY <1>1, <1>5 DEF PowerCut, told, WindowsClose
<1>6. QED
  BY <1>2, <1>3, <1>4, <1>5, QuietSteps

NoAsk(q) == q.question = 0 /\ q.op # "ask"

LEMMA QuestionsKept == ASSUME IInv, [Next]_vars PROVE Questions'
<1>1. /\ file.asked \in Numbered \ answered /\ disk.asked \in Numbered \ answered
      /\ answered \subseteq Numbered \ {0} /\ used.asks \in Nat
      /\ \A r \in Procs :
           /\ req[r].question \in Numbered
           /\ next[r].file.asked \in Numbered /\ next[r].question \in Numbered
      /\ \A r \in Procs : req[r].op = "ask" => Free(req[r].question, r)
      /\ \A r \in Procs : r \in DOMAIN pc /\ r \in DOMAIN req /\ r \in DOMAIN next
  BY DEF IInv, Questions, TypeOK
<1>0. ASSUME UNCHANGED <<file, disk, answered, req, next, used>> PROVE Questions'
  <2>1. Numbered' = Numbered
    BY <1>0 DEF Numbered
  <2>2. \A r \in Procs : req'[r].op = "ask" => Free(req[r].question, r)'
    BY <1>0, <1>1 DEF Free
  <2>3. QED
    BY <1>0, <1>1, <2>1, <2>2 DEF Questions
\* A process without a request or a plan has no question in hand.
<1>2. ASSUME used'.asks = used.asks, file'.asked \in Numbered \ answered',
             disk'.asked \in Numbered \ answered', answered' \subseteq Numbered \ {0},
             \A r \in Procs : req'[r] = req[r] \/ NoAsk(req'[r]),
             \A r \in Procs : next'[r].file.asked \in Numbered /\ next'[r].question \in Numbered,
             \A r \in Procs : req'[r].op = "ask" =>
               LET n == req[r].question IN
               /\ n # file'.asked /\ n # disk'.asked /\ n \notin answered'
               /\ \A t \in Procs \ {r} : next'[t].file.asked # n /\ next'[t].question # n
      PROVE  Questions'
  <2>1. ASSUME NEW r \in Procs, req'[r].op = "ask" PROVE Free(req[r].question, r)' /\ req'[r] = req[r]
    BY <1>1, <1>2, <2>1 DEF Free, NoAsk
  <2>2. Numbered' = Numbered
    BY <1>2 DEF Numbered
  <2>3. \A r \in Procs : req'[r].question \in Numbered'
    BY <1>1, <1>2, <2>2 DEF Numbered, NoAsk
  <2>4. QED
    BY <1>2, <2>1, <2>2, <2>3 DEF Questions
<1>3. CASE UNCHANGED vars
  BY <1>0, <1>3 DEF vars, stored, told
<1>4. ASSUME NEW p \in Procs, Requests(p) PROVE Questions'
  <2>1. UNCHANGED <<file, disk, answered, next>>
    BY <1>4 DEF Requests, UnlockBegins, LockBegins, EnrollBegins, AskBegins, YesBegins, stored, told
  <2>2. CASE AskBegins(p)
    <3>1. /\ req' = [req EXCEPT ![p] = Request("ask", NoCode, 0, used.asks + 1)]
          /\ used'.asks = used.asks + 1
      BY <2>2 DEF AskBegins, Begins, IInv, TypeOK
    <3>2. Numbered' = 0 .. used.asks + 1 /\ Numbered = 0 .. used.asks
      BY <3>1 DEF Numbered
    <3>3. req'[p].question = used.asks + 1 /\ \A r \in Procs \ {p} : req'[r] = req[r]
      BY <3>1, <1>1 DEF Request
    <3>4. Free(req[p].question, p)'
      BY <2>1, <3>2, <3>3, <1>1 DEF Free
    <3>5. ASSUME NEW r \in Procs \ {p}, req'[r].op = "ask" PROVE Free(req[r].question, r)'
      <4>1. req'[r] = req[r] /\ Free(req[r].question, r) /\ req[r].question \in 0 .. used.asks
        BY <3>2, <3>3, <3>5, <1>1
      <4>2. \A t \in Procs \ {r} : req'[t].question # req[r].question
        BY <4>1, <3>3, <1>1 DEF Free
      <4>3. QED
        BY <4>1, <4>2, <2>1 DEF Free
    <3>6. \A r \in Procs : req'[r].question \in Numbered'
      BY <3>2, <3>3, <1>1
    <3>7. QED
      BY <2>1, <3>2, <3>4, <3>5, <3>6, <1>1 DEF Questions
  <2>3. CASE ~ AskBegins(p)
    <3>1. used'.asks = used.asks
      BY <1>4, <2>3 DEF Requests, UnlockBegins, LockBegins, EnrollBegins, YesBegins, IInv, TypeOK
    <3>2. PICK q : Begins(p, q) /\ NoAsk(q)
      <4>1. ASSUME NEW op, NEW code, NEW at, op # "ask" PROVE NoAsk(Request(op, code, at, 0))
        BY <4>1 DEF NoAsk, Request
      <4>2. CASE UnlockBegins(p)
        BY <4>1, <4>2 DEF UnlockBegins
      <4>3. CASE LockBegins(p) \/ EnrollBegins(p) \/ YesBegins(p)
        BY <4>1, <4>3 DEF LockBegins, EnrollBegins, YesBegins
      <4>4. QED
        BY <1>4, <2>3, <4>2, <4>3 DEF Requests
    <3>3. \A r \in Procs : req'[r] = req[r] \/ NoAsk(req'[r])
      BY <3>2, <1>1 DEF Begins
    <3>4. QED
      BY <2>1, <3>1, <3>3, <1>1, <1>2 DEF Free, NoAsk
  <2>4. QED
    BY <2>2, <2>3
<1>5. ASSUME NEW p \in Procs, Leaves(p)
      PROVE  /\ \A r \in Procs : req'[r] = req[r] \/ NoAsk(req'[r])
             /\ \A r \in Procs : \/ next'[r] = next[r]
                                 \/ next'[r].file.asked = 0 /\ next'[r].question = 0
  BY <1>1, <1>5 DEF Leaves, NoReq, NoPlan, Request, File, NoAsk
<1>6. ASSUME NEW p \in Procs, Leaves(p), UNCHANGED <<file, disk, answered>>, used'.asks = used.asks
      PROVE  Questions'
  BY <1>1, <1>2, <1>5, <1>6 DEF Free, NoAsk, Numbered
<1>7. ASSUME NEW p \in Procs, pc[p] \in {"writes", "syncs"}, NEW r \in Procs, req[r].op = "ask"
      PROVE  r # p
  BY <1>7 DEF IInv, Phases, NoReq, Request
<1>8. ASSUME NEW p \in Procs, Rewrites(p) PROVE Questions'
  <2>1. CASE Take(p)
    BY <2>1, <1>0 DEF Take, stored, told
  <2>2. CASE TimesOut(p) \/ WriteFails(p)
    BY <2>2, <1>6 DEF TimesOut, WriteFails, stored, told
  <2>3. CASE Decide(p)
    <3>1. /\ UNCHANGED <<file, disk, answered, used>> /\ req' = [req EXCEPT ![p] = NoReq]
          /\ next' = [next EXCEPT ![p] = next'[p]]
      BY <2>3, Decided DEF Decide, stored, told
    <3>2. \A r \in Procs : (r # p /\ req'[r] = req[r]) \/ NoAsk(req'[r])
      BY <3>1, <1>1 DEF NoReq, Request, NoAsk
    <3>3. /\ next'[p].question = file.asked
          /\ \/ next'[p].file.asked = file.asked
             \/ next'[p].file.asked = 0
             \/ next'[p].file.asked = req[p].question
      BY <2>3, DecidedFrom
    <3>4. next'[p].file.asked \in Numbered /\ next'[p].question \in Numbered
      BY <3>3, <1>1 DEF Numbered
    <3>5. ASSUME NEW r \in Procs, req'[r].op = "ask", NEW t \in Procs \ {r}
          PROVE  next'[t].file.asked # req[r].question /\ next'[t].question # req[r].question
      <4>1. r # p /\ Free(req[r].question, r)
        BY <3>2, <3>5, <1>1 DEF NoAsk
      <4>2. CASE t = p
        BY <4>1, <4>2, <3>3 DEF Free
      <4>3. CASE t # p
        BY <4>1, <4>3, <3>1, <1>1 DEF Free
      <4>4. QED
        BY <4>2, <4>3
    <3>6. \A r \in Procs : next'[r].file.asked \in Numbered /\ next'[r].question \in Numbered
      BY <3>1, <3>4, <1>1
    <3>7. \A r \in Procs : req'[r].op = "ask" => Free(req[r].question, r)
      BY <3>2, <1>1 DEF NoAsk
    <3>8. QED
      BY <3>1, <3>2, <3>5, <3>6, <3>7, <1>1, <1>2 DEF Free
  <2>4. CASE Rename(p)
    <3>1. /\ UNCHANGED <<disk, answered, used, req, next>> /\ file' = next[p].file
          /\ file'.asked \notin answered /\ pc[p] = "writes"
      BY <2>4, RenameEffect DEF Rename
    <3>2. \A r \in Procs : req[r].op = "ask" => file'.asked # req[r].question
      BY <3>1, <1>1, <1>7 DEF Free
    <3>3. QED
      BY <3>1, <3>2, <1>1, <1>2 DEF Free
  <2>5. CASE Answer(p) \/ AnswerUnwritten(p)
    <3>1. file' = file /\ used' = used /\ Leaves(p) /\ pc[p] \in {"writes", "syncs"}
      BY <2>5, AnswerEffect DEF Answer, AnswerUnwritten
    <3>2. CASE answered' = answered /\ disk' \in {file, disk}
      BY <3>1, <3>2, <1>1, <1>2, <1>5 DEF Free, NoAsk, Numbered
    <3>3. CASE Tells(p) /\ disk' = file /\ Wrote(next[p])
      <4>1. CASE next[p].out = "yes"
        <5>1. /\ answered' = answered \cup {next[p].question} /\ next[p].question # 0
              /\ file.asked = 0
          BY <3>3, <4>1 DEF Tells, Wrote, Means
        <5>2. \A r \in Procs : req[r].op = "ask" => next[p].question # req[r].question
          BY <3>1, <1>1, <1>7 DEF Free
        <5>3. /\ answered' \subseteq Numbered \ {0} /\ file'.asked \in Numbered \ answered'
              /\ disk'.asked \in Numbered \ answered'
          BY <5>1, <3>1, <3>3, <1>1
        <5>4. \A r \in Procs : next'[r].file.asked \in Numbered /\ next'[r].question \in Numbered
          BY <3>1, <1>1, <1>5 DEF Numbered
        <5>5. QED
          BY <5>1, <5>2, <5>3, <5>4, <3>1, <3>3, <1>1, <1>2, <1>5 DEF Free, NoAsk
      <4>2. CASE next[p].out # "yes"
        <5>1. answered' = answered
          BY <3>3, <4>2 DEF Tells
        <5>2. QED
          BY <5>1, <3>1, <3>3, <1>1, <1>2, <1>5 DEF Free, NoAsk, Numbered
      <4>3. QED
        BY <4>1, <4>2
    <3>4. QED
      BY <2>5, <3>2, <3>3, AnswerEffect
  <2>6. QED
    BY <1>8, <2>1, <2>2, <2>3, <2>4, <2>5 DEF Rewrites
<1>9. ASSUME NEW p \in Procs, Kill(p) PROVE Questions'
  <2>1. used'.asks = used.asks
    BY <1>9 DEF Kill, IInv, TypeOK
  <2>2. QED
    BY <1>9, <2>1, <1>6 DEF Kill, stored, told
<1>10. CASE PowerCut
  <2>1. used'.asks = used.asks
    BY <1>10 DEF PowerCut, IInv, TypeOK
  <2>2. QED
    BY <1>10, <2>1, <1>1, <1>2 DEF PowerCut, told, NoReq, NoPlan, Request, File, Numbered, NoAsk
<1>11. CASE Tick
  BY <1>11, <1>0 DEF Tick, stored, told
<1>12. QED
  BY <1>3, <1>4, <1>8, <1>9, <1>10, <1>11 DEF Next

LEMMA IInvHolds == Spec => []IInv
<1>1. Init => IInv
  <2>1. ASSUME Init PROVE IInv
    <3>1. Blank \in Records /\ NoReq \in Requested /\ NoPlan \in Planned /\ File(Blank, 0) \in Files
      BY DEF NoReq, Request, NoPlan, File, Blank, NoCode, Requested, Planned, Ops, Outs, Codes,
             Files, Records
    <3>2. TypeOK
      BY <2>1, <3>1, GateAssumption DEF Init, TypeOK, Requested, Planned, Outs
    <3>3. Phases /\ Plans
      BY <2>1 DEF Init, Phases, Plans
    <3>4. Secrets
      BY <2>1 DEF Init, Secrets, Enrols, NoReq, Request, NoPlan
    <3>5. SaidIsKept
      BY <2>1 DEF Init, SaidIsKept, Keeps, File, Blank
    <3>6. CodesPass /\ WindowsClose
      BY <2>1 DEF Init, CodesPass, WindowsClose
    <3>7. Questions
      BY <2>1 DEF Init, Questions, Numbered, Free, File, NoReq, Request, NoPlan
    <3>8. QED
      BY <3>2, <3>3, <3>4, <3>5, <3>6, <3>7 DEF IInv
  <2>2. QED
    BY <2>1
<1>2. IInv /\ [Next]_vars => IInv'
  BY TypesKept, PhasesKept, PlansKept, SecretsKept, SaidKept, CodesKept, WindowsKept, QuestionsKept
     DEF IInv
<1>3. QED
  BY <1>1, <1>2, PTL DEF Spec

(* Every variable keeps its type, and the lock is the one writer's. *)
THEOREM TypeCorrect == Spec => []TypeOK
<1>1. IInv => TypeOK
  BY DEF IInv
<1>2. QED
  BY <1>1, IInvHolds, PTL

(* A count, a lock or a step a caller was told of, and a question asked, are in the file and
   on the disk until something begins them anew (state_file.py, gate.py). *)
THEOREM NothingToldIsLost == Spec => []SaidIsKept
<1>1. IInv => SaidIsKept
  BY DEF IInv
<1>2. QED
  BY <1>1, IInvHolds, PTL

(* A window that was closed is not open again (gate.py). *)
THEOREM ClosedStaysClosed == Spec => []StaysClosed
<1>1. IInv => StaysClosed
  BY DEF IInv, WindowsClose, StaysClosed
<1>2. QED
  BY <1>1, IInvHolds, PTL

LEMMA OpenedFrom ==
  ASSUME IInv, NEW p \in Procs, Decide(p), next'[p].out = "opened"
  PROVE  req[p].code \notin opened
<1>1. ASSUME NEW f, NEW out, Decides(p, f, out) PROVE next'[p].out = out
  BY <1>1 DEF Decides, Plan, IInv, TypeOK
<1>2. Unlocks(p, req[p])
  BY <1>1 DEF Decide, Locks, Resets, Asks, Yes
<1>3. Accepts(req[p], file.gate)
  BY <1>1, <1>2 DEF Unlocks
<1>4. /\ req[p].code.secret = secret /\ req[p].code.step > file.gate.last
      /\ req[p].code.step \in Nat /\ file.gate.last \in Nat
  BY <1>3 DEF Accepts, Matches, IInv, TypeOK, Files, Records, Codes
<1>5. QED
  BY <1>4 DEF IInv, CodesPass, Passed, TypeOK, Codes

(* Only deciding makes a plan. *)
LEMMA PlansAreDecided ==
  ASSUME IInv, [Next]_vars, NEW r \in Procs, next'[r].out \notin {next[r].out, "none"}
  PROVE  Decide(r)
<1>1. r \in DOMAIN next /\ NoPlan.out = "none"
  BY DEF IInv, TypeOK, NoPlan
<1>2. next' # next
  BY <1>1
<1>3. ASSUME NEW p \in Procs, Leaves(p) PROVE FALSE
  BY <1>1, <1>3 DEF Leaves
<1>4. ASSUME NEW p \in Procs, Decide(p) PROVE Decide(r)
  <2>1. next' = [next EXCEPT ![p] = next'[p]]
    BY <1>4, Decided
  <2>2. QED
    BY <1>1, <1>4, <2>1
<1>5. CASE PowerCut
  BY <1>1, <1>5 DEF PowerCut
<1>6. ASSUME NEW p \in Procs, Requests(p) PROVE FALSE
  BY <1>2, <1>6 DEF Requests, UnlockBegins, LockBegins, EnrollBegins, AskBegins, YesBegins
<1>7. ASSUME NEW p \in Procs, Rewrites(p) PROVE Decide(r)
  BY <1>2, <1>3, <1>4, <1>7 DEF Rewrites, Take, TimesOut, Rename, WriteFails, Answer, AnswerUnwritten
<1>8. QED
  BY <1>2, <1>3, <1>4, <1>5, <1>6, <1>7 DEF Next, vars, Kill, Tick

(* A code opens one window: told once, it is never accepted again (gate.py). *)
THEOREM CodesOpenOnce == Spec => OpensOnce
<1> DEFINE Step == \A p \in Procs :
      next'[p].out = "opened" /\ next[p].out # "opened" => req[p].code \notin opened
<1>1. IInv /\ [Next]_vars => [Step]_vars
  <2>1. ASSUME IInv, [Next]_vars, NEW p \in Procs,
               next'[p].out = "opened", next[p].out # "opened"
        PROVE  req[p].code \notin opened
    <3>1. Decide(p)
      BY <2>1, PlansAreDecided
    <3>2. QED
      BY <2>1, <3>1, OpenedFrom
  <2>2. QED
    BY <2>1
<1>2. QED
  BY <1>1, IInvHolds, PTL DEF Spec, OpensOnce

(* A yes answers one question (answer_pending). *)
THEOREM YesAnswersOnce == Spec => YesOnce
<1> DEFINE Step == \A p \in Procs :
      next'[p].out = "yes" /\ next[p].out # "yes" => file.asked \notin answered
<1>1. IInv /\ [Next]_vars => [Step]_vars
  BY DEF IInv, Questions
<1>2. QED
  BY <1>1, IInvHolds, PTL DEF Spec, YesOnce

=============================================================================
