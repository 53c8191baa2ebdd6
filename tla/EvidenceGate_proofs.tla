------------------------ MODULE EvidenceGate_proofs ------------------------
(***************************************************************************)
(* The evidence gate for any tasks, briefs, requirements and clients.      *)
(*                                                                         *)
(* Neither property is inductive: both speak of a step, and what makes the *)
(* step right is what the command read in an earlier one.  GateInv says    *)
(* what a command in flight knows as long as the revision it read stands.  *)
(***************************************************************************)
EXTENDS EvidenceGate, TLAPS

(* What the gate's commands and the board write of a row is a row.         *)
LEMMA RowTypes ==
  ASSUME NEW row \in Rows, NEW status \in Statuses
  PROVE  /\ Unheld(status) \in Rows
         /\ WithStatus(row, status) \in Rows
         /\ SentBack(row) \in Rows
         /\ Blocked(row) \in Rows
  BY DEF Rows, Statuses, Unheld, WithStatus, Closed, SentBack, Blocked

LEMMA ClaimType ==
  ASSUME NEW row \in Rows, NEW h \in Holders
  PROVE  Claimed(row, h) \in Rows
  BY LeaseAssumption DEF Rows, Statuses, Claimed

\* A brief that does not exist is empty.
AbsentIsEmpty == \A b \in Briefs : brief[b].rev = 0 => brief[b] = NoDoc

\* A brief read for a completion is proven for as long as it keeps its revision.
ReadsAreProven ==
  \A c \in Clients : op[c].kind = "complete" =>
    \A b \in Briefs :
      /\ op[c].read[b] <= brief[b].rev
      /\ op[c].read[b] = brief[b].rev =>
           \A r \in Linked(brief[b], op[c].of) : Passing(brief[b], r, op[c].of)

\* A draft is the next revision of what it read, and keeps everything of it.
DraftsKeep ==
  \A c \in Clients : op[c].kind = "save" =>
    /\ op[c].doc.rev = op[c].expected + 1
    /\ op[c].expected > 0
    /\ op[c].expected <= brief[op[c].on].rev
    /\ Unchanged(op[c]) => Keeps(op[c].doc, brief[op[c].on])

GateInv == TypeOK /\ AbsentIsEmpty /\ ReadsAreProven /\ DraftsKeep
-----------------------------------------------------------------------------
LEMMA InitInv == Init => GateInv
<1> SUFFICES ASSUME Init PROVE GateInv
  OBVIOUS
<1>1. NewRow \in Rows
  BY DEF NewRow, Rows, Statuses
<1>2. NoDoc \in Docs
  BY DEF NoDoc, Docs
<1>3. TypeOK
  BY <1>1, <1>2 DEF Init, TypeOK
<1>4. AbsentIsEmpty /\ ReadsAreProven /\ DraftsKeep
  BY DEF Init, AbsentIsEmpty, ReadsAreProven, DraftsKeep, Idle
<1> QED
  BY <1>3, <1>4 DEF GateInv

LEMMA KeepsSelf == ASSUME NEW doc \in Docs PROVE Keeps(doc, doc)
  BY DEF Keeps, Docs

LEMMA Bumped == ASSUME NEW doc \in Docs PROVE [doc EXCEPT !.rev = @ + 1] \in Docs
  BY DEF Docs

(* Whatever a command drafts from the document it read, in the one form    *)
(* every command uses, makes an operation the invariant allows.            *)
LEMMA BeginInv ==
  ASSUME GateInv, NEW c \in Clients, NEW b \in Briefs, NEW doc \in Docs,
         NEW reopen \in SUBSET Tasks, NEW block \in SUBSET Tasks,
         doc.rev = brief[b].rev, Keeps(doc, brief[b]), Begin(c, b, doc, reopen, block)
  PROVE  GateInv'
<1> DEFINE o == [kind |-> "save", on |-> b, expected |-> brief[b].rev,
                 doc |-> [doc EXCEPT !.rev = @ + 1], reopen |-> reopen, block |-> block]
<1>1. brief \in [Briefs -> Docs] /\ op \in [Clients -> {Idle} \cup Saves \cup Completions]
  BY DEF GateInv, TypeOK
<1>2. [doc EXCEPT !.rev = @ + 1] \in Docs /\ brief[b].rev \in Nat
  <2>1. brief[b] \in Docs
    BY <1>1
  <2>2. doc.rev \in Nat /\ brief[b].rev \in Nat
    BY <2>1 DEF Docs
  <2> QED
    BY <2>2, Bumped
<1>3. o \in Saves
  BY <1>2 DEF Saves
<1>4. op' = [op EXCEPT ![c] = o] /\ UNCHANGED <<task, brief, source>>
  BY DEF Begin
<1>5. TypeOK'
  BY <1>1, <1>3, <1>4 DEF GateInv, TypeOK
<1>6. AbsentIsEmpty'
  BY <1>4 DEF GateInv, AbsentIsEmpty
<1>7. ReadsAreProven'
  <2> SUFFICES ASSUME NEW d \in Clients, op'[d].kind = "complete", NEW a \in Briefs
               PROVE  /\ op'[d].read[a] <= brief[a].rev
                      /\ op'[d].read[a] = brief[a].rev =>
                           \A r \in Linked(brief[a], op'[d].of) : Passing(brief[a], r, op'[d].of)
    BY <1>4 DEF ReadsAreProven, Linked, Passing, Latest, Lane
  <2>1. d # c /\ op'[d] = op[d]
    BY <1>1, <1>4
  <2> QED
    BY <2>1 DEF GateInv, ReadsAreProven
<1>8. DraftsKeep'
  <2> SUFFICES ASSUME NEW d \in Clients, op'[d].kind = "save"
               PROVE  /\ op'[d].doc.rev = op'[d].expected + 1
                      /\ op'[d].expected > 0
                      /\ op'[d].expected <= brief[op'[d].on].rev
                      /\ brief[op'[d].on].rev = op'[d].expected
                           => Keeps(op'[d].doc, brief[op'[d].on])
    BY <1>4 DEF DraftsKeep, Unchanged, Keeps
  <2>1. CASE d # c
    BY <1>1, <1>4, <2>1 DEF GateInv, DraftsKeep, Unchanged
  <2>2. CASE d = c
    <3>1. op'[d] = o
      BY <1>1, <1>4, <2>2
    <3>2. o.doc.rev = o.expected + 1 /\ o.expected > 0
      BY <1>2 DEF Begin, Exists, Docs
    <3>3. Keeps(o.doc, brief[b])
      <4>1. /\ o.doc.checks = doc.checks /\ o.doc.req = doc.req
            /\ o.doc.rev = doc.rev + 1
        BY DEF Docs
      <4> QED
        BY <1>2, <4>1 DEF Keeps
    <3> QED
      BY <1>2, <3>1, <3>2, <3>3
  <2> QED
    BY <2>1, <2>2
<1> QED
  BY <1>5, <1>6, <1>7, <1>8 DEF GateInv

LEMMA BeginUpdateInv ==
  ASSUME GateInv, NEW c \in Clients, NEW b \in Briefs, BeginUpdate(c, b)
  PROVE  GateInv'
<1>1. brief[b] \in Docs
  BY DEF GateInv, TypeOK
<1>2. PICK S \in SUBSET Listed(brief[b]), A \in SUBSET (Reqs \ Listed(brief[b])) :
        Begin(c, b, [brief[b] EXCEPT !.req =
                       [r \in Reqs |-> IF r \in S \cup A
                                       THEN [brief[b].req[r] EXCEPT !.rev = @ + 1]
                                       ELSE brief[b].req[r]]],
              (UNION {brief[b].req[r].tasks : r \in S}) \cap In({"review", "done"}), {})
  BY DEF BeginUpdate
<1> DEFINE req == [r \in Reqs |-> IF r \in S \cup A
                                  THEN [brief[b].req[r] EXCEPT !.rev = @ + 1]
                                  ELSE brief[b].req[r]]
           doc == [brief[b] EXCEPT !.req = req]
<1>3. \A r \in Reqs : brief[b].req[r] \in [rev : Nat, tasks : SUBSET Tasks]
  BY <1>1 DEF Docs
<1>4. \A r \in Reqs : /\ req[r] \in [rev : Nat, tasks : SUBSET Tasks]
                      /\ brief[b].req[r].rev <= req[r].rev
                      /\ brief[b].req[r].tasks = req[r].tasks
  BY <1>3
<1>5. req \in [Reqs -> [rev : Nat, tasks : SUBSET Tasks]]
  BY <1>4
<1> HIDE DEF req
<1>6. doc \in Docs /\ doc.rev = brief[b].rev /\ doc.checks = brief[b].checks /\ doc.req = req
  BY <1>1, <1>5 DEF Docs
<1>7. Keeps(doc, brief[b])
  BY <1>1, <1>4, <1>6 DEF Keeps, Docs
<1> DEFINE finished == (UNION {brief[b].req[r].tasks : r \in S}) \cap In({"review", "done"})
<1>8. finished \in SUBSET Tasks
  BY DEF In
<1>9. Begin(c, b, doc, finished, {})
  BY <1>2 DEF req
<1> HIDE DEF doc, finished
<1> QED
  BY <1>6, <1>7, <1>8, <1>9, BeginInv

LEMMA BeginLinkInv ==
  ASSUME GateInv, NEW c \in Clients, NEW b \in Briefs, NEW t \in Tasks, BeginLink(c, b, t)
  PROVE  GateInv'
<1>1. brief[b] \in Docs
  BY DEF GateInv, TypeOK
<1>2. PICK R \in SUBSET (Listed(brief[b]) \ Linked(brief[b], t)) :
        Begin(c, b, [brief[b] EXCEPT !.req =
                       [r \in Reqs |-> IF r \in R
                                       THEN [brief[b].req[r] EXCEPT !.tasks = @ \cup {t}]
                                       ELSE brief[b].req[r]]], {}, {})
  BY DEF BeginLink
<1> DEFINE req == [r \in Reqs |-> IF r \in R
                                  THEN [brief[b].req[r] EXCEPT !.tasks = @ \cup {t}]
                                  ELSE brief[b].req[r]]
           doc == [brief[b] EXCEPT !.req = req]
<1>3. \A r \in Reqs : brief[b].req[r] \in [rev : Nat, tasks : SUBSET Tasks]
  BY <1>1 DEF Docs
<1>4. \A r \in Reqs : /\ req[r] \in [rev : Nat, tasks : SUBSET Tasks]
                      /\ brief[b].req[r].rev = req[r].rev
                      /\ brief[b].req[r].tasks \subseteq req[r].tasks
  BY <1>3
<1>5. req \in [Reqs -> [rev : Nat, tasks : SUBSET Tasks]]
  BY <1>4
<1> HIDE DEF req
<1>6. doc \in Docs /\ doc.rev = brief[b].rev /\ doc.checks = brief[b].checks /\ doc.req = req
  BY <1>1, <1>5 DEF Docs
<1>7. Keeps(doc, brief[b])
  BY <1>1, <1>3, <1>4, <1>6 DEF Keeps, Docs
<1>8. Begin(c, b, doc, {}, {})
  BY <1>2 DEF req
<1> HIDE DEF doc
<1> QED
  BY <1>6, <1>7, <1>8, BeginInv

LEMMA BeginRecordInv ==
  ASSUME GateInv, NEW c \in Clients, NEW b \in Briefs, NEW r \in Reqs, NEW t \in Tasks,
         BeginRecord(c, b, r, t)
  PROVE  GateInv'
<1>1. brief[b] \in Docs /\ source \in Nat
  BY DEF GateInv, TypeOK
<1>2. PICK verdict \in {"pass", "fail"}, note \in Notes, finding \in BOOLEAN :
        LET check == [req |-> r, task |-> t, at |-> brief[b].req[r].rev, verdict |-> verdict,
                      note |-> note, src |-> source, finding |-> finding]
            doc == Recorded(brief[b], check)
        IN /\ r \in Listed(brief[b])
           /\ IF finding THEN verdict = "fail" ELSE t \in brief[b].req[r].tasks
           /\ check \notin Latest(brief[b], r, t)
           /\ Begin(c, b, doc, (Failing(check) \ Blocking(doc, check)) \cap In({"review", "done"}),
                    Blocking(doc, check))
  BY DEF BeginRecord
<1> DEFINE check == [req |-> r, task |-> t, at |-> brief[b].req[r].rev, verdict |-> verdict,
                     note |-> note, src |-> source, finding |-> finding]
           req == [brief[b].req EXCEPT ![r].tasks = @ \cup {t}]
           doc == Recorded(brief[b], check)
           block == Blocking(doc, check)
           reopen == (Failing(check) \ block) \cap In({"review", "done"})
<1>3. brief[b].req \in [Reqs -> [rev : Nat, tasks : SUBSET Tasks]] /\ brief[b].checks \in Seq(Checks)
  BY <1>1 DEF Docs
<1>4. req \in [Reqs -> [rev : Nat, tasks : SUBSET Tasks]]
      /\ \A q \in Reqs : /\ brief[b].req[q].rev <= req[q].rev
                         /\ brief[b].req[q].tasks \subseteq req[q].tasks
  BY <1>3
<1>5. check \in Checks
  BY <1>1, <1>3 DEF Checks
<1>c. check.req = r /\ check.task = t
  OBVIOUS
<1> HIDE DEF check
<1>6. Append(brief[b].checks, check) \in Seq(Checks)
      /\ \A i \in DOMAIN brief[b].checks : /\ i \in DOMAIN Append(brief[b].checks, check)
                                           /\ Append(brief[b].checks, check)[i] = brief[b].checks[i]
  BY <1>3, <1>5
<1>7. /\ doc.rev = brief[b].rev
      /\ doc.checks = Append(brief[b].checks, check)
      /\ doc.req = req
  BY <1>1, <1>c DEF Docs, Recorded
<1> HIDE DEF req
<1>8. doc \in Docs
  <2>1. doc \in [rev : Nat, req : [Reqs -> [rev : Nat, tasks : SUBSET Tasks]], checks : Seq(Checks)]
    BY <1>1, <1>4, <1>6, <1>7 DEF Docs, Recorded
  <2> QED
    BY <2>1 DEF Docs
<1>9. Keeps(doc, brief[b])
  BY <1>1, <1>4, <1>6, <1>7 DEF Keeps, Docs
<1>10. reopen \in SUBSET Tasks /\ block \in SUBSET Tasks
  BY <1>c DEF Failing, Blocking, In
<1>11. Begin(c, b, doc, reopen, block)
  BY <1>2 DEF check
<1> HIDE DEF doc, reopen, block
<1> QED
  BY <1>7, <1>8, <1>9, <1>10, <1>11, BeginInv
-----------------------------------------------------------------------------
(* A brief's new version with another revision leaves what is known of the *)
(* reads and drafts in flight true: they were made at an older one.        *)
LEMMA NewVersionInv ==
  ASSUME GateInv, NEW b \in Briefs, NEW doc \in Docs, brief' = [brief EXCEPT ![b] = doc],
         doc.rev > brief[b].rev, task' \in [Tasks -> Rows], UNCHANGED source,
         \A d \in Clients : op'[d] \in {op[d], Idle},
         op' \in [Clients -> {Idle} \cup Saves \cup Completions]
  PROVE  GateInv'
<1>1. brief \in [Briefs -> Docs] /\ op \in [Clients -> {Idle} \cup Saves \cup Completions]
  BY DEF GateInv, TypeOK
<1>2. TypeOK'
  BY <1>1 DEF GateInv, TypeOK
<1>3. \A a \in Briefs : brief[a].rev \in Nat /\ brief'[a].rev \in Nat /\ brief[a].rev <= brief'[a].rev
                        /\ (brief'[a].rev = brief[a].rev => brief'[a] = brief[a])
  BY <1>1 DEF Docs
<1>4. AbsentIsEmpty'
  BY <1>1, <1>3 DEF GateInv, AbsentIsEmpty, Docs
<1>5. ReadsAreProven'
  <2> SUFFICES ASSUME NEW d \in Clients, op'[d].kind = "complete", NEW a \in Briefs
               PROVE  /\ op'[d].read[a] <= brief'[a].rev
                      /\ op'[d].read[a] = brief'[a].rev =>
                           \A r \in Linked(brief'[a], op'[d].of) : Passing(brief'[a], r, op'[d].of)
    BY DEF ReadsAreProven, Linked, Passing, Latest, Lane
  <2>1. op'[d] = op[d]
    BY DEF Idle
  <2>2. op[d].read[a] \in Nat
    BY <1>1, <2>1 DEF Idle, Saves, Completions
  <2>3. op[d].read[a] <= brief[a].rev
    BY <2>1 DEF GateInv, ReadsAreProven
  <2>4. CASE brief'[a].rev = brief[a].rev
    BY <1>3, <2>1, <2>4 DEF GateInv, ReadsAreProven
  <2>5. CASE brief'[a].rev # brief[a].rev
    BY <1>3, <2>1, <2>2, <2>3, <2>5
  <2> QED
    BY <2>4, <2>5
<1>6. DraftsKeep'
  <2> SUFFICES ASSUME NEW d \in Clients, op'[d].kind = "save"
               PROVE  /\ op'[d].doc.rev = op'[d].expected + 1
                      /\ op'[d].expected > 0
                      /\ op'[d].expected <= brief'[op'[d].on].rev
                      /\ brief'[op'[d].on].rev = op'[d].expected
                           => Keeps(op'[d].doc, brief'[op'[d].on])
    BY DEF DraftsKeep, Unchanged, Keeps
  <2>1. op'[d] = op[d]
    BY DEF Idle
  <2>2. op[d].expected \in Nat /\ op[d].on \in Briefs
    BY <1>1, <2>1 DEF Idle, Saves, Completions
  <2>3. /\ op[d].doc.rev = op[d].expected + 1
        /\ op[d].expected > 0
        /\ op[d].expected <= brief[op[d].on].rev
        /\ brief[op[d].on].rev = op[d].expected => Keeps(op[d].doc, brief[op[d].on])
    BY <2>1 DEF GateInv, DraftsKeep, Unchanged
  <2>4. CASE brief'[op[d].on].rev = brief[op[d].on].rev
    BY <1>3, <2>1, <2>2, <2>3, <2>4
  <2>5. CASE brief'[op[d].on].rev # brief[op[d].on].rev
    BY <1>3, <2>1, <2>2, <2>3, <2>5
  <2> QED
    BY <2>4, <2>5
<1> QED
  BY <1>2, <1>4, <1>5, <1>6 DEF GateInv

(* A step that leaves the briefs alone and starts no command.              *)
LEMMA SameBriefsInv ==
  ASSUME GateInv, UNCHANGED brief, task' \in [Tasks -> Rows], source' \in Nat,
         \A d \in Clients : op'[d] \in {op[d], Idle},
         op' \in [Clients -> {Idle} \cup Saves \cup Completions]
  PROVE  GateInv'
<1>1. TypeOK' /\ AbsentIsEmpty'
  BY DEF GateInv, TypeOK, AbsentIsEmpty
<1>2. \A d \in Clients : op'[d].kind # "idle" => op'[d] = op[d]
  BY DEF Idle
<1>3. ReadsAreProven'
  BY <1>2 DEF GateInv, ReadsAreProven, Linked, Passing, Latest, Lane
<1>4. DraftsKeep'
  BY <1>2 DEF GateInv, DraftsKeep, Unchanged, Keeps
<1> QED
  BY <1>1, <1>3, <1>4 DEF GateInv

LEMMA SaveInv ==
  ASSUME GateInv, NEW c \in Clients, Save(c)
  PROVE  GateInv'
<1>1. op[c] \in Saves
  BY DEF GateInv, TypeOK, Save, Idle, Completions
<1>2. op[c].on \in Briefs /\ op[c].doc \in Docs /\ op[c].expected \in Nat
  BY <1>1 DEF Saves
<1>3. op[c].doc.rev > brief[op[c].on].rev
  BY <1>2 DEF GateInv, DraftsKeep, Save, Unchanged
<1>4. \A t \in Tasks : Transitioned(t, op[c]) \in Rows
  <2>1. \A t \in Tasks : task[t] \in Rows /\ SentBack(task[t]) \in Rows /\ Blocked(task[t]) \in Rows
    BY RowTypes DEF GateInv, TypeOK, Statuses
  <2> QED
    BY <2>1 DEF Transitioned
<1>5. task' \in [Tasks -> Rows]
  BY <1>4 DEF Save
<1>6. op' \in [Clients -> {Idle} \cup Saves \cup Completions]
      /\ \A d \in Clients : op'[d] \in {op[d], Idle}
  BY DEF GateInv, TypeOK, Save
<1> QED
  BY <1>2, <1>3, <1>5, <1>6, NewVersionInv DEF Save

LEMMA CreateInv ==
  ASSUME GateInv, NEW b \in Briefs, Create(b)
  PROVE  GateInv'
<1>1. PICK R \in SUBSET Reqs \ {{}} :
        brief' = [brief EXCEPT ![b] = [rev |-> 1, checks |-> <<>>, req |->
                    [r \in Reqs |-> [rev |-> IF r \in R THEN 1 ELSE 0, tasks |-> {}]]]]
  BY DEF Create
<1> DEFINE doc == [rev |-> 1, checks |-> <<>>, req |->
                    [r \in Reqs |-> [rev |-> IF r \in R THEN 1 ELSE 0, tasks |-> {}]]]
<1>2. doc \in Docs /\ doc.rev = 1
  BY DEF Docs
<1>3. brief[b].rev = 0
  BY DEF Create, Exists, GateInv, TypeOK, Docs
<1>4. UNCHANGED <<task, source, op>>
  BY DEF Create
<1>5. task' \in [Tasks -> Rows] /\ op' \in [Clients -> {Idle} \cup Saves \cup Completions]
  BY <1>4 DEF GateInv, TypeOK
<1> HIDE DEF doc
<1>6. doc.rev > brief[b].rev
  BY <1>2, <1>3
<1>7. brief' = [brief EXCEPT ![b] = doc]
  BY <1>1 DEF doc
<1> QED
  BY <1>2, <1>4, <1>5, <1>6, <1>7, NewVersionInv

(* The reading half of a brief command writes nothing.                     *)
LEMMA BeginsOnlyRead ==
  ASSUME NEW c \in Clients, NEW b \in Briefs,
         \/ BeginUpdate(c, b)
         \/ \E t \in Tasks : BeginLink(c, b, t) \/ \E r \in Reqs : BeginRecord(c, b, r, t)
  PROVE  UNCHANGED <<task, brief, source>>
<1>1. CASE BeginUpdate(c, b)
  BY <1>1 DEF BeginUpdate, Begin
<1>2. ASSUME NEW t \in Tasks, BeginLink(c, b, t) PROVE UNCHANGED <<task, brief, source>>
  BY <1>2 DEF BeginLink, Begin
<1>3. ASSUME NEW t \in Tasks, NEW r \in Reqs, BeginRecord(c, b, r, t)
      PROVE  UNCHANGED <<task, brief, source>>
  BY <1>3 DEF BeginRecord, Begin
<1> QED
  BY <1>1, <1>2, <1>3

(* The gate's reading: what it found proven is proven at what it read.     *)
LEMMA GateStepInv ==
  ASSUME GateInv, NEW c \in Clients, NEW t \in Tasks, Gate(c, t)
  PROVE  GateInv'
<1> DEFINE o == [kind |-> "complete", of |-> t, read |-> Snapshot(t)]
<1>1. brief \in [Briefs -> Docs] /\ op \in [Clients -> {Idle} \cup Saves \cup Completions]
  BY DEF GateInv, TypeOK
<1>2. \A b \in Briefs : /\ brief[b].rev \in Nat
                        /\ Snapshot(t)[b] \in Nat /\ Snapshot(t)[b] <= brief[b].rev
  BY <1>1 DEF Snapshot, Docs
<1>3. o \in Completions
  BY <1>2 DEF Completions, Snapshot
<1>4. op' = [op EXCEPT ![c] = o] /\ UNCHANGED <<task, brief, source>>
  BY DEF Gate
<1>5. TypeOK' /\ AbsentIsEmpty'
  BY <1>1, <1>3, <1>4 DEF GateInv, TypeOK, AbsentIsEmpty
<1>6. ReadsAreProven'
  <2> SUFFICES ASSUME NEW d \in Clients, op'[d].kind = "complete", NEW a \in Briefs
               PROVE  /\ op'[d].read[a] <= brief[a].rev
                      /\ op'[d].read[a] = brief[a].rev =>
                           \A r \in Linked(brief[a], op'[d].of) : Passing(brief[a], r, op'[d].of)
    BY <1>4 DEF ReadsAreProven, Linked, Passing, Latest, Lane
  <2>1. CASE d # c
    BY <1>1, <1>4, <2>1 DEF GateInv, ReadsAreProven
  <2>2. CASE d = c
    <3>1. op'[d] = o
      BY <1>1, <1>4, <2>2
    <3>2. \A r \in Linked(brief[a], t) : Passing(brief[a], r, t)
      BY DEF Gate, Fresh
    <3> QED
      BY <1>2, <3>1, <3>2
  <2> QED
    BY <2>1, <2>2
<1>7. DraftsKeep'
  <2>1. \A d \in Clients : op'[d].kind = "save" => op'[d] = op[d]
    BY <1>1, <1>4
  <2> QED
    BY <1>4, <2>1 DEF GateInv, DraftsKeep, Unchanged, Keeps
<1> QED
  BY <1>5, <1>6, <1>7 DEF GateInv

LEMMA BoardRows ==
  ASSUME NEW old \in Rows, NEW row \in BoardMoves(old)
  PROVE  row \in Rows /\ row.status # "done"
<1>1. CASE \E h \in Holders : row = Claimed(old, h)
  BY <1>1, ClaimType DEF Claimed
<1>2. CASE \E st \in {"review", "blocked", "dropped"} : row = WithStatus(old, st)
  BY <1>2, RowTypes DEF WithStatus, Unheld, Closed, Statuses, Rows
<1>3. CASE row = Unheld("todo")
  BY <1>3, RowTypes DEF Unheld, Statuses
<1> QED
  BY <1>1, <1>2, <1>3 DEF BoardMoves

LEMMA InvStep == GateInv /\ [Next]_vars => GateInv'
<1> SUFFICES ASSUME GateInv, [Next]_vars
             PROVE  GateInv'
  OBVIOUS
<1>1. /\ task \in [Tasks -> Rows] /\ source \in Nat
      /\ op \in [Clients -> {Idle} \cup Saves \cup Completions]
  BY DEF GateInv, TypeOK
<1>2. ASSUME NEW c \in Clients, Complete(c) PROVE GateInv'
  <2>1. op[c].of \in Tasks
    BY <1>1, <1>2 DEF Complete, Idle, Saves, Completions
  <2>2. WithStatus(task[op[c].of], "done") \in Rows
    BY <1>1, <2>1, RowTypes DEF Statuses
  <2>3. /\ task' \in [Tasks -> Rows] /\ UNCHANGED <<brief, source>>
        /\ op' \in [Clients -> {Idle} \cup Saves \cup Completions]
        /\ \A d \in Clients : op'[d] \in {op[d], Idle}
    BY <1>1, <1>2, <2>1, <2>2 DEF Complete
  <2> QED
    BY <1>1, <2>3, SameBriefsInv
<1>3. ASSUME NEW c \in Clients, GiveUp(c) PROVE GateInv'
  <2>1. /\ UNCHANGED <<task, brief, source>>
        /\ op' \in [Clients -> {Idle} \cup Saves \cup Completions]
        /\ \A d \in Clients : op'[d] \in {op[d], Idle}
    BY <1>1, <1>3 DEF GiveUp
  <2> QED
    BY <1>1, <2>1, SameBriefsInv
<1>4. ASSUME NEW t \in Tasks, BoardCommand(t) PROVE GateInv'
  <2>1. task' \in [Tasks -> Rows]
    BY <1>1, <1>4, BoardRows DEF BoardCommand
  <2> QED
    BY <1>1, <1>4, <2>1, SameBriefsInv DEF BoardCommand
<1>5. CASE EditSource
  BY <1>1, <1>5, SameBriefsInv DEF EditSource
<1>6. CASE UNCHANGED vars
  BY <1>1, <1>6, SameBriefsInv DEF vars
<1>7. ASSUME NEW c \in Clients, Command(c) PROVE GateInv'
  BY <1>2, <1>3, <1>7, BeginUpdateInv, BeginLinkInv, BeginRecordInv, SaveInv, GateStepInv
     DEF Command
<1> QED
  BY <1>4, <1>5, <1>6, <1>7, CreateInv DEF Next

LEMMA Invariance == Spec => []GateInv
  BY InitInv, InvStep, PTL DEF Spec

(* Every variable keeps its type.                                          *)
THEOREM TypeCorrect == Spec => []TypeOK
<1>1. GateInv => TypeOK
  BY DEF GateInv
<1> QED
  BY <1>1, Invariance, PTL
-----------------------------------------------------------------------------
LEMMA CompletionStep ==
  GateInv /\ [Next]_vars =>
    \A t \in Tasks : task[t].status # "done" /\ task'[t].status = "done" =>
      \A b \in Briefs : \A r \in Linked(brief[b], t) : Passing(brief[b], r, t)
<1> SUFFICES ASSUME GateInv, [Next]_vars, NEW t \in Tasks,
                    task[t].status # "done", task'[t].status = "done"
             PROVE  \A b \in Briefs : \A r \in Linked(brief[b], t) : Passing(brief[b], r, t)
  OBVIOUS
<1>1. task \in [Tasks -> Rows]
  BY DEF GateInv, TypeOK
<1>2. ASSUME NEW c \in Clients, Complete(c)
      PROVE  \A b \in Briefs : \A r \in Linked(brief[b], t) : Passing(brief[b], r, t)
  <2>1. op[c].of = t
    BY <1>1, <1>2 DEF Complete
  <2>2. \A b \in Briefs : op[c].read[b] = brief[b].rev =>
          \A r \in Linked(brief[b], t) : Passing(brief[b], r, t)
    BY <1>2, <2>1 DEF Complete, GateInv, ReadsAreProven
  <2> QED
    BY <1>2, <2>1, <2>2 DEF Complete, StillAsRead
<1>3. ASSUME NEW c \in Clients, Save(c) PROVE FALSE
  <2>1. task'[t] \in {task[t], SentBack(task[t]), Blocked(task[t])}
    BY <1>3 DEF Save, Transitioned
  <2> QED
    BY <1>1, <2>1 DEF SentBack, Unheld, Blocked, Rows
<1>4. ASSUME NEW u \in Tasks, BoardCommand(u) PROVE FALSE
  BY <1>1, <1>4, BoardRows DEF BoardCommand
<1>5. ASSUME UNCHANGED task PROVE FALSE
  BY <1>5
<1>6. ASSUME NEW c \in Clients, Command(c)
      PROVE  \A b \in Briefs : \A r \in Linked(brief[b], t) : Passing(brief[b], r, t)
  <2>1. CASE Save(c) \/ Complete(c)
    BY <1>2, <1>3, <2>1
  <2>2. CASE GiveUp(c) \/ \E u \in Tasks : Gate(c, u)
    BY <1>5, <2>2 DEF GiveUp, Gate
  <2>3. CASE \E b \in Briefs : \/ BeginUpdate(c, b)
                               \/ \E u \in Tasks : \/ BeginLink(c, b, u)
                                                   \/ \E r \in Reqs : BeginRecord(c, b, r, u)
    BY <1>5, <2>3, BeginsOnlyRead
  <2> QED
    BY <1>6, <2>1, <2>2, <2>3 DEF Command
<1> QED
  BY <1>4, <1>5, <1>6 DEF Next, Create, EditSource, vars

(* No task is ever completed whose linked requirements are not, at that    *)
(* moment and revision, passed by its own latest check.                    *)
THEOREM CompletionsAreProven == Spec => DoneIsProven
  BY CompletionStep, Invariance, PTL DEF Spec, DoneIsProven

LEMMA WriteStep == GateInv /\ [Next]_vars => \A b \in Briefs : Keeps(brief'[b], brief[b])
<1> SUFFICES ASSUME GateInv, [Next]_vars, NEW b \in Briefs
             PROVE  Keeps(brief'[b], brief[b])
  OBVIOUS
<1>1. brief \in [Briefs -> Docs]
  BY DEF GateInv, TypeOK
<1>2. ASSUME UNCHANGED brief PROVE Keeps(brief'[b], brief[b])
  BY <1>1, <1>2, KeepsSelf
<1>3. ASSUME NEW c \in Clients, Save(c) PROVE Keeps(brief'[b], brief[b])
  <2>1. Keeps(op[c].doc, brief[op[c].on])
    BY <1>3 DEF Save, GateInv, DraftsKeep
  <2>2. brief'[b] = IF b = op[c].on THEN op[c].doc ELSE brief[b]
    BY <1>1, <1>3 DEF Save
  <2> QED
    BY <1>1, <2>1, <2>2, KeepsSelf
<1>4. ASSUME NEW a \in Briefs, Create(a) PROVE Keeps(brief'[b], brief[b])
  <2>1. CASE a # b
    BY <1>1, <1>4, <2>1, KeepsSelf DEF Create
  <2>2. CASE a = b
    <3>1. brief[b] = NoDoc
      BY <1>1, <1>4, <2>2 DEF Create, Exists, Docs, GateInv, AbsentIsEmpty
    <3>2. brief'[b] \in Docs
      BY <1>4, CreateInv DEF GateInv, TypeOK
    <3> QED
      BY <3>1, <3>2 DEF Keeps, NoDoc, Docs
  <2> QED
    BY <2>1, <2>2
<1>5. ASSUME NEW c \in Clients, Command(c) PROVE Keeps(brief'[b], brief[b])
  BY <1>2, <1>3, <1>5, BeginsOnlyRead DEF Command, Gate, Complete, GiveUp
<1> QED
  BY <1>2, <1>4, <1>5 DEF Next, BoardCommand, EditSource, vars

(* Whatever commands race on a brief, nothing it ever held is lost.        *)
THEOREM BriefsKeepEverything == Spec => NothingOverwritten
  BY WriteStep, Invariance, PTL DEF Spec, NothingOverwritten
-----------------------------------------------------------------------------
LEMMA SpareStep ==
  GateInv /\ [Next]_vars /\ brief' # brief =>
    \A t \in Tasks :
       /\ task[t].status \notin {"review", "done"} => task'[t].holder = task[t].holder
       /\ task[t].status = "dropped" => task'[t] = task[t]
<1> SUFFICES ASSUME GateInv, [Next]_vars, brief' # brief, NEW t \in Tasks
             PROVE  /\ task[t].status \notin {"review", "done"} => task'[t].holder = task[t].holder
                    /\ task[t].status = "dropped" => task'[t] = task[t]
  OBVIOUS
<1>1. task[t] \in Rows
  BY DEF GateInv, TypeOK
<1>2. ASSUME NEW c \in Clients, Save(c)
      PROVE  /\ task[t].status \notin {"review", "done"} => task'[t].holder = task[t].holder
             /\ task[t].status = "dropped" => task'[t] = task[t]
  <2>1. task'[t] \in {task[t], SentBack(task[t]), Blocked(task[t])}
    BY <1>2 DEF Save, Transitioned
  <2> QED
    BY <1>1, <2>1 DEF SentBack, Blocked, Rows
<1>3. ASSUME NEW b \in Briefs, Create(b) PROVE UNCHANGED task
  BY <1>3 DEF Create
<1>4. ASSUME NEW c \in Clients, Command(c), ~Save(c) PROVE FALSE
  BY <1>4, BeginsOnlyRead DEF Command, Gate, Complete, GiveUp
<1> QED
  BY <1>2, <1>3, <1>4 DEF Next, BoardCommand, EditSource, vars

(* Whatever a command read of the tasks, its write takes no work from its  *)
(* holder and revives nothing that was dropped.                            *)
THEOREM WritesSpareWorkers == Spec => BriefWritesSpareWorkers
  BY SpareStep, Invariance, PTL DEF Spec, BriefWritesSpareWorkers
=============================================================================
