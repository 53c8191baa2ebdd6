---------------------------- MODULE EvidenceGate ----------------------------
(***************************************************************************)
(* Work briefs and the evidence gate of `task done` (services/briefs.py    *)
(* over core/store.py).  Every brief command reads the document and the    *)
(* tasks it may send back, and saves in a later transaction that compares  *)
(* the brief's revision; `task done` reads every brief that links the task *)
(* and completes in a later one that compares those revisions.  A command  *)
(* is therefore two actions of its process, with anything in between.  Its *)
(* reads are several SELECTs, but whatever the save installs was read from *)
(* a document that did not change since, so they are one action here.      *)
(***************************************************************************)
EXTENDS TaskRow, Sequences, FiniteSets

CONSTANTS Tasks, Briefs, Reqs,
          Clients,      \* processes running a command or the MCP server
          Notes,        \* what tells two checks apart: summary, artifact, report
          ToBlock,      \* FAILURES_TO_BLOCK
          MaxRev,       \* BOUND: revisions of one brief
          MaxSource     \* BOUND: changes to the checkout

ASSUME ToBlockAssumption == ToBlock \in Nat \ {0}
ASSUME BoundsAssumption == MaxRev \in Nat /\ MaxSource \in Nat

VARIABLES task,      \* [Tasks -> Rows]
          brief,     \* [Briefs -> Docs]
          source,    \* which version of the files the checkout holds
          op         \* [Clients -> the command in flight, between its transactions]

vars == <<task, brief, source, op>>

Checks == [req : Reqs, task : Tasks, at : Nat, verdict : {"pass", "fail"},
           note : Notes, src : Nat, finding : BOOLEAN]

\* A requirement at revision 0, like a brief at revision 0, does not exist yet.
Docs == [rev : Nat, req : [Reqs -> [rev : Nat, tasks : SUBSET Tasks]], checks : Seq(Checks)]
NoDoc == [rev |-> 0, req |-> [r \in Reqs |-> [rev |-> 0, tasks |-> {}]], checks |-> <<>>]

Idle == [kind |-> "idle"]
Saves == [kind : {"save"}, on : Briefs, expected : Nat, doc : Docs,
          reopen : SUBSET Tasks, block : SUBSET Tasks]
Completions == [kind : {"complete"}, of : Tasks, read : [Briefs -> Nat]]

TypeOK == /\ task \in [Tasks -> Rows]
          /\ brief \in [Briefs -> Docs]
          /\ source \in Nat
          /\ op \in [Clients -> {Idle} \cup Saves \cup Completions]

Init == /\ task = [t \in Tasks |-> NewRow]
        /\ brief = [b \in Briefs |-> NoDoc]
        /\ source = 0
        /\ op = [c \in Clients |-> Idle]

Exists(b) == brief[b].rev > 0
Listed(doc) == {r \in Reqs : doc.req[r].rev > 0}
Linked(doc, t) == {r \in Reqs : t \in doc.req[r].tasks}

\* The task's own checks of a requirement, and the one that counts: its latest.
Lane(doc, r, t) == {i \in DOMAIN doc.checks : doc.checks[i].req = r /\ doc.checks[i].task = t}
Latest(doc, r, t) == {doc.checks[i] : i \in {i \in Lane(doc, r, t) : \A j \in Lane(doc, r, t) : j <= i}}

\* status_of: a pass, of the requirement as it now reads.
Passing(doc, r, t) == \E e \in Latest(doc, r, t) : e.verdict = "pass" /\ e.at = doc.req[r].rev
\* ... and of the source as it now is, by a task that is neither dropped nor blocked.
Fresh(doc, r, t) == /\ Passing(doc, r, t)
                    /\ \A e \in Latest(doc, r, t) : e.src = source
                    /\ task[t].status \notin {"dropped", "blocked"}
-----------------------------------------------------------------------------
(* The reading half of each brief command.                                 *)

Begin(c, b, doc, reopen, block) ==
  /\ op[c] = Idle /\ Exists(b)
  /\ brief[b].rev < MaxRev
  /\ op' = [op EXCEPT ![c] = [kind |-> "save", on |-> b, expected |-> brief[b].rev,
                              doc |-> [doc EXCEPT !.rev = @ + 1],
                              reopen |-> reopen, block |-> block]]
  /\ UNCHANGED <<task, brief, source>>

In(statuses) == {t \in Tasks : task[t].status \in statuses}

\* update: correct the requirements S (all of them, when what the brief assumes
\* changed), add the requirements A, and send back the finished tasks of S.
BeginUpdate(c, b) ==
  \E S \in SUBSET Listed(brief[b]), A \in SUBSET (Reqs \ Listed(brief[b])) :
    LET now == brief[b].req
        touched == UNION {now[r].tasks : r \in S}
    IN Begin(c, b, [brief[b] EXCEPT !.req =
                      [r \in Reqs |-> IF r \in S \cup A THEN [now[r] EXCEPT !.rev = @ + 1]
                                      ELSE now[r]]],
             touched \cap In({"review", "done"}), {})

\* link: what is linked already stays linked; the task is not moved.
BeginLink(c, b, t) ==
  \E R \in SUBSET (Listed(brief[b]) \ Linked(brief[b], t)) :
    /\ R # {}
    /\ Begin(c, b, [brief[b] EXCEPT !.req =
                      [r \in Reqs |-> IF r \in R THEN [brief[b].req[r] EXCEPT !.tasks = @ \cup {t}]
                                      ELSE brief[b].req[r]]], {}, {})

Failures(doc, r, t) == {doc.checks[i].note : i \in {i \in Lane(doc, r, t) :
                          doc.checks[i].verdict = "fail" /\ doc.checks[i].at = doc.req[r].rev}}

Recorded(doc, check) == [doc EXCEPT !.checks = Append(@, check),
                                    !.req[check.req].tasks = @ \cup {check.task}]

\* What a check does to its task: a failure too many blocks it, any other sends it back.
Failing(check) == IF check.verdict = "fail" THEN {check.task} \ In({"dropped"}) ELSE {}
Blocking(doc, check) ==
  IF Cardinality(Failures(doc, check.req, check.task)) >= ToBlock
    THEN Failing(check) \ In({"blocked"}) ELSE {}

\* _record, of evidence or of a finding, which alone may link its task: a repeat of the
\* lane's latest check writes nothing.
BeginRecord(c, b, r, t) ==
  \E verdict \in {"pass", "fail"}, note \in Notes, finding \in BOOLEAN :
    LET check == [req |-> r, task |-> t, at |-> brief[b].req[r].rev, verdict |-> verdict,
                  note |-> note, src |-> source, finding |-> finding]
        doc == Recorded(brief[b], check)
    IN /\ r \in Listed(brief[b])
       /\ IF finding THEN verdict = "fail" ELSE t \in brief[b].req[r].tasks
       /\ check \notin Latest(brief[b], r, t)
       /\ Begin(c, b, doc, (Failing(check) \ Blocking(doc, check)) \cap In({"review", "done"}),
                Blocking(doc, check))
-----------------------------------------------------------------------------
\* save_brief: one transaction; each transition has its own guard in its UPDATE.
Transitioned(t, o) == CASE t \in o.reopen -> SentBack(task[t])
                        [] t \in o.block  -> Blocked(task[t])
                        [] OTHER          -> task[t]

\* Mutant: the save does not compare the revision it read.
UnchangedUnasked(o) == brief[o.on].rev >= o.expected

Unchanged(o) == brief[o.on].rev = o.expected

Save(c) ==
  /\ op[c].kind = "save" /\ Unchanged(op[c])
  /\ brief' = [brief EXCEPT ![op[c].on] = op[c].doc]
  /\ task' = [t \in Tasks |-> Transitioned(t, op[c])]
  /\ op' = [op EXCEPT ![c] = Idle]
  /\ UNCHANGED source

\* gate: every requirement the task is linked to, and the revisions it was read at.
Snapshot(t) == [b \in Briefs |-> IF Linked(brief[b], t) = {} THEN 0 ELSE brief[b].rev]

Gate(c, t) ==
  /\ op[c] = Idle
  /\ \A b \in Briefs : \A r \in Linked(brief[b], t) : Fresh(brief[b], r, t)
  /\ op' = [op EXCEPT ![c] = [kind |-> "complete", of |-> t, read |-> Snapshot(t)]]
  /\ UNCHANGED <<task, brief, source>>

\* Mutant: only the briefs the gate read are compared, not one that links the task since.
ReadOnesStand(o) == \A b \in Briefs : o.read[b] # 0 => o.read[b] = brief[b].rev

\* complete_task_if_unchanged: every brief that links the task is as the gate read it.
StillAsRead(o) == \A b \in Briefs : Linked(brief[b], o.of) # {} => o.read[b] = brief[b].rev

Complete(c) ==
  /\ op[c].kind = "complete" /\ StillAsRead(op[c])
  /\ task' = [task EXCEPT ![op[c].of] = WithStatus(@, "done")]
  /\ op' = [op EXCEPT ![c] = Idle]
  /\ UNCHANGED <<brief, source>>

\* BriefChangedError, a gate that refuses after all, or a process that died.
GiveUp(c) == /\ op[c] # Idle
             /\ op' = [op EXCEPT ![c] = Idle]
             /\ UNCHANGED <<task, brief, source>>
-----------------------------------------------------------------------------
(* What moves meanwhile.                                                   *)

Create(b) == /\ ~Exists(b)
             /\ \E R \in SUBSET Reqs \ {{}} :
                  brief' = [brief EXCEPT ![b] = [rev |-> 1, checks |-> <<>>, req |->
                    [r \in Reqs |-> [rev |-> IF r \in R THEN 1 ELSE 0, tasks |-> {}]]]]
             /\ UNCHANGED <<task, source, op>>

\* The board commands that ask no brief: claim, review, block, drop, release, reopen.
BoardMoves(row) == {Claimed(row, h) : h \in IF Claimable(row) THEN Holders ELSE {}}
                     \cup {WithStatus(row, st) : st \in {"review", "blocked", "dropped"}}
                     \cup (IF Releasable(row) \/ Reopenable(row) THEN {Unheld("todo")} ELSE {})

BoardCommand(t) == /\ \E row \in BoardMoves(task[t]) : task' = [task EXCEPT ![t] = row]
                   /\ UNCHANGED <<brief, source, op>>

\* Somebody edits the checkout, or a kept artifact or report.
EditSource == /\ source < MaxSource
              /\ source' = source + 1
              /\ UNCHANGED <<task, brief, op>>

Command(c) == \/ \E b \in Briefs : \/ BeginUpdate(c, b)
                                   \/ \E t \in Tasks : \/ BeginLink(c, b, t)
                                                       \/ \E r \in Reqs : BeginRecord(c, b, r, t)
              \/ \E t \in Tasks : Gate(c, t)
              \/ Save(c) \/ Complete(c) \/ GiveUp(c)

Next == \/ \E c \in Clients : Command(c)
        \/ \E b \in Briefs : Create(b)
        \/ \E t \in Tasks : BoardCommand(t)
        \/ EditSource

Spec == Init /\ [][Next]_vars
-----------------------------------------------------------------------------
(* A task linked to requirements becomes done only with a pass of its own  *)
(* for each, at the requirement's revision as it is at that moment: a      *)
(* correction, link or failure landing between the gate's read and the     *)
(* write fails the completion (complete_task_if_unchanged).                *)
DoneIsProven ==
  [][\A t \in Tasks : task[t].status # "done" /\ task'[t].status = "done" =>
       \A b \in Briefs : \A r \in Linked(brief[b], t) : Passing(brief[b], r, t)]_vars

\* What a later version of a brief still holds of an earlier one.
Keeps(new, old) ==
  /\ old.rev <= new.rev
  /\ \A i \in DOMAIN old.checks : i \in DOMAIN new.checks /\ new.checks[i] = old.checks[i]
  /\ \A r \in Reqs : /\ old.req[r].rev <= new.req[r].rev
                     /\ old.req[r].tasks \subseteq new.req[r].tasks

(* Two writers of one brief never overwrite each other (save_brief): no    *)
(* check, link or requirement is ever lost, and no revision goes back.     *)
NothingOverwritten == [][\A b \in Briefs : Keeps(brief'[b], brief[b])]_vars

(* A brief's write acts on what it read of the tasks, and never takes work *)
(* from whoever took it up since: only a finished task loses its holder    *)
(* (to todo), and a dropped task stays dropped.                            *)
BriefWritesSpareWorkers ==
  [][brief' # brief => \A t \in Tasks :
       /\ task[t].status \notin {"review", "done"} => task'[t].holder = task[t].holder
       /\ task[t].status = "dropped" => task'[t] = task[t]]_vars
=============================================================================
