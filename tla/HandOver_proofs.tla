--------------------------- MODULE HandOver_proofs ---------------------------
(***************************************************************************)
(* What HandOver promises, proved for any number of movers, rows, commands *)
(* and kills.                                                              *)
(*                                                                         *)
(* Base says how rows, panes and what was read of them hang together, and  *)
(* Kept what every step does to them; from these each further conjunct of  *)
(* MarkInv (the mark is mutual exclusion) and ClaimInv (a parked claim has *)
(* somebody) follows by itself.  What rests on marks assumes ~ LateStarts: *)
(* a start hook replaces its session's state whatever it was, so one that  *)
(* runs after the session was marked takes the mark away.                  *)
(***************************************************************************)
EXTENDS HandOver, FiniteSetTheorems, TLAPS

RowRecord == [st : {"none", "live", "ended"}, by : {"none", "died", "stopped"},
              paused : BOOLEAN, sess : Sessions \cup {NoRow}, own : Sessions \cup {NoRow}]
SessionRecord == [on : BOOLEAN, mark : 0 .. MaxRows, fresh : BOOLEAN, ended : BOOLEAN]
Steps == {"idle", "recheck", "choose", "mark", "clear", "stop", "kill", "end", "unmark",
          "parked", "respawn", "take", "started", "abandon"}
MoverRecord == [
  pc : Steps, pausing : BOOLEAN, row : Rows \cup {NoRow}, sess : Sessions \cup {NoRow},
  snap : {"none", "working", "switching"}, exited : BOOLEAN, paused : BOOLEAN,
  guarded : BOOLEAN, res : {"none", "withheld", "plain", "raised"}, new : Rows \cup {NoRow}]

Recorded == 1 .. Made

(* Rows are numbered as they are recorded, and only the newest may live. *)
Numbered ==
  /\ Made \in Rows
  /\ \A r \in Rows : rows[r].st # "none" <=> r <= Made
  /\ \A r \in Rows : Live(r) => r = Made

(* A process belongs to a live row, and its session is the row's once it has joined. *)
Owned ==
  /\ \A r \in Recorded : rows[r].own \in Recorded /\ rows[r].sess \in Recorded
  /\ \A r \in Rows : Running(r) => Live(r)
  /\ \A s \in Sessions : session[s].on => s <= Made
  /\ \A r \in Rows : Live(r) /\ rows[r].sess # rows[r].own => rows[r].own = r /\ ~ session[r].on

(* What was read of rows and panes still stands where it is used. *)
OwnerReady ==
  owner.pc # "idle" =>
    owner.row \in Recorded /\ (owner.pc = "end" => pane[owner.row] = "gone")
LookReady == look # NoLook => look.row \in Recorded /\ pane[look.row] \in {"dead", "gone"}
MoverReady(m) ==
  /\ ~ At(m, "idle") => mover[m].row \in Recorded /\ mover[m].sess \in Recorded
  /\ At(m, "end") => pane[mover[m].row] = "gone"
  /\ At(m, "take") => mover[m].new \in Recorded /\ rows[mover[m].new].own = mover[m].new
Ready == OwnerReady /\ LookReady /\ \A m \in Movers : MoverReady(m)

(* What a stop came to. *)
Withheld(m) == mover[m].res = "withheld"
Outcomes ==
  \A m \in Movers :
    /\ mover[m].res # "none" => mover[m].pc \in {"unmark", "parked", "respawn", "take", "started", "abandon"}
    /\ At(m, "unmark") => mover[m].res # "none"
    /\ At(m, "parked") => Handed(m)
    /\ At(m, "abandon") => Withheld(m)
    /\ mover[m].pc \in {"recheck", "choose", "clear", "respawn", "abandon"} => ~ mover[m].pausing
    /\ Handed(m) => ~ Live(mover[m].row)
    /\ Withheld(m) => /\ rows[mover[m].row].by = "stopped"
                      /\ \A n \in Movers : Withheld(n) /\ mover[n].row = mover[m].row => n = m

(* An exit still to be announced was not. *)
Unannounced ==
  /\ \A r \in Rows : rows[r].st # "ended" => exits[r] = 0
  /\ \A m \in Movers : Withheld(m) /\ ~ mover[m].pausing
       => exits[mover[m].row] = 0 /\ ~ Paused(mover[m].row)

(* Until its stop is over a hand-over works on the session it read. *)
Reads(m) == mover[m].pc \in {"recheck", "choose", "mark", "stop", "kill", "end", "unmark"}
SameSession ==
  \A m \in Movers : Reads(m) =>
    /\ mover[m].snap # "none"
    /\ rows[mover[m].row].sess = mover[m].sess /\ rows[mover[m].row].own = mover[m].sess

(* The mark of a stop holds and is the row's only one, unless it was taken back. *)
Fresh(r) == r = Made /\ r \notin robbed
MarkHolds ==
  \A m \in Movers : Marks(m) /\ Fresh(mover[m].row) => HandedOver(mover[m].row, mover[m].sess)
OneMark ==
  \A m, n \in Movers : m # n /\ mover[m].row = mover[n].row /\ Fresh(mover[m].row)
    => ~ (Marks(m) /\ Marks(n))

Grip(m) == mover[m].pc \in {"kill", "end"} \/ Handed(m)
OneGrip ==
  \A m, n \in Movers : m # n /\ mover[m].row = mover[n].row /\ mover[m].row \notin robbed
    => ~ (Grip(m) /\ Grip(n))

AnnouncedOnce ==
  /\ \A m \in Movers : Fresh(mover[m].row) => mover[m].res # "plain"
  /\ \A r \in Rows : Fresh(r) /\ Paused(r) => exits[r] = 0
  /\ \A r \in Rows \ robbed : exits[r] <= 1

(* Rows numbered without a gap are as many as the last one's number. *)
LEMMA CountsRecorded ==
  ASSUME NEW table, NEW k \in 0 .. MaxRows,
         \A r \in Rows : table[r].st # "none" <=> r <= k
  PROVE  Cardinality({r \in Rows : table[r].st # "none"}) = k
<1>1. {r \in Rows : table[r].st # "none"} = 1 .. k
  BY HandOverAssumption DEF Rows
<1>2. Cardinality(1 .. k) = IF 1 > k THEN 0 ELSE k - 1 + 1
  BY FS_Interval
<1>3. k \in Nat
  BY HandOverAssumption
<1>4. (IF 1 > k THEN 0 ELSE k - 1 + 1) = k
  BY <1>3
<1>5. QED
  BY <1>1, <1>2, <1>4

(* No more rows are recorded than there are. *)
LEMMA MadeType ==
  ASSUME TypeOK
  PROVE  Made \in 0 .. MaxRows
<1>1. IsFiniteSet(Rows) /\ Cardinality(Rows) = MaxRows
  BY HandOverAssumption, FS_Interval DEF Rows
<1>2. /\ Cardinality({r \in Rows : rows[r].st # "none"}) <= Cardinality(Rows)
      /\ IsFiniteSet({r \in Rows : rows[r].st # "none"})
  BY <1>1, FS_Subset
<1>3. Cardinality({r \in Rows : rows[r].st # "none"}) \in Nat
  BY <1>2, FS_CardinalityType
<1>4. QED
  BY <1>1, <1>2, <1>3, HandOverAssumption DEF Made

(* What a step writes into one record of a table is of the table's type. *)
LEMMA MoverWrites ==
  ASSUME NEW a \in MoverRecord, NEW pc \in Steps
  PROVE  /\ Idle \in MoverRecord
         /\ [a EXCEPT !.pc = pc] \in MoverRecord
         /\ \A b \in BOOLEAN : [a EXCEPT !.pc = pc, !.exited = b] \in MoverRecord
         /\ \A b \in BOOLEAN : [a EXCEPT !.pc = pc, !.guarded = b] \in MoverRecord
         /\ \A res \in {"none", "withheld", "plain", "raised"} :
              /\ [a EXCEPT !.pc = pc, !.res = res] \in MoverRecord
              /\ [a EXCEPT !.pc = pc, !.res = res, !.exited = FALSE] \in MoverRecord
         /\ \A n \in Rows : [a EXCEPT !.pc = pc, !.new = n] \in MoverRecord
<1>1. "idle" \in Steps
  BY DEF Steps
<1>2. Idle \in MoverRecord
  BY <1>1 DEF MoverRecord, Idle
<1>3. [a EXCEPT !.pc = pc] \in MoverRecord
  BY DEF MoverRecord
<1>4. \A b \in BOOLEAN : [a EXCEPT !.pc = pc, !.exited = b] \in MoverRecord
  BY DEF MoverRecord
<1>5. \A b \in BOOLEAN : [a EXCEPT !.pc = pc, !.guarded = b] \in MoverRecord
  BY DEF MoverRecord
<1>6. \A res \in {"none", "withheld", "plain", "raised"} :
        /\ [a EXCEPT !.pc = pc, !.res = res] \in MoverRecord
        /\ [a EXCEPT !.pc = pc, !.res = res, !.exited = FALSE] \in MoverRecord
  BY DEF MoverRecord
<1>7. \A n \in Rows : [a EXCEPT !.pc = pc, !.new = n] \in MoverRecord
  BY DEF MoverRecord
<1>8. QED
  BY <1>2, <1>3, <1>4, <1>5, <1>6, <1>7

(* So is what a hook, a mark or an unmark writes of a session. *)
LEMMA SessionWrites ==
  ASSUME NEW s \in SessionRecord, NEW n \in 0 .. MaxRows
  PROVE  /\ Stamped(s, n) \in SessionRecord
         /\ Retired(s, n) \in SessionRecord
         /\ Stamped([s EXCEPT !.ended = FALSE], n) \in SessionRecord
         /\ [on |-> TRUE, mark |-> NoRow, fresh |-> TRUE, ended |-> FALSE] \in SessionRecord
         /\ [s EXCEPT !.mark = n, !.fresh = TRUE, !.ended = FALSE] \in SessionRecord
         /\ [s EXCEPT !.mark = NoRow, !.fresh = TRUE] \in SessionRecord
         /\ [s EXCEPT !.fresh = FALSE] \in SessionRecord
<1>1. NoRow \in 0 .. MaxRows
  BY HandOverAssumption DEF NoRow
<1>2. QED
  BY <1>1 DEF Stamped, Retired, SessionRecord

(* So is what ends a row, brings it to its end, or moves it to another session. *)
LEMMA RowWrites ==
  ASSUME NEW r \in RowRecord, NEW by \in {"none", "died", "stopped"}, NEW b \in BOOLEAN
  PROVE  /\ [r EXCEPT !.st = "ended", !.by = by, !.paused = b] \in RowRecord
         /\ [r EXCEPT !.by = by, !.paused = b] \in RowRecord
         /\ \A s \in Sessions : [r EXCEPT !.sess = s] \in RowRecord
  BY DEF RowRecord

(* Every step but the recording of a replacement leaves the rows there are, one live at
   most to end, and never the processes that run to more.                            *)
RowsType == rows' \in [Rows -> RowRecord]
RowsStep ==
  /\ RowsType
  /\ \A r \in Rows :
       /\ rows'[r].own = rows[r].own
       /\ rows'[r].st = rows[r].st \/ (Live(r) /\ rows'[r].st = "ended" /\ ~ (Running(r))')
       /\ rows'[r].sess = rows[r].sess \/ (Live(r) /\ rows'[r].sess = rows[r].own)
       /\ rows[r].by = "stopped" => Live(r) \/ rows'[r].by = "stopped"

Panes == {"none", "up", "exiting", "dead", "gone"}
PanesStep ==
  /\ pane' \in [Rows -> Panes]
  /\ \A r \in Rows :
       /\ (Running(r))' => Running(r)
       /\ pane[r] = "gone" => pane'[r] = "gone"
       /\ pane[r] = "dead" => pane'[r] \in {"dead", "gone"}

Joins(s) == \E r \in Rows : Running(r) /\ rows[r].own = s /\ rows'[r].sess = s
SessionsStep ==
  /\ session' \in [Sessions -> SessionRecord]
  /\ \A s \in Sessions : session'[s].on => session[s].on \/ Joins(s)
  /\ \A s \in Sessions : session[s].on => session'[s].on
OnSame == \A s \in Sessions : session'[s].on = session[s].on
HolderStep == holder' \in Sessions \cup {Pool}

Frame == RowsStep /\ PanesStep /\ SessionsStep /\ HolderStep

(* Marks are put and stamped, not taken. *)
Put(s) == session'[s].mark = Made /\ session'[s].fresh
MarksStep ==
  \A s \in Sessions :
    (session'[s].mark = session[s].mark /\ session'[s].fresh = session[s].fresh) \/ Put(s)

(* Only the exit of a row that ends is announced, or of a paused one brought to its end. *)
ExitsStep ==
  /\ exits' \in [Rows -> Nat]
  /\ \A r \in Rows :
       /\ rows'[r].paused => \/ Paused(r)
                             \/ /\ Live(r) /\ rows'[r].st = "ended"
                                /\ \E m \in Movers : At(m, "end") /\ mover[m].row = r
       /\ \/ exits'[r] = exits[r]
          \/ /\ Live(r) \/ (Paused(r) /\ r = Made)
             /\ rows'[r].st = "ended" /\ ~ rows'[r].paused /\ exits'[r] = exits[r] + 1

(* TypeOK, table by table. *)
LEMMA TypeParts ==
  ASSUME TypeOK
  PROVE  /\ rows \in [Rows -> RowRecord] /\ pane \in [Rows -> Panes]
         /\ session \in [Sessions -> SessionRecord] /\ mover \in [Movers -> MoverRecord]
         /\ holder \in Sessions \cup {Pool} /\ Sessions = Rows /\ exits \in [Rows -> Nat]
         /\ Made \in 0 .. MaxRows
<1>1. Made \in 0 .. MaxRows
  BY MadeType
<1>2. QED
  BY <1>1 DEF TypeOK, RowRecord, Panes, SessionRecord, MoverRecord, Steps, Sessions

(* A step that adds no row leaves the count of them alone. *)
LEMMA KeepsMade ==
  ASSUME TypeOK, RowsStep
  PROVE  Made' = Made
<1>1. {r \in Rows : rows'[r].st # "none"} = {r \in Rows : rows[r].st # "none"}
  BY DEF RowsStep, Live
<1>2. QED
  BY <1>1 DEF Made

(* No step but a spawn's insert can disturb how rows are numbered or who owns them. *)
LEMMA FrameKeeps ==
  ASSUME TypeOK, Numbered, Owned, Frame
  PROVE  Numbered' /\ Owned' /\ Made' = Made
<1>1. Made' = Made
  BY KeepsMade DEF Frame
<1>2. Numbered'
  BY <1>1 DEF Frame, RowsStep, Numbered, Live
<1>3. \A r \in Recorded' : rows'[r].own \in Recorded' /\ rows'[r].sess \in Recorded'
  <2>1. Recorded \subseteq Rows
    BY HandOverAssumption DEF Recorded, Numbered, Rows
  <2>2. QED
    BY <1>1, <2>1 DEF Frame, RowsStep, Owned, Recorded
<1>4. \A r \in Rows : (Running(r))' => (Live(r))'
  BY DEF Frame, PanesStep, RowsStep, Owned, Live
<1>5. \A s \in Sessions : Joins(s) => s <= Made
  <2>1. \A r \in Rows : Running(r) => r \in Recorded
    BY DEF Owned, Numbered, Recorded, Rows, Live
  <2>2. QED
    BY <2>1 DEF Joins, Owned, Recorded
<1>6. \A s \in Sessions : session'[s].on => s <= Made'
  BY <1>1, <1>5 DEF Frame, SessionsStep, Owned
<1>7. ASSUME NEW r \in Rows, (Live(r))', rows'[r].sess # rows'[r].own
      PROVE  rows'[r].own = r /\ ~ session'[r].on
  <2>1. /\ Live(r) /\ rows'[r].own = rows[r].own
        /\ rows'[r].sess = rows[r].sess /\ rows[r].sess # rows[r].own
    BY <1>7 DEF Frame, RowsStep, Live
  <2>2. rows[r].own = r /\ ~ session[r].on
    BY <2>1 DEF Owned
  <2>3. ~ Joins(r)
    <3>1. SUFFICES ASSUME NEW q \in Rows, Running(q), rows[q].own = r, rows'[q].sess = r
                   PROVE  FALSE
      BY DEF Joins
    <3>2. q = r
      BY <2>1, <3>1 DEF Owned, Numbered
    <3>3. QED
      BY <3>1, <3>2, <2>1, <2>2
  <2>4. QED
    BY <2>1, <2>2, <2>3 DEF Frame, SessionsStep, Sessions
<1>8. Owned'
  BY <1>3, <1>4, <1>6, <1>7 DEF Owned
<1>9. QED
  BY <1>1, <1>2, <1>8

(* A table left alone is left as every step must leave it. *)
LEMMA Still ==
  ASSUME TypeOK
  PROVE  /\ rows' = rows => RowsStep
         /\ pane' = pane => PanesStep
         /\ session' = session => SessionsStep /\ MarksStep
         /\ holder' = holder => HolderStep
         /\ rows' = rows /\ exits' = exits => ExitsStep
<1>1. /\ rows' = rows => RowsStep
      /\ rows' = rows /\ exits' = exits => ExitsStep
  BY TypeParts DEF RowsStep, RowsType, ExitsStep, Paused
<1>2. pane' = pane => PanesStep
  BY TypeParts DEF PanesStep, Running
<1>3. session' = session => SessionsStep /\ MarksStep
  BY TypeParts DEF SessionsStep, MarksStep
<1>4. QED
  BY <1>1, <1>2, <1>3, TypeParts DEF HolderStep

(* A session's presence is stamped or retired without its mark being taken. *)
LEMMA Writing ==
  ASSUME TypeOK, NEW s \in Sessions, NEW new \in SessionRecord,
         session' = [session EXCEPT ![s] = new], new.on = session[s].on,
         \/ new.mark = session[s].mark /\ new.fresh = session[s].fresh
         \/ new.mark = Made /\ new.fresh
  PROVE  SessionsStep /\ MarksStep /\ OnSame
  BY TypeParts DEF SessionsStep, MarksStep, Put, OnSame

(* touch_session replaces a mark by no mark: it only stamps it anew. *)
LEMMA StampKeeps ==
  ASSUME TypeOK, NEW old \in SessionRecord
  PROVE  /\ Stamped(old, Made) \in SessionRecord
         /\ Stamped(old, Made).on = old.on /\ Stamped(old, Made).ended = old.ended
         /\ \/ Stamped(old, Made).mark = old.mark /\ Stamped(old, Made).fresh = old.fresh
            \/ Stamped(old, Made).mark = Made /\ Stamped(old, Made).fresh
  BY SessionWrites, TypeParts DEF Stamped, SessionRecord

(* end_session of a presence keeps its mark. *)
LEMMA Retires ==
  ASSUME TypeOK, NEW s \in Sessions, session' = [session EXCEPT ![s] = Retired(@, Made)]
  PROVE  SessionsStep /\ MarksStep /\ OnSame
<1>1. session[s] \in SessionRecord
  BY TypeParts
<1>2. /\ Retired(session[s], Made) \in SessionRecord
      /\ Retired(session[s], Made).on = session[s].on
      /\ \/ /\ Retired(session[s], Made).mark = session[s].mark
            /\ Retired(session[s], Made).fresh = session[s].fresh
         \/ Retired(session[s], Made).mark = Made /\ Retired(session[s], Made).fresh
  BY <1>1, StampKeeps DEF Retired, SessionRecord
<1>3. PICK new \in SessionRecord : new = Retired(session[s], Made)
  BY <1>2
<1>4. session' = [session EXCEPT ![s] = new]
  BY <1>3
<1>5. QED
  BY <1>2, <1>3, <1>4, Writing

(* release_agent_claims: a claim of that session goes to the pool, no other moves. *)
LEMMA Releases ==
  ASSUME TypeOK, NEW s \in Sessions, Release(s)
  PROVE  /\ SessionsStep /\ MarksStep /\ OnSame /\ HolderStep
         /\ holder' = holder \/ (holder = s /\ holder' = Pool)
<1>1. session' = session \/ session' = [session EXCEPT ![s] = Retired(@, Made)]
  BY DEF Release
<1>2. SessionsStep /\ MarksStep /\ OnSame
  BY <1>1, Still, Retires DEF OnSame
<1>3. QED
  BY <1>2, TypeParts DEF Release, HolderStep

(* end_fleet_agent_if_live ends the one row that is live, with its reason. *)
LEMMA Ends ==
  ASSUME TypeOK, NEW r \in Rows, Live(r), NEW by \in {"died", "stopped"}, NEW b \in BOOLEAN,
         EndRow(r, by, b), ~ (Running(r))'
  PROVE  /\ RowsStep
         /\ rows'[r].st = "ended" /\ rows'[r].by = by /\ rows'[r].paused = b
         /\ \A q \in Rows \ {r} : rows'[q] = rows[q]
<1>1. rows \in [Rows -> RowRecord] /\ rows[r] \in RowRecord
  BY TypeParts
<1>2. rows' = [rows EXCEPT ![r] = [rows[r] EXCEPT !.st = "ended", !.by = by, !.paused = b]]
  BY DEF EndRow
<1>3. PICK new \in RowRecord : new = [rows[r] EXCEPT !.st = "ended", !.by = by, !.paused = b]
  BY <1>1, RowWrites
<1>4. /\ new.st = "ended" /\ new.by = by /\ new.paused = b
      /\ new.own = rows[r].own /\ new.sess = rows[r].sess
  BY <1>1, <1>3 DEF RowRecord
<1>5. rows' = [rows EXCEPT ![r] = new]
  BY <1>2, <1>3
<1>6. QED
  BY <1>1, <1>4, <1>5 DEF RowsStep, RowsType, Live

(* Who ends a dead row announces it, once, and releases its session alone. *)
LEMMA EndsDead ==
  ASSUME TypeOK, NEW r \in Rows, rows[r].sess \in Sessions, EndDead(r), ~ (Running(r))'
  PROVE  /\ RowsStep /\ SessionsStep /\ MarksStep /\ HolderStep /\ ExitsStep
         /\ \A q \in Rows \ {r} : rows'[q] = rows[q]
         /\ holder' = holder \/ (Live(r) /\ holder = rows[r].sess /\ holder' = Pool)
<1>1. CASE ~ Live(r)
  BY <1>1, Still DEF EndDead
<1>2. CASE Live(r)
  <2>1. EndRow(r, "died", FALSE) /\ Release(rows[r].sess) /\ Announce(r)
    BY <1>2 DEF EndDead
  <2>2. /\ RowsStep /\ rows'[r].st = "ended" /\ ~ rows'[r].paused
        /\ \A q \in Rows \ {r} : rows'[q] = rows[q]
    <3>1. rows'[r].paused = FALSE
      BY <1>2, <2>1, Ends
    <3>2. QED
      BY <1>2, <2>1, <3>1, Ends
  <2>3. ExitsStep
    BY <1>2, <2>1, <2>2, TypeParts DEF ExitsStep, Announce, Paused
  <2>4. QED
    BY <1>2, <2>1, <2>2, <2>3, Releases
<1>3. QED
  BY <1>1, <1>2

(* A row is recorded stopped, whoever ended it. *)
LEMMA StopsOver ==
  ASSUME TypeOK, NEW r \in Rows, MarkStopped(r)
  PROVE  /\ RowsStep /\ rows'[r].paused = FALSE
         /\ \A q \in Rows \ {r} : rows'[q] = rows[q]
         /\ exits' = exits => ExitsStep
<1>1. rows \in [Rows -> RowRecord] /\ rows[r] \in RowRecord
  BY TypeParts
<1>2. PICK new \in RowRecord : new = [rows[r] EXCEPT !.by = "stopped", !.paused = FALSE]
  BY <1>1, RowWrites
<1>3. /\ new.by = "stopped" /\ new.paused = FALSE /\ new.st = rows[r].st
      /\ new.own = rows[r].own /\ new.sess = rows[r].sess
  BY <1>1, <1>2 DEF RowRecord
<1>4. rows' = [rows EXCEPT ![r] = new]
  BY <1>2 DEF MarkStopped
<1>5. RowsStep
  BY <1>1, <1>3, <1>4 DEF RowsStep, RowsType
<1>6. exits' = exits => ExitsStep
  BY <1>1, <1>3, <1>4, TypeParts DEF ExitsStep, Paused
<1>7. QED
  BY <1>1, <1>3, <1>4, <1>5, <1>6

(* A live row moves on to the session of its process. *)
LEMMA Adopts ==
  ASSUME TypeOK, NEW r \in Rows, Live(r), rows[r].own \in Sessions,
         rows' = [rows EXCEPT ![r].sess = rows[r].own]
  PROVE  RowsStep /\ rows'[r].sess = rows[r].own /\ (exits' = exits => ExitsStep)
<1>1. rows \in [Rows -> RowRecord] /\ rows[r] \in RowRecord
  BY TypeParts
<1>2. PICK new \in RowRecord : new = [rows[r] EXCEPT !.sess = rows[r].own]
  BY <1>1, RowWrites
<1>3. /\ new.by = rows[r].by /\ new.paused = rows[r].paused /\ new.st = rows[r].st
      /\ new.own = rows[r].own /\ new.sess = rows[r].own
  BY <1>1, <1>2 DEF RowRecord
<1>4. rows' = [rows EXCEPT ![r] = new]
  BY <1>2
<1>5. RowsStep
  BY <1>1, <1>3, <1>4 DEF RowsStep, RowsType
<1>6. QED
  BY <1>1, <1>3, <1>4, <1>5, TypeParts DEF ExitsStep, Paused

(* What is known of every recorded row, live row and running process. *)
LEMMA RecordedRows ==
  ASSUME Numbered, Owned
  PROVE  /\ Recorded \subseteq Rows /\ Recorded \subseteq Sessions
         /\ \A r \in Recorded : rows[r].own \in Sessions /\ rows[r].sess \in Sessions
         /\ \A r \in Rows : Live(r) => r = Made /\ r \in Recorded
         /\ \A r \in Rows : Running(r) => Live(r)
<1>1. Recorded \subseteq Rows
  BY HandOverAssumption DEF Recorded, Numbered, Rows
<1>2. \A r \in Rows : Live(r) => r = Made /\ r \in Recorded
  BY HandOverAssumption DEF Numbered, Recorded, Rows
<1>3. QED
  BY <1>1, <1>2 DEF Owned, Sessions

(* What the agent's hooks and its death leave alone. *)
Aside == UNCHANGED <<mover, owner, look, robbed, commands, kills>>
AgentStep == Frame /\ ExitsStep /\ Aside

(* hook_session_start: the agent's session joins, its row adopts it. *)
LEMMA StartHookStep ==
  ASSUME TypeOK, Numbered, Owned, NEW r \in Rows, StartHook(r)
  PROVE  AgentStep
<1> DEFINE s == rows[r].own
           new == [on |-> TRUE, mark |-> NoRow, fresh |-> TRUE, ended |-> FALSE]
<1>1. /\ Live(r) /\ s \in Sessions /\ rows[r].sess \in Sessions /\ Running(r)
      /\ session' = [session EXCEPT ![s] = new] /\ UNCHANGED <<pane, exits>> /\ Aside
  BY RecordedRows DEF StartHook, Aside
<1>2. RowsStep /\ rows'[r].sess = s /\ ExitsStep
  <2>1. CASE rows[r].sess # s
    BY <1>1, <2>1, Adopts DEF StartHook
  <2>2. CASE rows[r].sess = s
    BY <1>1, <2>2, Still DEF StartHook
  <2>3. QED
    BY <2>1, <2>2
<1>3. SessionsStep
  <2>1. new \in SessionRecord
    BY HandOverAssumption DEF SessionRecord, NoRow
  <2>2. Joins(s)
    BY <1>1, <1>2 DEF Joins
  <2>3. QED
    BY <1>1, <2>1, <2>2, TypeParts DEF SessionsStep
<1>4. HolderStep
  BY <1>1, TypeParts DEF StartHook, HolderStep
<1>5. QED
  BY <1>1, <1>2, <1>3, <1>4, Still DEF Frame, AgentStep

(* A heartbeat of the agent keeps marks, presence and claims. *)
LEMMA BeatStep ==
  ASSUME TypeOK, Numbered, Owned, NEW r \in Rows, Beat(r)
  PROVE  AgentStep /\ MarksStep /\ OnSame /\ holder' = holder
<1> DEFINE s == rows[r].own
<1>1. /\ s \in Sessions /\ UNCHANGED <<rows, pane, holder, exits>> /\ Aside
      /\ session' = [session EXCEPT ![s] = Stamped([session[s] EXCEPT !.ended = FALSE], Made)]
  BY RecordedRows DEF Beat, Aside
<1>2. session[s] \in SessionRecord
  BY <1>1, TypeParts
<1>3. PICK old \in SessionRecord : old = [session[s] EXCEPT !.ended = FALSE]
  BY <1>2 DEF SessionRecord
<1>4. old.on = session[s].on /\ old.mark = session[s].mark /\ old.fresh = session[s].fresh
  BY <1>2, <1>3 DEF SessionRecord
<1>5. SessionsStep /\ MarksStep /\ OnSame
  <2>1. session' = [session EXCEPT ![s] = Stamped(old, Made)]
    BY <1>1, <1>3
  <2>2. PICK new \in SessionRecord : new = Stamped(old, Made)
    BY StampKeeps
  <2>3. session' = [session EXCEPT ![s] = new]
    BY <2>1, <2>2
  <2>4. /\ new.on = session[s].on
        /\ \/ new.mark = session[s].mark /\ new.fresh = session[s].fresh
           \/ new.mark = Made /\ new.fresh
    BY <1>4, <2>2, StampKeeps
  <2>5. QED
    BY <1>1, <2>3, <2>4, Writing
<1>6. QED
  BY <1>1, <1>5, Still DEF Frame, AgentStep

(* hook_session_end: the agent's presence is retired, its mark kept. *)
LEMMA ExitStep ==
  ASSUME TypeOK, Numbered, Owned, NEW r \in Rows, Exit(r)
  PROVE  AgentStep /\ MarksStep /\ OnSame
<1> DEFINE s == rows[r].own
<1>1. /\ s \in Sessions /\ UNCHANGED <<rows, exits>> /\ Aside
      /\ pane' = [pane EXCEPT ![r] = "dead"] /\ Running(r)
      /\ holder' = holder \/ holder' = Pool
  BY RecordedRows DEF Exit, Aside
<1>5. session' = session \/ session' = [session EXCEPT ![s] = Retired(@, Made)]
  <2>1. PICK parks \in BOOLEAN :
          session' = IF session[s].on
                     THEN [session EXCEPT ![s] =
                             IF parks \/ ~ session[s].ended THEN Retired(session[s], Made)
                             ELSE session[s]]
                     ELSE session
    BY DEF Exit
  <2>2. [session EXCEPT ![s] = session[s]] = session
    BY TypeParts
  <2>3. QED
    BY <2>1, <2>2
<1>2. PanesStep
  BY <1>1, TypeParts DEF PanesStep, Panes, Running
<1>3. SessionsStep /\ MarksStep /\ OnSame
  BY <1>1, <1>5, Still, Retires DEF OnSame
<1>4. QED
  BY <1>1, <1>2, <1>3, Still, TypeParts DEF Frame, AgentStep, HolderStep

(* A death without a hook changes the pane alone. *)
LEMMA DieStep ==
  ASSUME TypeOK, NEW r \in Rows, Die(r)
  PROVE  AgentStep /\ MarksStep /\ holder' = holder
<1>1. PanesStep
  BY TypeParts DEF Die, PanesStep, Panes, Running
<1>2. QED
  BY <1>1, Still DEF Die, Frame, AgentStep, Aside

(* A claim is taken from the pool, by a session the board knows. *)
LEMMA ClaimStep ==
  ASSUME TypeOK, Numbered, Owned, Claim
  PROVE  AgentStep /\ MarksStep /\ holder = Pool
<1>1. HolderStep
  <2>1. PICK r \in Rows : pane[r] = "up" /\ holder' = rows[r].own
    BY DEF Claim
  <2>2. QED
    BY <2>1, RecordedRows DEF Running, HolderStep
<1>2. QED
  BY <1>1, Still DEF Claim, Frame, AgentStep, Aside

(* What was read of a row or a pane outlives any step: rows do not come back. *)
LEMMA ReadyKeeps ==
  ASSUME TypeOK, Numbered, Owned, Ready, Frame
  PROVE  /\ owner' = owner => OwnerReady'
         /\ look' = look => LookReady'
         /\ \A m \in Movers : mover'[m] = mover[m] => (MoverReady(m))'
         /\ \A m \in Movers : mover'[m] = Idle => (MoverReady(m))'
<1>1. Recorded' = Recorded /\ Recorded \subseteq Rows
  BY FrameKeeps, RecordedRows DEF Recorded
<1>2. /\ \A r \in Rows : pane[r] = "gone" => pane'[r] = "gone"
      /\ \A r \in Rows : pane[r] \in {"dead", "gone"} => pane'[r] \in {"dead", "gone"}
      /\ \A r \in Rows : rows'[r].own = rows[r].own
  BY DEF Frame, PanesStep, RowsStep
<1>3. owner' = owner => OwnerReady'
  BY <1>1, <1>2 DEF Ready, OwnerReady
<1>4. look' = look => LookReady'
  BY <1>1, <1>2 DEF Ready, LookReady
<1>5. ASSUME NEW m \in Movers, mover'[m] = mover[m]
      PROVE  (MoverReady(m))'
  <2>1. MoverReady(m)
    BY DEF Ready
  <2>2. QED
    BY <1>1, <1>2, <1>5, <2>1 DEF MoverReady, At
<1>6. \A m \in Movers : mover'[m] = Idle => (MoverReady(m))'
  BY DEF MoverReady, At, Idle
<1>7. QED
  BY <1>3, <1>4, <1>5, <1>6

(* The owner's stop, a listing, the clock: no mover takes part. *)
WatchStep ==
  /\ Frame /\ ExitsStep /\ OwnerReady' /\ LookReady'
  /\ UNCHANGED <<mover, robbed, kills>>
  /\ owner' \in [pc : {"idle", "kill", "end"}, row : Rows \cup {NoRow}, exited : BOOLEAN]
  /\ look' \in [row : Rows \cup {NoRow}, kind : {"none", "dead", "gone"}]
  /\ commands' \in 0 .. MaxCommands

(* The owner's stop kills the window. *)
LEMMA OwnerKillStep ==
  ASSUME TypeOK, Numbered, Owned, Ready, OwnerKill
  PROVE  WatchStep /\ MarksStep /\ holder' = holder
<1>1. owner.row \in Recorded /\ owner.row \in Rows
  BY RecordedRows DEF OwnerKill, Ready, OwnerReady
<1>2. PanesStep
  BY <1>1, TypeParts DEF OwnerKill, PanesStep, Panes, Running
<1>3. Frame /\ ExitsStep /\ MarksStep
  BY <1>2, Still DEF OwnerKill, Frame
<1>4. Recorded' = Recorded
  BY <1>3, FrameKeeps DEF Recorded
<1>5. OwnerReady'
  <2>1. CASE pane' = [pane EXCEPT ![owner.row] = "gone"] /\ owner' = [owner EXCEPT !.pc = "end"]
    <3>1. owner'.row = owner.row /\ pane'[owner.row] = "gone"
      BY <1>1, <2>1, TypeParts DEF TypeOK
    <3>2. QED
      BY <1>1, <1>4, <3>1 DEF OwnerReady
  <2>2. CASE owner' = Resting
    BY <2>2 DEF OwnerReady, Resting
  <2>3. QED
    BY <2>1, <2>2 DEF OwnerKill
<1>6. LookReady'
  BY <1>3, ReadyKeeps DEF OwnerKill
<1>7. owner' \in [pc : {"idle", "kill", "end"}, row : Rows \cup {NoRow}, exited : BOOLEAN]
  <2> DEFINE Owners == [pc : {"idle", "kill", "end"}, row : Rows \cup {NoRow}, exited : BOOLEAN]
  <2>1. owner \in Owners
    BY DEF TypeOK
  <2>2. [owner EXCEPT !.pc = "end"] \in Owners /\ Resting \in Owners
    BY <2>1 DEF Resting
  <2>3. owner' = [owner EXCEPT !.pc = "end"] \/ owner' = Resting
    BY DEF OwnerKill
  <2>4. QED
    BY <2>2, <2>3
<1>8. QED
  BY <1>3, <1>5, <1>6, <1>7 DEF OwnerKill, WatchStep, TypeOK

(* The owner's stop ends the row, or finds it ended. *)
LEMMA OwnerEndStep ==
  ASSUME TypeOK, Numbered, Owned, Ready, OwnerEnd
  PROVE  WatchStep /\ MarksStep /\ owner' # owner
<1>0. PICK r \in Recorded : r = owner.row
  BY DEF OwnerEnd, Ready, OwnerReady
<1>1. /\ r \in Rows /\ pane[r] = "gone"
      /\ rows[r].sess \in Sessions /\ owner' = Resting
      /\ UNCHANGED <<pane, mover, look, robbed, commands, kills>>
  BY <1>0, RecordedRows DEF OwnerEnd, Ready, OwnerReady
<1>2. ~ (Running(r))'
  BY <1>1 DEF Running
<1>3. Frame /\ ExitsStep /\ MarksStep
  <2>1. CASE Live(r)
    <3>1. EndRow(r, "stopped", FALSE) /\ Release(rows[r].sess) /\ Announce(r)
      BY <1>0, <2>1 DEF OwnerEnd
    <3>2. RowsStep /\ rows'[r].st = "ended" /\ rows'[r].paused = FALSE
          /\ \A q \in Rows \ {r} : rows'[q] = rows[q]
      BY <1>1, <1>2, <2>1, <3>1, Ends
    <3>3. ExitsStep
      BY <1>1, <2>1, <3>1, <3>2, TypeParts DEF ExitsStep, Announce, Paused
    <3>4. QED
      BY <1>1, <3>1, <3>2, <3>3, Releases, Still DEF Frame
  <2>2. CASE ~ Live(r) /\ owner.exited
    <3>1. MarkStopped(r) /\ Release(rows[r].sess) /\ exits' = exits
      BY <1>0, <2>2 DEF OwnerEnd
    <3>2. QED
      BY <1>1, <2>2, <3>1, StopsOver, Releases, Still DEF Frame
  <2>3. CASE ~ Live(r) /\ ~ owner.exited
    BY <1>0, <1>1, <2>3, Still DEF Frame, OwnerEnd
  <2>4. QED
    BY <2>1, <2>2, <2>3
<1>4. OwnerReady' /\ LookReady'
  BY <1>1, <1>3, ReadyKeeps DEF OwnerReady, Resting
<1>5. QED
  BY <1>1, <1>3, <1>4 DEF OwnerEnd, WatchStep, TypeOK, Resting

(* The owner's stop begins, or at once settles a row that has ended. *)
LEMMA OwnerStopStep ==
  ASSUME TypeOK, Numbered, Owned, Ready, OwnerStop
  PROVE  WatchStep /\ MarksStep /\ (Live(Made) => holder' = holder)
<1> DEFINE r == Made
<1>1. /\ r \in Recorded /\ r \in Rows /\ rows[r].sess \in Sessions
      /\ rows[r].st # "none" /\ UNCHANGED <<mover, look, robbed, kills>>
  BY RecordedRows, HandOverAssumption DEF OwnerStop, Numbered, Recorded, Rows
<1>2. commands' \in 0 .. MaxCommands
  BY HandOverAssumption DEF OwnerStop, TypeOK
<1>3. CASE Live(r)
  <2>1. /\ owner' = [pc |-> "kill", row |-> r, exited |-> Running(r)]
        /\ pane' = [pane EXCEPT ![r] = IF Running(r) THEN "exiting" ELSE @]
        /\ UNCHANGED <<rows, session, holder, exits>>
    BY <1>3 DEF OwnerStop
  <2>2. PanesStep
    BY <1>1, <2>1, TypeParts DEF PanesStep, Panes, Running
  <2>3. Frame /\ ExitsStep /\ MarksStep
    BY <2>1, <2>2, Still DEF Frame
  <2>4. Recorded' = Recorded
    BY <2>3, FrameKeeps DEF Recorded
  <2>5. QED
    BY <1>1, <1>2, <2>1, <2>3, <2>4, ReadyKeeps
       DEF WatchStep, OwnerReady, TypeOK, Running
<1>4. CASE ~ Live(r) /\ Paused(r) /\ MarkStopped(r) /\ Release(rows[r].sess) /\ Announce(r)
           /\ UNCHANGED <<pane, owner>>
  <2>1. RowsStep /\ rows'[r].paused = FALSE /\ \A q \in Rows \ {r} : rows'[q] = rows[q]
    BY <1>1, <1>4, StopsOver
  <2>2. rows'[r].st = "ended"
    <3>1. rows[r] \in RowRecord
      BY <1>1, TypeParts
    <3>2. rows[r].st = "ended"
      BY <1>1, <1>4, <3>1 DEF RowRecord, Live
    <3>3. QED
      BY <1>1, <1>4, <2>1, <3>2 DEF RowsStep
  <2>3. ExitsStep
    BY <1>1, <1>4, <2>1, <2>2, TypeParts DEF ExitsStep, Announce, Paused
  <2>4. Frame /\ MarksStep
    BY <1>1, <1>4, <2>1, Releases, Still DEF Frame
  <2>5. QED
    BY <1>1, <1>2, <1>4, <2>3, <2>4, ReadyKeeps DEF WatchStep, TypeOK
<1>5. CASE ~ Live(r) /\ MarkStopped(r) /\ pane' = [pane EXCEPT ![r] = "gone"]
           /\ UNCHANGED <<session, holder, exits, owner>>
  <2>1. PanesStep
    BY <1>1, <1>5, TypeParts DEF PanesStep, Panes, Running
  <2>2. Frame /\ ExitsStep /\ MarksStep
    BY <1>1, <1>5, <2>1, StopsOver, Still DEF Frame
  <2>3. QED
    BY <1>1, <1>2, <1>5, <2>2, ReadyKeeps DEF WatchStep, TypeOK
<1>6. QED
  BY <1>3, <1>4, <1>5 DEF OwnerStop

(* A listing sees a pane that is dead or gone. *)
LEMMA LookStep ==
  ASSUME TypeOK, Numbered, Owned, Ready, Look
  PROVE  WatchStep /\ MarksStep /\ holder' = holder
<1>1. PICK r \in Rows : /\ Live(r) /\ pane[r] \in {"dead", "gone"}
                        /\ look' = [row |-> r, kind |-> pane[r]]
  BY DEF Look
<1>2. Frame /\ ExitsStep /\ MarksStep
  BY Still DEF Frame, Look
<1>3. r \in Recorded'
  BY <1>1, <1>2, FrameKeeps, RecordedRows DEF Recorded
<1>4. LookReady'
  BY <1>1, <1>3 DEF LookReady, Look
<1>5. OwnerReady'
  BY <1>2, ReadyKeeps DEF Look
<1>6. QED
  BY <1>1, <1>2, <1>4, <1>5 DEF Look, WatchStep, TypeOK

(* A listing leaves a row whose mark holds, and the claims of its session with it. *)
LEMMA RecordStep ==
  ASSUME TypeOK, Numbered, Owned, Ready, Record
  PROVE  /\ WatchStep /\ MarksStep
         /\ \/ holder' = holder
            \/ \E r \in Recorded : /\ ~ HandedOver(r, rows[r].sess)
                                   /\ holder = rows[r].sess /\ holder' = Pool
<1>1. PICK r \in Recorded : r = look.row
  BY DEF Record, Ready, LookReady
<1>2. /\ r \in Rows /\ pane[r] \in {"dead", "gone"} /\ rows[r].sess \in Sessions
      /\ look' = NoLook /\ UNCHANGED <<pane, mover, owner, robbed, commands, kills>>
  BY <1>1, RecordedRows DEF Record, Ready, LookReady
<1>3. ~ (Running(r))'
  BY <1>2 DEF Running
<1>4. /\ Frame /\ ExitsStep /\ MarksStep
      /\ \/ holder' = holder
         \/ ~ HandedOver(r, rows[r].sess) /\ holder = rows[r].sess /\ holder' = Pool
  <2>1. CASE UNCHANGED <<rows, session, holder, exits>>
    BY <1>2, <2>1, Still DEF Frame
  <2>2. CASE ~ HandedOver(r, rows[r].sess) /\ EndDead(r)
    BY <1>2, <1>3, <2>2, EndsDead, Still DEF Frame
  <2>3. CASE /\ ~ HandedOver(r, rows[r].sess) /\ exits' = exits /\ Release(rows[r].sess)
             /\ IF Live(r) THEN EndRow(r, "died", FALSE) ELSE UNCHANGED rows
    <3>1. RowsStep /\ ExitsStep
      <4>1. CASE Live(r)
        <5>1. RowsStep /\ rows'[r].paused = FALSE /\ \A q \in Rows \ {r} : rows'[q] = rows[q]
          BY <1>2, <1>3, <2>3, <4>1, Ends
        <5>2. QED
          BY <1>2, <2>3, <5>1, TypeParts DEF ExitsStep, Paused
      <4>2. CASE ~ Live(r)
        BY <2>3, <4>2, Still
      <4>3. QED
        BY <4>1, <4>2
    <3>2. QED
      BY <1>2, <2>3, <3>1, Releases, Still DEF Frame
  <2>4. QED
    BY <1>1, <2>1, <2>2, <2>3 DEF Record
<1>5. OwnerReady' /\ LookReady'
  BY <1>2, <1>4, ReadyKeeps DEF LookReady
<1>6. QED
  BY <1>2, <1>4, <1>5 DEF WatchStep, TypeOK, NoLook

(* HANDOVER_GRACE takes the hold of one session's mark. *)
LEMMA LapseStep ==
  ASSUME TypeOK, Numbered, Owned, Ready, NEW s \in Sessions, Lapse(s)
  PROVE  /\ WatchStep /\ holder' = holder
         /\ \A t \in Sessions \ {s} : session'[t] = session[t]
<1>1. /\ session' = [session EXCEPT ![s].fresh = FALSE]
      /\ UNCHANGED <<rows, pane, holder, exits, mover, owner, look, robbed, commands, kills>>
  BY DEF Lapse
<1>2. session[s] \in SessionRecord
  BY TypeParts
<1>3. PICK new \in SessionRecord : new = [session[s] EXCEPT !.fresh = FALSE]
  BY <1>2, SessionWrites, TypeParts
<1>4. new.on = session[s].on /\ session' = [session EXCEPT ![s] = new]
  BY <1>1, <1>2, <1>3 DEF SessionRecord
<1>5. SessionsStep /\ \A t \in Sessions \ {s} : session'[t] = session[t]
  BY <1>4, TypeParts DEF SessionsStep
<1>6. Frame /\ ExitsStep
  BY <1>1, <1>5, Still DEF Frame
<1>7. OwnerReady' /\ LookReady'
  BY <1>1, <1>6, ReadyKeeps
<1>8. QED
  BY <1>1, <1>5, <1>6, <1>7 DEF WatchStep, TypeOK

(* A lease that runs out frees a claim and touches no row. *)
LEMMA LeaseStep ==
  ASSUME TypeOK, Numbered, Owned, Ready, LeaseLapses
  PROVE  WatchStep /\ MarksStep
<1>1. Frame /\ ExitsStep /\ MarksStep
  BY Still DEF LeaseLapses, Frame, HolderStep
<1>2. OwnerReady' /\ LookReady'
  BY <1>1, ReadyKeeps DEF LeaseLapses
<1>3. QED
  BY <1>1, <1>2 DEF LeaseLapses, WatchStep, TypeOK

-----------------------------------------------------------------------------
(* A mover gives up, or goes on by one of its steps with what it read. *)
OneMover(m) ==
  mover' \in [Movers -> MoverRecord] /\ \A n \in Movers \ {m} : mover'[n] = mover[n]
Kin(m) ==
  /\ mover'[m].row = mover[m].row /\ mover'[m].sess = mover[m].sess
  /\ mover'[m].snap = mover[m].snap /\ mover'[m].pausing = mover[m].pausing
  /\ mover'[m].paused = mover[m].paused
Same(m) == Kin(m) /\ mover'[m].res = mover[m].res
Then(m, froms, tos) == mover[m].pc \in froms /\ mover'[m].pc \in tos

Stopped(m) ==
  LET r == mover[m].row IN
  \/ mover'[m].res = "withheld" /\ Live(r) /\ rows'[r].st = "ended" /\ rows'[r].by = "stopped"
     /\ rows'[r].paused = mover[m].pausing /\ exits'[r] = exits[r]
  \/ mover'[m].res = "plain" /\ ~ Live(r) /\ ~ HandedOver(r, rows[r].sess)
  \/ mover'[m].res = "raised" /\ ~ Live(r)

Advance(m) ==
  \/ Same(m) /\ Then(m, {"recheck", "choose"}, {"mark", "clear"})
  \/ Same(m) /\ Then(m, {"choose", "clear"}, {"respawn"})
  \/ /\ Same(m) /\ Then(m, {"mark"}, {"stop"})
     /\ mover[m].snap # "none" => /\ ~ HandedOver(mover[m].row, mover[m].sess)
                                  /\ Put(mover[m].sess)
  \/ Same(m) /\ Then(m, {"stop"}, {"kill"}) /\ Live(mover[m].row)
  \/ Same(m) /\ Then(m, {"kill"}, {"end"}) /\ pane'[mover[m].row] = "gone"
  \/ Kin(m) /\ Then(m, {"stop", "kill"}, {"unmark"}) /\ mover'[m].res = "raised"
  \/ Kin(m) /\ Then(m, {"end"}, {"unmark"}) /\ Stopped(m)
  \/ Same(m) /\ Then(m, {"unmark"}, {"parked"}) /\ mover[m].res # "raised" /\ mover[m].pausing
  \/ Same(m) /\ Then(m, {"unmark"}, {"respawn"}) /\ ~ mover[m].pausing
  \/ Same(m) /\ Then(m, {"respawn"}, {"abandon"}) /\ Withheld(m)
  \/ Same(m) /\ Then(m, {"respawn"}, {"take", "started"}) /\ Made' # Made
  \/ Same(m) /\ Then(m, {"take"}, {"started"})

MoverStep(m) ==
  /\ OneMover(m) /\ (mover'[m] = Idle \/ Advance(m))
  /\ mover'[m] = Idle => kills' # kills \/ ~ (Withheld(m) /\ mover[m].pc \in {"unmark", "respawn"})
  /\ UNCHANGED <<owner, look, commands>>

(* A command that writes its own record leaves the others'. *)
LEMMA Turns ==
  ASSUME TypeOK, NEW m \in Movers, NEW new \in MoverRecord, mover' = [mover EXCEPT ![m] = new]
  PROVE  OneMover(m) /\ mover'[m] = new
  BY TypeParts DEF OneMover

(* A refusal forgets what was read; any other move keeps it. *)
LEMMA Goings ==
  ASSUME TypeOK, NEW m \in Movers
  PROVE  /\ Refused(m) => OneMover(m) /\ mover'[m] = Idle
         /\ \A pc \in Steps : Goes(m, pc) => OneMover(m) /\ Same(m) /\ mover'[m].pc = pc
<1>1. mover[m] \in MoverRecord
  BY TypeParts
<1>2. Refused(m) => OneMover(m) /\ mover'[m] = Idle
  <2>1. Idle \in MoverRecord
    BY <1>1, MoverWrites DEF Steps
  <2>2. QED
    BY <2>1, Turns DEF Refused
<1>3. ASSUME NEW pc \in Steps, Goes(m, pc)
      PROVE  OneMover(m) /\ Same(m) /\ mover'[m].pc = pc
  <2>1. PICK new \in MoverRecord : new = [mover[m] EXCEPT !.pc = pc]
    BY <1>1, MoverWrites
  <2>2. /\ new.pc = pc /\ new.row = mover[m].row /\ new.sess = mover[m].sess
        /\ new.snap = mover[m].snap /\ new.pausing = mover[m].pausing
        /\ new.paused = mover[m].paused /\ new.res = mover[m].res
    BY <1>1, <2>1 DEF MoverRecord
  <2>3. mover' = [mover EXCEPT ![m] = new]
    BY <1>3, <2>1 DEF Goes
  <2>4. OneMover(m) /\ mover'[m] = new
    BY <2>3, Turns
  <2>5. QED
    BY <2>2, <2>4 DEF Same, Kin
<1>4. QED
  BY <1>2, <1>3

(* switch looks whether the row still is the one it read. *)
LEMMA RecheckStep ==
  ASSUME TypeOK, NEW m \in Movers, Recheck(m)
  PROVE  MoverStep(m) /\ Frame /\ ExitsStep /\ MarksStep /\ UNCHANGED <<robbed, kills>>
<1>1. MoverStep(m)
  BY Goings DEF Recheck, MoverStep, Advance, Then, At, Steps
<1>2. QED
  BY <1>1, Still DEF Recheck, Frame

(* A restart brings a dead agent back unless its owner stopped it. *)
LEMMA Returns ==
  ASSUME TypeOK, NEW m \in Movers, BringsBack(m), mover[m].pc \in {"choose", "clear"}
  PROVE  OneMover(m) /\ (mover'[m] = Idle \/ Advance(m))
<1>1. CASE Refused(m)
  BY <1>1, Goings
<1>2. CASE mover' = [mover EXCEPT ![m].pc = "respawn", ![m].guarded = TRUE]
  <2>1. mover[m] \in MoverRecord
    BY TypeParts
  <2>2. PICK new \in MoverRecord : new = [mover[m] EXCEPT !.pc = "respawn", !.guarded = TRUE]
    BY <2>1, MoverWrites DEF Steps
  <2>3. /\ new.pc = "respawn" /\ new.row = mover[m].row /\ new.sess = mover[m].sess
        /\ new.snap = mover[m].snap /\ new.pausing = mover[m].pausing
        /\ new.paused = mover[m].paused /\ new.res = mover[m].res
    BY <2>1, <2>2 DEF MoverRecord
  <2>4. mover' = [mover EXCEPT ![m] = new]
    BY <1>2, <2>2
  <2>5. OneMover(m) /\ mover'[m] = new
    BY <2>4, Turns
  <2>6. QED
    BY <2>3, <2>5 DEF Same, Kin, Advance, Then
<1>3. QED
  BY <1>1, <1>2 DEF BringsBack

(* restart hands a running agent over, and records a dead one as a listing does. *)
LEMMA ChooseStep ==
  ASSUME TypeOK, Numbered, Owned, Ready, NEW m \in Movers, Choose(m)
  PROVE  MoverStep(m) /\ Frame /\ ExitsStep /\ MarksStep /\ UNCHANGED <<robbed, kills>>
<1>1. PICK r \in Recorded : r = mover[m].row
  BY DEF Choose, Ready, MoverReady, At
<1>2. /\ r \in Rows /\ rows[r].sess \in Sessions /\ At(m, "choose")
      /\ UNCHANGED <<pane, owner, look, robbed, commands, kills>>
  BY RecordedRows DEF Choose
<1>3. CASE \/ Goes(m, "mark") /\ UNCHANGED <<rows, session, holder, exits>>
           \/ Goes(m, "clear") /\ UNCHANGED <<rows, session, holder, exits>>
  <2>1. MoverStep(m)
    BY <1>2, <1>3, Goings DEF MoverStep, Advance, Then, At, Steps
  <2>2. QED
    BY <1>2, <1>3, <2>1, Still DEF Frame
<1>4. CASE pane[r] = "dead" /\ EndDead(r) /\ BringsBack(m)
  <2>1. ~ (Running(r))'
    BY <1>2, <1>4 DEF Running
  <2>2. Frame /\ ExitsStep /\ MarksStep
    BY <1>2, <1>4, <2>1, EndsDead, Still DEF Frame
  <2>3. MoverStep(m)
    BY <1>2, <1>4, Returns DEF MoverStep, At
  <2>4. QED
    BY <1>2, <2>2, <2>3
<1>5. QED
  BY <1>1, <1>3, <1>4 DEF Choose

(* restart clears a pane that does not run and ends its row as a death. *)
LEMMA ClearStep ==
  ASSUME TypeOK, Numbered, Owned, Ready, NEW m \in Movers, Clear(m)
  PROVE  MoverStep(m) /\ Frame /\ ExitsStep /\ MarksStep /\ UNCHANGED <<robbed, kills>>
<1>1. PICK r \in Recorded : r = mover[m].row
  BY DEF Clear, Ready, MoverReady, At
<1>2. /\ r \in Rows /\ rows[r].sess \in Sessions /\ At(m, "clear") /\ EndDead(r) /\ BringsBack(m)
      /\ pane' = [pane EXCEPT ![r] = IF Live(r) THEN "gone" ELSE @]
      /\ UNCHANGED <<owner, look, robbed, commands, kills>>
  BY <1>1, RecordedRows DEF Clear
<1>3. PanesStep /\ ~ (Running(r))'
  BY <1>2, RecordedRows, TypeParts DEF PanesStep, Panes, Running
<1>4. Frame /\ ExitsStep /\ MarksStep
  BY <1>2, <1>3, EndsDead DEF Frame
<1>5. MoverStep(m)
  BY <1>2, Returns DEF MoverStep, At
<1>6. QED
  BY <1>2, <1>4, <1>5

(* _mark_handing_over: who comes away with the mark found none that holds. *)
LEMMA MarkStep ==
  ASSUME TypeOK, Numbered, Owned, Ready, NEW m \in Movers, Mark(m)
  PROVE  MoverStep(m) /\ Frame /\ ExitsStep /\ MarksStep /\ UNCHANGED <<robbed, kills>>
<1>1. PICK s \in Recorded : s = mover[m].sess
  BY DEF Mark, Ready, MoverReady, At
<1>2. /\ s \in Sessions /\ At(m, "mark")
      /\ UNCHANGED <<rows, pane, holder, exits, owner, look, robbed, commands, kills>>
  BY RecordedRows DEF Mark
<1>3. CASE mover[m].snap = "none" /\ Goes(m, "stop") /\ UNCHANGED session
  <2>1. MoverStep(m)
    BY <1>2, <1>3, Goings DEF MoverStep, Advance, Then, At, Steps, Same, Kin
  <2>2. QED
    BY <1>2, <1>3, <2>1, Still DEF Frame
<1>4. CASE Refused(m) /\ UNCHANGED session
  BY <1>2, <1>4, Goings, Still DEF MoverStep, Frame, At
<1>5. CASE /\ ~ (mover[m].snap # "none" /\ HandedOver(mover[m].row, s)) /\ Goes(m, "stop")
           /\ mover[m].snap # "none"
           /\ session' = [session EXCEPT ![s] =
                [@ EXCEPT !.mark = Made, !.fresh = TRUE, !.ended = FALSE]]
  <2>1. session[s] \in SessionRecord /\ Made \in 0 .. MaxRows
    BY <1>2, TypeParts
  <2>2. PICK new \in SessionRecord :
          new = [session[s] EXCEPT !.mark = Made, !.fresh = TRUE, !.ended = FALSE]
    BY <2>1, SessionWrites
  <2>3. new.on = session[s].on /\ new.mark = Made /\ new.fresh
    BY <2>1, <2>2 DEF SessionRecord
  <2>4. session' = [session EXCEPT ![s] = new]
    BY <1>5, <2>2
  <2>5. SessionsStep /\ MarksStep
    BY <1>2, <2>3, <2>4, Writing
  <2>6. Put(s)
    BY <1>2, <2>3, <2>4, TypeParts DEF Put
  <2>7. MoverStep(m)
    BY <1>1, <1>2, <1>5, <2>6, Goings DEF MoverStep, Advance, Then, At, Steps, Same, Kin
  <2>8. QED
    BY <1>2, <2>5, <2>7, Still DEF Frame
<1>6. QED
  BY <1>1, <1>3, <1>4, <1>5 DEF Mark

(* Each way a stop comes to its end. *)
LEMMA Comes ==
  ASSUME TypeOK, NEW m \in Movers, NEW res \in {"withheld", "plain", "raised"},
         \/ mover' = [mover EXCEPT ![m].pc = "unmark", ![m].res = res]
         \/ mover' = [mover EXCEPT ![m].pc = "unmark", ![m].res = res, ![m].exited = FALSE]
  PROVE  OneMover(m) /\ Kin(m) /\ mover'[m].pc = "unmark" /\ mover'[m].res = res
<1>1. mover[m] \in MoverRecord /\ "unmark" \in Steps
  BY TypeParts DEF Steps
<1>2. CASE mover' = [mover EXCEPT ![m].pc = "unmark", ![m].res = res]
  <2>1. PICK new \in MoverRecord : new = [mover[m] EXCEPT !.pc = "unmark", !.res = res]
    BY <1>1, MoverWrites
  <2>2. /\ new.pc = "unmark" /\ new.row = mover[m].row /\ new.sess = mover[m].sess
        /\ new.snap = mover[m].snap /\ new.pausing = mover[m].pausing
        /\ new.paused = mover[m].paused /\ new.res = res
    BY <1>1, <2>1 DEF MoverRecord
  <2>3. OneMover(m) /\ mover'[m] = new
    <3>1. mover' = [mover EXCEPT ![m] = new]
      BY <1>2, <2>1
    <3>2. QED
      BY <3>1, Turns
  <2>4. QED
    BY <2>2, <2>3 DEF Kin
<1>3. CASE mover' = [mover EXCEPT ![m].pc = "unmark", ![m].res = res, ![m].exited = FALSE]
  <2>1. PICK new \in MoverRecord :
          new = [mover[m] EXCEPT !.pc = "unmark", !.res = res, !.exited = FALSE]
    BY <1>1, MoverWrites
  <2>2. /\ new.pc = "unmark" /\ new.row = mover[m].row /\ new.sess = mover[m].sess
        /\ new.snap = mover[m].snap /\ new.pausing = mover[m].pausing
        /\ new.paused = mover[m].paused /\ new.res = res
    BY <1>1, <2>1 DEF MoverRecord
  <2>3. OneMover(m) /\ mover'[m] = new
    <3>1. mover' = [mover EXCEPT ![m] = new]
      BY <1>3, <2>1
    <3>2. QED
      BY <3>1, Turns
  <2>4. QED
    BY <2>2, <2>3 DEF Kin
<1>4. QED
  BY <1>2, <1>3

(* The /exit goes to a live row's pane; of a row that has ended the stop raises. *)
LEMMA SendExitStep ==
  ASSUME TypeOK, Numbered, Owned, Ready, NEW m \in Movers, SendExit(m)
  PROVE  MoverStep(m) /\ Frame /\ ExitsStep /\ MarksStep /\ UNCHANGED <<robbed, kills>>
<1>1. PICK r \in Recorded : r = mover[m].row
  BY DEF SendExit, Ready, MoverReady, At
<1>2. /\ r \in Rows /\ At(m, "stop") /\ mover[m] \in MoverRecord
      /\ UNCHANGED <<rows, session, holder, exits, owner, look, robbed, commands, kills>>
  BY RecordedRows, TypeParts DEF SendExit
<1>3. CASE /\ Live(r)
           /\ mover' = [mover EXCEPT ![m].pc = "kill", ![m].exited = Running(r)]
           /\ pane' = [pane EXCEPT ![r] = IF Running(r) THEN "exiting" ELSE @]
  <2>1. PanesStep
    BY <1>2, <1>3, TypeParts DEF PanesStep, Panes, Running
  <2>2. "kill" \in Steps /\ Running(r) \in BOOLEAN
    BY DEF Steps, Running
  <2>3. PICK new \in MoverRecord : new = [mover[m] EXCEPT !.pc = "kill", !.exited = Running(r)]
    BY <1>2, <2>2, MoverWrites
  <2>4. /\ new.pc = "kill" /\ new.row = mover[m].row /\ new.sess = mover[m].sess
        /\ new.snap = mover[m].snap /\ new.pausing = mover[m].pausing
        /\ new.paused = mover[m].paused /\ new.res = mover[m].res
    BY <1>2, <2>3 DEF MoverRecord
  <2>5. OneMover(m) /\ mover'[m] = new
    <3>1. mover' = [mover EXCEPT ![m] = new]
      BY <1>3, <2>3
    <3>2. QED
      BY <3>1, Turns
  <2>6. MoverStep(m)
    BY <1>1, <1>2, <1>3, <2>4, <2>5 DEF MoverStep, Advance, Then, At, Same, Kin
  <2>7. QED
    BY <1>2, <2>1, <2>6, Still DEF Frame
<1>4. CASE mover' = [mover EXCEPT ![m].pc = "unmark", ![m].res = "raised"] /\ UNCHANGED pane
  <2>1. OneMover(m) /\ Kin(m) /\ mover'[m].pc = "unmark" /\ mover'[m].res = "raised"
    BY <1>4, Comes
  <2>2. MoverStep(m)
    BY <1>2, <2>1 DEF MoverStep, Advance, Then, At
  <2>3. QED
    BY <1>2, <1>4, <2>2, Still DEF Frame
<1>5. QED
  BY <1>1, <1>3, <1>4 DEF SendExit

(* The window is killed, or the stop raises with the agent still running. *)
LEMMA KillStep ==
  ASSUME TypeOK, Numbered, Owned, Ready, NEW m \in Movers, Kill(m)
  PROVE  MoverStep(m) /\ Frame /\ ExitsStep /\ MarksStep /\ UNCHANGED <<robbed, kills>>
<1>1. PICK r \in Recorded : r = mover[m].row
  BY DEF Kill, Ready, MoverReady, At
<1>2. /\ r \in Rows /\ At(m, "kill")
      /\ UNCHANGED <<rows, session, holder, exits, owner, look, robbed, commands, kills>>
  BY RecordedRows DEF Kill
<1>3. CASE pane' = [pane EXCEPT ![r] = "gone"] /\ Goes(m, "end")
  <2>1. PanesStep /\ pane'[r] = "gone"
    BY <1>2, <1>3, TypeParts DEF PanesStep, Panes, Running
  <2>2. MoverStep(m)
    BY <1>1, <1>2, <1>3, <2>1, Goings DEF MoverStep, Advance, Then, At, Steps
  <2>3. QED
    BY <1>2, <2>1, <2>2, Still DEF Frame
<1>4. CASE mover' = [mover EXCEPT ![m].pc = "unmark", ![m].res = "raised"] /\ UNCHANGED pane
  <2>1. OneMover(m) /\ Kin(m) /\ mover'[m].pc = "unmark" /\ mover'[m].res = "raised"
    BY <1>4, Comes
  <2>2. MoverStep(m)
    BY <1>2, <2>1 DEF MoverStep, Advance, Then, At
  <2>3. QED
    BY <1>2, <1>4, <2>2, Still DEF Frame
<1>5. QED
  BY <1>1, <1>3, <1>4 DEF Kill

(* _stop_row: withheld of a live row, plain of an ended one that no mark holds, or raised. *)
LEMMA EndStep ==
  ASSUME TypeOK, Numbered, Owned, Ready, NEW m \in Movers, End(m)
  PROVE  MoverStep(m) /\ Frame /\ ExitsStep /\ MarksStep /\ UNCHANGED <<robbed, kills>>
<1>1. PICK r \in Recorded : r = mover[m].row
  BY DEF End, Ready, MoverReady, At
<1>2. /\ r \in Rows /\ At(m, "end") /\ mover[m] \in MoverRecord /\ pane[r] = "gone"
      /\ UNCHANGED <<pane, session, holder, exits, owner, look, robbed, commands, kills>>
  BY <1>1, RecordedRows, TypeParts DEF End, Ready, MoverReady
<1>3. ~ (Running(r))' /\ mover[m].pausing \in BOOLEAN
  BY <1>2 DEF Running, MoverRecord
<1>4. PICK res \in {"withheld", "plain", "raised"} :
        /\ mover' = [mover EXCEPT ![m].pc = "unmark", ![m].res = res, ![m].exited = FALSE]
        /\ res = "withheld" <=> Live(r)
        /\ res = "plain" => ~ HandedOver(r, rows[r].sess)
  BY <1>1 DEF End
<1>5. OneMover(m) /\ Kin(m) /\ mover'[m].pc = "unmark" /\ mover'[m].res = res
  BY <1>4, Comes
<1>6. CASE Live(r)
  <2>1. EndRow(r, "stopped", mover[m].pausing)
    BY <1>1, <1>6 DEF End
  <2>2. /\ RowsStep /\ rows'[r].st = "ended" /\ rows'[r].by = "stopped"
        /\ rows'[r].paused = mover[m].pausing /\ \A q \in Rows \ {r} : rows'[q] = rows[q]
    BY <1>2, <1>3, <1>6, <2>1, Ends
  <2>3. Stopped(m)
    BY <1>1, <1>2, <1>4, <1>5, <1>6, <2>2 DEF Stopped
  <2>4. ExitsStep
    BY <1>1, <1>2, <1>6, <2>2, TypeParts DEF ExitsStep, Paused
  <2>5. MoverStep(m)
    BY <1>2, <1>5, <2>3 DEF MoverStep, Advance, Then, At
  <2>6. QED
    BY <1>2, <2>2, <2>4, <2>5, Still DEF Frame
<1>7. CASE ~ Live(r)
  <2>1. rows' = rows
    BY <1>1, <1>7 DEF End
  <2>2. Stopped(m)
    BY <1>1, <1>4, <1>5, <1>7 DEF Stopped
  <2>3. MoverStep(m)
    BY <1>2, <1>5, <2>2 DEF MoverStep, Advance, Then, At
  <2>4. QED
    BY <1>2, <2>1, <2>3, Still DEF Frame
<1>8. QED
  BY <1>6, <1>7

(* Rows whose session loses its mark are robbed of it, but the one whose mark it was. *)
LEMMA UnmarkStep ==
  ASSUME TypeOK, Numbered, Owned, Ready, Outcomes, NEW m \in Movers, Unmark(m)
  PROVE  /\ MoverStep(m) /\ Frame /\ ExitsStep /\ kills' = kills /\ ~ (Marks(m))'
         /\ robbed \subseteq robbed' /\ robbed' \subseteq Rows
         /\ \A t \in Sessions :
              \/ session'[t].mark = session[t].mark /\ session'[t].fresh = session[t].fresh
              \/ /\ Marks(m)
                 /\ \A n \in Movers : Marks(n) /\ mover[n].sess = t
                      => mover[n].row \in robbed' \cup {mover[m].row}
<1>1. PICK s \in Recorded : s = mover[m].sess
  BY DEF Unmark, Ready, MoverReady, At
<1>2. /\ s \in Sessions /\ At(m, "unmark") /\ mover[m].res # "none"
      /\ UNCHANGED <<rows, pane, holder, exits, owner, look, commands, kills>>
  BY RecordedRows DEF Unmark, Outcomes
<1>3. MoverStep(m) /\ ~ (Marks(m))'
  <2>1. CASE mover[m].res = "raised" /\ Refused(m)
    <3>1. OneMover(m) /\ mover'[m] = Idle
      BY <2>1, Goings
    <3>2. ~ (Marks(m))'
      BY <3>1 DEF Marks, Idle
    <3>3. QED
      BY <1>2, <2>1, <3>1, <3>2 DEF MoverStep, Withheld
  <2>2. CASE mover[m].res # "raised" /\ mover[m].pausing /\ Goes(m, "parked")
    BY <1>2, <2>2, Goings DEF MoverStep, Advance, Then, At, Steps, Idle, Marks
  <2>3. CASE mover[m].res # "raised" /\ ~ mover[m].pausing /\ Goes(m, "respawn")
    BY <1>2, <2>3, Goings DEF MoverStep, Advance, Then, At, Steps, Idle, Marks
  <2>4. QED
    BY <2>1, <2>2, <2>3 DEF Unmark
<1>4. CASE UNCHANGED <<session, robbed>>
  BY <1>2, <1>3, <1>4, Still DEF Frame, TypeOK
<1>5. CASE /\ session' = [session EXCEPT ![s].mark = NoRow, ![s].fresh = TRUE]
           /\ robbed' = robbed \cup
                ({mover[n].row : n \in {n \in Movers : Marks(n) /\ mover[n].sess = s}} \ {mover[m].row})
           /\ mover[m].snap = "working"
  <2>1. session[s] \in SessionRecord /\ Made \in 0 .. MaxRows
    BY <1>2, TypeParts
  <2>2. PICK new \in SessionRecord : new = [session[s] EXCEPT !.mark = NoRow, !.fresh = TRUE]
    BY <2>1, SessionWrites
  <2>3. new.on = session[s].on
    BY <2>1, <2>2 DEF SessionRecord
  <2>4. session' = [session EXCEPT ![s] = new]
    BY <1>5, <2>2
  <2>5. SessionsStep /\ \A t \in Sessions \ {s} : session'[t] = session[t]
    BY <1>2, <2>3, <2>4, TypeParts DEF SessionsStep
  <2>6. \A n \in Movers : Marks(n) => mover[n].row \in Rows
    BY RecordedRows DEF Marks, Ready, MoverReady, At
  <2>7. robbed \subseteq robbed' /\ robbed' \subseteq Rows
    BY <1>5, <2>6 DEF TypeOK
  <2>8. \A n \in Movers : Marks(n) /\ mover[n].sess = s => mover[n].row \in robbed' \cup {mover[m].row}
    BY <1>5
  <2>9. Marks(m)
    BY <1>2, <1>5 DEF Marks, At
  <2>10. QED
    BY <1>2, <1>3, <2>5, <2>7, <2>8, <2>9, Still DEF Frame
<1>6. QED
  BY <1>1, <1>4, <1>5 DEF Unmark

(* pause_agent records paused the row it stopped, or one that died under it. *)
LEMMA ParkStep ==
  ASSUME TypeOK, Numbered, Owned, Ready, NEW m \in Movers, Park(m)
  PROVE  /\ MoverStep(m) /\ mover'[m] = Idle /\ Frame /\ MarksStep /\ At(m, "parked")
         /\ UNCHANGED <<exits, robbed, kills>>
         /\ \A q \in Rows : rows'[q].paused => Paused(q) \/ (q = mover[m].row /\ rows[q].by = "died")
<1>1. PICK r \in Recorded, s \in Recorded : r = mover[m].row /\ s = mover[m].sess
  BY DEF Park, Ready, MoverReady, At
<1>2. /\ r \in Rows /\ s \in Sessions /\ At(m, "parked") /\ Refused(m)
      /\ rows[r] \in RowRecord /\ rows \in [Rows -> RowRecord]
      /\ UNCHANGED <<pane, holder, exits, owner, look, robbed, commands, kills>>
  BY RecordedRows, TypeParts DEF Park
<1>3. RowsStep /\ \A q \in Rows : rows'[q].paused => Paused(q) \/ (q = r /\ rows[q].by = "died")
  <2>1. CASE rows' = rows
    BY <2>1, Still DEF Paused
  <2>2. CASE rows[r].by = "died" /\ rows' = [rows EXCEPT ![r].by = "stopped", ![r].paused = TRUE]
    <3>1. PICK new \in RowRecord : new = [rows[r] EXCEPT !.by = "stopped", !.paused = TRUE]
      BY <1>2, RowWrites
    <3>2. /\ new.by = "stopped" /\ new.st = rows[r].st
          /\ new.own = rows[r].own /\ new.sess = rows[r].sess
      BY <1>2, <3>1 DEF RowRecord
    <3>3. rows' = [rows EXCEPT ![r] = new]
      BY <2>2, <3>1
    <3>4. QED
      BY <1>2, <2>2, <3>2, <3>3 DEF RowsStep, RowsType, Paused
  <2>3. QED
    BY <1>1, <2>1, <2>2 DEF Park
<1>4. SessionsStep /\ MarksStep
  BY <1>1, <1>2, Retires, Still DEF Park
<1>5. MoverStep(m) /\ mover'[m] = Idle
  BY <1>2, Goings DEF MoverStep, At
<1>6. QED
  BY <1>1, <1>2, <1>3, <1>4, <1>5, Still DEF Frame

(* _take_over moves the replacement's row to its own session, its claims with it. *)
LEMMA TakeOverStep ==
  ASSUME TypeOK, Numbered, Owned, Ready, NEW m \in Movers, TakeOver(m)
  PROVE  MoverStep(m) /\ Frame /\ ExitsStep /\ MarksStep /\ UNCHANGED <<robbed, kills>>
<1>1. PICK n \in Recorded, s \in Recorded : n = mover[m].new /\ s = mover[m].sess
  BY DEF TakeOver, Ready, MoverReady, At
<1>2. /\ n \in Rows /\ n \in Sessions /\ s \in Sessions /\ At(m, "take") /\ Goes(m, "started")
      /\ rows[n].own = n /\ UNCHANGED <<pane, exits, owner, look, robbed, commands, kills>>
  BY <1>1, RecordedRows DEF TakeOver, Ready, MoverReady
<1>3. SessionsStep /\ MarksStep
  BY <1>1, <1>2, Retires, Still DEF TakeOver
<1>4. CASE UNCHANGED <<rows, holder>>
  BY <1>2, <1>3, <1>4, Goings, Still DEF MoverStep, Advance, Then, At, Steps, Frame
<1>5. CASE /\ Live(n) /\ rows' = [rows EXCEPT ![n].sess = n]
           /\ holder' = IF holder = s THEN n ELSE holder
  <2>1. RowsStep /\ ExitsStep
    BY <1>2, <1>5, Adopts
  <2>2. HolderStep
    BY <1>2, <1>5, TypeParts DEF HolderStep
  <2>3. MoverStep(m)
    BY <1>2, Goings DEF MoverStep, Advance, Then, At, Steps
  <2>4. QED
    BY <1>2, <1>3, <2>1, <2>2, <2>3, Still DEF Frame
<1>6. QED
  BY <1>1, <1>4, <1>5 DEF TakeOver

(* A hand-over whose replacement fails goes on to abandon what it parked. *)
LEMMA SpawnFailsStep ==
  ASSUME TypeOK, NEW m \in Movers, SpawnFails(m)
  PROVE  MoverStep(m) /\ Frame /\ ExitsStep /\ MarksStep /\ UNCHANGED <<robbed, kills>>
<1>1. /\ At(m, "respawn")
      /\ UNCHANGED <<rows, pane, session, holder, exits, owner, look, robbed, commands, kills>>
  BY DEF SpawnFails
<1>2. CASE Withheld(m) /\ Goes(m, "abandon")
  <2>1. OneMover(m) /\ Same(m) /\ mover'[m].pc = "abandon"
    BY <1>2, Goings DEF Steps
  <2>2. MoverStep(m)
    BY <1>1, <1>2, <2>1 DEF MoverStep, Advance, Then, At, Idle
  <2>3. QED
    BY <1>1, <2>2, Still DEF Frame
<1>3. CASE ~ Withheld(m) /\ Refused(m)
  BY <1>1, <1>3, Goings, Still DEF MoverStep, Frame
<1>4. QED
  BY <1>2, <1>3 DEF SpawnFails, Withheld

(* _abandon_handover announces the exit that was withheld. *)
LEMMA AbandonStep ==
  ASSUME TypeOK, Numbered, Owned, Ready, NEW m \in Movers, Abandon(m)
  PROVE  /\ MoverStep(m) /\ mover'[m] = Idle /\ Frame /\ MarksStep /\ At(m, "abandon")
         /\ UNCHANGED <<rows, robbed, kills>> /\ exits' = [exits EXCEPT ![mover[m].row] = @ + 1]
<1>1. PICK r \in Recorded : r = mover[m].row
  BY DEF Abandon, Ready, MoverReady, At
<1>2. /\ r \in Rows /\ rows[r].sess \in Sessions /\ Release(rows[r].sess) /\ Refused(m)
      /\ At(m, "abandon") /\ exits' = [exits EXCEPT ![mover[m].row] = @ + 1]
      /\ UNCHANGED <<rows, pane, owner, look, robbed, commands, kills>>
  BY <1>1, RecordedRows DEF Abandon, Announce
<1>3. SessionsStep /\ MarksStep /\ HolderStep
  BY <1>2, Releases
<1>4. QED
  BY <1>2, <1>3, Goings, Still DEF MoverStep, Frame, At

(* A killed command takes nothing back. *)
LEMMA KilledStep ==
  ASSUME TypeOK, NEW m \in Movers, Killed(m)
  PROVE  /\ MoverStep(m) /\ Frame /\ ExitsStep /\ MarksStep /\ robbed' = robbed
         /\ kills' \in 0 .. MaxKills
<1>1. kills' \in 0 .. MaxKills
  BY HandOverAssumption DEF Killed, TypeOK
<1>2. QED
  BY <1>1, Goings, Still DEF Killed, MoverStep, Frame

(* A restart that brought a paused agent back makes the old row history. *)
LEMMA StartedStep ==
  ASSUME TypeOK, Numbered, Owned, Ready, NEW m \in Movers, Started(m)
  PROVE  MoverStep(m) /\ Frame /\ ExitsStep /\ MarksStep /\ UNCHANGED <<robbed, kills>>
<1>1. PICK r \in Rows : r = mover[m].row
  BY RecordedRows DEF Started, Ready, MoverReady, At
<1>2. RowsStep /\ ExitsStep
  BY <1>1, StopsOver, Still DEF Started
<1>3. MoverStep(m)
  BY Goings DEF Started, MoverStep, At
<1>4. QED
  BY <1>2, <1>3, Still DEF Started, Frame

(* The record a command begins with. *)
Begun(m) ==
  LET a == mover'[m] IN
  /\ a.row = Made /\ a.sess = rows[Made].sess /\ a.res = "none" /\ a.paused = Paused(Made)
  /\ a.snap = "none" <=> ~ session[rows[Made].sess].on
  /\ a.pc \in {"mark", "recheck", "choose", "respawn"}
  /\ a.pausing => a.pc = "mark"
  /\ a.pc # "respawn" => /\ Live(Made)
                         /\ ~ LateStarts => /\ a.snap # "none" /\ session[rows[Made].sess].on
                                            /\ session[rows[Made].own].on

(* A command begins with the newest row, and its session as it stands. *)
LEMMA ReadStep ==
  ASSUME TypeOK, Numbered, Owned, NEW m \in Movers, NEW verb \in {"switch", "restart", "pause"},
         Read(m, verb)
  PROVE  /\ OneMover(m) /\ At(m, "idle") /\ Begun(m) /\ Frame /\ ExitsStep /\ MarksStep
         /\ commands' \in 0 .. MaxCommands /\ UNCHANGED <<owner, look, robbed, kills>>
<1> DEFINE s == rows[Made].sess
           pc == CASE verb = "pause" -> "mark"
                   [] verb = "switch" -> "recheck"
                   [] verb = "restart" -> IF Live(Made) THEN "choose" ELSE "respawn"
           snap == CASE ~ session[s].on -> "none"
                     [] session[s].on /\ Marked(s) -> "switching"
                     [] OTHER -> "working"
           guarded == ~ Live(Made) /\ (rows[Made].by # "stopped" \/ Paused(Made))
           new == [Idle EXCEPT !.pc = pc, !.pausing = (verb = "pause"), !.row = Made, !.sess = s,
                               !.snap = snap, !.paused = Paused(Made), !.guarded = guarded]
<1>1. /\ Made \in Rows /\ s \in Sessions /\ rows[Made] \in RowRecord
      /\ mover' = [mover EXCEPT ![m] = new]
      /\ verb # "restart" => Live(Made)
      /\ ~ LateStarts /\ Live(Made) => session[rows[Made].own].on /\ session[s].on
  BY RecordedRows, TypeParts, HandOverAssumption DEF Read, Numbered, Recorded, Rows
<1>2. pc \in Steps /\ snap \in {"none", "working", "switching"} /\ (snap = "none" <=> ~ session[s].on)
  <2>1. pc \in Steps
    <3>1. pc \in {"mark", "recheck", "choose", "respawn"}
      OBVIOUS
    <3>2. QED
      BY <3>1 DEF Steps
  <2>2. snap \in {"none", "working", "switching"} /\ (snap = "none" <=> ~ session[s].on)
    <3>1. CASE ~ session[s].on
      BY <3>1
    <3>2. CASE session[s].on /\ Marked(s)
      BY <3>2
    <3>3. CASE session[s].on /\ ~ Marked(s)
      BY <3>3
    <3>4. QED
      BY <3>1, <3>2, <3>3
  <2>3. QED
    BY <2>1, <2>2
<1>3. Idle \in MoverRecord
  BY DEF MoverRecord, Idle, Steps
<1>4. Paused(Made) \in BOOLEAN /\ guarded \in BOOLEAN
  BY <1>1 DEF Paused, RowRecord
<1>5. /\ new \in MoverRecord /\ new.pc = pc /\ new.pausing = (verb = "pause") /\ new.row = Made
      /\ new.sess = s /\ new.snap = snap /\ new.res = "none" /\ new.paused = Paused(Made)
  <2>1. PICK idle \in MoverRecord : idle = Idle
    BY <1>3
  <2>2. (verb = "pause") \in BOOLEAN /\ Idle.res = "none"
    BY DEF Idle
  <2>3. PICK b \in BOOLEAN, c \in BOOLEAN, d \in BOOLEAN :
          b = (verb = "pause") /\ c = Paused(Made) /\ d = guarded
    BY <1>4, <2>2
  <2>4. PICK pc1 \in Steps, snap1 \in {"none", "working", "switching"}, row \in Rows, sess \in Sessions :
          pc1 = pc /\ snap1 = snap /\ row = Made /\ sess = s
    BY <1>1, <1>2
  <2>5. PICK one : one = [idle EXCEPT !.pc = pc1, !.pausing = b, !.row = row, !.sess = sess,
                                    !.snap = snap1, !.paused = c, !.guarded = d]
    OBVIOUS
  <2>6. /\ one \in MoverRecord /\ one.pc = pc1 /\ one.pausing = b /\ one.row = row
        /\ one.sess = sess /\ one.snap = snap1 /\ one.res = idle.res /\ one.paused = c
    BY <2>5 DEF MoverRecord
  <2>7. new = one
    BY <2>1, <2>3, <2>4, <2>5
  <2>8. QED
    BY <2>1, <2>2, <2>3, <2>4, <2>6, <2>7
<1>6. OneMover(m) /\ mover'[m] = new
  BY <1>1, <1>5, Turns
<1>7. Begun(m)
  <2>1. /\ pc \in {"mark", "recheck", "choose", "respawn"} /\ (verb = "pause" => pc = "mark")
        /\ pc # "respawn" => Live(Made)
    BY <1>1
  <2>2. QED
    BY <1>1, <1>2, <1>5, <1>6, <2>1 DEF Begun
<1>8. Frame /\ ExitsStep /\ MarksStep
  BY Still DEF Read, Frame
<1>9. commands' \in 0 .. MaxCommands
  BY HandOverAssumption DEF Read, TypeOK
<1>10. QED
  BY <1>6, <1>7, <1>8, <1>9 DEF Read

(* The one step that records a row. *)
Grows(n) ==
  /\ n = Made + 1 /\ n \in Rows /\ Made' = n /\ ~ Live(Made)
  /\ rows' \in [Rows -> RowRecord] /\ \A q \in Rows \ {n} : rows'[q] = rows[q]
  /\ rows'[n].st = "live" /\ rows'[n].paused = FALSE
  /\ pane' = [pane EXCEPT ![n] = "up"] /\ UNCHANGED <<session, holder, exits>>

(* A new row is the next number, live, and the only one that is. *)
LEMMA GrowKeeps ==
  ASSUME TypeOK, Numbered, Owned, NEW n, Grows(n), rows'[n].own \in 1 .. n, rows'[n].sess \in 1 .. n,
         rows'[n].sess # rows'[n].own => rows'[n].own = n
  PROVE  Numbered' /\ Owned' /\ Recorded' = Recorded \cup {n} /\ n \notin Recorded
<1>1. /\ Made \in Rows /\ Made \in Nat /\ n = Made + 1 /\ n \in Rows /\ Made' = n
      /\ rows'[n].st = "live" /\ \A q \in Rows \ {n} : rows'[q] = rows[q]
      /\ session' = session /\ Sessions = Rows
  BY TypeParts, HandOverAssumption DEF Grows, Numbered, Rows
<1>2. \A q \in Rows : q \in Nat /\ (q <= n <=> q <= Made \/ q = n)
  BY <1>1, HandOverAssumption DEF Rows
<1>3. \A q \in Rows : ~ Live(q) /\ ~ Running(q)
  BY RecordedRows DEF Grows
<1>4. Numbered'
  BY <1>1, <1>2, <1>3 DEF Numbered, Live
<1>5. Recorded' = Recorded \cup {n} /\ n \notin Recorded
  BY <1>1 DEF Recorded
<1>6. \A r \in Recorded' : rows'[r].own \in Recorded' /\ rows'[r].sess \in Recorded'
  <2>1. CASE Recorded' = 1 .. n
    BY <1>1, <1>5, <2>1, RecordedRows DEF Owned
  <2>2. QED
    BY <1>1, <2>1 DEF Recorded
<1>7. \A r \in Rows : (Running(r))' => (Live(r))'
  BY <1>1, <1>3, TypeParts DEF Grows, Running, Live
<1>8. \A s \in Sessions : session'[s].on => s <= Made'
  BY <1>1, <1>2 DEF Owned
<1>9. ASSUME NEW r \in Rows, (Live(r))', rows'[r].sess # rows'[r].own
      PROVE  rows'[r].own = r /\ ~ session'[r].on
  <2>1. r = n
    BY <1>1, <1>3, <1>9 DEF Live
  <2>2. ~ session[n].on
    BY <1>1 DEF Owned
  <2>3. QED
    BY <1>1, <1>9, <2>1, <2>2
<1>10. QED
  BY <1>4, <1>5, <1>6, <1>7, <1>8, <1>9 DEF Owned

(* spawn's insert adds a live row when none is, on the parked session when it takes over. *)
LEMMA InsertStep ==
  ASSUME TypeOK, Numbered, Owned, Ready, NEW m \in Movers, NEW resumed \in BOOLEAN, Insert(m, resumed)
  PROVE  /\ MoverStep(m) /\ UNCHANGED <<robbed, kills>>
         /\ Numbered' /\ Owned' /\ Ready' /\ Recorded \subseteq Recorded'
         /\ At(m, "respawn") /\ mover'[m].pc \in {"take", "started"}
         /\ \E n \in Rows \ Recorded :
              /\ Grows(n)
              /\ (Handed(m) \/ mover[m].paused) /\ mover[m].snap # "none"
                   => rows'[n].sess = mover[m].sess
<1>1. PICK s \in Recorded : s = mover[m].sess
  BY DEF Insert, Ready, MoverReady, At
<1>2. PICK n : n = Made + 1
  OBVIOUS
<1>3. PICK takes \in BOOLEAN :
        takes = ((Handed(m) \/ mover[m].paused) /\ mover[m].snap # "none" /\ ~ resumed)
  OBVIOUS
<1>4. PICK sess, own, pc :
        /\ sess = IF resumed \/ takes THEN s ELSE n
        /\ own = IF resumed THEN s ELSE n
        /\ pc = IF takes THEN "take" ELSE "started"
  OBVIOUS
<1>5. /\ rows' = [rows EXCEPT ![n] =
           [st |-> "live", by |-> "none", paused |-> FALSE, sess |-> sess, own |-> own]]
      /\ mover' = [mover EXCEPT ![m].pc = pc, ![m].new = n]
      /\ At(m, "respawn") /\ Made < MaxRows /\ ~ Live(Made) /\ pane' = [pane EXCEPT ![n] = "up"]
      /\ UNCHANGED <<session, holder, exits, owner, look, robbed, commands, kills>>
  <2>1. takes <=> ((Handed(m) \/ mover[m].paused) /\ mover[m].snap # "none" /\ ~ resumed)
    BY <1>3
  <2>2. At(m, "respawn") /\ Made < MaxRows /\ ~ Live(Made)
        /\ UNCHANGED <<session, holder, exits, owner, look, robbed, commands, kills>>
    BY DEF Insert
  <2>3. pane' = [pane EXCEPT ![n] = "up"]
    BY <1>2 DEF Insert
  <2>4. mover' = [mover EXCEPT ![m].pc = pc, ![m].new = n]
    BY <1>2, <1>4, <2>1 DEF Insert
  <2>5. rows' = [rows EXCEPT ![n] =
           [st |-> "live", by |-> "none", paused |-> FALSE, sess |-> sess, own |-> own]]
    BY <1>1, <1>2, <1>4, <2>1 DEF Insert
  <2>6. QED
    BY <2>2, <2>3, <2>4, <2>5
<1>6. Made \in Nat /\ Made \in Rows /\ n \in Rows /\ n \in 1 .. n /\ 1 .. n \subseteq Sessions
      /\ s \in 1 .. n /\ n \in 0 .. MaxRows
  BY <1>1, <1>2, <1>5, HandOverAssumption DEF Numbered, Rows, Recorded, Sessions
<1>7. sess \in 1 .. n /\ own \in 1 .. n /\ (sess # own => own = n) /\ (takes => own = n)
      /\ pc \in {"take", "started"} /\ (takes <=> pc = "take")
  BY <1>3, <1>4, <1>6
<1>8. PICK new : new = [st |-> "live", by |-> "none", paused |-> FALSE, sess |-> sess, own |-> own]
  OBVIOUS
<1>9. new \in RowRecord /\ new.st = "live" /\ new.paused = FALSE /\ new.sess = sess /\ new.own = own
  BY <1>6, <1>7, <1>8 DEF RowRecord
<1>10. rows' \in [Rows -> RowRecord] /\ rows'[n] = new /\ \A q \in Rows \ {n} : rows'[q] = rows[q]
  BY <1>5, <1>6, <1>8, <1>9, TypeParts
<1>11. Made' = n
  <2>1. \A q \in Rows : q \in Nat /\ (q <= n <=> q <= Made \/ q = n)
    BY <1>2, <1>6, HandOverAssumption DEF Rows
  <2>2. \A q \in Rows : rows'[q].st # "none" <=> q <= n
    BY <1>9, <1>10, <2>1 DEF Numbered
  <2>3. QED
    BY <1>6, <2>2, CountsRecorded DEF Made
<1>12. Grows(n)
  BY <1>2, <1>5, <1>6, <1>9, <1>10, <1>11 DEF Grows
<1>13. Numbered' /\ Owned' /\ Recorded' = Recorded \cup {n} /\ n \notin Recorded
  BY <1>7, <1>9, <1>10, <1>12, GrowKeeps
<1>14. mover[m] \in MoverRecord /\ pc \in Steps
  BY <1>7, TypeParts DEF Steps
<1>15. PICK a \in MoverRecord : a = [mover[m] EXCEPT !.pc = pc, !.new = n]
  BY <1>6, <1>14, MoverWrites
<1>16. /\ a.pc = pc /\ a.new = n
       /\ a.row = mover[m].row /\ a.sess = mover[m].sess /\ a.snap = mover[m].snap
       /\ a.pausing = mover[m].pausing /\ a.paused = mover[m].paused /\ a.res = mover[m].res
  BY <1>14, <1>15 DEF MoverRecord
<1>17. OneMover(m) /\ mover'[m] = a
  <2>1. mover' = [mover EXCEPT ![m] = a]
    BY <1>5, <1>15
  <2>2. QED
    BY <2>1, Turns
<1>18. MoverStep(m)
  <2>1. Same(m) /\ Then(m, {"respawn"}, {"take", "started"}) /\ Made' # Made
    BY <1>2, <1>5, <1>6, <1>7, <1>11, <1>16, <1>17 DEF Then, At, Same, Kin
  <2>2. mover'[m] # Idle
    BY <1>7, <1>16, <1>17 DEF Idle
  <2>3. QED
    BY <1>5, <1>17, <2>1, <2>2 DEF MoverStep, Advance
<1>19. Ready'
  <2>1. \A q \in Recorded : q \in Recorded' /\ rows'[q] = rows[q] /\ pane'[q] = pane[q]
    <3>1. \A q \in Recorded : q \in Rows \ {n} /\ q \in Recorded'
      BY <1>13, RecordedRows
    <3>2. QED
      BY <1>5, <1>10, <3>1, TypeParts
  <2>2. OwnerReady' /\ LookReady'
    BY <1>5, <2>1 DEF Ready, OwnerReady, LookReady
  <2>3. ASSUME NEW k \in Movers \ {m}
        PROVE  (MoverReady(k))'
    <3>1. mover'[k] = mover[k] /\ MoverReady(k)
      BY <1>17 DEF OneMover, Ready
    <3>2. QED
      BY <2>1, <3>1 DEF MoverReady, At
  <2>4. (MoverReady(m))'
    <3>1. mover[m].row \in Recorded' /\ mover[m].sess \in Recorded'
      BY <1>5, <2>1 DEF Ready, MoverReady, At
    <3>2. n \in Recorded' /\ (takes => rows'[n].own = n)
      BY <1>7, <1>9, <1>10, <1>13
    <3>3. QED
      BY <1>7, <1>16, <1>17, <3>1, <3>2 DEF MoverReady, At
  <2>5. QED
    BY <2>2, <2>3, <2>4 DEF Ready
<1>20. (Handed(m) \/ mover[m].paused) /\ mover[m].snap # "none" => rows'[n].sess = mover[m].sess
  BY <1>1, <1>3, <1>4, <1>9, <1>10
<1>21. QED
  BY <1>5, <1>6, <1>7, <1>12, <1>13, <1>16, <1>17, <1>18, <1>19, <1>20

-----------------------------------------------------------------------------
(* Every step at a glance: one mover takes a turn, no recorded row comes back, and the
   exits that are announced are accounted for. *)
Base == TypeOK /\ Numbered /\ Owned /\ Ready

Turn(m) ==
  mover'[m] = mover[m] \/ mover'[m] = Idle \/ Advance(m) \/ (At(m, "idle") /\ Begun(m))
OneTurn ==
  /\ \A m \in Movers : Turn(m)
  /\ \A m, n \in Movers : m # n => mover'[m] = mover[m] \/ mover'[n] = mover[n]

RowsKept ==
  \A r \in Recorded :
    /\ (Live(r))' => Live(r)
    /\ rows'[r].sess = rows[r].sess \/ (Live(r) /\ rows'[r].sess = rows[r].own)
    /\ rows'[r].own = rows[r].own
    /\ rows[r].by = "stopped" => Live(r) \/ rows'[r].by = "stopped"

Parking(m) ==
  /\ At(m, "parked") /\ mover'[m] = Idle /\ exits' = exits
  /\ \A q \in Rows : rows'[q].paused => Paused(q) \/ (q = mover[m].row /\ rows[q].by = "died")
Abandoning(m) ==
  /\ At(m, "abandon") /\ mover'[m] = Idle /\ rows' = rows
  /\ exits' = [exits EXCEPT ![mover[m].row] = @ + 1]
Accounts ==
  \/ RowsStep /\ Made' = Made /\ (ExitsStep \/ \E m \in Movers : Parking(m) \/ Abandoning(m))
  \/ \E n \in Rows \ Recorded : Grows(n)

OnStays == \A s \in Sessions : session[s].on => session'[s].on

Kept == OnStays /\ Base' /\ OneTurn /\ RowsKept /\ robbed \subseteq robbed' /\ Accounts

(* The types of all variables, from those of the tables and records. *)
LEMMA TypesKept ==
  ASSUME TypeOK, Frame, exits' \in [Rows -> Nat], mover' \in [Movers -> MoverRecord],
         owner' \in [pc : {"idle", "kill", "end"}, row : Rows \cup {NoRow}, exited : BOOLEAN],
         look' \in [row : Rows \cup {NoRow}, kind : {"none", "dead", "gone"}],
         robbed' \subseteq Rows, commands' \in 0 .. MaxCommands, kills' \in 0 .. MaxKills
  PROVE  TypeOK'
  BY DEF TypeOK, Frame, RowsStep, RowsType, RowRecord, PanesStep, Panes, SessionsStep,
         SessionRecord, HolderStep, MoverRecord, Steps, Sessions

(* A step that adds no row keeps every recorded one. *)
LEMMA FrameRows ==
  ASSUME TypeOK, Numbered, Owned, Frame
  PROVE  RowsKept
<1>1. Recorded \subseteq Rows
  BY RecordedRows
<1>2. QED
  BY <1>1 DEF Frame, RowsStep, RowsKept, Live

(* The agent's own steps move no command. *)
LEMMA AgentWatches ==
  ASSUME Base, AgentStep
  PROVE  WatchStep
<1>1. OwnerReady' /\ LookReady'
  BY ReadyKeeps DEF Base, AgentStep, Aside
<1>2. QED
  BY <1>1 DEF Base, AgentStep, Aside, WatchStep, TypeOK

(* Steps of the agent, the owner, a listing or the clock keep what every step keeps. *)
LEMMA WatchKeeps ==
  ASSUME Base, WatchStep
  PROVE  Kept
<1>1. TypeOK /\ Numbered /\ Owned /\ Ready /\ Frame /\ ExitsStep /\ mover' = mover /\ robbed' = robbed
  BY DEF Base, WatchStep
<1>2. TypeOK'
  <2>1. /\ exits' \in [Rows -> Nat] /\ mover' \in [Movers -> MoverRecord]
        /\ robbed' \subseteq Rows /\ kills' \in 0 .. MaxKills
    BY <1>1, TypeParts DEF ExitsStep, WatchStep, TypeOK
  <2>2. QED
    BY <1>1, <2>1, TypesKept DEF WatchStep
<1>3. Ready'
  BY <1>1, ReadyKeeps DEF WatchStep, Ready
<1>4. Numbered' /\ Owned' /\ Made' = Made /\ RowsKept
  BY <1>1, FrameKeeps, FrameRows
<1>5. OneTurn /\ Accounts
  BY <1>1, <1>4 DEF OneTurn, Turn, Accounts, Frame
<1>6. QED
  BY <1>1, <1>2, <1>3, <1>4, <1>5 DEF Kept, Base, OnStays, Frame, SessionsStep

(* So does a step of a command, once its frame and its exits are known. *)
LEMMA MoverKeeps ==
  ASSUME Base, NEW m \in Movers, MoverStep(m), Frame, exits' \in [Rows -> Nat],
         robbed \subseteq robbed', robbed' \subseteq Rows, kills' \in 0 .. MaxKills,
         ExitsStep \/ Parking(m) \/ Abandoning(m)
  PROVE  Kept
<1>1. /\ TypeOK /\ Numbered /\ Owned /\ Ready /\ OneMover(m)
      /\ UNCHANGED <<owner, look, commands>>
  BY DEF Base, MoverStep
<1>2. TypeOK'
  BY <1>1, TypesKept DEF OneMover, TypeOK
<1>3. Numbered' /\ Owned' /\ Made' = Made /\ Recorded' = Recorded /\ RowsKept
  BY <1>1, FrameKeeps, FrameRows DEF Recorded
<1>4. Ready'
  <2>1. OwnerReady' /\ LookReady'
    BY <1>1, ReadyKeeps
  <2>2. \A n \in Movers \ {m} : (MoverReady(n))'
    BY <1>1, ReadyKeeps DEF OneMover
  <2>3. (MoverReady(m))'
    <3>1. CASE mover'[m] = Idle
      BY <1>1, <3>1, ReadyKeeps
    <3>2. CASE Advance(m)
      <4>1. ~ At(m, "idle") /\ mover'[m].row = mover[m].row /\ mover'[m].sess = mover[m].sess
        BY <3>2 DEF Advance, Same, Kin, Then, At
      <4>2. mover[m].row \in Recorded /\ mover[m].sess \in Recorded
        BY <1>1, <4>1 DEF Ready, MoverReady
      <4>3. mover'[m].pc = "end" => pane'[mover[m].row] = "gone"
        BY <3>2 DEF Advance, Then
      <4>4. mover'[m].pc # "take"
        BY <1>3, <3>2 DEF Advance, Then
      <4>5. QED
        BY <1>3, <4>1, <4>2, <4>3, <4>4 DEF MoverReady, At
    <3>3. QED
      BY <3>1, <3>2 DEF MoverStep
  <2>4. QED
    BY <2>1, <2>2, <2>3 DEF Ready
<1>5. OneTurn /\ Accounts
  BY <1>3, <1>1 DEF MoverStep, OneMover, OneTurn, Turn, Accounts, Frame
<1>6. QED
  BY <1>2, <1>3, <1>4, <1>5 DEF Kept, Base, OnStays, Frame, SessionsStep

(* So does the first step of a command. *)
LEMMA ReadKeeps ==
  ASSUME Base, NEW m \in Movers, NEW verb \in {"switch", "restart", "pause"}, Read(m, verb)
  PROVE  Kept
<1>1. TypeOK /\ Numbered /\ Owned /\ Ready
  BY DEF Base
<1>2. /\ OneMover(m) /\ At(m, "idle") /\ Begun(m) /\ Frame /\ ExitsStep
      /\ commands' \in 0 .. MaxCommands /\ UNCHANGED <<owner, look, robbed, kills>>
  BY <1>1, ReadStep
<1>3. TypeOK'
  BY <1>1, <1>2, TypesKept DEF OneMover, TypeOK, ExitsStep
<1>4. Numbered' /\ Owned' /\ Made' = Made /\ Recorded' = Recorded /\ RowsKept
  BY <1>1, <1>2, FrameKeeps, FrameRows DEF Recorded
<1>5. Ready'
  <2>1. OwnerReady' /\ LookReady'
    BY <1>1, <1>2, ReadyKeeps
  <2>2. \A n \in Movers \ {m} : (MoverReady(n))'
    BY <1>1, <1>2, ReadyKeeps DEF OneMover
  <2>3. (MoverReady(m))'
    <3>1. Made \in Recorded /\ rows[Made].sess \in Recorded
      BY <1>1, HandOverAssumption DEF Recorded, Numbered, Owned, Rows
    <3>2. QED
      BY <1>2, <1>4, <3>1 DEF Begun, MoverReady, At
  <2>4. QED
    BY <2>1, <2>2, <2>3 DEF Ready
<1>6. OneTurn /\ Accounts
  BY <1>2, <1>4 DEF OneMover, OneTurn, Turn, Accounts, Frame
<1>7. QED
  BY <1>2, <1>3, <1>4, <1>5, <1>6 DEF Kept, Base, OnStays, Frame, SessionsStep

(* So does the recording of a replacement. *)
LEMMA InsertKeeps ==
  ASSUME Base, NEW m \in Movers, NEW resumed \in BOOLEAN, Insert(m, resumed)
  PROVE  Kept
<1>1. TypeOK /\ Numbered /\ Owned /\ Ready
  BY DEF Base
<1>2. /\ MoverStep(m) /\ UNCHANGED <<robbed, kills>>
      /\ Numbered' /\ Owned' /\ Ready' /\ Recorded \subseteq Recorded'
  BY <1>1, InsertStep
<1>3. PICK n \in Rows \ Recorded : Grows(n)
  BY <1>1, InsertStep
<1>5. TypeOK'
  <2>1. /\ rows' \in [Rows -> RowRecord] /\ pane' \in [Rows -> Panes]
        /\ session' \in [Sessions -> SessionRecord] /\ holder' \in Sessions \cup {Pool}
        /\ exits' \in [Rows -> Nat]
    BY <1>1, <1>3, TypeParts DEF Grows, Panes
  <2>2. mover' \in [Movers -> MoverRecord] /\ UNCHANGED <<owner, look, commands>>
    BY <1>2 DEF MoverStep, OneMover
  <2>3. QED
    BY <1>1, <1>2, <2>1, <2>2
       DEF TypeOK, RowRecord, Panes, SessionRecord, MoverRecord, Steps, Sessions
<1>6. RowsKept
  BY <1>3, RecordedRows, <1>1 DEF Grows, RowsKept, Live
<1>7. OneTurn /\ Accounts
  BY <1>2, <1>3 DEF MoverStep, OneMover, OneTurn, Turn, Accounts
<1>8. QED
  BY <1>2, <1>3, <1>5, <1>6, <1>7 DEF Kept, Base, OnStays, Grows

(* Each step of a switch, restart or pause, one by one. *)
LEMMA MoveKeeps ==
  ASSUME Base, Outcomes, NEW m \in Movers, Move(m)
  PROVE  Kept
<1>1. TypeOK /\ Numbered /\ Owned /\ Ready
  BY DEF Base
<1>2. ASSUME MoverStep(m), Frame, ExitsStep, UNCHANGED <<robbed, kills>>
      PROVE  Kept
  <2>1. robbed' \subseteq Rows /\ robbed \subseteq robbed' /\ kills' \in 0 .. MaxKills
        /\ exits' \in [Rows -> Nat]
    BY <1>1, <1>2 DEF TypeOK, ExitsStep
  <2>2. QED
    BY <1>2, <2>1, MoverKeeps
<1>3. CASE Recheck(m) \/ SpawnFails(m)
  BY <1>1, <1>2, <1>3, RecheckStep, SpawnFailsStep
<1>4. CASE Choose(m) \/ Clear(m) \/ Mark(m)
  BY <1>1, <1>2, <1>4, ChooseStep, ClearStep, MarkStep
<1>5. CASE SendExit(m) \/ Kill(m) \/ End(m)
  BY <1>1, <1>2, <1>5, SendExitStep, KillStep, EndStep
<1>6. CASE TakeOver(m) \/ Started(m)
  BY <1>1, <1>2, <1>6, TakeOverStep, StartedStep
<1>7. CASE Unmark(m)
  <2>1. /\ MoverStep(m) /\ Frame /\ ExitsStep /\ kills' = kills
        /\ robbed \subseteq robbed' /\ robbed' \subseteq Rows
    BY <1>1, <1>7, UnmarkStep
  <2>2. kills' \in 0 .. MaxKills /\ exits' \in [Rows -> Nat]
    BY <1>1, <2>1 DEF TypeOK, ExitsStep
  <2>3. QED
    BY <2>1, <2>2, MoverKeeps
<1>8. CASE Park(m)
  <2>1. /\ MoverStep(m) /\ Frame /\ Parking(m) /\ UNCHANGED <<exits, robbed, kills>>
    BY <1>1, <1>8, ParkStep DEF Parking
  <2>2. robbed' \subseteq Rows /\ robbed \subseteq robbed' /\ kills' \in 0 .. MaxKills
        /\ exits' \in [Rows -> Nat]
    BY <1>1, <2>1 DEF TypeOK
  <2>3. QED
    BY <2>1, <2>2, MoverKeeps
<1>9. CASE Abandon(m)
  <2>1. /\ MoverStep(m) /\ Frame /\ Abandoning(m) /\ UNCHANGED <<robbed, kills>>
    BY <1>1, <1>9, AbandonStep DEF Abandoning
  <2>2. robbed' \subseteq Rows /\ robbed \subseteq robbed' /\ kills' \in 0 .. MaxKills
    BY <1>1, <2>1 DEF TypeOK
  <2>3. exits' \in [Rows -> Nat]
    <3>1. mover[m].row \in Rows
      BY <1>1, <2>1, RecordedRows DEF Abandoning, Ready, MoverReady, At
    <3>2. QED
      BY <1>1, <2>1, <3>1, TypeParts DEF Abandoning
  <2>4. QED
    BY <2>1, <2>2, <2>3, MoverKeeps
<1>10. CASE \E resumed \in BOOLEAN : Insert(m, resumed)
  BY <1>10, InsertKeeps
<1>11. QED
  BY <1>3, <1>4, <1>5, <1>6, <1>7, <1>8, <1>9, <1>10 DEF Move

(* Every step there is keeps the tables consistent and moves one command at most. *)
LEMMA NextKeeps ==
  ASSUME Base, Outcomes, [Next]_vars
  PROVE  Kept
<1>1. TypeOK /\ Numbered /\ Owned /\ Ready
  BY DEF Base
<1>2. CASE Agent
  <2>1. AgentStep
    BY <1>1, <1>2, ClaimStep, StartHookStep, BeatStep, ExitStep, DieStep DEF Agent
  <2>2. QED
    BY <2>1, AgentWatches, WatchKeeps
<1>3. CASE Owner
  BY <1>1, <1>3, OwnerStopStep, OwnerKillStep, OwnerEndStep, WatchKeeps DEF Owner
<1>4. CASE Look \/ Record \/ LeaseLapses
  BY <1>1, <1>4, LookStep, RecordStep, LeaseStep, WatchKeeps
<1>5. CASE \E s \in Sessions : Lapse(s)
  BY <1>1, <1>5, LapseStep, WatchKeeps
<1>6. CASE \E m \in Movers : Move(m)
  BY <1>6, MoveKeeps
<1>7. CASE \E m \in Movers : Killed(m)
  <2>1. PICK m \in Movers : Killed(m)
    BY <1>7
  <2>2. /\ MoverStep(m) /\ Frame /\ ExitsStep /\ robbed' = robbed /\ kills' \in 0 .. MaxKills
    BY <1>1, <2>1, KilledStep
  <2>3. robbed' \subseteq Rows /\ robbed \subseteq robbed' /\ exits' \in [Rows -> Nat]
    BY <1>1, <2>2 DEF TypeOK, ExitsStep
  <2>4. QED
    BY <2>2, <2>3, MoverKeeps
<1>8. CASE \E m \in Movers : \E v \in {"switch", "restart", "pause"} : Read(m, v)
  BY <1>8, ReadKeeps
<1>9. CASE UNCHANGED vars
  <2>1. AgentStep
    BY <1>1, <1>9, Still DEF vars, AgentStep, Aside, Frame
  <2>2. QED
    BY <2>1, AgentWatches, WatchKeeps
<1>10. QED
  BY <1>2, <1>3, <1>4, <1>5, <1>6, <1>7, <1>8, <1>9 DEF Next

-----------------------------------------------------------------------------
(* The outcomes of the stops, and the exits they leave to be announced. *)

(* A stop's outcome is known from its end on, and of a row only one stop is withheld:
   end_fleet_agent_if_live ends a row once. *)
LEMMA OutcomesKept ==
  ASSUME Base, Outcomes, Kept
  PROVE  Outcomes'
<1>1. /\ \A m \in Movers : ~ At(m, "idle") => mover[m].row \in Recorded
      /\ \A m \in Movers : Handed(m) => mover[m].row \in Recorded /\ ~ Live(mover[m].row)
  BY DEF Base, Ready, MoverReady, Outcomes, Handed, At
<1>2. ASSUME NEW m \in Movers
      PROVE  /\ mover'[m].res # "none" => mover'[m].pc \in {"unmark", "parked", "respawn", "take", "started", "abandon"}
             /\ mover'[m].pc = "unmark" => mover'[m].res # "none"
             /\ mover'[m].pc = "parked" => mover'[m].res \in {"withheld", "plain"}
             /\ mover'[m].pc = "abandon" => mover'[m].res = "withheld"
             /\ mover'[m].pc \in {"recheck", "choose", "clear", "respawn", "abandon"} => ~ mover'[m].pausing
  <2>1. CASE mover'[m] = mover[m]
    BY <2>1 DEF Outcomes, At, Handed, Withheld
  <2>2. CASE mover'[m] = Idle
    BY <2>2 DEF Idle
  <2>3. CASE Advance(m)
    BY <2>3, TypeParts DEF Base, Outcomes, Advance, Same, Kin, Then, Stopped, At, Handed, Withheld, MoverRecord
  <2>4. CASE At(m, "idle") /\ Begun(m)
    BY <2>4 DEF Begun
  <2>5. QED
    BY <2>1, <2>2, <2>3, <2>4 DEF Kept, OneTurn, Turn
<1>3. ASSUME NEW m \in Movers, (Handed(m))'
      PROVE  /\ ~ (Live(mover[m].row))' /\ mover'[m].row = mover[m].row
             /\ (Withheld(m))' => rows'[mover[m].row].by = "stopped"
             /\ \/ Handed(m) /\ mover'[m].res = mover[m].res
                \/ Live(mover[m].row) /\ (Withheld(m))'
                \/ (~ Withheld(m))'
  <2>1. CASE mover'[m] = mover[m]
    BY <1>1, <1>3, <2>1 DEF Outcomes, Kept, RowsKept, Handed, Withheld
  <2>2. CASE mover'[m] = Idle
    BY <1>3, <2>2 DEF Handed, Idle
  <2>3. CASE Advance(m)
    <3>1. CASE Same(m)
      BY <1>1, <1>3, <3>1 DEF Outcomes, Kept, RowsKept, Handed, Withheld, Same, Kin
    <3>2. CASE Kin(m) /\ Then(m, {"end"}, {"unmark"}) /\ Stopped(m)
      <4>1. mover[m].row \in Recorded
        BY <1>1, <3>2 DEF Then, At
      <4>2. QED
        BY <1>3, <3>2, <4>1 DEF Stopped, Kin, Kept, RowsKept, Handed, Withheld, Live
    <3>3. QED
      BY <1>3, <2>3, <3>1, <3>2 DEF Advance, Handed
  <2>4. CASE Begun(m)
    BY <1>3, <2>4 DEF Begun, Handed
  <2>5. QED
    BY <2>1, <2>2, <2>3, <2>4 DEF Kept, OneTurn, Turn
<1>4. ASSUME NEW m \in Movers, NEW n \in Movers, (Withheld(m))', (Withheld(n))',
             mover'[n].row = mover'[m].row
      PROVE  n = m
  <2>1. (Handed(m))' /\ (Handed(n))'
    BY <1>4 DEF Handed, Withheld
  <2>2. SUFFICES ASSUME m # n PROVE FALSE
    OBVIOUS
  <2>3. /\ mover'[m].row = mover[m].row /\ mover'[n].row = mover[n].row
        /\ (Handed(m) /\ Withheld(m)) \/ Live(mover[m].row)
        /\ (Handed(n) /\ Withheld(n)) \/ Live(mover[n].row)
    BY <1>3, <1>4, <2>1 DEF Withheld
  <2>4. mover'[m] = mover[m] \/ mover'[n] = mover[n]
    BY <2>2 DEF Kept, OneTurn
  <2>5. (Handed(m) /\ Withheld(m)) \/ (Handed(n) /\ Withheld(n))
    BY <1>4, <2>1, <2>4 DEF Handed, Withheld
  <2>6. Handed(m) /\ Withheld(m) /\ Handed(n) /\ Withheld(n)
    BY <1>1, <1>4, <2>3, <2>5
  <2>7. QED
    BY <1>4, <2>2, <2>3, <2>6 DEF Outcomes
<1>5. QED
  <2>1. \A m \in Movers : (Handed(m))' => rows'[mover'[m].row].st # "live"
    BY <1>3 DEF Live
  <2>2. \A m \in Movers : (Withheld(m))' => rows'[mover'[m].row].by = "stopped"
    BY <1>3 DEF Handed, Withheld
  <2>3. QED
    BY <1>2, <1>4, <2>1, <2>2 DEF Outcomes, At, Handed, Withheld, Live

(* A row whose exit is withheld ended for a replacement, and ends no more. *)
LEMMA RowsEnd ==
  ASSUME Base
  PROVE  \A r \in Recorded : ~ Live(r) => rows[r].st = "ended"
<1>1. \A r \in Recorded : r \in Rows /\ rows[r].st # "none" /\ rows[r] \in RowRecord
  BY RecordedRows, TypeParts DEF Base, Numbered, Recorded
<1>2. QED
  BY <1>1 DEF Live, RowRecord

(* An exit that a hand-over withholds is announced by nobody else meanwhile. *)
LEMMA UnannouncedKept ==
  ASSUME Base, Outcomes, Unannounced, Kept
  PROVE  Unannounced'
<1> DEFINE Hushed(m) == Withheld(m) /\ ~ mover[m].pausing
<1>1. TypeOK /\ Numbered /\ Owned /\ Ready /\ exits \in [Rows -> Nat]
  BY TypeParts DEF Base
<1>2. ASSUME NEW m \in Movers, Withheld(m)
      PROVE  /\ mover[m].row \in Recorded /\ mover[m].row \in Rows /\ ~ At(m, "idle")
             /\ ~ Live(mover[m].row) /\ rows[mover[m].row].by = "stopped"
             /\ rows[mover[m].row].st = "ended"
  <2>1. ~ At(m, "idle") /\ ~ Live(mover[m].row) /\ rows[mover[m].row].by = "stopped"
    BY <1>2 DEF Outcomes, Withheld, Handed, At
  <2>2. mover[m].row \in Recorded
    BY <1>1, <2>1 DEF Ready, MoverReady
  <2>3. QED
    BY <1>1, <2>1, <2>2, RecordedRows, RowsEnd
(* It is withheld from its end on. *)
<1>3. ASSUME NEW m \in Movers, (Hushed(m))'
      PROVE  /\ mover'[m].row = mover[m].row /\ mover'[m] # Idle
             /\ \/ Hushed(m)
                \/ /\ Live(mover[m].row) /\ exits'[mover[m].row] = exits[mover[m].row]
                   /\ rows'[mover[m].row].paused = FALSE
                   /\ mover[m].row \in Recorded
  <2>1. mover'[m] # Idle
    BY <1>3 DEF Withheld, Idle
  <2>2. CASE mover'[m] = mover[m]
    BY <1>3, <2>1, <2>2 DEF Withheld
  <2>3. CASE Advance(m)
    <3>1. CASE Same(m)
      BY <1>3, <2>1, <3>1 DEF Withheld, Same, Kin
    <3>2. CASE Kin(m) /\ Then(m, {"end"}, {"unmark"}) /\ Stopped(m)
      <4>1. mover[m].row \in Recorded /\ mover[m].pausing \in BOOLEAN
        BY <1>1, <3>2, TypeParts DEF Then, At, Ready, MoverReady, MoverRecord
      <4>2. QED
        BY <1>3, <2>1, <3>2, <4>1 DEF Stopped, Kin, Withheld
    <3>3. QED
      BY <1>3, <2>3, <3>1, <3>2 DEF Advance, Withheld
  <2>4. CASE Begun(m)
    BY <1>3, <2>4 DEF Begun, Withheld
  <2>5. QED
    BY <2>1, <2>2, <2>3, <2>4 DEF Kept, OneTurn, Turn
<1>4. \A r \in Rows : rows'[r].st # "ended" => exits'[r] = 0
  <2>1. CASE RowsStep /\ ExitsStep
    BY <2>1 DEF RowsStep, ExitsStep, Unannounced
  <2>2. CASE RowsStep /\ exits' = exits
    BY <2>2 DEF RowsStep, Unannounced
  <2>3. CASE \E m \in Movers : Abandoning(m)
    <3>1. PICK m \in Movers : Abandoning(m)
      BY <2>3
    <3>2. rows[mover[m].row].st = "ended"
      BY <1>2, <3>1 DEF Abandoning, Outcomes
    <3>3. QED
      BY <1>1, <3>1, <3>2 DEF Abandoning, Unannounced
  <2>4. CASE \E n \in Rows \ Recorded : Grows(n)
    <3>1. PICK n \in Rows \ Recorded : Grows(n)
      BY <2>4
    <3>2. \A r \in Rows : rows'[r].st # "ended" => rows[r].st # "ended"
      <4>1. rows[n].st = "none"
        BY <1>1, <3>1, HandOverAssumption DEF Numbered, Recorded, Rows
      <4>2. QED
        BY <3>1, <4>1 DEF Grows
    <3>3. QED
      BY <3>1, <3>2 DEF Grows, Unannounced
  <2>5. QED
    BY <2>1, <2>2, <2>3, <2>4 DEF Kept, Accounts, Parking
(* Nothing else announces it. *)
<1>5. ASSUME NEW m \in Movers, Hushed(m), mover'[m] # Idle, mover'[m].row = mover[m].row
      PROVE  exits'[mover[m].row] = 0 /\ rows'[mover[m].row].paused = FALSE
  <2>1. PICK r \in Rows : r = mover[m].row
    BY <1>2, <1>5
  <2>2. /\ ~ Live(r) /\ rows[r].by = "stopped" /\ exits[r] = 0 /\ ~ Paused(r) /\ r \in Recorded
        /\ rows[r].paused \in BOOLEAN
    BY <1>2, <1>5, <2>1, TypeParts, <1>1 DEF Unannounced, RowRecord
  <2>3. CASE RowsStep /\ ExitsStep
    <3>1. ~ rows'[r].paused /\ rows'[r].paused \in BOOLEAN
      BY <2>2, <2>3 DEF ExitsStep, RowsStep, RowsType, RowRecord
    <3>2. QED
      BY <2>1, <2>2, <2>3, <3>1 DEF ExitsStep
  <2>4. CASE RowsStep /\ \E n \in Movers : Parking(n)
    <3>1. rows'[r].paused \in BOOLEAN /\ ~ rows'[r].paused
      BY <2>2, <2>4 DEF Parking, RowsStep, RowsType, RowRecord
    <3>2. QED
      BY <2>1, <2>2, <2>4, <3>1 DEF Parking
  <2>5. CASE \E n \in Movers : Abandoning(n)
    <3>1. PICK n \in Movers : Abandoning(n)
      BY <2>5
    <3>2. mover[n].row # r
      BY <1>5, <2>1, <3>1 DEF Abandoning, Outcomes
    <3>3. QED
      BY <1>1, <2>1, <2>2, <3>1, <3>2 DEF Abandoning, Paused
  <2>6. CASE \E n \in Rows \ Recorded : Grows(n)
    BY <2>1, <2>2, <2>6 DEF Grows, Paused
  <2>7. QED
    BY <2>3, <2>4, <2>5, <2>6 DEF Kept, Accounts
<1>6. ASSUME NEW m \in Movers, (Hushed(m))'
      PROVE  exits'[mover'[m].row] = 0 /\ rows'[mover'[m].row].paused = FALSE
  <2>1. CASE Hushed(m)
    BY <1>3, <1>5, <1>6, <2>1
  <2>2. CASE /\ Live(mover[m].row) /\ exits'[mover[m].row] = exits[mover[m].row]
             /\ rows'[mover[m].row].paused = FALSE /\ mover[m].row \in Recorded
    <3>1. exits[mover[m].row] = 0
      BY <1>1, <2>2, RecordedRows DEF Unannounced, Live
    <3>2. QED
      BY <1>3, <1>6, <2>2, <3>1
  <2>3. QED
    BY <1>3, <1>6, <2>1, <2>2
<1>7. QED
  BY <1>4, <1>6 DEF Unannounced, Withheld, Paused

-----------------------------------------------------------------------------
(* A board whose start hooks keep away from a marked session: the mark of a stop holds. *)

(* Without a late start hook a row stays on the session that was read of it. *)
LEMMA SameSessionKept ==
  ASSUME Base, Outcomes, SameSession, Kept, ~ LateStarts
  PROVE  SameSession'
<1>1. ASSUME NEW m \in Movers, Reads(m)
      PROVE  /\ mover[m].row \in Recorded /\ mover[m].snap # "none"
             /\ rows'[mover[m].row].sess = mover[m].sess /\ rows'[mover[m].row].own = mover[m].sess
  <2>1. mover[m].row \in Recorded
    BY <1>1 DEF Reads, Base, Ready, MoverReady, At
  <2>2. QED
    BY <1>1, <2>1 DEF SameSession, Kept, RowsKept
<1>2. ASSUME NEW m \in Movers, (Reads(m))'
      PROVE  /\ mover'[m].snap # "none"
             /\ rows'[mover'[m].row].sess = mover'[m].sess /\ rows'[mover'[m].row].own = mover'[m].sess
  <2>1. CASE mover'[m] = mover[m]
    BY <1>1, <1>2, <2>1 DEF Reads
  <2>2. CASE mover'[m] = Idle
    BY <1>2, <2>2 DEF Reads, Idle
  <2>3. CASE Advance(m)
    <3>1. Reads(m) /\ Kin(m)
      BY <1>2, <2>3 DEF Advance, Same, Then, Reads
    <3>2. QED
      BY <1>1, <3>1 DEF Kin
  <2>4. CASE At(m, "idle") /\ Begun(m)
    <3>1. /\ Live(Made) /\ mover'[m].snap # "none" /\ mover'[m].row = Made
          /\ mover'[m].sess = rows[Made].sess /\ session[rows[Made].own].on
      BY <1>2, <2>4 DEF Begun, Reads
    <3>2. Made \in Recorded /\ Made \in Rows
      BY <3>1, HandOverAssumption DEF Base, Numbered, Recorded, Rows
    <3>3. rows[Made].sess = rows[Made].own
      BY <3>1, <3>2 DEF Base, Owned
    <3>4. rows'[Made].sess = rows[Made].sess /\ rows'[Made].own = rows[Made].own
      BY <3>2, <3>3 DEF Kept, RowsKept
    <3>5. QED
      BY <3>1, <3>3, <3>4
  <2>5. QED
    BY <2>1, <2>2, <2>3, <2>4 DEF Kept, OneTurn, Turn
<1>3. QED
  BY <1>2 DEF SameSession, Reads

(* A mark goes from a row that is being stopped only when another row's hand-over
   takes it back. *)
Holding ==
  \A s \in Sessions :
    \/ session'[s].mark = session[s].mark /\ session'[s].fresh = session[s].fresh
    \/ Put(s)
    \/ \A m \in Movers : Marks(m) /\ (Marks(m))' /\ Fresh(mover[m].row) /\ mover[m].sess = s
                           => mover[m].row \in robbed'

(* A start hook takes no mark of a row that is being stopped. *)
LEMMA StartHookHolds ==
  ASSUME Base, SameSession, MarkHolds, ~ LateStarts, NEW r \in Rows, StartHook(r)
  PROVE  Holding
<1> DEFINE s == rows[r].own
<1>1. /\ Running(r) /\ ~ HandedOver(r, s) /\ Live(r) /\ r = Made
      /\ \A t \in Sessions \ {s} : session'[t] = session[t]
  BY RecordedRows, TypeParts DEF StartHook, Base
<1>2. \A m \in Movers : Marks(m) /\ Fresh(mover[m].row) => mover[m].sess # s
  <2>1. SUFFICES ASSUME NEW m \in Movers, Marks(m), Fresh(mover[m].row), mover[m].sess = s
                 PROVE  FALSE
    OBVIOUS
  <2>2. HandedOver(mover[m].row, mover[m].sess) /\ mover[m].row = r
    BY <1>1, <2>1 DEF MarkHolds, Fresh
  <2>3. QED
    BY <1>1, <2>1, <2>2
<1>3. QED
  BY <1>1, <1>2 DEF Holding

(* No step takes the mark of a row being stopped, but the unmark of another row's
   hand-over, which is what makes the row robbed. *)
LEMMA MarksHeld ==
  ASSUME Base, Outcomes, SameSession, MarkHolds, OneMark, ~ LateStarts, [Next]_vars
  PROVE  Holding
<1>1. TypeOK /\ Numbered /\ Owned /\ Ready
  BY DEF Base
<1>2. MarksStep => Holding
  BY DEF MarksStep, Holding
<1>3. session' = session => Holding
  BY DEF Holding
<1>4. CASE Agent
  BY <1>1, <1>2, <1>4, ClaimStep, StartHookHolds, BeatStep, ExitStep, DieStep DEF Agent
<1>5. CASE Owner
  BY <1>1, <1>2, <1>5, OwnerStopStep, OwnerKillStep, OwnerEndStep DEF Owner
<1>6. CASE Look \/ Record \/ LeaseLapses
  BY <1>1, <1>2, <1>6, LookStep, RecordStep, LeaseStep
<1>7. CASE \E s \in Sessions : Lapse(s)
  <2>1. PICK s \in Sessions : Lapse(s)
    BY <1>7
  <2>2. \A t \in Sessions \ {s} : session'[t] = session[t]
    BY <1>1, <2>1, LapseStep
  <2>3. \A m \in Movers : Marks(m) => mover[m].sess # s
    BY <2>1 DEF Lapse, Marks
  <2>4. QED
    BY <2>2, <2>3 DEF Holding
<1>8. CASE \E m \in Movers : Move(m)
  <2>1. PICK m \in Movers : Move(m)
    BY <1>8
  <2>2. CASE Recheck(m) \/ SpawnFails(m) \/ Choose(m) \/ Clear(m) \/ Mark(m) \/ SendExit(m)
    BY <1>1, <1>2, <2>2, RecheckStep, SpawnFailsStep, ChooseStep, ClearStep, MarkStep, SendExitStep
  <2>3. CASE Kill(m) \/ End(m) \/ TakeOver(m) \/ Started(m) \/ Park(m) \/ Abandon(m)
    BY <1>1, <1>2, <2>3, KillStep, EndStep, TakeOverStep, StartedStep, ParkStep, AbandonStep
  <2>4. CASE Unmark(m)
    <3>1. /\ ~ (Marks(m))'
          /\ \A t \in Sessions :
               \/ session'[t].mark = session[t].mark /\ session'[t].fresh = session[t].fresh
               \/ /\ Marks(m)
                  /\ \A n \in Movers : Marks(n) /\ mover[n].sess = t
                       => mover[n].row \in robbed' \cup {mover[m].row}
      BY <1>1, <2>4, UnmarkStep
    <3>2. \A n \in Movers \ {m} :
            Marks(m) /\ Marks(n) /\ Fresh(mover[n].row) => mover[n].row # mover[m].row
      BY DEF OneMark
    <3>3. QED
      BY <3>1, <3>2 DEF Holding
  <2>5. CASE \E resumed \in BOOLEAN : Insert(m, resumed)
    BY <1>3, <2>5 DEF Insert
  <2>6. QED
    BY <2>1, <2>2, <2>3, <2>4, <2>5 DEF Move
<1>9. CASE \E m \in Movers : Killed(m)
  BY <1>3, <1>9 DEF Killed
<1>10. CASE \E m \in Movers : \E v \in {"switch", "restart", "pause"} : Read(m, v)
  BY <1>3, <1>10 DEF Read
<1>11. CASE UNCHANGED vars
  BY <1>3, <1>11 DEF vars
<1>12. QED
  BY <1>4, <1>5, <1>6, <1>7, <1>8, <1>9, <1>10, <1>11 DEF Next

(* The newest row stays the newest for what was read of it. *)
LEMMA FreshBefore ==
  ASSUME Base, Kept, NEW r \in Recorded, (Fresh(r))'
  PROVE  Fresh(r) /\ Made' = Made
<1>1. CASE Made' = Made
  BY <1>1 DEF Fresh, Kept
<1>2. CASE \E n \in Rows \ Recorded : Grows(n)
  BY <1>2 DEF Fresh, Grows
<1>3. QED
  BY <1>1, <1>2 DEF Kept, Accounts

(* From the compare-and-set until it is taken back, a hand-over's mark holds. *)
LEMMA MarkHoldsKept ==
  ASSUME Base, Outcomes, SameSession, MarkHolds, Kept, Holding
  PROVE  MarkHolds'
<1>1. ASSUME NEW m \in Movers, (Marks(m))', (Fresh(mover[m].row))'
      PROVE  /\ mover'[m].row = mover[m].row /\ mover'[m].sess = mover[m].sess
             /\ mover[m].row \in Recorded /\ mover[m].sess \in Sessions
             /\ Marks(m) \/ Put(mover[m].sess)
  <2>1. ~ At(m, "idle") /\ Kin(m) /\ (Marks(m) \/ Put(mover[m].sess))
    <3>1. CASE mover'[m] = mover[m]
      BY <1>1, <3>1 DEF Marks, At, Kin
    <3>2. CASE mover'[m] = Idle
      BY <1>1, <3>2 DEF Marks, Idle
    <3>3. CASE Advance(m)
      BY <1>1, <3>3 DEF Advance, Same, Kin, Then, Marks, At
    <3>4. CASE Begun(m)
      BY <1>1, <3>4 DEF Begun, Marks
    <3>5. QED
      BY <3>1, <3>2, <3>3, <3>4 DEF Kept, OneTurn, Turn
  <2>2. QED
    BY <2>1, RecordedRows DEF Kin, Base, Ready, MoverReady
<1>2. SUFFICES ASSUME NEW m \in Movers, (Marks(m))', (Fresh(mover[m].row))'
               PROVE  (HandedOver(mover[m].row, mover[m].sess))'
  BY DEF MarkHolds
<1>3. PICK r \in Recorded, s \in Sessions :
        /\ r = mover[m].row /\ s = mover[m].sess /\ r = mover'[m].row /\ s = mover'[m].sess
        /\ Marks(m) \/ Put(s)
  BY <1>1, <1>2
<1>4. Fresh(r) /\ r = Made /\ (Fresh(r))'
  <2>1. (Fresh(r))'
    BY <1>2, <1>3 DEF Fresh
  <2>2. QED
    BY <2>1, FreshBefore DEF Fresh
<1>5. r <= session'[s].mark /\ session'[s].fresh
  <2>1. CASE Put(s)
    BY <1>4, <2>1, HandOverAssumption DEF Put, Base, Numbered, Rows
  <2>2. CASE Marks(m)
    <3>1. HandedOver(r, s)
      BY <1>3, <1>4, <2>2 DEF MarkHolds
    <3>2. r \notin robbed'
      BY <1>4 DEF Fresh
    <3>3. (session'[s].mark = session[s].mark /\ session'[s].fresh = session[s].fresh) \/ Put(s)
      BY <1>2, <1>3, <1>4, <2>2, <3>2 DEF Holding
    <3>4. QED
      BY <2>1, <3>1, <3>3 DEF HandedOver
  <2>3. QED
    BY <1>3, <2>1, <2>2
<1>6. QED
  BY <1>3, <1>5 DEF HandedOver

(* While one hand-over's mark holds the compare-and-set refuses every other. *)
LEMMA OneMarkKept ==
  ASSUME Base, SameSession, MarkHolds, OneMark, Kept
  PROVE  OneMark'
(* Whose session is marked had it marked, or found it free. *)
<1>1. ASSUME NEW m \in Movers, (Marks(m))'
      PROVE  /\ mover'[m].row = mover[m].row /\ mover[m].row \in Recorded /\ Reads(m)
             /\ Marks(m) \/ ~ HandedOver(mover[m].row, mover[m].sess)
  <2>1. /\ Kin(m) /\ ~ At(m, "idle") /\ Reads(m)
        /\ Marks(m) \/ ~ HandedOver(mover[m].row, mover[m].sess)
    <3>1. CASE mover'[m] = mover[m]
      BY <1>1, <3>1 DEF Marks, At, Kin, Reads
    <3>2. CASE mover'[m] = Idle
      BY <1>1, <3>2 DEF Marks, Idle
    <3>3. CASE Advance(m)
      BY <1>1, <3>3 DEF Advance, Same, Kin, Then, Marks, At, Reads
    <3>4. CASE Begun(m)
      BY <1>1, <3>4 DEF Begun, Marks
    <3>5. QED
      BY <3>1, <3>2, <3>3, <3>4 DEF Kept, OneTurn, Turn
  <2>2. QED
    BY <2>1 DEF Kin, Base, Ready, MoverReady
<1>2. SUFFICES ASSUME NEW m \in Movers, NEW n \in Movers, m # n, mover'[m].row = mover'[n].row,
                      (Fresh(mover[m].row))', (Marks(m))', (Marks(n))'
               PROVE  FALSE
  BY DEF OneMark
<1>3. PICK r \in Recorded : r = mover[m].row /\ r = mover'[m].row /\ r = mover[n].row
  BY <1>1, <1>2
<1>4. Fresh(r)
  <2>1. (Fresh(r))'
    BY <1>2, <1>3 DEF Fresh
  <2>2. QED
    BY <2>1, FreshBefore
<1>5. mover[m].sess = mover[n].sess
  BY <1>1, <1>2, <1>3 DEF SameSession
<1>6. Marks(m) \/ Marks(n)
  BY <1>2 DEF Kept, OneTurn, Marks
<1>7. HandedOver(r, mover[m].sess)
  BY <1>3, <1>4, <1>5, <1>6 DEF MarkHolds
<1>8. QED
  BY <1>1, <1>2, <1>3, <1>4, <1>5, <1>7 DEF OneMark

(* Of hand-overs that stop a row one has its mark, and once the row has ended no other
   can end it. *)
LEMMA OneGripKept ==
  ASSUME Base, Outcomes, SameSession, OneMark, OneGrip, Kept
  PROVE  OneGrip'
<1> DEFINE Stopping(m) == Stops(m) /\ Live(mover[m].row)
<1>1. ASSUME NEW m \in Movers, (Grip(m))'
      PROVE  /\ mover'[m].row = mover[m].row /\ mover[m].row \in Recorded
             /\ Grip(m) \/ Stopping(m)
  <2>1. CASE mover'[m] = mover[m]
    BY <1>1, <2>1 DEF Grip, Handed, Base, Ready, MoverReady, At, Outcomes
  <2>2. CASE mover'[m] = Idle
    BY <1>1, <2>2 DEF Idle, Grip, Handed
  <2>3. CASE Advance(m)
    <3>1. Kin(m) /\ ~ At(m, "idle")
      BY <2>3 DEF Advance, Same, Then, At
    <3>2. Grip(m) \/ Stopping(m)
      <4>1. Reads(m) => mover[m].snap # "none"
        BY DEF SameSession
      <4>2. QED
        BY <1>1, <2>3, <4>1 DEF Advance, Same, Kin, Then, Stops, Marks, At, Stopped, Grip, Handed, Reads
    <3>3. QED
      BY <3>1, <3>2 DEF Kin, Base, Ready, MoverReady
  <2>4. CASE Begun(m)
    BY <1>1, <2>4 DEF Begun, Grip, Handed
  <2>5. QED
    BY <2>1, <2>2, <2>3, <2>4 DEF Kept, OneTurn, Turn
<1>2. ASSUME NEW m \in Movers, NEW n \in Movers, m # n, mover[m].row = mover[n].row,
             mover[m].row \in Recorded, mover[m].row \notin robbed, Stopping(m)
      PROVE  ~ Stopping(n) /\ ~ Grip(n)
  <2>1. Fresh(mover[m].row)
    BY <1>2, RecordedRows DEF Base, Fresh
  <2>2. Marks(m) /\ ~ Marks(n)
    BY <1>2, <2>1 DEF OneMark, Stops
  <2>3. ~ Handed(n)
    BY <1>2 DEF Outcomes
  <2>4. Reads(n) => mover[n].snap # "none"
    BY DEF SameSession
  <2>5. QED
    BY <2>2, <2>3, <2>4 DEF Stops, Grip, Reads, Marks
<1>3. SUFFICES ASSUME NEW m \in Movers, NEW n \in Movers, m # n, mover'[m].row = mover'[n].row,
                      mover'[m].row \notin robbed', (Grip(m))', (Grip(n))'
               PROVE  FALSE
  BY DEF OneGrip
<1>4. /\ mover[m].row \in Recorded /\ mover[m].row = mover[n].row /\ mover[m].row \notin robbed
      /\ Grip(m) \/ Stopping(m)
      /\ Grip(n) \/ Stopping(n)
  BY <1>1, <1>3 DEF Kept
<1>5. ~ (Grip(m) /\ Grip(n))
  BY <1>3, <1>4 DEF OneGrip
<1>6. QED
  BY <1>2, <1>3, <1>4, <1>5

(* Nor does a stop whose row was ended by a listing: the mark keeps listings away. *)
LEMMA AnnouncedOnceKept ==
  ASSUME Base, Outcomes, Unannounced, SameSession, MarkHolds, AnnouncedOnce, Kept
  PROVE  AnnouncedOnce'
<1>1. /\ TypeOK /\ Numbered /\ Owned /\ Ready /\ exits \in [Rows -> Nat] /\ Made \in Rows
      /\ Made \in Recorded
  BY TypeParts, HandOverAssumption DEF Base, Numbered, Recorded, Rows
(* While the mark holds a stop whose row another ended did not work. *)
<1>2. ASSUME NEW m \in Movers, (Fresh(mover[m].row))'
      PROVE  mover'[m].res # "plain"
  <2>1. CASE mover'[m] = mover[m] \/ (Advance(m) /\ Same(m))
    <3>1. SUFFICES ASSUME mover[m].res = "plain" PROVE FALSE
      BY <1>2, <2>1 DEF Same
    <3>2. ~ At(m, "idle")
      BY <3>1 DEF Outcomes, At
    <3>3. mover[m].row \in Recorded
      BY <1>1, <3>2 DEF Ready, MoverReady
    <3>4. PICK r \in Recorded : r = mover[m].row /\ r = mover'[m].row
      BY <2>1, <3>3 DEF Same, Kin
    <3>5. (Fresh(r))'
      BY <1>2, <3>4 DEF Fresh
    <3>6. Fresh(r)
      BY <3>5, FreshBefore
    <3>7. QED
      BY <3>1, <3>4, <3>6 DEF AnnouncedOnce
  <2>2. CASE mover'[m] = Idle
    BY <2>2 DEF Idle
  <2>3. CASE Advance(m) /\ ~ Same(m)
    <3>1. SUFFICES ASSUME mover'[m].res = "plain" PROVE FALSE
      OBVIOUS
    <3>2. /\ Kin(m) /\ At(m, "end")
          /\ ~ HandedOver(mover[m].row, rows[mover[m].row].sess)
      BY <2>3, <3>1 DEF Advance, Then, Stopped, At
    <3>3. mover[m].row \in Recorded
      BY <1>1, <3>2 DEF Ready, MoverReady, At
    <3>4. PICK r \in Recorded : r = mover[m].row /\ r = mover'[m].row
      BY <3>2, <3>3 DEF Kin
    <3>5. (Fresh(r))'
      BY <1>2, <3>4 DEF Fresh
    <3>6. Fresh(r)
      BY <3>5, FreshBefore
    <3>7. Marks(m) /\ rows[r].sess = mover[m].sess
      BY <3>2, <3>4 DEF SameSession, Reads, Marks, At
    <3>8. QED
      BY <3>2, <3>4, <3>6, <3>7 DEF MarkHolds
  <2>4. CASE Begun(m)
    BY <2>4 DEF Begun
  <2>5. QED
    BY <2>1, <2>2, <2>3, <2>4 DEF Kept, OneTurn, Turn
<1>3. \A r \in Rows \ robbed : exits[r] <= 1
  BY DEF AnnouncedOnce
(* A paused row waits with its exit for whoever brings it to its end. *)
<1>4. /\ \A r \in Rows : (Fresh(r))' /\ (Paused(r))' => exits'[r] = 0
      /\ \A r \in Rows \ robbed' : exits'[r] <= 1
  <2>1. robbed \subseteq robbed'
    BY DEF Kept
  <2>2. CASE RowsStep /\ Made' = Made /\ ExitsStep
    <3>1. ASSUME NEW r \in Rows, (Fresh(r))', (Paused(r))'
          PROVE  exits'[r] = 0
      <4>1. Fresh(r) /\ exits'[r] = exits[r] /\ (Paused(r) \/ Live(r))
        BY <2>1, <2>2, <3>1 DEF ExitsStep, Paused, Fresh
      <4>2. QED
        BY <4>1 DEF AnnouncedOnce, Unannounced, Live
    <3>2. ASSUME NEW r \in Rows \ robbed'
          PROVE  exits'[r] <= 1
      <4>1. CASE exits'[r] = exits[r]
        BY <1>3, <2>1, <4>1
      <4>2. CASE (Live(r) \/ (Paused(r) /\ r = Made)) /\ exits'[r] = exits[r] + 1
        <5>1. exits[r] = 0
          BY <2>1, <4>2 DEF AnnouncedOnce, Unannounced, Live, Fresh
        <5>2. QED
          BY <4>2, <5>1
      <4>3. QED
        BY <2>2, <4>1, <4>2 DEF ExitsStep
    <3>3. QED
      BY <3>1, <3>2
  <2>3. CASE Made' = Made /\ \E m \in Movers : Parking(m)
    <3>1. PICK m \in Movers : Parking(m)
      BY <2>3
    <3>2. ASSUME NEW r \in Rows, (Fresh(r))', (Paused(r))'
          PROVE  exits'[r] = 0
      <4>1. Fresh(r)
        BY <2>1, <2>3, <3>2 DEF Fresh
      <4>2. ~ (r = mover[m].row /\ rows[r].by = "died")
        <5>1. SUFFICES ASSUME r = mover[m].row PROVE rows[r].by = "stopped"
          OBVIOUS
        <5>2. Withheld(m)
          BY <3>1, <4>1, <5>1 DEF Parking, Outcomes, Handed, Withheld, AnnouncedOnce
        <5>3. QED
          BY <5>1, <5>2 DEF Outcomes
      <4>3. Paused(r)
        BY <3>1, <3>2, <4>2 DEF Parking, Paused
      <4>4. QED
        BY <3>1, <4>1, <4>3 DEF AnnouncedOnce, Parking
    <3>3. QED
      BY <1>3, <2>1, <3>1, <3>2 DEF Parking
  <2>4. CASE Made' = Made /\ \E m \in Movers : Abandoning(m)
    <3>1. PICK m \in Movers : Abandoning(m)
      BY <2>4
    <3>2. Withheld(m) /\ ~ mover[m].pausing
      BY <3>1 DEF Abandoning, Outcomes, At
    <3>3. PICK q : q = mover[m].row
      OBVIOUS
    <3>4. exits[q] = 0 /\ ~ Paused(q) /\ exits' = [exits EXCEPT ![q] = @ + 1] /\ rows' = rows
      BY <3>1, <3>2, <3>3 DEF Unannounced, Abandoning
    <3>5. \A r \in Rows : exits'[r] = IF r = q THEN 1 ELSE exits[r]
      BY <1>1, <3>4
    <3>6. \A r \in Rows : (Fresh(r))' /\ (Paused(r))' => exits'[r] = 0
      BY <2>1, <2>4, <3>4, <3>5 DEF Paused, Fresh, AnnouncedOnce
    <3>7. QED
      BY <1>3, <2>1, <3>5, <3>6
  <2>5. CASE \E n \in Rows \ Recorded : Grows(n)
    <3>1. PICK n \in Rows \ Recorded : Grows(n)
      BY <2>5
    <3>2. \A r \in Rows : (Fresh(r))' => r = n
      BY <3>1 DEF Grows, Fresh
    <3>3. ~ (Paused(n))'
      BY <3>1 DEF Grows, Paused
    <3>4. QED
      BY <1>3, <2>1, <3>1, <3>2, <3>3 DEF Grows
  <2>6. QED
    BY <2>2, <2>3, <2>4, <2>5 DEF Kept, Accounts
<1>5. QED
  BY <1>2, <1>4 DEF AnnouncedOnce

-----------------------------------------------------------------------------
(* Where a claim that was parked is kept in mind. *)

(* The session a command read still is its row's, and the board knows it. *)
Joined == \A m \in Movers : Reads(m) => session[mover[m].sess].on
HandedSessions ==
  \A m \in Movers : Handed(m) =>
    /\ rows[mover[m].row].sess = mover[m].sess /\ mover[m].snap # "none"
    /\ session[mover[m].sess].on
Reopens ==
  \A m \in Movers : mover[m].paused /\ ~ At(m, "idle") =>
    /\ ~ Live(mover[m].row) /\ rows[mover[m].row].sess = mover[m].sess
    /\ mover[m].snap # "none"
PausedRows ==
  \A r \in Rows : Paused(r) => r \in Recorded /\ ~ Live(r) /\ session[rows[r].sess].on
ReadInv == Joined /\ HandedSessions /\ Reopens /\ PausedRows

(* A session a command has read stays on the board, and a row that ended on it. *)
LEMMA ReadInvKept ==
  ASSUME Base, Outcomes, SameSession, ReadInv, Kept, ~ LateStarts
  PROVE  ReadInv'
<1>1. /\ TypeOK /\ Numbered /\ Owned /\ Ready /\ RowsKept /\ OnStays
      /\ \A m \in Movers : ~ At(m, "idle") => mover[m].row \in Recorded /\ mover[m].sess \in Sessions
      /\ \A m \in Movers : Reads(m) \/ Handed(m) => ~ At(m, "idle")
  BY RecordedRows DEF Base, Ready, MoverReady, Kept, Reads, Outcomes, Handed, At
<1>2. ASSUME NEW m \in Movers
      PROVE  (Reads(m))' => session'[mover'[m].sess].on
  <2>1. CASE mover'[m] = mover[m]
    BY <1>1, <2>1 DEF ReadInv, Joined, Reads, OnStays
  <2>2. CASE mover'[m] = Idle
    BY <2>2 DEF Idle, Reads
  <2>3. CASE Advance(m)
    <3>1. (Reads(m))' => Reads(m) /\ Kin(m)
      BY <2>3 DEF Advance, Same, Then, Reads
    <3>2. QED
      BY <1>1, <3>1 DEF ReadInv, Joined, OnStays, Kin
  <2>4. CASE At(m, "idle") /\ Begun(m)
    <3>1. Made \in Recorded
      BY <1>1, HandOverAssumption DEF Numbered, Recorded, Rows
    <3>2. rows[Made].sess \in Sessions
      BY <1>1, <3>1, RecordedRows
    <3>3. QED
      BY <1>1, <2>4, <3>2 DEF Begun, Reads, OnStays
  <2>5. QED
    BY <2>1, <2>2, <2>3, <2>4 DEF Kept, OneTurn, Turn
<1>3. ASSUME NEW m \in Movers, (Handed(m))'
      PROVE  /\ rows'[mover'[m].row].sess = mover'[m].sess /\ mover'[m].snap # "none"
             /\ session'[mover'[m].sess].on
  <2>1. (Handed(m) \/ Reads(m)) /\ Kin(m)
    <3>1. CASE mover'[m] = mover[m]
      BY <1>3, <3>1 DEF Handed, Kin
    <3>2. CASE mover'[m] = Idle
      BY <1>3, <3>2 DEF Handed, Idle
    <3>3. CASE Advance(m)
      BY <1>3, <3>3 DEF Advance, Same, Then, Handed, Reads
    <3>4. CASE Begun(m)
      BY <1>3, <3>4 DEF Begun, Handed
    <3>5. QED
      BY <3>1, <3>2, <3>3, <3>4 DEF Kept, OneTurn, Turn
  <2>2. mover[m].row \in Recorded /\ mover[m].sess \in Sessions
    BY <1>1, <2>1
  <2>3. /\ mover[m].snap # "none" /\ session[mover[m].sess].on
        /\ rows[mover[m].row].sess = mover[m].sess
        /\ Live(mover[m].row) => rows[mover[m].row].own = mover[m].sess
    BY <2>1 DEF ReadInv, Joined, HandedSessions, SameSession, Outcomes
  <2>4. QED
    BY <1>1, <2>1, <2>2, <2>3 DEF Kin, RowsKept, OnStays
<1>4. ASSUME NEW m \in Movers, mover'[m].paused, (~ At(m, "idle"))'
      PROVE  /\ ~ (Live(mover[m].row))' /\ rows'[mover'[m].row].sess = mover'[m].sess
             /\ mover'[m].snap # "none"
  <2>1. CASE (mover'[m] = mover[m] \/ (Advance(m) /\ Kin(m))) /\ ~ At(m, "idle")
    <3>1. mover[m].paused /\ mover'[m].row = mover[m].row /\ mover'[m].sess = mover[m].sess
          /\ mover'[m].snap = mover[m].snap /\ mover[m].row \in Recorded
      BY <1>1, <1>4, <2>1 DEF Kin
    <3>2. QED
      BY <1>1, <2>1, <3>1 DEF ReadInv, Reopens, RowsKept, Live
  <2>2. CASE mover'[m] = Idle
    BY <1>4, <2>2 DEF At, Idle
  <2>3. CASE Begun(m)
    <3>1. Made \in Recorded /\ Made \in Rows
      BY <1>1, HandOverAssumption DEF Numbered, Recorded, Rows
    <3>2. /\ ~ Live(Made) /\ session[rows[Made].sess].on /\ mover'[m].row = Made
          /\ mover'[m].sess = rows[Made].sess /\ mover'[m].snap # "none"
      BY <1>4, <2>3, <3>1 DEF Begun, ReadInv, PausedRows
    <3>3. QED
      BY <1>1, <3>1, <3>2 DEF RowsKept, Live
  <2>4. QED
    <3>1. (mover'[m] = mover[m] => ~ At(m, "idle")) /\ (Advance(m) => ~ At(m, "idle") /\ Kin(m))
      BY <1>4 DEF Advance, Same, Then, At
    <3>2. QED
      BY <2>1, <2>2, <2>3, <3>1 DEF Kept, OneTurn, Turn
<1>5. ASSUME NEW r \in Rows, (Paused(r))'
      PROVE  r \in Recorded' /\ ~ (Live(r))' /\ session'[rows'[r].sess].on
  <2>1. Recorded \subseteq Recorded'
    <3>1. CASE Made' = Made
      BY <3>1 DEF Recorded
    <3>2. CASE Made' = Made + 1
      BY <1>1, <3>2, HandOverAssumption DEF Recorded, Numbered, Rows
    <3>3. QED
      BY <3>1, <3>2 DEF Kept, Accounts, Grows
  <2>2. CASE Paused(r)
    <3>1. r \in Recorded /\ ~ Live(r) /\ session[rows[r].sess].on /\ rows[r].sess \in Sessions
      BY <1>1, <2>2, RecordedRows DEF ReadInv, PausedRows
    <3>2. QED
      BY <1>1, <2>1, <3>1 DEF RowsKept, OnStays
  <2>3. ASSUME NEW m \in Movers, mover[m].row = r, At(m, "end") \/ Handed(m), (~ Live(r))'
        PROVE  r \in Recorded' /\ ~ (Live(r))' /\ session'[rows'[r].sess].on
    <3>1. Reads(m) \/ Handed(m)
      BY <2>3 DEF Reads, At
    <3>2. r \in Recorded /\ mover[m].sess \in Sessions
      BY <1>1, <2>3, <3>1
    <3>3. /\ session[mover[m].sess].on /\ rows[r].sess = mover[m].sess
          /\ Live(r) => rows[r].own = mover[m].sess
      BY <2>3, <3>1 DEF ReadInv, Joined, HandedSessions, SameSession, Outcomes
    <3>4. QED
      BY <1>1, <2>1, <2>3, <3>2, <3>3 DEF RowsKept, OnStays
  <2>4. CASE RowsStep /\ ExitsStep /\ ~ Paused(r)
    <3>1. PICK m \in Movers : At(m, "end") /\ mover[m].row = r
      BY <1>5, <2>4 DEF ExitsStep, Paused
    <3>2. (~ Live(r))'
      BY <1>5, <2>4 DEF ExitsStep, Paused, Live
    <3>3. QED
      BY <2>3, <3>1, <3>2
  <2>5. CASE \E m \in Movers : Parking(m) /\ ~ Paused(r)
    <3>1. PICK m \in Movers : Parking(m) /\ ~ Paused(r)
      BY <2>5
    <3>2. r = mover[m].row /\ Handed(m)
      BY <1>5, <3>1 DEF Parking, Outcomes, Paused
    <3>3. ~ Live(r) /\ r \in Recorded
      BY <1>1, <3>2 DEF Outcomes
    <3>4. QED
      BY <1>1, <2>3, <3>2, <3>3 DEF RowsKept
  <2>6. CASE \E m \in Movers : Abandoning(m)
    BY <1>5, <2>2, <2>6 DEF Abandoning, Paused
  <2>7. CASE \E n \in Rows \ Recorded : Grows(n)
    BY <1>5, <2>2, <2>7 DEF Grows, Paused
  <2>8. QED
    BY <2>2, <2>4, <2>5, <2>6, <2>7 DEF Kept, Accounts
<1>6. QED
  <2>1. Joined' /\ HandedSessions'
    BY <1>2, <1>3 DEF Joined, HandedSessions
  <2>2. Reopens' /\ PausedRows'
    BY <1>4, <1>5 DEF Reopens, PausedRows, Live
  <2>3. QED
    BY <2>1, <2>2 DEF ReadInv

(* A live row keeps the claim, or a hand-over that has yet to start the replacement, or
   a paused row that no command has brought back. *)
Carries(m, s) ==
  /\ Withheld(m) /\ ~ mover[m].pausing /\ mover[m].sess = s
  /\ mover[m].pc \in {"unmark", "respawn", "abandon"}
Closing(m) == mover[m].paused /\ mover[m].pc \in {"take", "started"}
Works(s) == \E r \in Rows : Live(r) /\ rows[r].sess = s
Rests(s) ==
  \E r \in Rows : /\ Paused(r) /\ rows[r].sess = s
                  /\ \A m \in Movers : Closing(m) => mover[m].row # r
Tended(s) == Works(s) \/ Rests(s) \/ \E m \in Movers : Carries(m, s)

Claimed == holder \in Sessions /\ session[holder].on
NoneLost == kills = 0 /\ Claimed => Tended(holder)

RowsHold(s) ==
  \A r \in Rows :
    /\ Live(r) /\ rows[r].sess = s => (Live(r))' /\ rows'[r].sess = s
    /\ Paused(r) /\ rows[r].sess = s => (Paused(r))' /\ rows'[r].sess = s
MoversHold ==
  \A m \in Movers :
    /\ \A s \in Sessions : Carries(m, s) => (Carries(m, s))'
    /\ (Closing(m))' => Closing(m) /\ mover'[m].row = mover[m].row

(* A session is tended as long as rows and commands that tend it stay. *)
LEMMA StaysTended ==
  ASSUME NEW s \in Sessions, Tended(s), RowsHold(s), MoversHold
  PROVE  (Tended(s))'
<1>1. Works(s) => (Works(s))'
  BY DEF RowsHold, Works
<1>2. Rests(s) => (Rests(s))'
  BY DEF RowsHold, MoversHold, Rests
<1>3. QED
  BY <1>1, <1>2 DEF Tended, MoversHold

(* They stay when nothing is written. *)
LEMMA StillHold ==
  /\ rows' = rows => \A s \in Sessions : RowsHold(s)
  /\ mover' = mover => MoversHold
  BY DEF RowsHold, Live, Paused, MoversHold, Carries, Withheld, Closing

(* A row whose claims were released held none that is still claimed. *)
LEMMA ReleasedHold ==
  ASSUME TypeOK, NEW r \in Rows, rows[r].sess \in Sessions, Release(rows[r].sess),
         \A q \in Rows \ {r} : rows'[q] = rows[q], Claimed'
  PROVE  holder' = holder /\ Claimed /\ RowsHold(holder)
<1>1. holder' = holder /\ holder \in Sessions
  BY HandOverAssumption DEF Release, Claimed, Pool, Sessions, Rows
<1>2. OnSame
  BY Releases
<1>3. Claimed
  BY <1>1, <1>2 DEF Claimed, OnSame
<1>4. rows[r].sess # holder
  BY <1>1, <1>3, HandOverAssumption DEF Release, Claimed, Pool, Sessions, Rows
<1>5. QED
  BY <1>1, <1>3, <1>4 DEF RowsHold, Live, Paused

(* Nor did a row that ended dead. *)
LEMMA EndedDeadHold ==
  ASSUME TypeOK, NEW r \in Rows, rows[r].sess \in Sessions, EndDead(r), ~ (Running(r))', Claimed'
  PROVE  holder' = holder /\ Claimed /\ RowsHold(holder)
<1>1. CASE Live(r)
  BY <1>1, EndsDead, ReleasedHold DEF EndDead
<1>2. CASE ~ Live(r)
  BY <1>2, StillHold DEF EndDead, Claimed
<1>3. QED
  BY <1>1, <1>2

(* A command lets go of what it parked only where it abandons it, or its spawn succeeds. *)
LEMMA TurnsHold ==
  ASSUME TypeOK, NEW m \in Movers, MoverStep(m), Made' = Made, kills' = kills, ~ At(m, "abandon")
  PROVE  MoversHold
<1>1. \A n \in Movers \ {m} :
        /\ \A s \in Sessions : Carries(n, s) => (Carries(n, s))'
        /\ (Closing(n))' => Closing(n) /\ mover'[n].row = mover[n].row
  BY DEF MoverStep, OneMover, Carries, Withheld, Closing
<1>2. CASE mover'[m] = Idle
  BY <1>1, <1>2 DEF MoverStep, MoversHold, Carries, Closing, Idle, At
<1>3. CASE Advance(m)
  <2>1. \A s \in Sessions : Carries(m, s) => (Carries(m, s))'
    BY <1>3 DEF Advance, Same, Kin, Then, Carries, Withheld
  <2>2. (Closing(m))' => Closing(m) /\ mover'[m].row = mover[m].row
    BY <1>3 DEF Advance, Same, Kin, Then, Closing
  <2>3. QED
    BY <1>1, <2>1, <2>2 DEF MoversHold
<1>4. QED
  BY <1>2, <1>3 DEF MoverStep

(* What a step has to show. *)
Tends == Claimed' => (Tended(holder))'

(* A claim that stays where it is, tended by what stays. *)
LEMMA HoldsTend ==
  ASSUME NoneLost, kills = 0, MoversHold,
         Claimed' => holder' = holder /\ Claimed /\ RowsHold(holder)
  PROVE  Tends
<1>1. SUFFICES ASSUME Claimed' PROVE (Tended(holder))'
  BY DEF Tends
<1>2. PICK s \in Sessions : s = holder /\ s = holder' /\ Tended(s) /\ RowsHold(s)
  BY <1>1 DEF NoneLost, Claimed
<1>3. (Tended(s))'
  BY <1>2, StaysTended
<1>4. QED
  BY <1>2, <1>3 DEF Tended, Works, Rests, Carries

(* The agent's own hooks and its death lose no claim: a row that lives still has it. *)
LEMMA AgentTends ==
  ASSUME Base, NoneLost, kills = 0, Agent
  PROVE  Tends
<1>1. TypeOK /\ Numbered /\ Owned /\ Ready
  BY DEF Base
<1>2. CASE Claim
  <2>1. PICK r \in Rows : pane[r] = "up" /\ session[rows[r].own].on /\ holder' = rows[r].own
    BY <1>2 DEF Claim
  <2>2. Live(r) /\ rows[r].own \in Sessions
    BY <1>1, <2>1, RecordedRows DEF Running
  <2>3. rows[r].sess = rows[r].own
    BY <1>1, <2>1, <2>2 DEF Owned
  <2>4. rows' = rows
    BY <1>2 DEF Claim
  <2>5. QED
    BY <2>1, <2>2, <2>3, <2>4 DEF Tends, Tended, Works, Live
<1>3. CASE \E r \in Rows : Beat(r) \/ Die(r) \/ Exit(r)
  <2>1. /\ rows' = rows /\ mover' = mover
        /\ holder' = holder \/ holder' = Pool
        /\ OnSame
    <3>1. PICK r \in Rows : Beat(r) \/ Die(r) \/ Exit(r)
      BY <1>3
    <3>2. rows' = rows /\ mover' = mover /\ (holder' = holder \/ holder' = Pool)
      BY <3>1 DEF Beat, Die, Exit
    <3>3. Die(r) => OnSame
      BY DEF Die, OnSame
    <3>4. QED
      BY <1>1, <3>1, <3>2, <3>3, BeatStep, ExitStep
  <2>2. Claimed' => holder' = holder /\ Claimed
    BY <2>1, HandOverAssumption DEF Claimed, Pool, Sessions, Rows, OnSame
  <2>3. QED
    BY <2>1, <2>2, StillHold, HoldsTend DEF Claimed
<1>4. CASE \E r \in Rows : StartHook(r)
  <2>1. PICK r \in Rows : StartHook(r)
    BY <1>4
  <2>2. Live(r) /\ r \in Recorded /\ rows[r].own \in Sessions /\ rows[r] \in RowRecord
    BY <1>1, <2>1, RecordedRows, TypeParts DEF StartHook
  <2>3. PICK own \in Sessions : own = rows[r].own
    BY <2>2
  <2>4. /\ mover' = mover /\ (Live(r))' /\ rows'[r].sess = own
        /\ \A q \in Rows \ {r} : rows'[q] = rows[q]
        /\ \A s \in Sessions \ {own} : session'[s] = session[s]
        /\ holder' = holder \/ holder' = own
        /\ rows[r].sess # own /\ holder = rows[r].sess => holder' = own
    <3>1. CASE rows[r].sess # own
      <4>1. rows' = [rows EXCEPT ![r].sess = rows[r].own]
            /\ holder' = IF holder = rows[r].sess THEN own ELSE holder
        BY <2>1, <2>2, <2>3, <3>1 DEF StartHook
      <4>2. (Live(r))' /\ rows'[r].sess = own /\ \A q \in Rows \ {r} : rows'[q] = rows[q]
        BY <1>1, <2>2, <2>3, <4>1, TypeParts DEF Live
      <4>3. mover' = mover /\ \A s \in Sessions \ {own} : session'[s] = session[s]
        BY <1>1, <2>1, <2>3, TypeParts DEF StartHook
      <4>4. QED
        BY <3>1, <4>1, <4>2, <4>3
    <3>2. CASE rows[r].sess = own
      <4>1. rows' = rows /\ holder' = holder /\ mover' = mover
        BY <2>1, <2>3, <3>2 DEF StartHook
      <4>2. \A s \in Sessions \ {own} : session'[s] = session[s]
        BY <1>1, <2>1, <2>3, TypeParts DEF StartHook
      <4>3. QED
        BY <2>2, <3>2, <4>1, <4>2 DEF Live
    <3>3. QED
      BY <3>1, <3>2
  <2>5. CASE holder' = own
    BY <2>4, <2>5 DEF Tends, Tended, Works
  <2>6. CASE holder' # own
    <3>1. Claimed' => holder' = holder /\ Claimed /\ RowsHold(holder)
      BY <2>2, <2>4, <2>6 DEF Claimed, RowsHold, Live, Paused
    <3>2. QED
      BY <2>4, <3>1, StillHold, HoldsTend
  <2>7. QED
    BY <2>5, <2>6
<1>5. QED
  BY <1>2, <1>3, <1>4 DEF Agent

(* Nor do the owner's stop, a listing or the clock. *)
LEMMA WatchTends ==
  ASSUME Base, NoneLost, kills = 0,
         Owner \/ Look \/ Record \/ LeaseLapses \/ \E s \in Sessions : Lapse(s)
  PROVE  Tends
<1>1. TypeOK /\ Numbered /\ Owned /\ Ready /\ rows \in [Rows -> RowRecord]
  BY TypeParts DEF Base
<1>2. MoversHold
  BY StillHold DEF Owner, OwnerStop, OwnerKill, OwnerEnd, Look, Record, LeaseLapses, Lapse
<1>3. (rows' = rows /\ holder' = holder /\ OnSame) => Tends
  BY <1>2, StillHold, HoldsTend DEF Claimed, OnSame
<1>4. ASSUME NEW r \in Recorded, Release(rows[r].sess), \A q \in Rows \ {r} : rows'[q] = rows[q]
      PROVE  Tends
  BY <1>1, <1>2, <1>4, RecordedRows, ReleasedHold, HoldsTend
<1>5. CASE Look \/ OwnerKill
  BY <1>3, <1>5 DEF Look, OwnerKill, OnSame
<1>6. CASE LeaseLapses
  BY <1>6, HandOverAssumption DEF LeaseLapses, Tends, Claimed, Pool, Sessions, Rows
<1>7. CASE \E s \in Sessions : Lapse(s)
  <2>1. PICK s \in Sessions : Lapse(s)
    BY <1>7
  <2>2. OnSame
    BY <2>1, TypeParts, <1>1 DEF Lapse, OnSame, SessionRecord
  <2>3. QED
    BY <1>3, <2>1, <2>2 DEF Lapse
<1>8. CASE Record
  <2>1. PICK r \in Recorded : r = look.row
    BY <1>1, <1>8 DEF Record, Ready, LookReady
  <2>2. r \in Rows /\ pane[r] \in {"dead", "gone"} /\ pane' = pane /\ rows[r].sess \in Sessions
    BY <1>1, <1>8, <2>1, RecordedRows DEF Record, Ready, LookReady
  <2>3. ~ (Running(r))'
    BY <2>2 DEF Running
  <2>4. CASE UNCHANGED <<rows, session, holder, exits>>
    BY <1>3, <2>4 DEF OnSame
  <2>5. CASE EndDead(r)
    BY <1>1, <1>2, <2>2, <2>3, <2>5, EndedDeadHold, HoldsTend
  <2>6. CASE (IF Live(r) THEN EndRow(r, "died", FALSE) ELSE UNCHANGED rows) /\ Release(rows[r].sess)
    <3>1. \A q \in Rows \ {r} : rows'[q] = rows[q]
      BY <1>1, <2>2, <2>6 DEF EndRow
    <3>2. QED
      BY <1>4, <2>6, <3>1
  <2>7. QED
    BY <1>8, <2>1, <2>4, <2>5, <2>6 DEF Record
<1>9. CASE OwnerEnd
  <2>1. PICK r \in Recorded : r = owner.row
    BY <1>1, <1>9 DEF OwnerEnd, Ready, OwnerReady
  <2>2. r \in Rows
    BY <1>1, <2>1, RecordedRows
  <2>3. CASE /\ EndRow(r, "stopped", FALSE) \/ MarkStopped(r)
             /\ Release(rows[r].sess)
    <3>1. \A q \in Rows \ {r} : rows'[q] = rows[q]
      BY <1>1, <2>2, <2>3 DEF EndRow, MarkStopped
    <3>2. QED
      BY <1>4, <2>3, <3>1
  <2>4. CASE UNCHANGED <<rows, session, holder, exits>>
    BY <1>3, <2>4 DEF OnSame
  <2>5. QED
    BY <1>9, <2>1, <2>3, <2>4 DEF OwnerEnd
<1>10. CASE OwnerStop
  <2>1. Made \in Recorded /\ Made \in Rows
    BY <1>1, HandOverAssumption DEF Numbered, Recorded, Rows
  <2>2. CASE UNCHANGED <<rows, session, holder, exits>>
    BY <1>3, <2>2 DEF OnSame
  <2>3. CASE MarkStopped(Made) /\ Release(rows[Made].sess)
    <3>1. \A q \in Rows \ {Made} : rows'[q] = rows[q]
      BY <1>1, <2>1, <2>3 DEF MarkStopped
    <3>2. QED
      BY <1>4, <2>1, <2>3, <3>1
  <2>4. CASE ~ Live(Made) /\ ~ Paused(Made) /\ MarkStopped(Made) /\ UNCHANGED <<session, holder>>
    <3>1. RowsHold(holder)
      BY <1>1, <2>1, <2>4 DEF MarkStopped, RowsHold, Live, Paused
    <3>2. QED
      BY <1>2, <2>4, <3>1, HoldsTend DEF Claimed
  <2>5. QED
    BY <1>10, <2>2, <2>3, <2>4 DEF OwnerStop
<1>11. QED
  BY <1>5, <1>6, <1>7, <1>8, <1>9, <1>10 DEF Owner

(* Nor does a command that begins. *)
LEMMA ReadTends ==
  ASSUME Base, Outcomes, NoneLost, kills = 0, NEW m \in Movers,
         NEW verb \in {"switch", "restart", "pause"}, Read(m, verb)
  PROVE  Tends
<1>1. OneMover(m) /\ At(m, "idle") /\ Begun(m)
  BY ReadStep DEF Base
<1>2. MoversHold
  BY <1>1 DEF MoversHold, OneMover, Carries, Withheld, Closing, At, Begun
<1>3. Claimed' => holder' = holder /\ Claimed /\ RowsHold(holder)
  BY StillHold DEF Read, Claimed
<1>4. QED
  BY <1>2, <1>3, HoldsTend

(* The steps of a hand-over that leave the rows alone, or end one as a listing does. *)
LEMMA QuietTends ==
  ASSUME Base, Outcomes, NoneLost, kills = 0, NEW m \in Movers,
         Recheck(m) \/ Choose(m) \/ Clear(m) \/ Mark(m) \/ SendExit(m) \/ Kill(m) \/ Unmark(m)
         \/ SpawnFails(m)
  PROVE  Tends
<1>1. TypeOK /\ Numbered /\ Owned /\ Ready
  BY DEF Base
<1>2. MoverStep(m) /\ Frame /\ kills' = kills /\ ~ At(m, "abandon")
  <2>1. CASE Recheck(m) \/ Choose(m) \/ Clear(m) \/ Mark(m)
    BY <1>1, <2>1, RecheckStep, ChooseStep, ClearStep, MarkStep
       DEF Recheck, Choose, Clear, Mark, At
  <2>2. CASE SendExit(m) \/ Kill(m) \/ Unmark(m) \/ SpawnFails(m)
    BY <1>1, <2>2, SendExitStep, KillStep, UnmarkStep, SpawnFailsStep
       DEF SendExit, Kill, Unmark, SpawnFails, At
  <2>3. QED
    BY <2>1, <2>2
<1>3. MoversHold
  BY <1>1, <1>2, FrameKeeps, TurnsHold
<1>4. (rows' = rows /\ holder' = holder /\ OnSame) => Tends
  BY <1>3, StillHold, HoldsTend DEF Claimed, OnSame
<1>5. CASE Recheck(m) \/ SendExit(m) \/ Kill(m) \/ SpawnFails(m)
  BY <1>4, <1>5 DEF Recheck, SendExit, Kill, SpawnFails, OnSame
<1>6. CASE Mark(m) \/ Unmark(m)
  <2>1. rows' = rows /\ holder' = holder
    BY <1>6 DEF Mark, Unmark
  <2>2. PICK s \in Sessions : s = mover[m].sess /\ session[s] \in SessionRecord
    BY <1>1, <1>6, RecordedRows, TypeParts DEF Mark, Unmark, Ready, MoverReady, At
  <2>3. PICK marked, unmarked :
          /\ marked = [session[s] EXCEPT !.mark = Made, !.fresh = TRUE, !.ended = FALSE]
          /\ unmarked = [session[s] EXCEPT !.mark = NoRow, !.fresh = TRUE]
    OBVIOUS
  <2>4. marked.on = session[s].on /\ unmarked.on = session[s].on
    BY <2>2, <2>3 DEF SessionRecord
  <2>5. \/ session' = session \/ session' = [session EXCEPT ![s] = marked]
        \/ session' = [session EXCEPT ![s] = unmarked]
    <3>1. CASE Mark(m)
      BY <2>2, <2>3, <3>1 DEF Mark
    <3>2. CASE Unmark(m)
      BY <2>2, <2>3, <3>2 DEF Unmark
    <3>3. QED
      BY <1>6, <3>1, <3>2
  <2>6. OnSame
    BY <1>1, <2>4, <2>5, TypeParts DEF OnSame
  <2>7. QED
    BY <1>4, <2>1, <2>6
<1>7. CASE Choose(m) \/ Clear(m)
  <2>1. PICK r \in Recorded : r = mover[m].row
    BY <1>1, <1>7 DEF Choose, Clear, Ready, MoverReady, At
  <2>2. r \in Rows /\ rows[r].sess \in Sessions
    BY <1>1, RecordedRows
  <2>3. CASE UNCHANGED <<rows, session, holder, exits>>
    BY <1>4, <2>3 DEF OnSame
  <2>4. CASE EndDead(r) /\ ~ (Running(r))'
    BY <1>1, <1>3, <2>2, <2>4, EndedDeadHold, HoldsTend
  <2>5. (UNCHANGED <<rows, session, holder, exits>>) \/ (EndDead(r) /\ ~ (Running(r))')
    <3>1. CASE Choose(m)
      BY <2>1, <3>1 DEF Choose, Running
    <3>2. CASE Clear(m)
      <4>1. EndDead(r) /\ pane' = [pane EXCEPT ![r] = IF Live(r) THEN "gone" ELSE @]
        BY <2>1, <3>2 DEF Clear
      <4>2. ~ (Running(r))'
        BY <1>1, <2>2, <4>1, RecordedRows, TypeParts DEF Running
      <4>3. QED
        BY <4>1, <4>2
    <3>3. QED
      BY <1>7, <3>1, <3>2
  <2>6. QED
    BY <2>3, <2>4, <2>5
<1>8. QED
  BY <1>5, <1>6, <1>7

(* A hand-over that ends the row has its session's claims in hand from there on. *)
LEMMA EndTends ==
  ASSUME Base, Outcomes, SameSession, ReadInv, NoneLost, kills = 0, NEW m \in Movers, End(m)
  PROVE  Tends
<1>1. TypeOK /\ Numbered /\ Owned /\ Ready
  BY DEF Base
<1>2. PICK r \in Rows : r = mover[m].row /\ At(m, "end") /\ rows[r].sess = mover[m].sess
  BY <1>1, RecordedRows DEF End, Ready, MoverReady, At, SameSession, Reads
<1>3. /\ MoverStep(m) /\ Frame /\ UNCHANGED <<session, holder, kills>>
      /\ \A n \in Movers \ {m} : mover'[n] = mover[n]
  BY <1>1, EndStep DEF End, MoverStep, OneMover
<1>4. MoversHold
  BY <1>1, <1>2, <1>3, FrameKeeps, TurnsHold DEF At
<1>5. SUFFICES ASSUME Claimed' PROVE (Tended(holder))'
  BY DEF Tends
<1>6. PICK s \in Sessions : s = holder /\ s = holder' /\ Tended(s)
  BY <1>3, <1>5 DEF NoneLost, Claimed
<1>7. SUFFICES (Tended(s))'
  BY <1>6 DEF Tended, Works, Rests, Carries
<1>8. CASE ~ Live(r)
  BY <1>2, <1>4, <1>6, <1>8, StillHold, StaysTended DEF End
<1>9. CASE Live(r)
  <2>1. /\ EndRow(r, "stopped", mover[m].pausing) /\ mover[m].pausing \in BOOLEAN
        /\ mover' = [mover EXCEPT ![m].pc = "unmark", ![m].res = "withheld", ![m].exited = FALSE]
    BY <1>1, <1>2, <1>9, TypeParts DEF End, MoverRecord
  <2>2. ~ (Running(r))'
    BY <1>1, <1>2 DEF End, Ready, MoverReady, At, Running
  <2>3. /\ \A q \in Rows \ {r} : rows'[q] = rows[q]
        /\ rows'[r].paused = mover[m].pausing /\ rows'[r].sess = rows[r].sess
    <3>1. rows \in [Rows -> RowRecord]
      BY <1>1, TypeParts
    <3>2. QED
      BY <2>1, <3>1 DEF EndRow, RowRecord
  <2>4. CASE rows[r].sess # s
    <3>1. RowsHold(s)
      BY <2>3, <2>4 DEF RowsHold, Live, Paused
    <3>2. QED
      BY <1>4, <1>6, <3>1, StaysTended
  <2>5. CASE rows[r].sess = s /\ mover[m].pausing
    <3>1. \A n \in Movers : (Closing(n))' => mover'[n].row # r
      <4>1. \A n \in Movers : Closing(n) => mover[n].row # r
        BY <1>9 DEF ReadInv, Reopens, Closing, At
      <4>2. QED
        BY <1>4, <4>1 DEF MoversHold
    <3>2. (Rests(s))'
      BY <2>3, <2>5, <3>1 DEF Rests, Paused
    <3>3. QED
      BY <3>2 DEF Tended
  <2>6. CASE rows[r].sess = s /\ ~ mover[m].pausing
    <3>1. OneMover(m) /\ Kin(m) /\ mover'[m].pc = "unmark" /\ mover'[m].res = "withheld"
      BY <1>1, <2>1, Comes
    <3>2. (Carries(m, s))'
      BY <1>2, <2>6, <3>1 DEF Carries, Kin, Withheld
    <3>3. QED
      BY <3>2 DEF Tended
  <2>7. QED
    BY <2>4, <2>5, <2>6
<1>10. QED
  BY <1>8, <1>9

(* A paused row keeps its session's claims. *)
LEMMA ParkTends ==
  ASSUME Base, Outcomes, NoneLost, kills = 0, NEW m \in Movers, Park(m)
  PROVE  Tends
<1>1. TypeOK /\ Numbered /\ Owned /\ Ready /\ rows \in [Rows -> RowRecord]
  BY TypeParts DEF Base
<1>2. PICK r \in Rows, s \in Sessions : r = mover[m].row /\ s = mover[m].sess
  BY <1>1, RecordedRows DEF Park, Ready, MoverReady, At
<1>3. /\ MoverStep(m) /\ Frame /\ At(m, "parked") /\ UNCHANGED <<holder, kills>>
  BY <1>1, ParkStep DEF Park
<1>4. MoversHold
  BY <1>1, <1>3, FrameKeeps, TurnsHold DEF At
<1>5. OnSame
  BY <1>1, <1>2, Retires DEF Park, OnSame
<1>6. RowsHold(holder)
  <2>1. CASE rows' = rows
    BY <2>1 DEF RowsHold, Live, Paused
  <2>2. CASE rows' = [rows EXCEPT ![r].by = "stopped", ![r].paused = TRUE]
    BY <1>1, <2>2 DEF RowsHold, Live, Paused, RowRecord
  <2>3. QED
    BY <1>2, <2>1, <2>2 DEF Park
<1>7. QED
  BY <1>3, <1>4, <1>5, <1>6, HoldsTend DEF Claimed, OnSame

(* A paused row becomes history only when a live one has its session. *)
LEMMA StartedTends ==
  ASSUME Base, Outcomes, ReadInv, NoneLost, kills = 0, NEW m \in Movers, Started(m)
  PROVE  Tends
<1>1. TypeOK /\ Numbered /\ Owned /\ Ready /\ rows \in [Rows -> RowRecord]
  BY TypeParts DEF Base
<1>2. /\ MoverStep(m) /\ Frame /\ At(m, "started") /\ UNCHANGED <<holder, session, kills>>
  BY <1>1, StartedStep DEF Started
<1>3. MoversHold
  BY <1>1, <1>2, FrameKeeps, TurnsHold DEF At
<1>4. CASE ~ mover[m].paused
  BY <1>2, <1>3, <1>4, StillHold, HoldsTend DEF Started, Claimed
<1>5. CASE mover[m].paused
  <2>1. PICK r \in Rows : r = mover[m].row /\ MarkStopped(r) /\ ~ Live(r)
    BY <1>1, <1>5, RecordedRows DEF Started, Ready, MoverReady, At, ReadInv, Reopens
  <2>2. /\ rows'[r].st = rows[r].st /\ rows'[r].sess = rows[r].sess
        /\ \A q \in Rows \ {r} : rows'[q] = rows[q]
    BY <1>1, <2>1 DEF MarkStopped, RowRecord
  <2>3. Closing(m)
    BY <1>2, <1>5 DEF Closing, At
  <2>4. SUFFICES ASSUME Claimed' PROVE (Tended(holder))'
    BY DEF Tends
  <2>5. PICK s \in Sessions : s = holder /\ s = holder' /\ Tended(s)
    BY <1>2, <2>4 DEF NoneLost, Claimed
  <2>6. Works(s) => (Works(s))'
    BY <2>1, <2>2 DEF Works, Live
  <2>7. Rests(s) => (Rests(s))'
    BY <1>3, <2>1, <2>2, <2>3 DEF Rests, Paused, MoversHold
  <2>8. (Tended(s))'
    BY <1>3, <2>5, <2>6, <2>7 DEF Tended, MoversHold
  <2>9. QED
    BY <2>5, <2>8 DEF Tended, Works, Rests, Carries
<1>6. QED
  BY <1>4, <1>5

(* A take-over that the store refuses leaves the row on the old session. *)
LEMMA TakeOverTends ==
  ASSUME Base, Outcomes, NoneLost, kills = 0, NEW m \in Movers, TakeOver(m)
  PROVE  Tends
<1>1. TypeOK /\ Numbered /\ Owned /\ Ready /\ rows \in [Rows -> RowRecord]
  BY TypeParts DEF Base
<1>2. PICK n \in Rows, s \in Sessions : n = mover[m].new /\ s = mover[m].sess
  BY <1>1, RecordedRows DEF TakeOver, Ready, MoverReady, At
<1>3. MoverStep(m) /\ Frame /\ At(m, "take") /\ kills' = kills
  BY <1>1, TakeOverStep DEF TakeOver
<1>4. MoversHold
  BY <1>1, <1>3, FrameKeeps, TurnsHold DEF At
<1>5. OnSame
  BY <1>1, <1>2, Retires DEF TakeOver, OnSame
<1>6. CASE UNCHANGED <<rows, holder>>
  BY <1>4, <1>5, <1>6, StillHold, HoldsTend DEF Claimed, OnSame
<1>7. CASE /\ Live(n) /\ rows[n].sess = s /\ rows' = [rows EXCEPT ![n].sess = n]
           /\ holder' = IF holder = s THEN n ELSE holder
  <2>1. /\ (Live(n))' /\ rows'[n].sess = n /\ rows'[n].paused = rows[n].paused
        /\ \A q \in Rows \ {n} : rows'[q] = rows[q]
    BY <1>1, <1>7 DEF Live, RowRecord
  <2>2. CASE holder = s
    BY <1>7, <2>1, <2>2 DEF Tends, Tended, Works
  <2>3. CASE holder # s
    <3>1. RowsHold(holder)
      BY <1>7, <2>1, <2>3 DEF RowsHold, Live, Paused
    <3>2. QED
      BY <1>4, <1>5, <1>7, <2>3, <3>1, HoldsTend DEF Claimed, OnSame
  <2>4. QED
    BY <2>2, <2>3
<1>8. QED
  BY <1>2, <1>6, <1>7 DEF TakeOver

(* An abandoned hand-over releases what it parked. *)
LEMMA AbandonTends ==
  ASSUME Base, Outcomes, ReadInv, NoneLost, kills = 0, NEW m \in Movers, Abandon(m)
  PROVE  Tends
<1>1. TypeOK /\ Numbered /\ Owned /\ Ready
  BY DEF Base
<1>2. PICK r \in Recorded : r = mover[m].row
  BY <1>1 DEF Abandon, Ready, MoverReady, At
<1>3. /\ OneMover(m) /\ mover'[m] = Idle /\ rows' = rows /\ Release(rows[r].sess)
      /\ r \in Rows /\ rows[r].sess \in Sessions
  BY <1>1, <1>2, AbandonStep, RecordedRows DEF MoverStep, Abandon
<1>4. SUFFICES ASSUME Claimed' PROVE (Tended(holder))'
  BY DEF Tends
<1>5. holder' = holder /\ Claimed
  BY <1>1, <1>3, <1>4, ReleasedHold
<1>6. PICK s \in Sessions : s = holder /\ s = holder' /\ Tended(s)
  BY <1>5 DEF NoneLost, Claimed
<1>7. s # mover[m].sess
  <2>1. Handed(m)
    BY DEF Abandon, Outcomes, Withheld, Handed
  <2>2. rows[r].sess = mover[m].sess
    BY <1>2, <2>1 DEF ReadInv, HandedSessions
  <2>3. QED
    BY <1>5, <1>6, <2>2, HandOverAssumption, <1>3 DEF Release, Claimed, Pool, Sessions, Rows
<1>8. Works(s) => (Works(s))'
  BY <1>3 DEF Works, Live
<1>9. Rests(s) => (Rests(s))'
  BY <1>3 DEF Rests, Paused, Closing, OneMover, Idle
<1>10. \A n \in Movers : Carries(n, s) => (Carries(n, s))'
  BY <1>3, <1>7 DEF Carries, Withheld, OneMover
<1>11. (Tended(s))'
  BY <1>6, <1>8, <1>9, <1>10 DEF Tended
<1>12. QED
  BY <1>6, <1>11 DEF Tended, Works, Rests, Carries

(* A replacement is recorded on the session whose claims were parked. *)
LEMMA InsertTends ==
  ASSUME Base, Outcomes, ReadInv, NoneLost, kills = 0, NEW m \in Movers, NEW resumed \in BOOLEAN,
         Insert(m, resumed)
  PROVE  Tends
<1>1. TypeOK /\ Numbered /\ Owned /\ Ready
  BY DEF Base
<1>2. /\ MoverStep(m) /\ At(m, "respawn") /\ mover'[m].pc \in {"take", "started"}
      /\ mover[m].row \in Recorded
  BY <1>1, InsertStep DEF Ready, MoverReady, At
<1>3. PICK n \in Rows \ Recorded :
        /\ Grows(n)
        /\ (Handed(m) \/ mover[m].paused) /\ mover[m].snap # "none" => rows'[n].sess = mover[m].sess
  BY <1>1, InsertStep
<1>4. /\ OneMover(m) /\ Same(m) /\ UNCHANGED <<session, holder>>
      /\ (Live(n))' /\ \A q \in Rows \ {n} : rows'[q] = rows[q]
      /\ \A q \in Rows : ~ Live(q)
  <2>1. Same(m)
    BY <1>2 DEF MoverStep, Advance, Then, At, Idle
  <2>2. \A q \in Rows : ~ Live(q)
    BY <1>1, <1>3, RecordedRows DEF Grows
  <2>3. QED
    BY <1>2, <1>3, <2>1, <2>2 DEF MoverStep, Grows, Live
<1>5. SUFFICES ASSUME Claimed' PROVE (Tended(holder))'
  BY DEF Tends
<1>6. PICK s \in Sessions : s = holder /\ s = holder' /\ Tended(s)
  BY <1>4, <1>5 DEF NoneLost, Claimed
<1>7. SUFFICES (Tended(s))'
  BY <1>6 DEF Tended, Works, Rests, Carries
<1>8. CASE rows'[n].sess = s
  BY <1>4, <1>8 DEF Tended, Works
<1>9. CASE rows'[n].sess # s
  <2>1. ~ Works(s)
    BY <1>4 DEF Works
  <2>2. \A k \in Movers : Carries(k, s) => (Carries(k, s))'
    <3>1. ~ Carries(m, s)
      BY <1>3, <1>9 DEF Carries, Withheld, Handed, ReadInv, HandedSessions
    <3>2. QED
      BY <1>4, <3>1 DEF Carries, Withheld, OneMover
  <2>3. Rests(s) => (Rests(s))'
    <3>1. SUFFICES ASSUME NEW r \in Rows, Paused(r), rows[r].sess = s,
                          \A k \in Movers : Closing(k) => mover[k].row # r
                   PROVE  (Rests(s))'
      BY DEF Rests
    <3>2. r # n
      <4>1. r \in Recorded
        BY <3>1 DEF ReadInv, PausedRows
      <4>2. QED
        BY <1>3, <4>1
    <3>3. (Closing(m))' => mover'[m].row # r
      <4>1. SUFFICES ASSUME mover[m].paused, mover[m].row = r PROVE FALSE
        BY <1>4 DEF Closing, Same, Kin
      <4>2. mover[m].sess = s /\ mover[m].snap # "none"
        BY <1>2, <3>1, <4>1 DEF ReadInv, Reopens, At
      <4>3. QED
        BY <1>3, <1>9, <4>1, <4>2
    <3>4. \A k \in Movers : (Closing(k))' => mover'[k].row # r
      BY <1>4, <3>1, <3>3 DEF Closing, OneMover
    <3>5. QED
      BY <1>4, <3>1, <3>2, <3>4 DEF Rests, Paused
  <2>4. QED
    BY <1>6, <2>1, <2>2, <2>3 DEF Tended
<1>10. QED
  BY <1>8, <1>9

(* No step loses a claim, as long as no command is killed. *)
LEMMA NoneLostKept ==
  ASSUME Base, Outcomes, SameSession, ReadInv, NoneLost, Kept, [Next]_vars
  PROVE  NoneLost'
<1>1. CASE kills' # 0
  BY <1>1 DEF NoneLost
<1>2. CASE kills' = 0
  <2>1. CASE Agent \/ Owner \/ Look \/ Record \/ LeaseLapses \/ \E s \in Sessions : Lapse(s)
    <3>1. kills = 0
      BY <1>2, <2>1 DEF Agent, Claim, StartHook, Beat, Exit, Die, Owner, OwnerStop, OwnerKill,
                        OwnerEnd, Look, Record, LeaseLapses, Lapse
    <3>2. QED
      BY <2>1, <3>1, AgentTends, WatchTends DEF Tends, NoneLost
  <2>2. CASE \E m \in Movers : Move(m)
    <3>1. PICK m \in Movers : Move(m)
      BY <2>2
    <3>2. kills = 0
      BY <1>2, <3>1 DEF Move, Recheck, Choose, Clear, Mark, SendExit, Kill, End, Unmark, Park,
                        Insert, TakeOver, Started, SpawnFails, Abandon
    <3>3. CASE \/ Recheck(m) \/ Choose(m) \/ Clear(m) \/ Mark(m) \/ SendExit(m) \/ Kill(m)
               \/ Unmark(m) \/ SpawnFails(m)
      BY <3>2, <3>3, QuietTends DEF Tends, NoneLost
    <3>4. CASE End(m) \/ Park(m) \/ Started(m)
      BY <3>2, <3>4, EndTends, ParkTends, StartedTends DEF Tends, NoneLost
    <3>5. CASE TakeOver(m) \/ Abandon(m) \/ \E resumed \in BOOLEAN : Insert(m, resumed)
      BY <3>2, <3>5, TakeOverTends, AbandonTends, InsertTends DEF Tends, NoneLost
    <3>6. QED
      BY <3>1, <3>3, <3>4, <3>5 DEF Move
  <2>3. CASE \E m \in Movers : Killed(m)
    BY <1>2, <2>3 DEF Killed, Base, TypeOK
  <2>4. CASE \E m \in Movers : \E v \in {"switch", "restart", "pause"} : Read(m, v)
    <3>1. kills = 0
      BY <1>2, <2>4 DEF Read
    <3>2. QED
      BY <2>4, <3>1, ReadTends DEF Tends, NoneLost
  <2>5. CASE UNCHANGED vars
    <3>1. NoneLost' <=> NoneLost
      BY <2>5 DEF vars, NoneLost, Claimed, Tended, Works, Rests, Carries, Closing, Withheld, Live, Paused
    <3>2. QED
      BY <3>1
  <2>6. QED
    BY <2>1, <2>2, <2>3, <2>4, <2>5 DEF Next
<1>3. QED
  BY <1>1, <1>2

(* What is tended is in somebody's reach. *)
LEMMA TendedReached ==
  ASSUME NoneLost
  PROVE  NobodyStranded
<1>1. SUFFICES ASSUME kills = 0, Claimed, Tended(holder) PROVE InReach(holder)
  BY DEF NoneLost, NobodyStranded, Claimed
<1>2. Works(holder) => InReach(holder)
  BY DEF Works, InReach
<1>3. Rests(holder) => InReach(holder)
  BY DEF Rests, InReach
<1>4. (\E m \in Movers : Carries(m, holder)) => InReach(holder)
  BY DEF Carries, InReach, At
<1>5. QED
  BY <1>1, <1>2, <1>3, <1>4 DEF Tended

-----------------------------------------------------------------------------
Inv == Base /\ Outcomes
MarkInv ==
  Inv /\ Unannounced /\ SameSession /\ MarkHolds /\ OneMark /\ OneGrip /\ AnnouncedOnce
ClaimInv == Inv /\ SameSession /\ ReadInv /\ NoneLost

(* One agent at work, and no command given. *)
LEMMA InitInv ==
  ASSUME Init
  PROVE  Inv /\ MarkInv /\ ClaimInv
<1>1. 1 \in Rows /\ 1 \in 0 .. MaxRows /\ NoRow \in 0 .. MaxRows /\ Sessions = Rows
  BY HandOverAssumption DEF Rows, NoRow, Sessions
<1>2. \A r \in Rows : r <= 1 <=> r = 1
  BY HandOverAssumption DEF Rows
<1>3. \A r \in Rows : rows[r].st # "none" <=> r <= 1
  BY <1>2 DEF Init
<1>4. Made = 1
  BY <1>1, <1>3, CountsRecorded DEF Made
<1>5. TypeOK
  <2>1. rows \in [Rows -> RowRecord]
    BY <1>1 DEF Init, RowRecord
  <2>2. session \in [Sessions -> SessionRecord]
    <3>1. [on : BOOLEAN, mark : {NoRow}, fresh : {TRUE}, ended : {FALSE}] \subseteq SessionRecord
      BY <1>1 DEF SessionRecord
    <3>2. QED
      BY <3>1 DEF Init
  <2>3. pane \in [Rows -> Panes] /\ holder \in Sessions \cup {Pool}
    BY <1>1 DEF Init, Panes
  <2>4. mover \in [Movers -> MoverRecord]
    BY DEF Init, Idle, MoverRecord, Steps
  <2>5. owner \in [pc : {"idle", "kill", "end"}, row : Rows \cup {NoRow}, exited : BOOLEAN]
    BY DEF Init, Resting
  <2>6. /\ look \in [row : Rows \cup {NoRow}, kind : {"none", "dead", "gone"}]
        /\ exits \in [Rows -> Nat] /\ robbed \subseteq Rows
        /\ commands \in 0 .. MaxCommands /\ kills \in 0 .. MaxKills
    BY HandOverAssumption DEF Init, NoLook
  <2>7. QED
    BY <2>1, <2>2, <2>3, <2>4, <2>5, <2>6
       DEF TypeOK, RowRecord, Panes, SessionRecord, MoverRecord, Steps, Sessions
<1>6. Numbered
  BY <1>1, <1>3, <1>4 DEF Numbered, Init, Live
<1>7. Recorded = {1}
  BY <1>4 DEF Recorded
<1>8. Owned
  <2>1. \A r \in Rows : Running(r) => Live(r)
    BY DEF Init, Running, Live
  <2>2. \A s \in Sessions : session[s].on => s <= Made
    BY <1>1, <1>2, <1>4 DEF Init
  <2>3. \A r \in Rows : Live(r) => rows[r].sess = rows[r].own
    BY DEF Init, Live
  <2>4. QED
    BY <1>1, <1>7, <2>1, <2>2, <2>3 DEF Owned, Init
<1>9. Ready
  BY DEF Init, Idle, Resting, NoLook, Ready, OwnerReady, LookReady, MoverReady, At
<1>10. Outcomes
  BY DEF Init, Idle, Outcomes, At, Handed, Withheld
<1>11. Unannounced /\ SameSession /\ MarkHolds /\ OneMark /\ OneGrip
  BY DEF Init, Idle, Unannounced, SameSession, MarkHolds, OneMark, OneGrip, Withheld, Reads,
         Marks, Grip, Handed
<1>12. AnnouncedOnce
  BY DEF Init, Idle, AnnouncedOnce
<1>13. ReadInv
  BY DEF Init, Idle, ReadInv, Joined, HandedSessions, Reopens, PausedRows, Reads, Handed, Paused, At
<1>14. NoneLost
  <2>1. holder \in Sessions => holder = 1
    BY HandOverAssumption DEF Init, Pool, Sessions, Rows
  <2>2. Works(1)
    BY <1>1 DEF Init, Works, Live
  <2>3. QED
    BY <2>1, <2>2 DEF NoneLost, Claimed, Tended
<1>15. QED
  BY <1>5, <1>6, <1>8, <1>9, <1>10, <1>11, <1>12, <1>13, <1>14 DEF Inv, MarkInv, ClaimInv, Base

(* The rows, panes and outcomes stay consistent, whatever start hooks do. *)
LEMMA NextInv ==
  ASSUME Inv, [Next]_vars
  PROVE  Inv'
<1>1. Kept
  BY NextKeeps DEF Inv
<1>2. Outcomes'
  BY <1>1, OutcomesKept DEF Inv
<1>3. QED
  BY <1>1, <1>2 DEF Inv, Kept

(* Marks stay mutual exclusion, but of rows they were robbed of. *)
LEMMA NextMarkInv ==
  ASSUME MarkInv, ~ LateStarts, [Next]_vars
  PROVE  MarkInv'
<1>1. Kept /\ Inv'
  BY NextKeeps, NextInv DEF MarkInv, Inv
<1>2. Holding
  BY MarksHeld DEF MarkInv, Inv
<1>3. /\ Unannounced' /\ SameSession' /\ MarkHolds' /\ OneMark' /\ OneGrip'
      /\ AnnouncedOnce'
  BY <1>1, <1>2, UnannouncedKept, SameSessionKept, MarkHoldsKept, OneMarkKept, OneGripKept,
     AnnouncedOnceKept
     DEF MarkInv, Inv
<1>4. QED
  BY <1>1, <1>3 DEF MarkInv

(* Parked claims stay tended, robbed or not. *)
LEMMA NextClaimInv ==
  ASSUME ClaimInv, ~ LateStarts, [Next]_vars
  PROVE  ClaimInv'
<1>1. Kept /\ Inv'
  BY NextKeeps, NextInv DEF ClaimInv, Inv
<1>2. SameSession' /\ ReadInv' /\ NoneLost'
  BY <1>1, SameSessionKept, ReadInvKept, NoneLostKept DEF ClaimInv, Inv
<1>3. QED
  BY <1>1, <1>2 DEF ClaimInv

(* Every variable keeps its type, with late start hooks or without: rows are numbered in
   the order the store records them, and a mark, a command and a listing only ever name
   rows that were. *)
THEOREM TypesHold == Spec => []TypeOK
<1>1. Init => Inv
  BY InitInv
<1>2. Inv /\ [Next]_vars => Inv'
  BY NextInv
<1>3. Inv => TypeOK
  BY DEF Inv, Base
<1>4. QED
  BY <1>1, <1>2, <1>3, PTL DEF Spec

(* MarkInv holds of every state. *)
LEMMA MarksProtect ==
  ASSUME ~ LateStarts
  PROVE  Spec => []MarkInv
<1>1. Init => MarkInv
  BY InitInv
<1>2. MarkInv /\ [Next]_vars => MarkInv'
  BY NextMarkInv
<1>3. QED
  BY <1>1, <1>2, PTL DEF Spec

(* Any number of switches, restarts and pauses of one agent: at most one comes away with
   its row stopped and goes on to start a replacement, because _mark_handing_over is a
   compare-and-set whose mark holds until the row has ended, unless another row's
   hand-over took it back (_unmark_handing_over). *)
THEOREM OneHandOverOfARow ==
  ASSUME ~ LateStarts
  PROVE  Spec => []OneHandOver
<1>1. MarkInv => OneHandOver
  BY DEF MarkInv, OneGrip, OneHandOver, Grip
<1>2. Spec => []MarkInv
  BY MarksProtect
<1>3. QED
  BY <1>1, <1>2, PTL

(* However many listings, reaps, stops and hand-overs see an agent end, agent_exited is
   posted once: by whoever ended the row, or by the hand-over that withheld it when no
   replacement came. *)
THEOREM ExitAnnouncedOnce ==
  ASSUME ~ LateStarts
  PROVE  Spec => []ExitOnce
<1>1. MarkInv => ExitOnce
  BY DEF MarkInv, AnnouncedOnce, Unannounced, ExitOnce
<1>2. Spec => []MarkInv
  BY MarksProtect
<1>3. QED
  BY <1>1, <1>2, PTL
(* Every step of a command changes where it is. *)
LEMMA MoversMove ==
  ASSUME Inv, NEW m \in Movers,
         \/ Move(m) \/ Killed(m)
         \/ \E v \in {"switch", "restart", "pause"} : Read(m, v)
  PROVE  mover' # mover
<1>1. TypeOK /\ Numbered /\ Owned /\ Ready /\ Outcomes
  BY DEF Inv, Base
<1>2. CASE \E v \in {"switch", "restart", "pause"} : Read(m, v)
  <2>1. At(m, "idle") /\ Begun(m)
    BY <1>1, <1>2, ReadStep
  <2>2. QED
    BY <2>1 DEF Begun, At
<1>3. ASSUME MoverStep(m), ~ At(m, "idle")
      PROVE  mover'[m].pc # mover[m].pc
  BY <1>3 DEF MoverStep, Advance, Then, Idle, At
<1>4. CASE Killed(m)
  BY <1>1, <1>3, <1>4, KilledStep DEF Killed
<1>5. CASE Move(m)
  <2>1. ~ At(m, "idle")
    BY <1>5 DEF Move, Recheck, Choose, Clear, Mark, SendExit, Kill, End, Unmark, Park, Insert,
                TakeOver, Started, SpawnFails, Abandon, At
  <2>2. CASE Recheck(m) \/ SpawnFails(m) \/ Choose(m) \/ Clear(m) \/ Mark(m) \/ SendExit(m)
    BY <1>1, <1>3, <2>1, <2>2, RecheckStep, SpawnFailsStep, ChooseStep, ClearStep, MarkStep,
       SendExitStep
  <2>3. CASE Kill(m) \/ End(m) \/ TakeOver(m) \/ Started(m) \/ Park(m) \/ Abandon(m)
    BY <1>1, <1>3, <2>1, <2>3, KillStep, EndStep, TakeOverStep, StartedStep, ParkStep, AbandonStep
  <2>4. CASE Unmark(m) \/ \E resumed \in BOOLEAN : Insert(m, resumed)
    BY <1>1, <1>3, <2>1, <2>4, UnmarkStep, InsertStep
  <2>5. QED
    BY <1>5, <2>2, <2>3, <2>4 DEF Move
<1>6. QED
  BY <1>2, <1>4, <1>5

(* No hook of an agent that is being stopped gives its claim to the pool. *)
LEMMA AgentParks ==
  ASSUME MarkInv, ~ LateStarts, NEW m \in Movers, mover[m].row \notin robbed,
         Stops(m), Live(mover[m].row), holder = mover[m].sess, Agent
  PROVE  holder' # Pool
<1>1. /\ TypeOK /\ Numbered /\ Owned /\ Ready
      /\ mover[m].sess \in Recorded /\ mover[m].row \in Recorded
  BY DEF MarkInv, Inv, Base, Ready, MoverReady, Stops, Marks, At
<1>2. PICK s \in Sessions, r \in Rows :
        /\ s = mover[m].sess /\ r = mover[m].row /\ r = Made /\ Live(r)
        /\ rows[r].sess = s /\ rows[r].own = s /\ HandedOver(r, s) /\ s # Pool
  <2>1. mover[m].row \in Rows /\ mover[m].row = Made /\ mover[m].sess \in Sessions
    BY <1>1, RecordedRows
  <2>2. /\ rows[mover[m].row].sess = mover[m].sess /\ rows[mover[m].row].own = mover[m].sess
        /\ HandedOver(mover[m].row, mover[m].sess)
    BY <2>1 DEF MarkInv, SameSession, MarkHolds, Fresh, Reads, Stops, Marks
  <2>3. mover[m].sess # Pool
    BY <1>1, HandOverAssumption DEF Recorded, Numbered, Rows, Pool
  <2>4. QED
    BY <2>1, <2>2, <2>3
<1>3. CASE Claim
  BY <1>2, <1>3 DEF Claim
<1>4. CASE \E q \in Rows : Beat(q) \/ Die(q)
  BY <1>2, <1>4 DEF Beat, Die
<1>5. CASE \E q \in Rows : StartHook(q)
  <2>1. PICK q \in Rows : StartHook(q)
    BY <1>5
  <2>2. rows[q].own \in Sessions /\ (holder' = holder \/ holder' = rows[q].own)
    BY <1>1, <2>1, RecordedRows DEF StartHook
  <2>3. rows[q].own # Pool
    BY <2>2, HandOverAssumption DEF Sessions, Rows, Pool
  <2>4. QED
    BY <1>2, <2>2, <2>3
<1>6. CASE \E q \in Rows : Exit(q)
  <2>1. PICK q \in Rows : Exit(q)
    BY <1>6
  <2>2. Marked(s) /\ \E p \in Rows : Live(p) /\ rows[p].sess = s
    BY <1>1, <1>2, HandOverAssumption DEF HandedOver, Marked, Recorded, Numbered, Rows, NoRow
  <2>3. rows[q].own # s => holder' = holder
    BY <1>2, <2>1 DEF Exit
  <2>4. rows[q].own = s => holder' = holder
    BY <2>1, <2>2 DEF Exit
  <2>5. QED
    BY <1>2, <2>3, <2>4
<1>7. QED
  BY <1>3, <1>4, <1>5, <1>6 DEF Agent

(* Nor does any other step, but a command's or the owner's. *)
LEMMA StepParks ==
  ASSUME MarkInv, ~ LateStarts, NEW m \in Movers, mover[m].row \notin robbed, [Next]_vars
  PROVE  Parks(m)
<1>1. /\ TypeOK /\ Numbered /\ Owned /\ Ready /\ Inv
  BY DEF MarkInv, Inv, Base
<1>2. SUFFICES ASSUME Stops(m), Live(mover[m].row), holder = mover[m].sess, holder' = Pool
               PROVE  mover' # mover \/ owner' # owner
  BY DEF Parks
<1>3. PICK s \in Sessions, r \in Rows :
        /\ s = mover[m].sess /\ r = mover[m].row /\ r = Made /\ Live(r)
        /\ HandedOver(r, s) /\ s # Pool
  <2>1. mover[m].row \in Recorded /\ mover[m].sess \in Recorded
    BY <1>1, <1>2 DEF Ready, MoverReady, Stops, Marks, At
  <2>2. mover[m].row \in Rows /\ mover[m].row = Made /\ mover[m].sess \in Sessions
    BY <1>1, <1>2, <2>1, RecordedRows
  <2>3. HandedOver(mover[m].row, mover[m].sess)
    BY <1>2, <2>2 DEF MarkInv, MarkHolds, Fresh, Stops
  <2>4. mover[m].sess # Pool
    BY <2>2, HandOverAssumption DEF Sessions, Rows, Pool
  <2>5. QED
    BY <1>2, <2>2, <2>3, <2>4
<1>4. CASE Agent
  BY <1>2, <1>4, AgentParks
<1>5. CASE Owner
  <2>1. CASE OwnerStop
    BY <1>1, <1>2, <1>3, <2>1, OwnerStopStep
  <2>2. CASE OwnerKill \/ OwnerEnd
    BY <1>1, <1>2, <1>3, <2>2, OwnerKillStep, OwnerEndStep
  <2>3. QED
    BY <1>5, <2>1, <2>2 DEF Owner
<1>6. CASE Look \/ \E t \in Sessions : Lapse(t)
  BY <1>2, <1>3, <1>6 DEF Look, Lapse
<1>7. CASE Record
  <2>1. ASSUME NEW q \in Recorded, rows[q].sess = s
        PROVE  HandedOver(q, rows[q].sess)
    <3>1. q <= Made /\ q \in Nat /\ Made \in Nat /\ session[s].mark \in Nat
      BY <1>1, <1>3, TypeParts, HandOverAssumption
         DEF Recorded, Numbered, Rows, SessionRecord
    <3>2. QED
      BY <1>3, <2>1, <3>1 DEF HandedOver
  <2>2. holder' = holder
    BY <1>1, <1>2, <1>3, <1>7, <2>1, RecordStep
  <2>3. QED
    BY <1>2, <1>3, <2>2
<1>8. CASE LeaseLapses
  BY <1>2, <1>8 DEF LeaseLapses, Stops, Marks, At
<1>9. CASE \E n \in Movers : Move(n) \/ Killed(n)
                             \/ \E v \in {"switch", "restart", "pause"} : Read(n, v)
  BY <1>1, <1>9, MoversMove
<1>10. CASE UNCHANGED vars
  BY <1>2, <1>3, <1>10 DEF vars
<1>11. QED
  BY <1>4, <1>5, <1>6, <1>7, <1>8, <1>9, <1>10 DEF Next

(* While a hand-over stops its agent, no listing, reap, heartbeat or hook of the agent
   gives its claim to the pool: the mark that each of them looks for is there. *)
THEOREM ParkedClaimsStay ==
  ASSUME ~ LateStarts
  PROVE  Spec => ParkedStays
<1>1. MarkInv /\ [Next]_vars => [\A m \in Movers : mover[m].row \notin robbed => Parks(m)]_vars
  BY StepParks
<1>2. Spec => []MarkInv
  BY MarksProtect
<1>3. QED
  BY <1>1, <1>2, PTL DEF Spec, ParkedStays

(* A claim of a session the board knows always has a live row, a paused row or a command
   to give it back, through failed spawns, refused take-overs, pauses and deaths at any
   step, as long as no command is killed; robbed rows are no exception. *)
THEOREM NobodyIsStranded ==
  ASSUME ~ LateStarts
  PROVE  Spec => []NobodyStranded
<1>1. Init => ClaimInv
  BY InitInv
<1>2. ClaimInv /\ [Next]_vars => ClaimInv'
  BY NextClaimInv
<1>3. ClaimInv => NobodyStranded
  BY TendedReached DEF ClaimInv
<1>4. QED
  BY <1>1, <1>2, <1>3, PTL DEF Spec
=============================================================================
