-------------------------- MODULE Instances_proofs --------------------------
(***************************************************************************)
(* Proofs about Instances, for any processes, releases, hosts and kills.   *)
(*                                                                         *)
(* OneRelease is not inductive by itself.  Three facts carry it.  A reader *)
(* that is about to delete files is past a probe that found the lock not   *)
(* held, and one who ran never runs again, so it is nobody's that runs     *)
(* (ReadsTruly); hence who runs stays listed.  A process at the gate has   *)
(* each one that runs still to read or found (GateSeesAll), since nobody   *)
(* else registers meanwhile.  And who is past the gate's read has found    *)
(* none of another release (GateIsClear).                                  *)
(***************************************************************************)
EXTENDS Instances, TLAPS

Past == {"unlocked", "ending", "gone", "dead"}
Registered == Beating \cup {"unlisted"} \cup Past

(* A record is there only of one that runs or was killed. *)
RecordsAreOwned == \A y \in record : pc[y] \in Beating \cup {"dead"}

(* Who is read has registered, and who is being cleared away has let its lock go. *)
ReadsTruly ==
  \A x \in Asqs :
    /\ reader[x].step = "probe" => reader[x].at \in Asqs /\ pc[reader[x].at] \in Registered
    /\ reader[x].step \in {"probed", "forget"} =>
         reader[x].at \in Asqs /\ pc[reader[x].at] \in Past

(* At the gate each one that runs is still to be read, being read, or found. *)
GateSeesAll ==
  \A x, y \in Asqs : pc[x] = "reads" /\ pc[y] \in Beating =>
    \/ y \in reader[x].todo \cup reader[x].found
    \/ reader[x].step = "probe" /\ reader[x].at = y

(* Who is let through the gate shares the release of each one that runs. *)
GateIsClear ==
  \A x, y \in Asqs :
    pc[x] \in {"locks", "writes"} /\ pc[y] \in Beating => ReleaseOf[x] = ReleaseOf[y]

IInv ==
  /\ TypeOK /\ RecordsAreOwned /\ ReadsTruly /\ RunningStaysListed
  /\ GateSeesAll /\ GateIsClear /\ OneRelease

-----------------------------------------------------------------------------
(* The types and who holds which lock. *)
LEMMA TypesKept ==
  ASSUME TypeOK, ReadsTruly, [Next]_vars
  PROVE  TypeOK'
<1> USE DEF At, Goes, files, TypeOK, ReadsTruly, Steps, InGate, Beating, Holding, Over,
  Past, Registered
<1>1. ASSUME NEW x \in Asqs, List(x) PROVE TypeOK'
  BY <1>1, InstancesAssumption DEF List, Rest
<1>2. ASSUME NEW x \in Asqs, NEW y \in Asqs, Load(x, y) PROVE TypeOK'
  BY <1>2, InstancesAssumption DEF Load
<1>3. ASSUME NEW x \in Asqs, Probe(x) PROVE TypeOK'
  <2>1. CASE Held(reader[x].at) = "no"
    <3>1. reader[x].at \in Asqs /\ lock[reader[x].at] = "free"
      BY <1>3, <2>1 DEF Probe, Held
    <3>2. lock' = [lock EXCEPT ![reader[x].at] = "probed"]
            /\ reader' = [reader EXCEPT ![x].step = "probed"]
      BY <1>3, <2>1 DEF Probe
    <3> QED BY <1>3, <3>1, <3>2 DEF Probe
  <2>2. CASE Held(reader[x].at) # "no"
    <3>1. PICK live \in BOOLEAN : Settle(x, live)
      BY <1>3, <2>2 DEF Probe, Live
    <3>2. reader' \in [Asqs -> [step : Steps, todo : SUBSET Asqs, at : Asqs \cup {None},
                               found : SUBSET Asqs]]
      BY <1>3, <3>1 DEF Probe, Settle
    <3> QED BY <1>3, <2>2, <3>2 DEF Probe
  <2> QED BY <2>1, <2>2
<1>4. ASSUME NEW x \in Asqs, Unprobe(x) PROVE TypeOK'
  BY <1>4, InstancesAssumption DEF Unprobe, LetGo, Settle
<1>5. ASSUME NEW x \in Asqs, Forget(x) PROVE TypeOK'
  BY <1>5, InstancesAssumption DEF Forget, Forgotten
<1>6. ASSUME NEW x \in Asqs, ListEnds(x) PROVE TypeOK'
  BY <1>6, InstancesAssumption DEF ListEnds, Rest
<1>7. ASSUME NEW x \in Asqs, Enter(x) PROVE TypeOK'
  BY <1>7, InstancesAssumption DEF Enter, Rest
<1>8. ASSUME NEW x \in Asqs, Judge(x) PROVE TypeOK'
  BY <1>8, InstancesAssumption DEF Judge, Differing, Rest
<1>9. ASSUME NEW x \in Asqs, TakeLock(x) PROVE TypeOK'
  BY <1>9, InstancesAssumption DEF TakeLock
<1>10. ASSUME NEW x \in Asqs, WriteRecord(x) PROVE TypeOK'
  BY <1>10, InstancesAssumption DEF WriteRecord
<1>11. ASSUME NEW x \in Asqs, Unlock(x) PROVE TypeOK'
  BY <1>11, InstancesAssumption DEF Unlock, LetGo
<1>12. ASSUME NEW x \in Asqs, CleanUp(x) PROVE TypeOK'
  BY <1>12, InstancesAssumption DEF CleanUp, Forgotten
<1>13. ASSUME NEW x \in Asqs, Kill(x) PROVE TypeOK'
  BY <1>13, InstancesAssumption DEF Kill, Rest, Over
<1>14. ASSUME NEW x \in Asqs, NEW y \in Asqs,
           \/ TimesOut(x) \/ AnswersNo(x) \/ AnswersYes(x) \/ SeesLeft(x, y) \/ TriesAgain(x)
           \/ GivesUp(x) \/ Shows(x) \/ Beat(x) \/ HearsQuit(x) \/ Quits(x)
           \/ Unlist(x) \/ Ends(x) \/ GoesStale(x)
     PROVE  TypeOK'
  BY <1>14, InstancesAssumption DEF TimesOut, AnswersNo, AnswersYes, SeesLeft,
    TriesAgain, GivesUp, Shows, Beat, HearsQuit, Quits, Unlist, Ends, GoesStale
<1>15. CASE UNCHANGED vars
  BY <1>15, InstancesAssumption DEF vars
<1> QED BY <1>1, <1>2, <1>3, <1>4, <1>5, <1>6, <1>7, <1>8, <1>9, <1>10, <1>11, <1>12,
  <1>13, <1>14, <1>15 DEF Next, Reads, Starts, Leaves, Asks

(* A record comes only from one that runs. *)
LEMMA OwnersKept ==
  ASSUME TypeOK, RecordsAreOwned, [Next]_vars
  PROVE  RecordsAreOwned'
<1> USE DEF At, Goes, files, TypeOK, RecordsAreOwned, Beating, Over
<1>1. ASSUME NEW x \in Asqs, Forget(x) PROVE RecordsAreOwned'
  BY <1>1 DEF Forget, Forgotten
<1>2. ASSUME NEW x \in Asqs, WriteRecord(x) PROVE RecordsAreOwned'
  BY <1>2 DEF WriteRecord
<1>3. ASSUME NEW x \in Asqs, Unlist(x) PROVE RecordsAreOwned'
  BY <1>3 DEF Unlist
<1>4. ASSUME NEW x \in Asqs, CleanUp(x) PROVE RecordsAreOwned'
  BY <1>4 DEF CleanUp, Forgotten
<1>5. ASSUME NEW x \in Asqs, Kill(x) PROVE RecordsAreOwned'
  BY <1>5 DEF Kill, Rest, Over
<1>6. ASSUME NEW x \in Asqs, NEW y \in Asqs,
           \/ List(x) \/ Load(x, y) \/ Probe(x) \/ Unprobe(x) \/ ListEnds(x)
           \/ Enter(x) \/ TimesOut(x) \/ Judge(x) \/ TakeLock(x) \/ AnswersNo(x)
           \/ AnswersYes(x) \/ SeesLeft(x, y) \/ TriesAgain(x) \/ GivesUp(x) \/ Shows(x)
           \/ Beat(x) \/ HearsQuit(x) \/ Quits(x) \/ Unlock(x) \/ Ends(x)
           \/ GoesStale(x)
     PROVE  RecordsAreOwned'
  BY <1>6 DEF List, Rest, Load, Probe, Held, Settle, Live, Unprobe, LetGo, ListEnds,
    Enter, TimesOut, Judge, Differing, TakeLock, AnswersNo, AnswersYes, SeesLeft,
    TriesAgain, GivesUp, Shows, Beat, HearsQuit, Quits, Unlock, Ends, GoesStale
<1>7. CASE UNCHANGED vars
  BY <1>7 DEF vars
<1> QED BY <1>1, <1>2, <1>3, <1>4, <1>5, <1>6, <1>7 DEF Next, Reads, Starts, Leaves,
  Asks

(* A probe finds the lock of one that runs held. *)
LEMMA ReadsStayTrue ==
  ASSUME TypeOK, RecordsAreOwned, ReadsTruly, [Next]_vars
  PROVE  ReadsTruly'
<1> USE DEF At, Goes, files, TypeOK, RecordsAreOwned, ReadsTruly, Beating, Holding,
  Over, Past, Registered, InGate
<1>1. ASSUME NEW x \in Asqs, List(x) PROVE ReadsTruly'
  BY <1>1, InstancesAssumption DEF List, Rest
<1>2. ASSUME NEW x \in Asqs, NEW y \in Asqs, Load(x, y) PROVE ReadsTruly'
  BY <1>2, InstancesAssumption DEF Load
<1>3. ASSUME NEW x \in Asqs, Probe(x) PROVE ReadsTruly'
  BY <1>3, InstancesAssumption DEF Probe, Held, Settle, Live
<1>4. ASSUME NEW x \in Asqs, Unprobe(x) PROVE ReadsTruly'
  BY <1>4, InstancesAssumption DEF Unprobe, LetGo, Settle
<1>5. ASSUME NEW x \in Asqs, Forget(x) PROVE ReadsTruly'
  BY <1>5, InstancesAssumption DEF Forget, Forgotten
<1>6. ASSUME NEW x \in Asqs, ListEnds(x) PROVE ReadsTruly'
  BY <1>6, InstancesAssumption DEF ListEnds, Rest
<1>7. ASSUME NEW x \in Asqs, Enter(x) PROVE ReadsTruly'
  BY <1>7, InstancesAssumption DEF Enter, Rest
<1>8. ASSUME NEW x \in Asqs, Judge(x) PROVE ReadsTruly'
  BY <1>8, InstancesAssumption DEF Judge, Differing, Rest
<1>9. ASSUME NEW x \in Asqs, Kill(x) PROVE ReadsTruly'
  BY <1>9, InstancesAssumption DEF Kill, Rest, Over
<1>10. ASSUME NEW x \in Asqs, NEW y \in Asqs,
           \/ TimesOut(x) \/ TakeLock(x) \/ WriteRecord(x) \/ AnswersNo(x) \/ AnswersYes(x)
           \/ SeesLeft(x, y) \/ TriesAgain(x) \/ GivesUp(x) \/ Shows(x) \/ Beat(x)
           \/ HearsQuit(x) \/ Quits(x) \/ Unlist(x) \/ Unlock(x) \/ CleanUp(x)
           \/ Ends(x) \/ GoesStale(x)
     PROVE  ReadsTruly'
  BY <1>10, InstancesAssumption DEF TimesOut, TakeLock, WriteRecord, AnswersNo,
    AnswersYes, SeesLeft, TriesAgain, GivesUp, Shows, Beat, HearsQuit, Quits, Unlist,
    Unlock, LetGo, CleanUp, Forgotten, Ends, GoesStale
<1>11. CASE UNCHANGED vars
  BY <1>11, InstancesAssumption DEF vars
<1> QED BY <1>1, <1>2, <1>3, <1>4, <1>5, <1>6, <1>7, <1>8, <1>9, <1>10, <1>11 DEF Next,
  Reads, Starts, Leaves, Asks

(* Only who has let its lock go is cleared away. *)
LEMMA ListedKept ==
  ASSUME TypeOK, ReadsTruly, RunningStaysListed, [Next]_vars
  PROVE  RunningStaysListed'
<1> USE DEF At, Goes, files, TypeOK, ReadsTruly, RunningStaysListed, Beating, Past
<1>1. ASSUME NEW x \in Asqs, Forget(x) PROVE RunningStaysListed'
  BY <1>1 DEF Forget, Forgotten
<1>2. ASSUME NEW x \in Asqs, WriteRecord(x) PROVE RunningStaysListed'
  BY <1>2 DEF WriteRecord
<1>3. ASSUME NEW x \in Asqs, Unlist(x) PROVE RunningStaysListed'
  BY <1>3 DEF Unlist
<1>4. ASSUME NEW x \in Asqs, CleanUp(x) PROVE RunningStaysListed'
  BY <1>4 DEF CleanUp, Forgotten
<1>5. ASSUME NEW x \in Asqs, NEW y \in Asqs,
           \/ List(x) \/ Load(x, y) \/ Probe(x) \/ Unprobe(x) \/ ListEnds(x)
           \/ Enter(x) \/ TimesOut(x) \/ Judge(x) \/ TakeLock(x) \/ AnswersNo(x)
           \/ AnswersYes(x) \/ SeesLeft(x, y) \/ TriesAgain(x) \/ GivesUp(x) \/ Shows(x)
           \/ Beat(x) \/ HearsQuit(x) \/ Quits(x) \/ Unlock(x) \/ Ends(x)
           \/ Kill(x) \/ GoesStale(x)
     PROVE  RunningStaysListed'
  BY <1>5 DEF List, Rest, Load, Probe, Held, Settle, Live, Unprobe, LetGo, ListEnds,
    Enter, TimesOut, Judge, Differing, TakeLock, AnswersNo, AnswersYes, SeesLeft,
    TriesAgain, GivesUp, Shows, Beat, HearsQuit, Quits, Unlock, Ends, Kill, Over,
    GoesStale
<1>6. CASE UNCHANGED vars
  BY <1>6 DEF vars
<1> QED BY <1>1, <1>2, <1>3, <1>4, <1>5, <1>6 DEF Next, Reads, Starts, Leaves, Asks

(* The gate keeps others from registering; a record that is there is read. *)
LEMMA SightKept ==
  ASSUME TypeOK, ReadsTruly, RunningStaysListed, GateSeesAll, [Next]_vars
  PROVE  GateSeesAll'
<1> USE DEF At, Goes, files, TypeOK, ReadsTruly, RunningStaysListed, GateSeesAll,
  Beating, Holding, Past, InGate
<1>1. ASSUME NEW x \in Asqs, NEW y \in Asqs, Load(x, y) PROVE GateSeesAll'
  BY <1>1 DEF Load
<1>2. ASSUME NEW x \in Asqs, Probe(x) PROVE GateSeesAll'
  BY <1>2 DEF Probe, Held, Settle, Live
<1>3. ASSUME NEW x \in Asqs, Unprobe(x) PROVE GateSeesAll'
  BY <1>3 DEF Unprobe, LetGo, Settle
<1>4. ASSUME NEW x \in Asqs, Enter(x) PROVE GateSeesAll'
  BY <1>4 DEF Enter, Rest
<1>5. ASSUME NEW x \in Asqs, WriteRecord(x) PROVE GateSeesAll'
  BY <1>5 DEF WriteRecord
<1>6. ASSUME NEW x \in Asqs, NEW y \in Asqs,
           \/ List(x) \/ Forget(x) \/ ListEnds(x) \/ TimesOut(x) \/ Judge(x)
           \/ TakeLock(x) \/ AnswersNo(x) \/ AnswersYes(x) \/ SeesLeft(x, y) \/ TriesAgain(x)
           \/ GivesUp(x) \/ Shows(x) \/ Beat(x) \/ HearsQuit(x) \/ Quits(x)
           \/ Unlist(x) \/ Unlock(x) \/ CleanUp(x) \/ Ends(x) \/ Kill(x)
           \/ GoesStale(x)
     PROVE  GateSeesAll'
  BY <1>6 DEF List, Rest, Forget, Forgotten, ListEnds, TimesOut, Judge, Differing,
    TakeLock, AnswersNo, AnswersYes, SeesLeft, TriesAgain, GivesUp, Shows, Beat,
    HearsQuit, Quits, Unlist, Unlock, LetGo, CleanUp, Ends, Kill, Over, GoesStale
<1>7. CASE UNCHANGED vars
  BY <1>7 DEF vars
<1> QED BY <1>1, <1>2, <1>3, <1>4, <1>5, <1>6, <1>7 DEF Next, Reads, Starts, Leaves,
  Asks

(* Who was found, and is of the same release, is all who runs. *)
LEMMA ClearKept ==
  ASSUME TypeOK, GateSeesAll, GateIsClear, [Next]_vars
  PROVE  GateIsClear'
<1> USE DEF At, Goes, files, TypeOK, GateSeesAll, GateIsClear, Beating, InGate
<1>1. ASSUME NEW x \in Asqs, Judge(x) PROVE GateIsClear'
  BY <1>1 DEF Judge, Differing, Rest
<1>2. ASSUME NEW x \in Asqs, TakeLock(x) PROVE GateIsClear'
  BY <1>2 DEF TakeLock
<1>3. ASSUME NEW x \in Asqs, WriteRecord(x) PROVE GateIsClear'
  BY <1>3 DEF WriteRecord
<1>4. ASSUME NEW x \in Asqs, NEW y \in Asqs,
           \/ List(x) \/ Load(x, y) \/ Probe(x) \/ Unprobe(x) \/ Forget(x)
           \/ ListEnds(x) \/ Enter(x) \/ TimesOut(x) \/ AnswersNo(x) \/ AnswersYes(x)
           \/ SeesLeft(x, y) \/ TriesAgain(x) \/ GivesUp(x) \/ Shows(x) \/ Beat(x)
           \/ HearsQuit(x) \/ Quits(x) \/ Unlist(x) \/ Unlock(x) \/ CleanUp(x)
           \/ Ends(x) \/ Kill(x) \/ GoesStale(x)
     PROVE  GateIsClear'
  BY <1>4 DEF List, Rest, Load, Probe, Held, Settle, Live, Unprobe, LetGo, Forget,
    Forgotten, ListEnds, Enter, TimesOut, AnswersNo, AnswersYes, SeesLeft, TriesAgain,
    GivesUp, Shows, Beat, HearsQuit, Quits, Unlist, Unlock, CleanUp, Ends, Kill, Over,
    GoesStale
<1>5. CASE UNCHANGED vars
  BY <1>5 DEF vars
<1> QED BY <1>1, <1>2, <1>3, <1>4, <1>5 DEF Next, Reads, Starts, Leaves, Asks

(* The one who joins those that run is of their release. *)
LEMMA ReleaseKept ==
  ASSUME TypeOK, GateIsClear, OneRelease, [Next]_vars
  PROVE  OneRelease'
<1> USE DEF At, Goes, files, TypeOK, GateIsClear, OneRelease, Beating
<1>1. ASSUME NEW x \in Asqs, WriteRecord(x) PROVE OneRelease'
  BY <1>1 DEF WriteRecord
<1>2. ASSUME NEW x \in Asqs, NEW y \in Asqs,
           \/ List(x) \/ Load(x, y) \/ Probe(x) \/ Unprobe(x) \/ Forget(x)
           \/ ListEnds(x) \/ Enter(x) \/ TimesOut(x) \/ Judge(x) \/ TakeLock(x)
           \/ AnswersNo(x) \/ AnswersYes(x) \/ SeesLeft(x, y) \/ TriesAgain(x) \/ GivesUp(x)
           \/ Shows(x) \/ Beat(x) \/ HearsQuit(x) \/ Quits(x) \/ Unlist(x)
           \/ Unlock(x) \/ CleanUp(x) \/ Ends(x) \/ Kill(x) \/ GoesStale(x)
     PROVE  OneRelease'
  BY <1>2 DEF List, Rest, Load, Probe, Held, Settle, Live, Unprobe, LetGo, Forget,
    Forgotten, ListEnds, Enter, TimesOut, Judge, Differing, TakeLock, AnswersNo,
    AnswersYes, SeesLeft, TriesAgain, GivesUp, Shows, Beat, HearsQuit, Quits, Unlist,
    Unlock, CleanUp, Ends, Kill, Over, GoesStale
<1>3. CASE UNCHANGED vars
  BY <1>3 DEF vars
<1> QED BY <1>1, <1>2, <1>3 DEF Next, Reads, Starts, Leaves, Asks

(* Together they are inductive. *)
LEMMA IInvHolds == Spec => []IInv
<1>1. Init => IInv
  BY InstancesAssumption DEF Init, IInv, TypeOK, RecordsAreOwned, ReadsTruly, RunningStaysListed,
    GateSeesAll, GateIsClear, OneRelease, Rest, Steps, Beating, Holding, InGate
<1>2. IInv /\ [Next]_vars => IInv'
  BY TypesKept, OwnersKept, ReadsStayTrue, ListedKept, SightKept, ClearKept, ReleaseKept DEF IInv
<1> QED BY <1>1, <1>2, PTL DEF Spec

-----------------------------------------------------------------------------
(* Every variable keeps its type, a lock is held by its own process exactly while that one
   is registered, and the gate by the one that reads or registers. *)
THEOREM TypeCorrect == Spec => []TypeOK
BY IInvHolds, PTL DEF IInv

(* No two asqs that run are of different releases (instance_gate._pass). *)
THEOREM ReleasesNeverMix == Spec => []OneRelease
BY IInvHolds, PTL DEF IInv

(* No reader deletes the record of an asq that runs (roll, _live, _forget). *)
THEOREM RunningIsListed == Spec => []RunningStaysListed
BY IInvHolds, PTL DEF IInv
=============================================================================
