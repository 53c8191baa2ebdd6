---------------------------- MODULE Outbox_proofs ----------------------------
(***************************************************************************)
(* The spool for any records, sweepers, batch limit and claim age.         *)
(***************************************************************************)
EXTENDS Outbox, TLAPS

LEMMA TypeInit == Init => TypeOK
  BY StaleAssumption DEF Init, TypeOK, Places, SweeperStates, Steps, Idle

LEMMA TypeStep == TypeOK /\ [Next]_vars => TypeOK'
<1> SUFFICES ASSUME TypeOK, [Next]_vars
             PROVE  TypeOK'
  OBVIOUS
<1> USE DEF TypeOK
<1>1. ASSUME NEW r \in Records, Stage(r) \/ Publish(r) PROVE TypeOK'
  BY <1>1 DEF Stage, Publish, Places
<1>2. ASSUME Tick PROVE TypeOK'
  BY <1>2, StaleAssumption DEF Tick
<1>3. ASSUME NEW s \in Sweepers, NEW r \in Records, OnRecord(s, r) PROVE TypeOK'
  <2>0. /\ sweeper[s] \in SweeperStates
        /\ Unclaimed(r) \in [Records -> Places] /\ Unlinked(r) \in [Records -> Places]
    BY DEF Unclaimed, Unlinked, Places
  <2>1. CASE StatClaim(s, r)
    <3>1. CASE place[r] = "claimed" /\ age[r] >= Stale
      BY <2>0, <2>1, <3>1 DEF StatClaim, SweeperStates, Steps
    <3>2. CASE ~(place[r] = "claimed" /\ age[r] >= Stale)
      BY <2>0, <2>1, <3>2 DEF StatClaim, SweeperStates, Steps
    <3> QED
      BY <3>1, <3>2
  <2>2. CASE Reclaim(s, r)
    BY <2>0, <2>2 DEF Reclaim, SweeperStates, Steps
  <2>3. CASE Claim(s, r)
    BY <2>0, <2>3 DEF Claim, SweeperStates, Steps, Places
  <2>4. CASE Load(s, r)
    <3>1. CASE place[r] = "claimed" /\ r \in Readable
      BY <2>0, <2>4, <3>1 DEF Load, SweeperStates, Steps
    <3>2. CASE ~(place[r] = "claimed" /\ r \in Readable)
      BY <2>0, <2>4, <3>2 DEF Load, SweeperStates, Steps
    <3> QED
      BY <3>1, <3>2
  <2>5. CASE Bury(s, r)
    BY <2>0, <2>5 DEF Bury, SweeperStates, Steps
  <2>9. CASE BuryFails(s, r)
    BY <2>0, <2>9 DEF BuryFails, SweeperStates, Steps
  <2>6. CASE BuryUnlink(s, r)
    BY <2>0, <2>6 DEF BuryUnlink, SweeperStates, Steps
  <2>7. CASE MarkSent(s, r)
    BY <2>0, <2>7 DEF MarkSent, SweeperStates, Steps
  <2>8. CASE GiveBack(s, r)
    <3>1. CASE sweeper[s].held = {r}
      BY <2>0, <2>8, <3>1 DEF GiveBack, SweeperStates, Steps, Idle
    <3>2. CASE sweeper[s].held # {r}
      BY <2>0, <2>8, <3>2 DEF GiveBack, SweeperStates, Steps
    <3> QED
      BY <3>1, <3>2
  <2> QED
    BY <1>3, <2>1, <2>2, <2>3, <2>4, <2>5, <2>6, <2>7, <2>8, <2>9 DEF OnRecord
<1>4. ASSUME NEW s \in Sweepers, Work(s) \/ InitFails(s) \/ ShipOK(s) \/ ShipFails(s) \/ Kill(s)
      PROVE  TypeOK'
  <2>0. sweeper[s] \in SweeperStates /\ Idle \in SweeperStates
    BY DEF Idle, SweeperStates, Steps
  <2>1. CASE BeginShip(s)
    BY <2>0, <2>1 DEF BeginShip, SweeperStates, Steps, At
  <2>2. CASE ListBatch(s)
    BY <2>0, <2>2 DEF ListBatch, SweeperStates, Steps, Pending, At
  <2>3. CASE InitFails(s)
    BY <2>0, <2>3 DEF InitFails
  <2>4. CASE NextRun(s)
    BY <2>0, <2>4 DEF NextRun, SweeperStates, Steps
  <2>5. CASE BeginShipment(s)
    BY <2>0, <2>5 DEF BeginShipment, SweeperStates, Steps
  <2>6. CASE ShipOK(s)
    BY <2>0, <2>6 DEF ShipOK, SweeperStates, Steps
  <2>7. CASE ShipFails(s)
    BY <2>0, <2>7 DEF ShipFails, SweeperStates, Steps
  <2>8. CASE Kill(s)
    BY <2>0, <2>8 DEF Kill
  <2> QED
    BY <1>3, <1>4, <2>1, <2>2, <2>3, <2>4, <2>5, <2>6, <2>7, <2>8 DEF Work
<1>5. CASE UNCHANGED vars
  BY <1>5 DEF vars
<1> QED
  BY <1>1, <1>2, <1>3, <1>4, <1>5 DEF Next, Work

(* Every variable keeps its type.                                          *)
THEOREM TypeCorrect == Spec => []TypeOK
  BY TypeInit, TypeStep, PTL DEF Spec
-----------------------------------------------------------------------------
(* NeverLost is not inductive: that a record may be unlinked was decided   *)
(* steps before, by the shipment or the dead letter its sweeper remembers. *)

Published == {r \in Records : place[r] \notin {"absent", "partial"}}

Sound(s) == /\ sweeper[s].held \cup sweeper[s].cur \subseteq Published
            /\ \A q, r \in sweeper[s].cur : q = r
            /\ sweeper[s].pc = "sent" => sweeper[s].held \subseteq delivered
            /\ sweeper[s].pc = "unlink_dead" => \A r \in sweeper[s].cur : dead[r] # "none"

SpoolInv == /\ TypeOK
            /\ \A s \in Sweepers : Sound(s)
            /\ Settled \subseteq Published
            /\ NeverLost

LEMMA SpoolInit == Init => SpoolInv
<1> SUFFICES ASSUME Init PROVE SpoolInv
  OBVIOUS
<1>1. TypeOK
  BY TypeInit
<1> QED
  BY <1>1 DEF Init, SpoolInv, Sound, Published, Settled, NeverLost, At, Idle

\* No step takes a record back to its writer, or forgets that it was settled.
LEMMA Monotone ==
  TypeOK /\ [Next]_vars =>
    /\ Published \subseteq Published'
    /\ delivered \subseteq delivered'
    /\ \A r \in Records : dead[r] # "none" => dead'[r] # "none"
<1> SUFFICES ASSUME TypeOK, [Next]_vars
             PROVE  /\ Published \subseteq Published'
                    /\ delivered \subseteq delivered'
                    /\ \A r \in Records : dead[r] # "none" => dead'[r] # "none"
  OBVIOUS
<1>0. place \in [Records -> Places] /\ dead \in [Records -> {"none", "whole", "empty"}]
  BY DEF TypeOK
<1>1. ASSUME UNCHANGED <<place, delivered, dead>>
      PROVE  /\ Published \subseteq Published'
             /\ delivered \subseteq delivered'
             /\ \A r \in Records : dead[r] # "none" => dead'[r] # "none"
  BY <1>1 DEF Published
<1>2. ASSUME NEW r \in Records,
             \/ Stage(r) \/ Publish(r)
             \/ \E s \in Sweepers : \/ Reclaim(s, r) \/ Claim(s, r) \/ BuryUnlink(s, r)
                                    \/ MarkSent(s, r) \/ GiveBack(s, r)
      PROVE  /\ Published \subseteq Published'
             /\ delivered \subseteq delivered'
             /\ \A q \in Records : dead[q] # "none" => dead'[q] # "none"
  BY <1>0, <1>2 DEF Stage, Publish, Reclaim, Claim, BuryUnlink, MarkSent, GiveBack,
                    Unclaimed, Unlinked, Published
<1>3. ASSUME NEW r \in Records, NEW s \in Sweepers, Bury(s, r) \/ BuryFails(s, r)
      PROVE  /\ Published \subseteq Published'
             /\ delivered \subseteq delivered'
             /\ \A q \in Records : dead[q] # "none" => dead'[q] # "none"
  BY <1>0, <1>3 DEF Bury, BuryFails, Published
<1>4. ASSUME NEW s \in Sweepers, ShipOK(s) \/ ShipFails(s)
      PROVE  /\ Published \subseteq Published'
             /\ delivered \subseteq delivered'
             /\ \A q \in Records : dead[q] # "none" => dead'[q] # "none"
  BY <1>4 DEF ShipOK, ShipFails, Published
<1>5. CASE Tick \/ UNCHANGED vars
  BY <1>1, <1>5 DEF Tick, vars
<1>6. ASSUME NEW s \in Sweepers, NEW r \in Records, StatClaim(s, r) \/ Load(s, r)
      PROVE  UNCHANGED <<place, delivered, dead>>
  BY <1>6 DEF StatClaim, Load
<1>7. ASSUME NEW s \in Sweepers,
             BeginShip(s) \/ ListBatch(s) \/ NextRun(s) \/ BeginShipment(s) \/ InitFails(s) \/ Kill(s)
      PROVE  UNCHANGED <<place, delivered, dead>>
  BY <1>7 DEF BeginShip, ListBatch, NextRun, BeginShipment, InitFails, Kill
<1> QED
  BY <1>1, <1>2, <1>3, <1>4, <1>5, <1>6, <1>7 DEF Next, Work, OnRecord

LEMMA SoundStep == SpoolInv /\ [Next]_vars => \A t \in Sweepers : Sound(t)'
<1> SUFFICES ASSUME SpoolInv, [Next]_vars, NEW t \in Sweepers
             PROVE  Sound(t)'
  OBVIOUS
<1>0. TypeOK /\ Sound(t)
  BY DEF SpoolInv
<1>w. /\ sweeper \in [Sweepers -> SweeperStates]
      /\ place \in [Records -> Places] /\ dead \in [Records -> {"none", "whole", "empty"}]
  BY <1>0 DEF TypeOK
<1>m. /\ Published \subseteq Published'
      /\ delivered \subseteq delivered'
      /\ \A r \in Records : dead[r] # "none" => dead'[r] # "none"
  BY <1>0, Monotone
<1>r. sweeper[t].cur \subseteq Records
  BY <1>w DEF SweeperStates
<1>1. ASSUME sweeper'[t] = sweeper[t] PROVE Sound(t)'
  BY <1>0, <1>m, <1>r, <1>1 DEF Sound
<1>2. ASSUME sweeper'[t] = Idle PROVE Sound(t)'
  BY <1>2 DEF Sound, Idle
\* A process that is neither done shipping nor past a letter has only files to have.
<1>3. ASSUME sweeper'[t].pc \notin {"sent", "unlink_dead"},
             sweeper'[t].held \cup sweeper'[t].cur \subseteq Published,
             \A q, r \in sweeper'[t].cur : q = r
      PROVE  Sound(t)'
  BY <1>m, <1>3 DEF Sound
<1>4. ASSUME NEW r \in Records, OnRecord(t, r) PROVE Sound(t)'
  <2>1. CASE StatClaim(t, r)
    <3>1. CASE place[r] = "claimed" /\ age[r] >= Stale
      BY <1>0, <1>w, <1>3, <2>1, <3>1 DEF StatClaim, SweeperStates, Sound, Published
    <3>2. CASE ~(place[r] = "claimed" /\ age[r] >= Stale)
      BY <1>0, <1>w, <1>3, <2>1, <3>2 DEF StatClaim, SweeperStates, Sound
    <3> QED
      BY <3>1, <3>2
  <2>2. CASE Reclaim(t, r)
    BY <1>0, <1>w, <1>3, <2>2 DEF Reclaim, SweeperStates, Sound
  <2>3. CASE Claim(t, r)
    <3>1. CASE place[r] = "queued"
      BY <1>0, <1>w, <1>3, <2>3, <3>1 DEF Claim, SweeperStates, Sound, Published
    <3>2. CASE place[r] # "queued"
      BY <1>0, <1>w, <1>3, <2>3, <3>2 DEF Claim, SweeperStates, Sound
    <3> QED
      BY <3>1, <3>2
  <2>4. CASE Load(t, r)
    <3>1. CASE place[r] = "claimed" /\ r \in Readable
      BY <1>0, <1>w, <1>3, <2>4, <3>1 DEF Load, SweeperStates, Sound
    <3>2. CASE ~(place[r] = "claimed" /\ r \in Readable)
      BY <1>0, <1>w, <1>3, <2>4, <3>2 DEF Load, SweeperStates, Sound
    <3> QED
      BY <3>1, <3>2
  <2>5. CASE Bury(t, r)
    <3>1. dead'[r] # "none"
      BY <1>w, <2>5 DEF Bury
    <3>2. /\ sweeper'[t].pc = "unlink_dead" /\ sweeper'[t].cur = sweeper[t].cur
          /\ sweeper'[t].held = sweeper[t].held
      BY <1>w, <2>5 DEF Bury, SweeperStates
    <3>3. sweeper[t].cur = {r}
      BY <1>0, <2>5 DEF Bury, Sound
    <3> QED
      BY <1>0, <1>m, <3>1, <3>2, <3>3 DEF Sound
  <2>9. CASE BuryFails(t, r)
    BY <1>0, <1>w, <1>3, <2>9 DEF BuryFails, SweeperStates, Sound
  <2>6. CASE BuryUnlink(t, r)
    BY <1>0, <1>w, <1>3, <2>6 DEF BuryUnlink, SweeperStates, Sound
  <2>7. CASE MarkSent(t, r)
    <3>1. /\ sweeper'[t].held \subseteq sweeper[t].held /\ sweeper'[t].cur = sweeper[t].cur
          /\ sweeper'[t].pc \in {"claim", "sent"}
      BY <1>w, <2>7 DEF MarkSent, SweeperStates
    <3>2. sweeper[t].held \subseteq delivered'
      BY <1>0, <1>m, <2>7 DEF MarkSent, Sound
    <3> QED
      BY <1>0, <1>m, <3>1, <3>2 DEF Sound
  <2>8. CASE GiveBack(t, r)
    <3>1. CASE sweeper[t].held = {r}
      BY <1>w, <1>2, <2>8, <3>1 DEF GiveBack
    <3>2. CASE sweeper[t].held # {r}
      BY <1>0, <1>w, <1>3, <2>8, <3>2 DEF GiveBack, SweeperStates, Sound
    <3> QED
      BY <3>1, <3>2
  <2> QED
    BY <1>4, <2>1, <2>2, <2>3, <2>4, <2>5, <2>6, <2>7, <2>8, <2>9 DEF OnRecord
<1>5. ASSUME Work(t) \/ InitFails(t) \/ ShipOK(t) \/ ShipFails(t) \/ Kill(t) PROVE Sound(t)'
  <2>1. CASE BeginShip(t) \/ NextRun(t) \/ BeginShipment(t)
    <3>1. /\ sweeper'[t].pc \in {"stat", "claim", "ship", "idle"}
          /\ sweeper'[t].held \cup sweeper'[t].cur \subseteq sweeper[t].held \cup sweeper[t].cur
          /\ sweeper'[t].cur \subseteq sweeper[t].cur
      <4>1. CASE BeginShip(t)
        BY <1>w, <4>1 DEF BeginShip, SweeperStates
      <4>2. CASE NextRun(t)
        <5>1. CASE sweeper[t].todo = {}
          BY <1>w, <4>2, <5>1 DEF NextRun, Idle
        <5>2. CASE sweeper[t].todo # {}
          BY <1>w, <4>2, <5>2 DEF NextRun, SweeperStates
        <5> QED
          BY <5>1, <5>2
      <4>3. CASE BeginShipment(t)
        BY <1>w, <4>3 DEF BeginShipment, SweeperStates
      <4> QED
        BY <2>1, <4>1, <4>2, <4>3
    <3> QED
      BY <1>0, <1>3, <3>1 DEF Sound
  <2>2. CASE ListBatch(t)
    <3>1. CASE Pending = {}
      BY <1>w, <1>2, <2>2, <3>1 DEF ListBatch
    <3>2. CASE Pending # {}
      BY <1>0, <1>w, <1>3, <2>2, <3>2 DEF ListBatch, SweeperStates, Sound
    <3> QED
      BY <3>1, <3>2
  <2>3. CASE InitFails(t) \/ Kill(t)
    BY <1>w, <1>2, <2>3 DEF InitFails, Kill
  <2>4. CASE ShipOK(t)
    <3>1. /\ sweeper'[t].pc = "sent" /\ sweeper'[t].held = sweeper[t].held
          /\ sweeper'[t].cur = sweeper[t].cur /\ sweeper[t].held \subseteq delivered'
      BY <1>w, <2>4 DEF ShipOK, SweeperStates
    <3> QED
      BY <1>0, <1>m, <3>1 DEF Sound
  <2>5. CASE ShipFails(t)
    BY <1>0, <1>w, <1>3, <2>5 DEF ShipFails, SweeperStates, Sound
  <2> QED
    BY <1>4, <1>5, <2>1, <2>2, <2>3, <2>4, <2>5 DEF Work
<1>6. CASE \E r \in Records : Stage(r) \/ Publish(r)
  BY <1>1, <1>6 DEF Stage, Publish
<1>7. CASE Tick \/ UNCHANGED vars
  BY <1>1, <1>7 DEF Tick, vars
<1>8. ASSUME NEW s \in Sweepers, s # t,
             Work(s) \/ InitFails(s) \/ ShipOK(s) \/ ShipFails(s) \/ Kill(s)
      PROVE  Sound(t)'
  <2>1. sweeper'[t] = sweeper[t]
    BY <1>w, <1>8 DEF Work, OnRecord, BeginShip, ListBatch, NextRun, BeginShipment, InitFails,
                      ShipOK, ShipFails, Kill, StatClaim, Reclaim, Claim, Load, Bury, BuryFails, BuryUnlink,
                      MarkSent, GiveBack
  <2> QED
    BY <1>1, <2>1
<1> QED
  BY <1>5, <1>6, <1>7, <1>8 DEF Next

\* The five ways a step can look to a writer.
LEMMA StepKinds ==
  SpoolInv /\ [Next]_vars =>
    \/ UNCHANGED <<InSpool, Settled, At("gone")>>
    \/ \E r \in Records : /\ place[r] = "partial" /\ place' = [place EXCEPT ![r] = "queued"]
                          /\ UNCHANGED Settled
    \/ \E R \in SUBSET Published : Settled' = Settled \cup R /\ UNCHANGED place
    \/ \E r \in Settled \cap InSpool : /\ place' = [place EXCEPT ![r] = "gone"]
                                       /\ UNCHANGED Settled
<1> SUFFICES ASSUME SpoolInv, [Next]_vars,
                    ~UNCHANGED <<InSpool, Settled, At("gone")>>
             PROVE  \/ \E r \in Records : /\ place[r] = "partial"
                                          /\ place' = [place EXCEPT ![r] = "queued"]
                                          /\ UNCHANGED Settled
                    \/ \E R \in SUBSET Published : Settled' = Settled \cup R /\ UNCHANGED place
                    \/ \E r \in Settled \cap InSpool : /\ place' = [place EXCEPT ![r] = "gone"]
                                                       /\ UNCHANGED Settled
  OBVIOUS
<1>w. /\ place \in [Records -> Places] /\ dead \in [Records -> {"none", "whole", "empty"}]
      /\ sweeper \in [Sweepers -> SweeperStates]
  BY DEF SpoolInv, TypeOK
<1>0. ASSUME UNCHANGED <<place, delivered, dead>> PROVE FALSE
  BY <1>0 DEF InSpool, Settled, At
<1>1. ASSUME NEW r \in Records, Stage(r) PROVE FALSE
  <2>1. UNCHANGED Settled
    BY <1>1 DEF Stage, Settled
  <2>2. \A q \in Records : place'[q] \in {"queued", "claimed", "gone"} <=> place[q] \in {"queued", "claimed", "gone"}
    BY <1>w, <1>1 DEF Stage
  <2>3. \A q \in Records : place'[q] = "gone" <=> place[q] = "gone"
    BY <1>w, <1>1 DEF Stage
  <2> QED
    BY <2>1, <2>2, <2>3 DEF InSpool, At
<1>2. ASSUME NEW r \in Records, Publish(r)
      PROVE  /\ place[r] = "partial" /\ place' = [place EXCEPT ![r] = "queued"]
             /\ UNCHANGED Settled
  BY <1>2 DEF Publish, Settled
\* A rename between queued and claimed is nothing to a writer.
<1>3. ASSUME NEW r \in Records, place[r] \in {"queued", "claimed"},
             \E where \in {"queued", "claimed"} : place' = [place EXCEPT ![r] = where],
             UNCHANGED <<delivered, dead>>
      PROVE  FALSE
  <2>1. \A q \in Records : /\ place'[q] \in {"queued", "claimed"} <=> place[q] \in {"queued", "claimed"}
                           /\ place'[q] = "gone" <=> place[q] = "gone"
    BY <1>w, <1>3
  <2>2. UNCHANGED Settled
    BY <1>3 DEF Settled
  <2> QED
    BY <2>1, <2>2 DEF InSpool, At
<1>4. ASSUME NEW s \in Sweepers, NEW r \in Records, OnRecord(s, r)
      PROVE  \/ \E R \in SUBSET Published : Settled' = Settled \cup R /\ UNCHANGED place
             \/ \E q \in Settled \cap InSpool : /\ place' = [place EXCEPT ![q] = "gone"]
                                                /\ UNCHANGED Settled
  <2>s. Sound(s)
    BY DEF SpoolInv
  <2>1. CASE StatClaim(s, r) \/ Load(s, r)
    BY <1>0, <2>1 DEF StatClaim, Load
  <2>2. CASE Reclaim(s, r) \/ GiveBack(s, r)
    <3>1. UNCHANGED <<delivered, dead>> /\ place' = Unclaimed(r)
      BY <2>2 DEF Reclaim, GiveBack
    <3>2. CASE place[r] = "claimed"
      <4>1. place' = [place EXCEPT ![r] = "queued"]
        BY <3>1, <3>2 DEF Unclaimed
      <4> QED
        BY <1>3, <3>1, <3>2, <4>1
    <3>3. CASE place[r] # "claimed"
      <4>1. UNCHANGED place
        BY <1>w, <3>1, <3>3 DEF Unclaimed
      <4> QED
        BY <1>0, <3>1, <4>1
    <3> QED
      BY <3>2, <3>3
  <2>3. CASE Claim(s, r)
    <3>1. UNCHANGED <<delivered, dead>>
      BY <2>3 DEF Claim
    <3>2. CASE place[r] = "queued"
      BY <1>3, <2>3, <3>1, <3>2 DEF Claim
    <3>3. CASE place[r] # "queued"
      BY <1>0, <2>3, <3>1, <3>3 DEF Claim
    <3> QED
      BY <3>2, <3>3
  <2>4. CASE Bury(s, r)
    <3>1. Settled' = Settled \cup {r} /\ UNCHANGED place
      BY <1>w, <2>4 DEF Bury, Settled
    <3>2. r \in Published
      BY <2>4, <2>s DEF Bury, Sound
    <3> QED
      BY <3>1, <3>2
  <2>9. CASE BuryFails(s, r)
    <3>1. r \in Published
      BY <2>9, <2>s DEF BuryFails, Sound
    <3>2. UNCHANGED place /\ \E R \in {{}, {r}} : Settled' = Settled \cup R
      <4>1. PICK left \in {dead[r], "empty"} : dead' = [dead EXCEPT ![r] = left]
        BY <2>9 DEF BuryFails
      <4>2. UNCHANGED <<place, delivered>>
        BY <2>9 DEF BuryFails
      <4>3. CASE left = dead[r]
        BY <1>w, <4>1, <4>2, <4>3 DEF Settled
      <4>4. CASE left = "empty"
        BY <1>w, <4>1, <4>2, <4>4 DEF Settled
      <4> QED
        BY <4>1, <4>3, <4>4
    <3> QED
      BY <3>1, <3>2
  <2>5. CASE BuryUnlink(s, r) \/ MarkSent(s, r)
    <3>1. r \in Settled
      BY <2>5, <2>s DEF BuryUnlink, MarkSent, Sound, Settled
    <3>2. place' = Unlinked(r) /\ UNCHANGED <<delivered, dead>>
      BY <2>5 DEF BuryUnlink, MarkSent
    <3>3. CASE place[r] = "claimed"
      <4>1. r \in Settled \cap InSpool
        BY <3>1, <3>3 DEF InSpool, At
      <4>2. place' = [place EXCEPT ![r] = "gone"] /\ UNCHANGED Settled
        BY <3>2, <3>3 DEF Unlinked, Settled
      <4> QED
        BY <4>1, <4>2
    <3>4. CASE place[r] # "claimed"
      <4>1. UNCHANGED place
        BY <1>w, <3>2, <3>4 DEF Unlinked
      <4> QED
        BY <1>0, <3>2, <4>1
    <3> QED
      BY <3>3, <3>4
  <2> QED
    BY <1>4, <2>1, <2>2, <2>3, <2>4, <2>5, <2>9 DEF OnRecord
<1>5. ASSUME NEW s \in Sweepers, ShipOK(s) \/ ShipFails(s)
      PROVE  \E R \in SUBSET Published : Settled' = Settled \cup R /\ UNCHANGED place
  <2>1. sweeper[s].held \subseteq Published
    BY DEF SpoolInv, Sound
  <2>2. PICK got \in {{}, sweeper[s].held} : delivered' = delivered \cup got
    BY <1>5 DEF ShipOK, ShipFails
  <2>3. Settled' = Settled \cup got /\ UNCHANGED place
    BY <1>5, <2>2 DEF ShipOK, ShipFails, Settled
  <2>4. got \in SUBSET Published
    BY <2>1, <2>2
  <2> QED
    BY <2>3, <2>4
<1>6. ASSUME \/ Tick \/ UNCHANGED vars
             \/ \E s \in Sweepers : \/ BeginShip(s) \/ ListBatch(s) \/ NextRun(s)
                                    \/ BeginShipment(s) \/ InitFails(s) \/ Kill(s)
      PROVE  FALSE
  BY <1>0, <1>6 DEF Tick, vars, BeginShip, ListBatch, NextRun, BeginShipment, InitFails, Kill
<1> QED
  BY <1>1, <1>2, <1>4, <1>5, <1>6 DEF Next, Work

LEMMA SpoolStep == SpoolInv /\ [Next]_vars => SpoolInv'
<1> SUFFICES ASSUME SpoolInv, [Next]_vars
             PROVE  SpoolInv'
  OBVIOUS
<1>1. TypeOK' /\ \A s \in Sweepers : Sound(s)'
  BY TypeStep, SoundStep DEF SpoolInv
<1>2. Published \subseteq Published' /\ Settled \subseteq Settled'
  BY Monotone DEF SpoolInv, Settled
<1>3. Settled' \subseteq Published' /\ NeverLost'
  <2>0. place \in [Records -> Places] /\ At("gone") \subseteq Settled /\ Settled \subseteq Published
    BY DEF SpoolInv, TypeOK, NeverLost
  <2>1. CASE UNCHANGED <<InSpool, Settled, At("gone")>>
    BY <1>2, <2>0, <2>1 DEF NeverLost
  <2>2. ASSUME NEW r \in Records, place[r] = "partial",
               place' = [place EXCEPT ![r] = "queued"], UNCHANGED Settled
        PROVE  Settled' \subseteq Published' /\ NeverLost'
    BY <1>2, <2>0, <2>2 DEF NeverLost, At
  <2>3. ASSUME NEW R \in SUBSET Published, Settled' = Settled \cup R, UNCHANGED place
        PROVE  Settled' \subseteq Published' /\ NeverLost'
    BY <1>2, <2>0, <2>3 DEF NeverLost, At
  <2>4. ASSUME NEW r \in Settled \cap InSpool, place' = [place EXCEPT ![r] = "gone"],
               UNCHANGED Settled
        PROVE  Settled' \subseteq Published' /\ NeverLost'
    BY <1>2, <2>0, <2>4 DEF NeverLost, At
  <2> QED
    BY <2>1, <2>2, <2>3, <2>4, StepKinds
<1> QED
  BY <1>1, <1>3 DEF SpoolInv

LEMMA SpoolInvariance == Spec => []SpoolInv
  BY SpoolInit, SpoolStep, PTL DEF Spec

(* A record's file leaves the queue only when the gateway took the record  *)
(* or a dead letter stands for it, for any number of racing and dying      *)
(* sweepers.                                                               *)
THEOREM NothingIsLost == Spec => []NeverLost
<1>1. SpoolInv => NeverLost
  BY DEF SpoolInv
<1> QED
  BY <1>1, SpoolInvariance, PTL
-----------------------------------------------------------------------------
LEMMA PromiseInit == Init => Promise!Init
  BY DEF Init, Promise!Init, InSpool, Settled, At

LEMMA PromiseStep == SpoolInv /\ [Next]_vars => [Promise!Next]_(Promise!vars)
<1> SUFFICES ASSUME SpoolInv, [Next]_vars
             PROVE  [Promise!Next]_(Promise!vars)
  OBVIOUS
<1>0. /\ place \in [Records -> Places] /\ Settled \subseteq Published
      /\ Published \subseteq InSpool \cup Settled
  BY DEF SpoolInv, TypeOK, NeverLost, Published, InSpool, At, Places
<1>1. CASE UNCHANGED <<InSpool, Settled, At("gone")>>
  BY <1>1 DEF Promise!vars
<1>2. ASSUME NEW r \in Records, place[r] = "partial",
             place' = [place EXCEPT ![r] = "queued"], UNCHANGED Settled
      PROVE  Promise!Accept(r)
  <2>1. r \notin InSpool \cup Settled
    BY <1>0, <1>2 DEF InSpool, At, Published
  <2>2. InSpool' = InSpool \cup {r}
    BY <1>0, <1>2 DEF InSpool, At
  <2> QED
    BY <1>2, <2>1, <2>2 DEF Promise!Accept
<1>3. ASSUME NEW R \in SUBSET Published, Settled' = Settled \cup R, UNCHANGED place
      PROVE  Promise!Settle(R)
  BY <1>0, <1>3 DEF Promise!Settle, InSpool, At
<1>4. ASSUME NEW r \in Settled \cap InSpool, place' = [place EXCEPT ![r] = "gone"],
             UNCHANGED Settled
      PROVE  Promise!Forget(r)
  <2>1. InSpool' = InSpool \ {r}
    BY <1>0, <1>4 DEF InSpool, At
  <2> QED
    BY <1>4, <2>1 DEF Promise!Forget
<1>5. Published \subseteq Records
  BY DEF Published
<1> QED
  BY <1>0, <1>1, <1>2, <1>3, <1>4, <1>5, StepKinds DEF Promise!Next

(* The spool implements its promise: with files, clocks and sweepers       *)
(* hidden, every behaviour is one SpoolPromise allows.                     *)
THEOREM SpoolKeepsPromise == Spec => KeepsPromise
  BY PromiseInit, PromiseStep, SpoolInvariance, PTL DEF Spec, KeepsPromise, Promise!Spec
-----------------------------------------------------------------------------
(* Who has a record: the mutex is the rename, and only an old claim breaks *)
(* it, so what a sweeper has is still claimed or is old.                   *)

Tried(s) == IF sweeper[s].pc \in {"load", "bury", "unlink_dead"} THEN sweeper[s].cur ELSE {}
Owned(s) == sweeper[s].held \cup Tried(s)
Old(r) == age[r] >= Stale

HasClaims(s) == /\ sweeper[s].pc = "rename" => \A r \in sweeper[s].cur : Old(r)
                /\ \A r \in Owned(s) : place[r] = "claimed" \/ Old(r)
                /\ \A r \in sweeper[s].held \cap Tried(s) : Old(r)

MutexInv == /\ SpoolInv
            /\ \A s \in Sweepers : HasClaims(s)
            /\ \A s, t \in Sweepers : s # t => \A r \in Owned(s) \cap Owned(t) : Old(r)

LEMMA MutexInit == Init => MutexInv
  BY SpoolInit DEF Init, MutexInv, HasClaims, Owned, Tried, Idle

\* What one sweeper's step does to the files, to what it has and to what it may rename.
LEMMA SweeperStep ==
  ASSUME MutexInv, [Next]_vars, NEW s \in Sweepers,
         Work(s) \/ InitFails(s) \/ ShipOK(s) \/ ShipFails(s) \/ Kill(s)
  PROVE  /\ UNCHANGED age
         /\ \A t \in Sweepers : t # s => sweeper'[t] = sweeper[t]
         /\ sweeper'[s].pc = "rename" => \A r \in sweeper'[s].cur : Old(r)
         /\ \/ /\ UNCHANGED place
               /\ Owned(s)' \subseteq Owned(s)
               /\ \A r \in (sweeper[s].held \cap Tried(s))' : Old(r)
            \/ \E r \in Records :
                 /\ place[r] = "queued" /\ place' = [place EXCEPT ![r] = "claimed"]
                 /\ Owned(s)' \subseteq Owned(s) \cup {r}
                 /\ \A q \in (sweeper[s].held \cap Tried(s))' : Old(q)
            \/ \E r \in Records :
                 /\ Old(r) \/ (r \in Owned(s) /\ r \notin Owned(s)')
                 /\ \A q \in Records : q # r => place'[q] = place[q]
                 /\ Owned(s)' \subseteq Owned(s)
                 /\ \A q \in (sweeper[s].held \cap Tried(s))' : Old(q)
<1> DEFINE Goal == \/ /\ UNCHANGED place
                      /\ Owned(s)' \subseteq Owned(s)
                      /\ \A r \in (sweeper[s].held \cap Tried(s))' : Old(r)
                   \/ \E r \in Records :
                        /\ place[r] = "queued" /\ place' = [place EXCEPT ![r] = "claimed"]
                        /\ Owned(s)' \subseteq Owned(s) \cup {r}
                        /\ \A q \in (sweeper[s].held \cap Tried(s))' : Old(q)
                   \/ \E r \in Records :
                        /\ Old(r) \/ (r \in Owned(s) /\ r \notin Owned(s)')
                        /\ \A q \in Records : q # r => place'[q] = place[q]
                        /\ Owned(s)' \subseteq Owned(s)
                        /\ \A q \in (sweeper[s].held \cap Tried(s))' : Old(q)
           Renames == sweeper'[s].pc = "rename" => \A r \in sweeper'[s].cur : Old(r)
<1>w. /\ place \in [Records -> Places] /\ sweeper \in [Sweepers -> SweeperStates]
      /\ HasClaims(s) /\ Sound(s)
  BY DEF MutexInv, SpoolInv, TypeOK
<1>1. /\ UNCHANGED age
      /\ \A t \in Sweepers : t # s => sweeper'[t] = sweeper[t]
  BY <1>w DEF Work, OnRecord, BeginShip, ListBatch, NextRun, BeginShipment, InitFails,
              ShipOK, ShipFails, Kill, StatClaim, Reclaim, Claim, Load, Bury, BuryFails, BuryUnlink,
              MarkSent, GiveBack
\* A step that leaves the files alone and takes nothing more in hand.
<1>2. ASSUME UNCHANGED place, sweeper'[s].pc \notin {"rename", "load"},
             Owned(s)' \subseteq Owned(s), (sweeper[s].held \cap Tried(s))' = {}
      PROVE  Goal /\ Renames
  BY <1>2
<1> HIDE DEF Goal, Renames
<1>3. ASSUME InitFails(s) \/ Kill(s) PROVE Goal /\ Renames
  <2>1. sweeper'[s] = Idle /\ UNCHANGED place
    BY <1>w, <1>3 DEF InitFails, Kill
  <2> QED
    BY <1>2, <2>1 DEF Idle, Owned, Tried
<1>4. ASSUME BeginShip(s) \/ BeginShipment(s) \/ ShipOK(s) \/ ShipFails(s) PROVE Goal /\ Renames
  <2>1. /\ sweeper'[s].pc \in {"stat", "ship", "sent", "release"} /\ UNCHANGED place
        /\ sweeper'[s].held = sweeper[s].held
    BY <1>w, <1>4 DEF BeginShip, BeginShipment, ShipOK, ShipFails, SweeperStates
  <2> QED
    BY <1>2, <2>1 DEF Owned, Tried
<1>5. ASSUME ListBatch(s) PROVE Goal /\ Renames
  <2>1. CASE Pending = {}
    BY <1>w, <1>2, <1>5, <2>1 DEF ListBatch, Idle, Owned, Tried
  <2>2. CASE Pending # {}
    <3>1. sweeper'[s].pc = "claim" /\ sweeper'[s].held = sweeper[s].held /\ UNCHANGED place
      BY <1>w, <1>5, <2>2 DEF ListBatch, SweeperStates
    <3> QED
      BY <1>2, <3>1 DEF Owned, Tried
  <2> QED
    BY <2>1, <2>2
<1>6. ASSUME NextRun(s) PROVE Goal /\ Renames
  <2>1. CASE sweeper[s].todo = {}
    BY <1>w, <1>2, <1>6, <2>1 DEF NextRun, Idle, Owned, Tried
  <2>2. CASE sweeper[s].todo # {}
    <3>1. sweeper'[s].pc = "claim" /\ sweeper'[s].held = sweeper[s].held /\ UNCHANGED place
      BY <1>w, <1>6, <2>2 DEF NextRun, SweeperStates
    <3> QED
      BY <1>2, <3>1 DEF Owned, Tried
  <2> QED
    BY <2>1, <2>2
<1>7. ASSUME NEW r \in Records, OnRecord(s, r) PROVE Goal /\ Renames
  <2>1. CASE StatClaim(s, r)
    <3>1. CASE place[r] = "claimed" /\ age[r] >= Stale
      <4>1. /\ sweeper'[s].pc = "rename" /\ sweeper'[s].cur = {r}
            /\ sweeper'[s].held = sweeper[s].held /\ UNCHANGED place
        BY <1>w, <2>1, <3>1 DEF StatClaim, SweeperStates
      <4> QED
        BY <3>1, <4>1 DEF Old, Owned, Tried, Goal, Renames
    <3>2. CASE ~(place[r] = "claimed" /\ age[r] >= Stale)
      <4>1. /\ sweeper'[s].pc = "stat" /\ sweeper'[s].held = sweeper[s].held /\ UNCHANGED place
        BY <1>w, <2>1, <3>2 DEF StatClaim, SweeperStates
      <4> QED
        BY <1>2, <4>1 DEF Owned, Tried
    <3> QED
      BY <3>1, <3>2
  <2>2. CASE Reclaim(s, r)
    <3>1. /\ sweeper'[s].pc = "stat" /\ sweeper'[s].held = sweeper[s].held
          /\ \A q \in Records : q # r => place'[q] = place[q]
      BY <1>w, <2>2 DEF Reclaim, Unclaimed, SweeperStates
    <3>2. Old(r)
      BY <1>w, <2>2 DEF Reclaim, HasClaims
    <3> QED
      BY <3>1, <3>2 DEF Owned, Tried, Goal, Renames
  <2>3. CASE Claim(s, r)
    <3>1. CASE place[r] = "queued"
      <4>1. /\ sweeper'[s].pc = "load" /\ sweeper'[s].cur = {r}
            /\ sweeper'[s].held = sweeper[s].held /\ place' = [place EXCEPT ![r] = "claimed"]
        BY <1>w, <2>3, <3>1 DEF Claim, SweeperStates
      <4>2. r \in sweeper[s].held => Old(r)
        BY <1>w, <3>1 DEF HasClaims, Owned
      <4> QED
        BY <3>1, <4>1, <4>2 DEF Owned, Tried, Goal, Renames
    <3>2. CASE place[r] # "queued"
      <4>1. sweeper'[s].pc = "claim" /\ sweeper'[s].held = sweeper[s].held /\ UNCHANGED place
        BY <1>w, <2>3, <3>2 DEF Claim, SweeperStates
      <4> QED
        BY <1>2, <4>1 DEF Owned, Tried
    <3> QED
      BY <3>1, <3>2
  <2>4. CASE Load(s, r)
    <3>1. CASE place[r] = "claimed" /\ r \in Readable
      <4>1. /\ sweeper'[s].pc = "claim" /\ sweeper'[s].held = sweeper[s].held \cup {r}
            /\ UNCHANGED place /\ r \in Owned(s)
        BY <1>w, <2>4, <3>1 DEF Load, SweeperStates, Owned, Tried
      <4> QED
        BY <1>2, <4>1 DEF Owned, Tried
    <3>2. CASE ~(place[r] = "claimed" /\ r \in Readable)
      <4>1. /\ sweeper'[s].pc = "bury" /\ sweeper'[s].cur = sweeper[s].cur
            /\ sweeper'[s].held = sweeper[s].held /\ UNCHANGED place /\ sweeper[s].pc = "load"
        BY <1>w, <2>4, <3>2 DEF Load, SweeperStates
      <4> QED
        BY <1>w, <4>1 DEF Owned, Tried, HasClaims, Goal, Renames
    <3> QED
      BY <3>1, <3>2
  <2>5. CASE Bury(s, r)
    <3>1. /\ sweeper'[s].pc = "unlink_dead" /\ sweeper'[s].cur = sweeper[s].cur
          /\ sweeper'[s].held = sweeper[s].held /\ UNCHANGED place /\ sweeper[s].pc = "bury"
      BY <1>w, <2>5 DEF Bury, SweeperStates
    <3> QED
      BY <1>w, <3>1 DEF Owned, Tried, HasClaims, Goal, Renames
  <2>9. CASE BuryFails(s, r)
    <3>1. sweeper'[s].pc = "claim" /\ sweeper'[s].held = sweeper[s].held /\ UNCHANGED place
      BY <1>w, <2>9 DEF BuryFails, SweeperStates
    <3> QED
      BY <1>2, <3>1 DEF Owned, Tried
  <2>6. CASE BuryUnlink(s, r)
    <3>1. /\ sweeper'[s].pc = "claim" /\ sweeper'[s].held = sweeper[s].held
          /\ \A q \in Records : q # r => place'[q] = place[q]
          /\ r \in Tried(s)
      BY <1>w, <2>6 DEF BuryUnlink, Unlinked, SweeperStates, Tried
    <3>2. r \in sweeper[s].held => Old(r)
      BY <1>w, <3>1 DEF HasClaims
    <3> QED
      BY <3>1, <3>2 DEF Owned, Tried, Goal, Renames
  <2>7. CASE MarkSent(s, r)
    <3>1. /\ sweeper'[s].pc \in {"claim", "sent"} /\ sweeper'[s].held = sweeper[s].held \ {r}
          /\ \A q \in Records : q # r => place'[q] = place[q]
          /\ r \in Owned(s)
      BY <1>w, <2>7 DEF MarkSent, Unlinked, SweeperStates, Owned
    <3> QED
      BY <3>1 DEF Owned, Tried, Goal, Renames
  <2>8. CASE GiveBack(s, r)
    <3>1. /\ sweeper'[s].pc \in {"idle", "release"} /\ sweeper'[s].held = sweeper[s].held \ {r}
      <4>1. CASE sweeper[s].held = {r}
        BY <1>w, <2>8, <4>1 DEF GiveBack, Idle
      <4>2. CASE sweeper[s].held # {r}
        BY <1>w, <2>8, <4>2 DEF GiveBack, SweeperStates
      <4> QED
        BY <4>1, <4>2
    <3>2. /\ \A q \in Records : q # r => place'[q] = place[q]
          /\ r \in Owned(s)
      BY <1>w, <2>8 DEF GiveBack, Unclaimed, Owned
    <3> QED
      BY <3>1, <3>2 DEF Owned, Tried, Goal, Renames
  <2> QED
    BY <1>7, <2>1, <2>2, <2>3, <2>4, <2>5, <2>6, <2>7, <2>8, <2>9 DEF OnRecord
<1>8. Goal /\ Renames
  BY <1>3, <1>4, <1>5, <1>6, <1>7 DEF Work
<1> QED
  BY <1>1, <1>8 DEF Goal, Renames

LEMMA MutexStep == MutexInv /\ [Next]_vars => MutexInv'
<1> SUFFICES ASSUME MutexInv, [Next]_vars
             PROVE  MutexInv'
  OBVIOUS
<1>w. /\ place \in [Records -> Places] /\ sweeper \in [Sweepers -> SweeperStates]
      /\ age \in [Records -> 0..Stale] /\ SpoolInv
  BY DEF MutexInv, SpoolInv, TypeOK
<1>r. \A s \in Sweepers : Owned(s) \subseteq Records
  BY <1>w DEF Owned, Tried, SweeperStates
<1>0. SpoolInv'
  BY <1>w, SpoolStep
\* The writers and the clock: no sweeper moves, no claim is touched, nothing gets younger.
<1>1. ASSUME UNCHANGED sweeper, \A r \in Records : Old(r) => Old(r)',
             \A r \in Records : place[r] = "claimed" => place'[r] = "claimed"
      PROVE  MutexInv'
  <2>1. \A s \in Sweepers : Owned(s)' = Owned(s) /\ Tried(s)' = Tried(s)
    BY <1>1 DEF Owned, Tried
  <2>2. \A s \in Sweepers : HasClaims(s)'
    <3> SUFFICES ASSUME NEW s \in Sweepers PROVE HasClaims(s)'
      OBVIOUS
    <3>1. HasClaims(s) /\ sweeper[s].cur \subseteq Records
      BY <1>w DEF MutexInv, SweeperStates
    <3>2. sweeper[s].held \cap Tried(s) \subseteq Records
      BY <1>r DEF Owned
    <3> QED
      BY <1>1, <1>r, <2>1, <3>1, <3>2 DEF HasClaims
  <2>3. \A s, t \in Sweepers : s # t => \A r \in Owned(s)' \cap Owned(t)' : Old(r)'
    BY <1>1, <1>r, <2>1 DEF MutexInv
  <2> QED
    BY <1>0, <2>2, <2>3 DEF MutexInv
<1>2. ASSUME NEW r \in Records, Stage(r) \/ Publish(r) PROVE MutexInv'
  BY <1>1, <1>2, <1>w DEF Stage, Publish, Old
<1>3. ASSUME Tick PROVE MutexInv'
  <2>1. \A r \in Records : age'[r] >= age[r] /\ age'[r] \in Nat /\ age[r] \in Nat
    BY <1>3, <1>w, StaleAssumption DEF Tick
  <2> QED
    BY <1>1, <1>3, <2>1, StaleAssumption DEF Tick, Old
<1>4. ASSUME UNCHANGED vars PROVE MutexInv'
  BY <1>1, <1>4 DEF vars, Old
<1>5. ASSUME NEW s \in Sweepers,
             Work(s) \/ InitFails(s) \/ ShipOK(s) \/ ShipFails(s) \/ Kill(s)
      PROVE  MutexInv'
  <2>1. /\ \A r : Old(r)' <=> Old(r)
        /\ \A t \in Sweepers : t # s => sweeper'[t] = sweeper[t]
        /\ sweeper'[s].pc = "rename" => \A r \in sweeper'[s].cur : Old(r)
    BY <1>5, SweeperStep DEF Old
  <2>2. \A t \in Sweepers : t # s => Owned(t)' = Owned(t) /\ Tried(t)' = Tried(t)
    BY <2>1 DEF Owned, Tried
  <2>3. \A t \in Sweepers : HasClaims(t)
    BY DEF MutexInv
  <2>4. \A t, u \in Sweepers : t # u => \A r \in Owned(t) \cap Owned(u) : Old(r)
    BY DEF MutexInv
  <2>5. \A r \in (sweeper[s].held \cap Tried(s))' : Old(r)
    BY <1>5, SweeperStep
  \* What is left to show: nothing in hand loses its claim while young, and s has nothing
  \* young that another has.
  <2>6. ASSUME \A t \in Sweepers : \A r \in Owned(t)' : place'[r] = "claimed" \/ Old(r),
               \A t \in Sweepers : t # s => \A r \in Owned(s)' \cap Owned(t) : Old(r)
        PROVE  MutexInv'
    <3>1. \A t \in Sweepers : HasClaims(t)'
      BY <2>1, <2>2, <2>3, <2>5, <2>6 DEF HasClaims
    <3>2. \A t, u \in Sweepers : t # u => \A r \in Owned(t)' \cap Owned(u)' : Old(r)'
      BY <2>1, <2>2, <2>4, <2>6
    <3> QED
      BY <1>0, <3>1, <3>2 DEF MutexInv
  <2>7. CASE UNCHANGED place /\ Owned(s)' \subseteq Owned(s)
    BY <2>2, <2>3, <2>4, <2>6, <2>7 DEF HasClaims
  <2>8. ASSUME NEW r \in Records, place[r] = "queued", place' = [place EXCEPT ![r] = "claimed"],
               Owned(s)' \subseteq Owned(s) \cup {r}
        PROVE  MutexInv'
    <3>1. \A t \in Sweepers : r \in Owned(t) => Old(r)
      BY <2>3, <2>8 DEF HasClaims
    <3>2. \A q \in Records : place[q] = "claimed" => place'[q] = "claimed"
      BY <1>w, <2>8
    <3>3. place'[r] = "claimed"
      BY <1>w, <2>8
    <3>4. \A t \in Sweepers : \A q \in Owned(t)' : q = r \/ q \in Owned(t)
      BY <2>2, <2>8
    <3>5. \A t \in Sweepers : \A q \in Owned(t)' : place'[q] = "claimed" \/ Old(q)
      BY <1>r, <2>3, <3>2, <3>3, <3>4 DEF HasClaims
    <3> QED
      BY <2>4, <2>6, <2>8, <3>1, <3>5
  <2>9. ASSUME NEW r \in Records, Old(r) \/ (r \in Owned(s) /\ r \notin Owned(s)'),
               \A q \in Records : q # r => place'[q] = place[q],
               Owned(s)' \subseteq Owned(s)
        PROVE  MutexInv'
    <3>1. \A t \in Sweepers : Owned(t)' \subseteq Owned(t) /\ (r \in Owned(t)' => Old(r))
      BY <2>2, <2>4, <2>9
    <3>2. \A t \in Sweepers : \A q \in Owned(t)' : place'[q] = "claimed" \/ Old(q)
      BY <1>r, <2>3, <2>9, <3>1 DEF HasClaims
    <3> QED
      BY <2>4, <2>6, <3>1, <3>2
  <2> QED
    BY <1>5, <2>7, <2>8, <2>9, SweeperStep
<1> QED
  BY <1>2, <1>3, <1>4, <1>5 DEF Next

LEMMA MutexInvariance == Spec => []MutexInv
  BY MutexInit, MutexStep, PTL DEF Spec

(* Any number of sweepers racing one queue have a record in hand together  *)
(* only if its file is older than the stale-claim age: below it the rename *)
(* alone is a mutex.                                                       *)
THEOREM SharedRecordsAreStale == Spec => []SharedOnlyWhenStale
<1>1. MutexInv => SharedOnlyWhenStale
  BY DEF MutexInv, SharedOnlyWhenStale, InHand, Owned, Tried, Old
<1> QED
  BY <1>1, MutexInvariance, PTL
-----------------------------------------------------------------------------
(* A readable record comes to be buried only by failing to load, so by     *)
(* having been taken from under its sweeper; age never goes back.          *)

Doomed(s) == sweeper[s].pc = "bury" => \A r \in sweeper[s].cur \cap Readable : Old(r)

BuriedInv == /\ MutexInv
             /\ \A s \in Sweepers : Doomed(s)
             /\ ReadableBuriedOnlyWhenStale

LEMMA BuriedInit == Init => BuriedInv
<1> SUFFICES ASSUME Init PROVE BuriedInv
  OBVIOUS
<1>1. \A s \in Sweepers : Doomed(s)
  BY DEF Init, Doomed, Idle
<1>2. ReadableBuriedOnlyWhenStale
  BY ReadableAssumption DEF Init, ReadableBuriedOnlyWhenStale
<1> QED
  BY <1>1, <1>2, MutexInit DEF BuriedInv

LEMMA AgeGrows == ASSUME MutexInv, [Next]_vars, NEW r \in Records, Old(r)
                  PROVE  Old(r)'
<1>w. age \in [Records -> 0..Stale]
  BY DEF MutexInv, SpoolInv, TypeOK
<1>1. CASE Tick
  BY <1>w, <1>1, StaleAssumption DEF Tick, Old
<1>2. CASE UNCHANGED age
  BY <1>2 DEF Old
<1>3. CASE (\E q \in Records : Stage(q) \/ Publish(q)) \/ UNCHANGED vars
  BY <1>2, <1>3 DEF Stage, Publish, vars
<1>4. ASSUME NEW s \in Sweepers,
             Work(s) \/ InitFails(s) \/ ShipOK(s) \/ ShipFails(s) \/ Kill(s)
      PROVE  Old(r)'
  BY <1>2, <1>4, SweeperStep
<1> QED
  BY <1>1, <1>3, <1>4 DEF Next

\* The only step into "bury" is a load that failed, and no other step changes who is there.
LEMMA DoomedStep == BuriedInv /\ [Next]_vars => \A t \in Sweepers : Doomed(t)'
<1> SUFFICES ASSUME BuriedInv, [Next]_vars, NEW t \in Sweepers, sweeper'[t].pc = "bury",
                    NEW r \in sweeper'[t].cur \cap Readable
             PROVE  Old(r)'
  BY DEF Doomed, Old
<1>w. /\ MutexInv /\ sweeper \in [Sweepers -> SweeperStates] /\ r \in Records
      /\ HasClaims(t) /\ Doomed(t)
  BY ReadableAssumption DEF BuriedInv, MutexInv, SpoolInv, TypeOK
<1>1. CASE sweeper'[t] = sweeper[t]
  BY <1>w, <1>1, AgeGrows DEF Doomed
<1>2. ASSUME NEW q \in Records, Load(t, q) PROVE Old(r)'
  <2>1. ~(place[q] = "claimed" /\ q \in Readable)
    BY <1>w, <1>2 DEF Load, SweeperStates
  <2>2. sweeper'[t].cur = sweeper[t].cur /\ sweeper[t].pc = "load" /\ q \in sweeper[t].cur
    BY <1>w, <1>2, <2>1 DEF Load, SweeperStates
  <2>3. q = r
    BY <2>2 DEF BuriedInv, MutexInv, SpoolInv, Sound
  <2>4. Old(r)
    BY <1>w, <2>1, <2>2, <2>3 DEF HasClaims, Owned, Tried
  <2> QED
    BY <1>w, <2>4, AgeGrows
<1>3. ASSUME NEW q \in Records, OnRecord(t, q), ~Load(t, q) PROVE FALSE
  <2>1. sweeper'[t].pc # "bury"
    BY <1>w, <1>3 DEF OnRecord, StatClaim, Reclaim, Claim, Bury, BuryFails, BuryUnlink,
                      MarkSent, GiveBack, SweeperStates, Idle
  <2> QED
    BY <2>1
<1>4. ASSUME Work(t) \/ InitFails(t) \/ ShipOK(t) \/ ShipFails(t) \/ Kill(t),
             ~\E q \in Records : OnRecord(t, q)
      PROVE  FALSE
  <2>1. CASE InitFails(t) \/ Kill(t)
    BY <1>w, <2>1 DEF InitFails, Kill, Idle
  <2>4. CASE ListBatch(t)
    <3>1. CASE Pending = {}
      BY <1>w, <2>4, <3>1 DEF ListBatch, Idle
    <3>2. CASE Pending # {}
      BY <1>w, <2>4, <3>2 DEF ListBatch, SweeperStates
    <3> QED
      BY <3>1, <3>2
  <2>2. CASE BeginShip(t) \/ BeginShipment(t) \/ ShipOK(t) \/ ShipFails(t)
    BY <1>w, <2>2 DEF BeginShip, BeginShipment, ShipOK, ShipFails, SweeperStates
  <2>3. CASE NextRun(t)
    <3>1. CASE sweeper[t].todo = {}
      BY <1>w, <2>3, <3>1 DEF NextRun, Idle
    <3>2. CASE sweeper[t].todo # {}
      BY <1>w, <2>3, <3>2 DEF NextRun, SweeperStates
    <3> QED
      BY <3>1, <3>2
  <2> QED
    BY <1>4, <2>1, <2>2, <2>3, <2>4 DEF Work
<1>5. ASSUME NEW s \in Sweepers, s # t,
             Work(s) \/ InitFails(s) \/ ShipOK(s) \/ ShipFails(s) \/ Kill(s)
      PROVE  sweeper'[t] = sweeper[t]
  BY <1>5, SweeperStep DEF BuriedInv
<1>6. ASSUME (\E q \in Records : Stage(q) \/ Publish(q)) \/ Tick \/ UNCHANGED vars
      PROVE  sweeper'[t] = sweeper[t]
  BY <1>6 DEF Stage, Publish, Tick, vars
<1> QED
  BY <1>1, <1>2, <1>3, <1>4, <1>5, <1>6 DEF Next

LEMMA BuriedStep == BuriedInv /\ [Next]_vars => BuriedInv'
<1> SUFFICES ASSUME BuriedInv, [Next]_vars
             PROVE  BuriedInv'
  OBVIOUS
<1>w. /\ MutexInv /\ dead \in [Records -> {"none", "whole", "empty"}]
      /\ Readable \subseteq Records
  BY ReadableAssumption DEF BuriedInv, MutexInv, SpoolInv, TypeOK
<1>1. ASSUME NEW r \in Readable, dead'[r] # "none" PROVE age'[r] >= Stale
  <2>1. CASE dead[r] # "none"
    BY <1>w, <2>1, AgeGrows DEF BuriedInv, ReadableBuriedOnlyWhenStale, Old
  <2>2. CASE dead[r] = "none"
    <3>d. dead' # dead
      BY <1>1, <2>2
    <3>r. ASSUME NEW s \in Sweepers, NEW q \in Records, OnRecord(s, q)
          PROVE  Bury(s, q) \/ BuryFails(s, q)
      BY <3>d, <3>r DEF OnRecord, StatClaim, Reclaim, Claim, Load, BuryUnlink, MarkSent, GiveBack
    <3>s. ASSUME NEW s \in Sweepers,
                 \/ BeginShip(s) \/ ListBatch(s) \/ NextRun(s) \/ BeginShipment(s)
                 \/ InitFails(s) \/ ShipOK(s) \/ ShipFails(s) \/ Kill(s)
          PROVE  FALSE
      BY <3>d, <3>s DEF BeginShip, ListBatch, NextRun, BeginShipment, InitFails, ShipOK,
                        ShipFails, Kill
    <3>v. ~((\E q \in Records : Stage(q) \/ Publish(q)) \/ Tick \/ UNCHANGED vars)
      BY <3>d DEF Stage, Publish, Tick, vars
    <3>1. PICK s \in Sweepers, q \in Records : Bury(s, q) \/ BuryFails(s, q)
      BY <3>r, <3>s, <3>v DEF Next, Work
    <3>2. q = r
      BY <1>w, <1>1, <2>2, <3>1 DEF Bury, BuryFails
    <3>3. Old(r)
      BY <3>1, <3>2 DEF BuriedInv, Doomed, Bury, BuryFails
    <3> QED
      BY <1>w, <3>3, AgeGrows DEF Old
  <2> QED
    BY <2>1, <2>2
<1> QED
  BY <1>1, MutexStep, DoomedStep DEF BuriedInv, ReadableBuriedOnlyWhenStale

(* A readable record is set aside only if its claim was old enough to be   *)
(* taken from its owner (reclaim_stale): a young one never is.             *)
THEOREM YoungRecordsAreNotBuried == Spec => []ReadableBuriedOnlyWhenStale
<1>1. BuriedInv => ReadableBuriedOnlyWhenStale
  BY DEF BuriedInv
<1> QED
  BY <1>1, BuriedInit, BuriedStep, PTL DEF Spec
=============================================================================
