------------------------------- MODULE Outbox -------------------------------
(***************************************************************************)
(* The explainability spool: hooks and commands drop one file per record   *)
(* (core/outbox.py), and any number of `aisquare explainability ship`      *)
(* processes drain it into the gateway (services/explainability.py).       *)
(*                                                                         *)
(* A record is at one path at a time, which `place` names; every action is *)
(* one system call (or one gateway exchange) of one process, so sweepers   *)
(* interleave and die between any two of them.  Ages are ticks since the   *)
(* file was WRITTEN: a rename keeps the modification time.                 *)
(***************************************************************************)
EXTENDS Naturals, FiniteSets

CONSTANTS Records,     \* numbered in the order of their time-stamped names
          Sweepers,    \* concurrent `ship` processes
          RunOf,       \* [Records -> run key], the session a record belongs to
          Readable,    \* records whose JSON parses and whose version is known
          Corrupt,     \* records whose file does not even parse
          Limit,       \* ship_once's limit on one batch
          Stale,       \* _CLAIM_STALE_SECONDS, in ticks
          MaxKills     \* BOUND: how many sweepers may be killed

ASSUME RecordsAssumption == Records \subseteq Nat /\ IsFiniteSet(Records)
ASSUME ReadableAssumption == Readable \subseteq Records /\ Corrupt \subseteq Records \ Readable
ASSUME StaleAssumption == Stale \in Nat /\ Limit \in Nat

VARIABLES place,       \* [Records -> Places]: the one path that holds the record
          age,         \* [Records -> 0..Stale]: ticks since it was written
          dead,        \* [Records -> {"none", "whole", "empty"}]: its dead letter
          delivered,   \* records the gateway accepted (external)
          sweeper,     \* [Sweepers -> local state of that process]
          kills

vars == <<place, age, dead, delivered, sweeper, kills>>

Places == {"absent", "partial", "queued", "claimed", "gone"}

Idle == [pc |-> "idle", look |-> {}, todo |-> {}, run |-> {}, cur |-> {}, held |-> {}]

Steps == {"idle", "stat", "rename", "claim", "load", "bury", "unlink_dead",
          "ship", "sent", "release"}

\* `run` and `cur` are {} or a singleton: the batch records of the session being
\* drained that are not tried yet, and the record a two-call operation is on.
SweeperStates == [pc : Steps, look : SUBSET Records, todo : SUBSET Records,
                  run : SUBSET Records, cur : SUBSET Records, held : SUBSET Records]

TypeOK == /\ place \in [Records -> Places]
          /\ age \in [Records -> 0..Stale]
          /\ dead \in [Records -> {"none", "whole", "empty"}]
          /\ delivered \subseteq Records
          /\ sweeper \in [Sweepers -> SweeperStates]
          /\ kills \in Nat

At(step) == {r \in Records : place[r] = step}
InSpool == At("queued") \cup At("claimed")

Oldest(R) == CHOOSE r \in R : \A q \in R : r <= q

\* pending(limit): the first `limit` queued names in sorted order.
Pending == {r \in At("queued") : Cardinality({q \in At("queued") : q < r}) < Limit}

Init == /\ place = [r \in Records |-> "absent"]
        /\ age = [r \in Records |-> 0]
        /\ dead = [r \in Records |-> "none"]
        /\ delivered = {}
        /\ sweeper = [s \in Sweepers |-> Idle]
        /\ kills = 0
-----------------------------------------------------------------------------
(* The writers.                                                            *)

\* enqueue, first half: the staging file, whose suffix no listing matches.
Stage(r) == /\ place[r] = "absent"
            /\ place' = [place EXCEPT ![r] = "partial"]
            /\ UNCHANGED <<age, dead, delivered, sweeper, kills>>

\* enqueue, second half: the rename that publishes it.  A writer that dies
\* before it leaves the staging file: no fairness is assumed of this action.
Publish(r) == /\ place[r] = "partial"
              /\ place' = [place EXCEPT ![r] = "queued"]
              /\ UNCHANGED <<age, dead, delivered, sweeper, kills>>

Tick == /\ \E r \in Records : place[r] \in {"partial", "queued", "claimed"} /\ age[r] < Stale
        /\ age' = [r \in Records |->
                     IF place[r] \in {"partial", "queued", "claimed"} /\ age[r] < Stale
                     THEN age[r] + 1 ELSE age[r]]
        /\ UNCHANGED <<place, dead, delivered, sweeper, kills>>
-----------------------------------------------------------------------------
(* One sweeper: ship_once, then _drain.                                    *)

\* reclaim_stale lists the claims in flight, its own process's or another's.
BeginShip(s) == /\ sweeper[s].pc = "idle"
                /\ sweeper' = [sweeper EXCEPT ![s].pc = "stat", ![s].look = At("claimed")]
                /\ UNCHANGED <<place, age, dead, delivered, kills>>

\* Mutant: the stat forgets the age test.
StatClaimAnyAge(s, r) ==
  /\ sweeper[s].pc = "stat" /\ r \in sweeper[s].look
  /\ IF place[r] = "claimed"
       THEN sweeper' = [sweeper EXCEPT ![s].look = @ \ {r}, ![s].pc = "rename", ![s].cur = {r}]
       ELSE sweeper' = [sweeper EXCEPT ![s].look = @ \ {r}]
  /\ UNCHANGED <<place, age, dead, delivered, kills>>

\* Mutant: only claims younger than the bound are taken back.
StatClaimYoung(s, r) ==
  /\ sweeper[s].pc = "stat" /\ r \in sweeper[s].look
  /\ IF place[r] = "claimed" /\ age[r] < Stale
       THEN sweeper' = [sweeper EXCEPT ![s].look = @ \ {r}, ![s].pc = "rename", ![s].cur = {r}]
       ELSE sweeper' = [sweeper EXCEPT ![s].look = @ \ {r}]
  /\ UNCHANGED <<place, age, dead, delivered, kills>>

\* reclaim_stale's stat of one candidate: too young, or vanished, is skipped.
StatClaim(s, r) ==
  /\ sweeper[s].pc = "stat" /\ r \in sweeper[s].look
  /\ IF place[r] = "claimed" /\ age[r] >= Stale
       THEN sweeper' = [sweeper EXCEPT ![s].look = @ \ {r}, ![s].pc = "rename", ![s].cur = {r}]
       ELSE sweeper' = [sweeper EXCEPT ![s].look = @ \ {r}]
  /\ UNCHANGED <<place, age, dead, delivered, kills>>

\* Mutant: the claim is renamed to a name that no listing matches.
ReleasedToStaging(r) == [place EXCEPT ![r] = IF @ = "claimed" THEN "released" ELSE @]

\* release: rename the claim back, whoever's it is by now; a vanished one is ignored.
Unclaimed(r) == [place EXCEPT ![r] = IF @ = "claimed" THEN "queued" ELSE @]

Reclaim(s, r) ==
  /\ sweeper[s].pc = "rename" /\ r \in sweeper[s].cur
  /\ place' = Unclaimed(r)
  /\ sweeper' = [sweeper EXCEPT ![s].pc = "stat", ![s].cur = {}]
  /\ UNCHANGED <<age, dead, delivered, kills>>

\* The batch is listed once; with nothing pending the drain is over.
ListBatch(s) ==
  /\ sweeper[s].pc = "stat" /\ sweeper[s].look = {}
  /\ sweeper' = [sweeper EXCEPT ![s] = IF Pending = {} THEN Idle
                                       ELSE [sweeper[s] EXCEPT !.pc = "claim", !.todo = Pending]]
  /\ UNCHANGED <<place, age, dead, delivered, kills>>

\* _init_sdk raised: the batch is deferred, untouched.
InitFails(s) ==
  /\ sweeper[s].pc = "stat" /\ sweeper[s].look = {}
  /\ sweeper' = [sweeper EXCEPT ![s] = Idle]
  /\ UNCHANGED <<place, age, dead, delivered, kills>>

\* _group_by_session: the next group is that of the oldest record left.
NextRun(s) ==
  LET w == sweeper[s]
      group == {r \in w.todo : RunOf[r] = RunOf[Oldest(w.todo)]}
  IN /\ w.pc = "claim" /\ w.run = {} /\ w.held = {}
     /\ IF w.todo = {}
          THEN sweeper' = [sweeper EXCEPT ![s] = Idle]
          ELSE sweeper' = [sweeper EXCEPT ![s].run = group, ![s].todo = @ \ group]
     /\ UNCHANGED <<place, age, dead, delivered, kills>>

\* Mutant: a claim that another process made counts as one's own.
ClaimAnybodys(s, r) ==
  /\ sweeper[s].pc = "claim" /\ sweeper[s].run # {} /\ r = Oldest(sweeper[s].run)
  /\ IF place[r] \in {"queued", "claimed"}
       THEN /\ place' = [place EXCEPT ![r] = "claimed"]
            /\ sweeper' = [sweeper EXCEPT ![s].run = @ \ {r}, ![s].pc = "load", ![s].cur = {r}]
       ELSE /\ sweeper' = [sweeper EXCEPT ![s].run = @ \ {r}]
            /\ UNCHANGED place
  /\ UNCHANGED <<age, dead, delivered, kills>>

\* claim: the rename that only one process can make of a given file.
Claim(s, r) ==
  /\ sweeper[s].pc = "claim" /\ sweeper[s].run # {} /\ r = Oldest(sweeper[s].run)
  /\ IF place[r] = "queued"
       THEN /\ place' = [place EXCEPT ![r] = "claimed"]
            /\ sweeper' = [sweeper EXCEPT ![s].run = @ \ {r}, ![s].pc = "load", ![s].cur = {r}]
       ELSE /\ sweeper' = [sweeper EXCEPT ![s].run = @ \ {r}]
            /\ UNCHANGED place
  /\ UNCHANGED <<age, dead, delivered, kills>>

\* load: a claim that vanished, or does not parse, or is of an unknown version, is given up.
Load(s, r) ==
  /\ sweeper[s].pc = "load" /\ r \in sweeper[s].cur
  /\ IF place[r] = "claimed" /\ r \in Readable
       THEN sweeper' = [sweeper EXCEPT ![s].pc = "claim", ![s].cur = {}, ![s].held = @ \cup {r}]
       ELSE sweeper' = [sweeper EXCEPT ![s].pc = "bury"]
  /\ UNCHANGED <<place, age, dead, delivered, kills>>

\* Mutant: the letter cannot be written, and the claim is unlinked all the same.
BuryNothing(s, r) ==
  /\ sweeper[s].pc = "bury" /\ r \in sweeper[s].cur
  /\ sweeper' = [sweeper EXCEPT ![s].pc = "unlink_dead"]
  /\ UNCHANGED <<place, age, dead, delivered, kills>>

\* mark_dead reads the claim again and writes the letter first: with the payload, or
\* with none when the claim is gone or does not parse.
Bury(s, r) ==
  /\ sweeper[s].pc = "bury" /\ r \in sweeper[s].cur
  /\ dead' = [dead EXCEPT ![r] = IF place[r] = "claimed" /\ r \notin Corrupt
                                 THEN "whole" ELSE "empty"]
  /\ sweeper' = [sweeper EXCEPT ![s].pc = "unlink_dead"]
  /\ UNCHANGED <<place, age, delivered, kills>>

\* The letter cannot be written (a full disk may leave it truncated): the drain goes on,
\* and the claim stays in flight.
BuryFails(s, r) ==
  /\ sweeper[s].pc = "bury" /\ r \in sweeper[s].cur
  /\ \E left \in {dead[r], "empty"} : dead' = [dead EXCEPT ![r] = left]
  /\ sweeper' = [sweeper EXCEPT ![s].pc = "claim", ![s].cur = {}]
  /\ UNCHANGED <<place, age, delivered, kills>>

\* unlink of a claim: one that another process moved is not there to remove.
Unlinked(r) == [place EXCEPT ![r] = IF @ = "claimed" THEN "gone" ELSE @]

BuryUnlink(s, r) ==
  /\ sweeper[s].pc = "unlink_dead" /\ r \in sweeper[s].cur
  /\ place' = Unlinked(r)
  /\ sweeper' = [sweeper EXCEPT ![s].pc = "claim", ![s].cur = {}]
  /\ UNCHANGED <<age, dead, delivered, kills>>

\* The group's claims are in hand: emit its spans under one run.
BeginShipment(s) ==
  /\ sweeper[s].pc = "claim" /\ sweeper[s].run = {} /\ sweeper[s].held # {}
  /\ sweeper' = [sweeper EXCEPT ![s].pc = "ship"]
  /\ UNCHANGED <<place, age, dead, delivered, kills>>

ShipOK(s) == /\ sweeper[s].pc = "ship"
             /\ delivered' = delivered \cup sweeper[s].held
             /\ sweeper' = [sweeper EXCEPT ![s].pc = "sent"]
             /\ UNCHANGED <<place, age, dead, kills>>

\* Mutant: a failed exchange is taken for a delivered one.
ShipFailureIsSent(s) == /\ sweeper[s].pc = "ship"
                        /\ \E got \in {{}, sweeper[s].held} : delivered' = delivered \cup got
                        /\ sweeper' = [sweeper EXCEPT ![s].pc = "sent"]
                        /\ UNCHANGED <<place, age, dead, kills>>

\* An exception from the exchange: the gateway may have taken all of it, or none.
ShipFails(s) == /\ sweeper[s].pc = "ship"
                /\ \E got \in {{}, sweeper[s].held} : delivered' = delivered \cup got
                /\ sweeper' = [sweeper EXCEPT ![s].pc = "release"]
                /\ UNCHANGED <<place, age, dead, kills>>

\* mark_sent of one record of the group.
MarkSent(s, r) ==
  /\ sweeper[s].pc = "sent" /\ r \in sweeper[s].held
  /\ place' = Unlinked(r)
  /\ sweeper' = [sweeper EXCEPT ![s].held = @ \ {r},
                                ![s].pc = IF sweeper[s].held = {r} THEN "claim" ELSE "sent"]
  /\ UNCHANGED <<age, dead, delivered, kills>>

\* release of one record of the group; after the last the drain returns.
GiveBack(s, r) ==
  /\ sweeper[s].pc = "release" /\ r \in sweeper[s].held
  /\ place' = Unclaimed(r)
  /\ sweeper' = [sweeper EXCEPT ![s] = IF sweeper[s].held = {r} THEN Idle
                                       ELSE [sweeper[s] EXCEPT !.held = @ \ {r}]]
  /\ UNCHANGED <<age, dead, delivered, kills>>

\* The process is killed: its files stay where they are.
Kill(s) == /\ sweeper[s].pc # "idle" /\ kills < MaxKills
           /\ sweeper' = [sweeper EXCEPT ![s] = Idle]
           /\ kills' = kills + 1
           /\ UNCHANGED <<place, age, dead, delivered>>
-----------------------------------------------------------------------------
OnRecord(s, r) == \/ StatClaim(s, r) \/ Reclaim(s, r) \/ Claim(s, r) \/ Load(s, r)
                  \/ Bury(s, r) \/ BuryFails(s, r) \/ BuryUnlink(s, r)
                  \/ MarkSent(s, r) \/ GiveBack(s, r)

\* The steps of a drain that need nothing but the process to run.
Work(s) == \/ BeginShip(s) \/ ListBatch(s) \/ NextRun(s) \/ BeginShipment(s)
           \/ \E r \in Records : OnRecord(s, r)

Next == \/ \E r \in Records : Stage(r) \/ Publish(r)
        \/ Tick
        \/ \E s \in Sweepers : Work(s) \/ InitFails(s) \/ ShipOK(s) \/ ShipFails(s) \/ Kill(s)

Spec == Init /\ [][Next]_vars

\* A timer keeps starting drains and running them, the clock moves, and an SDK, a gateway
\* and a disk that are asked again and again answer again and again.
Fairness == /\ WF_vars(Tick)
            /\ \A s \in Sweepers :
                 /\ WF_vars(Work(s))
                 /\ SF_vars(ListBatch(s)) /\ SF_vars(ShipOK(s))
                 /\ SF_vars(\E r \in Records : Bury(s, r))
FairSpec == Spec /\ Fairness
-----------------------------------------------------------------------------
InHand(s) == sweeper[s].held \cup (IF sweeper[s].pc = "load" THEN sweeper[s].cur ELSE {})

Settled == delivered \cup {r \in Records : dead[r] # "none"}

(* A record's file leaves the queue only when the record was delivered or  *)
(* lies among the dead letters, whatever sweeper dies or races another     *)
(* (outbox.mark_sent after the flush, mark_dead's write before its unlink).*)
NeverLost == At("gone") \subseteq Settled

(* Two sweepers have one record in hand at the same time only if its claim *)
(* is old enough for reclaim_stale: the rename alone is a sound mutex.     *)
SharedOnlyWhenStale ==
  \A s, t \in Sweepers : s # t => \A r \in InHand(s) \cap InHand(t) : age[r] >= Stale

(* A record that can be read is set aside only if its claim was old enough *)
(* to be taken from its owner: a young one never vanishes under load.      *)
ReadableBuriedOnlyWhenStale ==
  \A r \in Readable : dead[r] # "none" => age[r] >= Stale

(* Every published record is eventually delivered or dead-lettered, with   *)
(* killed sweepers' claims recovered (reclaim_stale) and failed shipments  *)
(* retried (release).                                                      *)
PublishedSettles == \A r \in Records : (place[r] = "queued") ~> (r \in Settled)

\* The spool's promise to its writers, with files and sweepers hidden.
Promise == INSTANCE SpoolPromise WITH kept <- InSpool, settled <- Settled

(* Every behaviour of the spool is one the promise allows.                 *)
KeepsPromise == Promise!Spec
=============================================================================
