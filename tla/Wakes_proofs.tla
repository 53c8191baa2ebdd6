---------------------------- MODULE Wakes_proofs ----------------------------
(* What the manager's hooks and the nudges promise, proved for any number of events, of
   teammates, of drafts and of killed hooks, and any delta limit and cap. *)
EXTENDS Wakes, FiniteSetTheorems, WellFoundedInduction, TLAPS

-----------------------------------------------------------------------------
(* The query: the oldest of the unseen events, and the last of them.       *)

(* The sets of the events below, or above, each event have a least one. *)
Least(f, e, S) == \A d \in S : ~ (f[d] \subseteq f[e] /\ f[d] # f[e])

LEMMA LeastImage ==
  ASSUME NEW S, IsFiniteSet(S), S # {}, NEW f \in [S -> SUBSET S]
  PROVE  \E e \in S : Least(f, e, S)
<1> DEFINE T == {f[e] : e \in S}
<1>1. IsWellFoundedOn(StrictSubsetOrdering(S), SUBSET S)
  BY FS_StrictSubsetOrderingWellFounded, FS_FiniteSubsetsOfFinite
<1>2. T \subseteq SUBSET S /\ T # {}
  OBVIOUS
<1>3. PICK x \in T : \A y \in T : ~ (<<y, x>> \in StrictSubsetOrdering(S))
  <2> HIDE DEF T
  <2> QED
    BY <1>1, <1>2, WFMin
<1>4. PICK e \in S : x = f[e]
  BY <1>3
<1>5. ASSUME NEW d \in S, f[d] \subseteq f[e], f[d] # f[e] PROVE FALSE
  <2>1. <<f[d], f[e]>> \in StrictSubsetOrdering(S)
    BY <1>5 DEF StrictSubsetOrdering
  <2>2. QED
    BY <2>1, <1>3, <1>4
<1>6. QED
  BY <1>5 DEF Least

LEMMA LeastExists ==
  ASSUME NEW S \in SUBSET Nat, IsFiniteSet(S), S # {}
  PROVE  \E e \in S : \A d \in S : e <= d
<1>0. \A d \in S : d \in Nat
  OBVIOUS
<1>1. PICK f \in [S -> SUBSET S] : f = [e \in S |-> {d \in S : d < e}]
  OBVIOUS
<1>2. PICK e \in S : Least(f, e, S)
  BY LeastImage
<1>3. ASSUME NEW d \in S, d < e PROVE FALSE
  <2>1. f[d] = {x \in S : x < d} /\ f[e] = {x \in S : x < e}
    BY <1>1
  <2>2. \A x \in S : x < d => x < e
    BY <1>0, <1>3
  <2>3. d \in f[e] /\ ~ (d < d)
    BY <1>0, <1>3, <2>1
  <2>4. QED
    BY <2>1, <2>2, <2>3, <1>2 DEF Least
<1>4. QED
  BY <1>0, <1>3

LEMMA NewestIs ==
  ASSUME NEW S \in SUBSET Nat, IsFiniteSet(S), S # {}
  PROVE  Newest(S) \in S /\ \A d \in S : d <= Newest(S)
<1>0. \A d \in S : d \in Nat
  OBVIOUS
<1>1. PICK f \in [S -> SUBSET S] : f = [e \in S |-> {d \in S : d > e}]
  OBVIOUS
<1>2. PICK e \in S : Least(f, e, S)
  BY LeastImage
<1>3. ASSUME NEW d \in S, d > e PROVE FALSE
  <2>1. f[d] = {x \in S : x > d} /\ f[e] = {x \in S : x > e}
    BY <1>1
  <2>2. \A x \in S : x > d => x > e
    BY <1>0, <1>3
  <2>3. d \in f[e] /\ ~ (d > d)
    BY <1>0, <1>3, <2>1
  <2>4. QED
    BY <2>1, <2>2, <2>3, <1>2 DEF Least
<1>4. \E x \in S : \A d \in S : d <= x
  BY <1>0, <1>3
<1>5. QED
  BY <1>4 DEF Newest

LEMMA OldestIs ==
  ASSUME NEW S \in SUBSET Nat, IsFiniteSet(S), NEW n \in Nat \ {0}
  PROVE  /\ Oldest(S, n) \subseteq S
         /\ \A e \in Oldest(S, n), d \in S : d < e => d \in Oldest(S, n)
         /\ S # {} => Oldest(S, n) # {}
<1>1. ASSUME NEW e \in Oldest(S, n), NEW d \in S, d < e PROVE d \in Oldest(S, n)
  <2> DEFINE Below(x) == {y \in S : y < x}
  <2>1. e \in S /\ Cardinality(Below(e)) < n
    BY DEF Oldest
  <2>2. Below(d) \subseteq Below(e) /\ Below(e) \subseteq S
    <3>1. \A y \in S : y \in Nat
      OBVIOUS
    <3>2. \A y \in S : y < d => y < e
      BY <1>1, <2>1, <3>1
    <3>3. QED
      BY <3>2
  <2>3. IsFiniteSet(Below(e)) /\ IsFiniteSet(Below(d))
    BY <2>2, FS_Subset
  <2>4. Cardinality(Below(d)) <= Cardinality(Below(e))
    BY <2>2, <2>3, FS_Subset
  <2>5. Cardinality(Below(d)) \in Nat /\ Cardinality(Below(e)) \in Nat
    BY <2>3, FS_CardinalityType
  <2>6. Cardinality(Below(d)) < n
    BY <2>1, <2>4, <2>5
  <2>7. QED
    BY <2>6 DEF Oldest
<1>2. ASSUME S # {} PROVE Oldest(S, n) # {}
  <2>1. PICK e \in S : \A d \in S : e <= d
    BY <1>2, LeastExists
  <2>2. {d \in S : d < e} = {}
    <3>1. \A d \in S : d \in Nat
      OBVIOUS
    <3>2. \A d \in S : ~ (d < e)
      BY <2>1, <3>1
    <3>3. QED
      BY <3>2
  <2>3. Cardinality({d \in S : d < e}) = 0
    BY <2>2, FS_EmptySet
  <2>4. e \in Oldest(S, n)
    BY <2>3 DEF Oldest
  <2>5. QED
    BY <2>4
<1>3. QED
  BY <1>1, <1>2 DEF Oldest

(* A delta holds every unseen event up to its last one, and is empty only when there is
   none at all. *)
LEMMA ShownIs ==
  ASSUME NEW c \in Nat
  PROVE  /\ Shown(c) \subseteq Since(c) /\ Candidates(c) \subseteq Since(c)
         /\ Since(c) # {} => Shown(c) # {}
         /\ Shown(c) # {} => /\ Newest(Shown(c)) \in Since(c)
                             /\ \A e \in Shown(c) : e <= Newest(Shown(c))
                             /\ \A e \in Since(c) : e <= Newest(Shown(c)) => e \in Shown(c)
<1>1. Since(c) \in SUBSET Nat /\ Since(c) \subseteq 1 .. MaxEvents
  BY WakesAssumption DEF Since, Events
<1>2. IsFiniteSet(Since(c))
  <2>1. IsFiniteSet(1 .. MaxEvents)
    BY FS_Interval, WakesAssumption
  <2>2. QED
    BY <2>1, <1>1, FS_Subset
<1>3. DeltaLimit \in Nat \ {0} /\ DeltaLimit * 3 + 1 \in Nat \ {0}
  BY WakesAssumption
<1>4. /\ Candidates(c) \subseteq Since(c)
      /\ \A e \in Candidates(c), d \in Since(c) : d < e => d \in Candidates(c)
      /\ Since(c) # {} => Candidates(c) # {}
  BY <1>1, <1>2, <1>3, OldestIs DEF Candidates
<1>5. Candidates(c) \in SUBSET Nat /\ IsFiniteSet(Candidates(c))
  BY <1>1, <1>2, <1>4, FS_Subset
<1>6. /\ Shown(c) \subseteq Candidates(c)
      /\ \A e \in Shown(c), d \in Candidates(c) : d < e => d \in Shown(c)
      /\ Candidates(c) # {} => Shown(c) # {}
  BY <1>3, <1>5, OldestIs DEF Shown
<1>7. Shown(c) \in SUBSET Nat /\ IsFiniteSet(Shown(c))
  BY <1>5, <1>6, FS_Subset
<1>8. ASSUME Shown(c) # {}
      PROVE  /\ Newest(Shown(c)) \in Shown(c)
             /\ \A e \in Shown(c) : e <= Newest(Shown(c))
  BY <1>7, <1>8, NewestIs
<1>9. ASSUME Shown(c) # {}, NEW e \in Since(c), e <= Newest(Shown(c))
      PROVE  e \in Shown(c)
  <2> DEFINE m == Newest(Shown(c))
  <2>1. m \in Shown(c) /\ m \in Candidates(c) /\ m \in Nat /\ e \in Nat
    BY <1>1, <1>6, <1>7, <1>8, <1>9
  <2>2. e = m \/ e < m
    BY <2>1, <1>9
  <2>3. e < m => e \in Candidates(c)
    BY <2>1, <1>4
  <2>4. QED
    BY <2>1, <2>2, <2>3, <1>6
<1>10. QED
  BY <1>4, <1>6, <1>8, <1>9

-----------------------------------------------------------------------------
(* What the hooks deliver.                                                 *)

DeliveryTypes ==
  /\ last \in 0 .. MaxEvents /\ kind \in [Events -> Kinds]
  /\ row \in [state : {"waiting", "working", "stale"}, cursor : 0 .. MaxEvents]
  /\ mgr \in [pc : {"idle", "prompted", "moves", "prints", "turn", "stop", "counts", "keeps",
                    "says", "parks", "nudging"},
              shown : SUBSET Events, upto : 0 .. MaxEvents, active : BOOLEAN, owes : BOOLEAN]
  /\ used \in 0 .. Cap
  /\ heard \in [Events -> Nat] /\ dropped \subseteq Events

(* Between its read and its move a hook holds all the news up to where it will move the
   cursor, whatever is written meanwhile; after the move, news not put to the manager yet. *)
Reading == mgr.pc \in {"moves", "counts", "keeps"}
Hand ==
  /\ row.cursor <= last /\ mgr.upto <= last
  /\ Reading => /\ \A e \in mgr.shown : row.cursor < e /\ e <= mgr.upto
                /\ \A e \in Events : row.cursor < e /\ e <= mgr.upto /\ kind[e] \in News
                                       => e \in mgr.shown
  /\ mgr.pc \in {"counts", "keeps"} => row.cursor < mgr.upto
  /\ mgr.pc = "counts" => used < Cap
  /\ mgr.pc \in {"prints", "says"} => \A e \in mgr.shown : e <= row.cursor /\ heard[e] = 0

Delivered == DeliveryTypes /\ Hand /\ NothingSkipped /\ NothingTwice

(* A step that leaves the rows and the history alone, and the hook with nothing in hand. *)
LEMMA LetsGo ==
  ASSUME Delivered, UNCHANGED <<last, kind, used, heard>>, row'.cursor = row.cursor,
         DeliveryTypes', mgr'.pc \in {"idle", "prompted", "turn", "stop", "parks", "nudging"},
         mgr'.upto <= last, InHand \cup dropped \subseteq dropped'
  PROVE  Delivered'
<1>1. Hand'
  BY DEF Delivered, Hand, Reading, DeliveryTypes
<1>2. NothingSkipped'
  BY DEF Delivered, NothingSkipped, InHand, DeliveryTypes
<1>3. NothingTwice'
  BY DEF Delivered, NothingTwice
<1>4. QED
  BY <1>1, <1>2, <1>3 DEF Delivered

LEMMA DeliveredStays ==
  ASSUME Delivered, UNCHANGED <<boardVars, hookVars>>
  PROVE  Delivered'
<1>1. /\ UNCHANGED <<last, kind, row, mgr>>
      /\ UNCHANGED <<used, heard, dropped>>
  BY DEF boardVars, hookVars
<1>2. DeliveryTypes' /\ Hand'
  BY <1>1 DEF Delivered, DeliveryTypes, Hand, Reading
<1>3. NothingSkipped' /\ NothingTwice'
  BY <1>1 DEF Delivered, NothingSkipped, NothingTwice, InHand
<1>4. QED
  BY <1>2, <1>3 DEF Delivered

LEMMA WritesDelivered ==
  ASSUME Delivered, NEW w, NEW k \in {"wake", "info", "left"}, Write(w, k)
  PROVE  Delivered'
<1>1. /\ last < MaxEvents /\ last' = last + 1 /\ kind' = [kind EXCEPT ![last + 1] = k]
      /\ UNCHANGED <<row, mgr, used, heard, dropped>>
  BY DEF Write, hookVars
<1>2. last + 1 \in Events /\ \A e \in Events : e <= last => kind'[e] = kind[e]
  BY <1>1, WakesAssumption DEF Delivered, DeliveryTypes, Events
<1>3. DeliveryTypes'
  BY <1>1, <1>2, WakesAssumption DEF Delivered, DeliveryTypes, Kinds, Events
<1>4. Hand'
  <2>1. row.cursor \in Nat /\ mgr.upto \in Nat /\ last \in Nat /\ Events \subseteq Nat
    BY WakesAssumption DEF Delivered, DeliveryTypes, Events
  <2>2. row.cursor <= last /\ mgr.upto <= last
    BY DEF Delivered, Hand
  <2>3. \A e \in Events : e <= mgr.upto => kind'[e] = kind[e]
    BY <1>2, <2>1, <2>2
  <2>4. QED
    BY <1>1, <2>1, <2>2, <2>3 DEF Delivered, Hand, Reading
<1>5. NothingSkipped'
  <2>1. \A e \in 1 .. row.cursor : e \in Events /\ e <= last
    BY WakesAssumption DEF Delivered, DeliveryTypes, Hand, Events
  <2>2. QED
    BY <1>1, <1>2, <2>1 DEF Delivered, NothingSkipped, InHand
<1>6. NothingTwice'
  BY <1>1 DEF Delivered, NothingTwice
<1>7. QED
  BY <1>3, <1>4, <1>5, <1>6 DEF Delivered

LEMMA PromptReadsDelivered == ASSUME Delivered, PromptReads PROVE Delivered'
<1> DEFINE c == row.cursor
<1>1. /\ mgr.pc = "prompted" /\ UNCHANGED <<last, kind, row, used, heard, dropped>>
      /\ mgr' = [mgr EXCEPT !.pc = "moves", !.shown = Shown(c),
                            !.upto = IF Shown(c) = {} THEN @ ELSE Newest(Shown(c))]
  BY DEF PromptReads, boardVars
<1>2. c \in Nat /\ last \in Nat /\ mgr.upto \in 0 .. MaxEvents /\ mgr.upto <= last
  BY WakesAssumption DEF Delivered, DeliveryTypes, Hand
<1>3. /\ Shown(c) \subseteq Since(c)
      /\ Since(c) # {} => Shown(c) # {}
      /\ Shown(c) # {} => /\ Newest(Shown(c)) \in Since(c)
                          /\ \A e \in Shown(c) : e <= Newest(Shown(c))
                          /\ \A e \in Since(c) : e <= Newest(Shown(c)) => e \in Shown(c)
  BY <1>2, ShownIs
<1>4. \A e \in Since(c) : e \in Events /\ e \in 0 .. MaxEvents /\ c < e /\ e <= last
  BY DEF Since, Events
<1>5. \A e \in Events : c < e /\ e <= last /\ kind[e] \in News => e \in Since(c)
  BY DEF Since
<1>6. /\ mgr'.pc = "moves" /\ mgr'.shown = Shown(c) /\ mgr'.shown \in SUBSET Events
      /\ mgr'.upto = IF Shown(c) = {} THEN mgr.upto ELSE Newest(Shown(c))
      /\ mgr'.upto \in 0 .. MaxEvents /\ mgr'.upto <= last
  BY <1>1, <1>2, <1>3, <1>4 DEF Delivered, DeliveryTypes
<1>7. DeliveryTypes'
  BY <1>1, <1>6 DEF Delivered, DeliveryTypes
<1>8. ASSUME NEW e \in Events, c < e, e <= mgr'.upto, kind[e] \in News PROVE e \in Shown(c)
  <2>1. e <= last
    BY <1>2, <1>6, <1>8 DEF Events
  <2>2. e \in Since(c) /\ Shown(c) # {}
    BY <2>1, <1>3, <1>5, <1>8
  <2>3. QED
    BY <2>2, <1>3, <1>6, <1>8
<1>9. ASSUME NEW e \in Shown(c) PROVE c < e /\ e <= mgr'.upto
  BY <1>3, <1>4, <1>6, <1>9
<1>10. Hand'
  BY <1>1, <1>6, <1>8, <1>9 DEF Delivered, Hand, Reading
<1>11. NothingSkipped' /\ NothingTwice'
  BY <1>1, <1>6 DEF Delivered, NothingSkipped, NothingTwice, InHand
<1>12. QED
  BY <1>7, <1>10, <1>11 DEF Delivered

LEMMA StopReadsDelivered == ASSUME Delivered, StopReads PROVE Delivered'
<1> DEFINE c == row.cursor
           wakes == \E e \in Candidates(c) : kind[e] = "wake"
<1>1. mgr.pc = "stop" /\ UNCHANGED <<last, kind, row, used, heard, dropped>>
  BY DEF StopReads, boardVars
<1>2. c \in Nat /\ last \in Nat /\ used \in 0 .. Cap /\ Cap \in Nat
  BY WakesAssumption DEF Delivered, DeliveryTypes
<1>3. CASE wakes /\ ~ mgr.active /\ used < Cap
  <2>1. mgr' = [mgr EXCEPT !.pc = "counts", !.shown = Shown(c), !.upto = Newest(Shown(c))]
    BY <1>3 DEF StopReads
  <2>2. /\ Shown(c) \subseteq Since(c) /\ Newest(Shown(c)) \in Since(c)
        /\ \A e \in Shown(c) : e <= Newest(Shown(c))
        /\ \A e \in Since(c) : e <= Newest(Shown(c)) => e \in Shown(c)
    BY <1>2, <1>3, ShownIs
  <2>3. \A e \in Since(c) : e \in Events /\ e \in 0 .. MaxEvents /\ c < e /\ e <= last
    BY DEF Since, Events
  <2>4. \A e \in Events : c < e /\ e <= last /\ kind[e] \in News => e \in Since(c)
    BY DEF Since
  <2>5. /\ mgr'.pc = "counts" /\ mgr'.shown = Shown(c) /\ mgr'.upto = Newest(Shown(c))
        /\ mgr'.shown \in SUBSET Events /\ mgr'.upto \in 0 .. MaxEvents
        /\ c < mgr'.upto /\ mgr'.upto <= last
    BY <2>1, <2>2, <2>3 DEF Delivered, DeliveryTypes
  <2>6. DeliveryTypes'
    BY <1>1, <2>1, <2>5 DEF Delivered, DeliveryTypes
  <2>7. ASSUME NEW e \in Events, c < e, e <= mgr'.upto, kind[e] \in News PROVE e \in Shown(c)
    <3>1. e <= last
      BY <1>2, <2>5, <2>7 DEF Events
    <3>2. QED
      BY <3>1, <2>2, <2>4, <2>5, <2>7
  <2>8. Hand'
    BY <1>1, <1>3, <2>2, <2>3, <2>5, <2>7 DEF Delivered, Hand, Reading
  <2>9. NothingSkipped' /\ NothingTwice'
    BY <1>1, <2>5 DEF Delivered, NothingSkipped, NothingTwice, InHand
  <2>10. QED
    BY <2>6, <2>8, <2>9 DEF Delivered
<1>4. CASE ~ (wakes /\ ~ mgr.active /\ used < Cap)
  <2>1. mgr' = [mgr EXCEPT !.pc = "parks", !.owes = wakes /\ mgr.active]
    BY <1>4 DEF StopReads
  <2>2. DeliveryTypes'
    BY <1>1, <2>1 DEF Delivered, DeliveryTypes
  <2>3. QED
    BY <1>1, <2>1, <2>2, LetsGo DEF Delivered, DeliveryTypes, Hand, InHand
<1>5. QED
  BY <1>3, <1>4

(* The cursor goes to what the hook holds, and never back. *)
LEMMA Moves ==
  ASSUME Delivered, Reading, UNCHANGED <<last, kind, used, heard, dropped>>,
         row' \in [state : {"waiting", "working", "stale"}, cursor : {Moved}],
         mgr' \in {[mgr EXCEPT !.pc = pc] : pc \in {"prints", "says"}}
  PROVE  Delivered'
<1>1. /\ row.cursor \in 0 .. MaxEvents /\ mgr.upto \in 0 .. MaxEvents /\ last \in 0 .. MaxEvents
      /\ row.cursor <= last /\ mgr.upto <= last /\ mgr.shown \subseteq Events
      /\ MaxEvents \in Nat /\ Events = 1 .. MaxEvents
  BY WakesAssumption DEF Delivered, DeliveryTypes, Hand, Events
<1>2. /\ row'.cursor = Moved /\ row'.cursor \in 0 .. MaxEvents
      /\ row'.cursor <= last /\ row.cursor <= row'.cursor /\ mgr.upto <= row'.cursor
      /\ row'.cursor = row.cursor \/ row'.cursor = mgr.upto
  BY <1>1 DEF Moved
<1>3. mgr'.pc \in {"prints", "says"} /\ mgr'.shown = mgr.shown /\ mgr'.upto = mgr.upto
  BY DEF Delivered, DeliveryTypes
<1>4. DeliveryTypes'
  BY <1>2 DEF Delivered, DeliveryTypes
<1>5. ASSUME NEW e \in mgr.shown PROVE e <= row'.cursor /\ heard[e] = 0
  <2>1. e \in Events /\ row.cursor < e /\ e <= mgr.upto
    BY <1>1, <1>5 DEF Delivered, Hand
  <2>2. heard[e] \in Nat /\ heard[e] <= 1 /\ heard[e] # 1
    BY <1>1, <2>1 DEF Delivered, DeliveryTypes, NothingTwice
  <2>3. QED
    BY <1>1, <1>2, <2>1, <2>2
<1>6. Hand'
  BY <1>1, <1>2, <1>3, <1>5 DEF Hand, Reading
<1>7. ASSUME NEW e \in 1 .. row'.cursor, kind[e] \in News
      PROVE  heard[e] > 0 \/ e \in mgr.shown \cup dropped
  <2>1. e \in Events
    BY <1>1, <1>2
  <2>2. CASE e <= row.cursor
    BY <1>1, <1>7, <2>1, <2>2 DEF Delivered, NothingSkipped, InHand, Reading
  <2>3. CASE row.cursor < e /\ e <= mgr.upto
    BY <1>7, <2>1, <2>3 DEF Delivered, Hand
  <2>4. QED
    BY <1>1, <1>2, <2>1, <2>2, <2>3
<1>8. NothingSkipped'
  BY <1>3, <1>7 DEF NothingSkipped, InHand
<1>9. NothingTwice'
  <2>1. ASSUME NEW e \in Events, heard[e] = 1 PROVE e <= row'.cursor
    BY <1>1, <1>2, <2>1 DEF Delivered, NothingTwice
  <2>2. QED
    BY <2>1 DEF Delivered, NothingTwice
<1>10. QED
  BY <1>4, <1>6, <1>8, <1>9 DEF Delivered

LEMMA PromptMovesDelivered == ASSUME Delivered, PromptMoves PROVE Delivered'
<1>1. /\ Reading /\ UNCHANGED <<last, kind, used, heard, dropped>>
      /\ row' = [state |-> "working", cursor |-> Moved]
      /\ mgr' = [mgr EXCEPT !.pc = "prints"]
  BY DEF PromptMoves, Reading, boardVars
<1>2. QED
  BY <1>1, Moves

LEMMA StopKeepsDelivered == ASSUME Delivered, StopKeeps PROVE Delivered'
<1>1. /\ Reading /\ UNCHANGED <<last, kind, used, heard, dropped>>
      /\ row' = [state |-> "working", cursor |-> mgr.upto]
      /\ mgr' = [mgr EXCEPT !.pc = "says"]
  BY DEF StopKeeps, Reading, boardVars
<1>2. mgr.upto = Moved
  BY DEF StopKeeps, Delivered, Hand, Moved
<1>3. QED
  BY <1>1, <1>2, Moves

(* What the hook holds is put before the manager, for the first time. *)
LEMMA Says ==
  ASSUME Delivered, mgr.pc \in {"prints", "says"}, Hears(mgr.shown),
         UNCHANGED <<last, kind, row, used, dropped>>, NEW active \in BOOLEAN,
         mgr' = [mgr EXCEPT !.pc = "turn", !.shown = {}, !.upto = 0, !.active = active]
  PROVE  Delivered'
<1>1. /\ heard' = [e \in Events |-> IF e \in mgr.shown THEN heard[e] + 1 ELSE heard[e]]
      /\ heard \in [Events -> Nat] /\ mgr.shown \subseteq Events
      /\ row.cursor \in 0 .. MaxEvents /\ MaxEvents \in Nat /\ Events = 1 .. MaxEvents
  BY WakesAssumption DEF Hears, Delivered, DeliveryTypes, Events
<1>2. mgr'.pc = "turn" /\ mgr'.upto = 0 /\ mgr'.shown = {}
  BY DEF Delivered, DeliveryTypes
<1>3. DeliveryTypes'
  <2>1. mgr' \in [pc : {"turn"}, shown : {{}}, upto : {0}, active : BOOLEAN, owes : BOOLEAN]
    BY DEF Delivered, DeliveryTypes
  <2>2. heard' \in [Events -> Nat]
    BY <1>1
  <2>3. QED
    BY <2>1, <2>2, <1>1 DEF Delivered, DeliveryTypes
<1>4. Hand'
  BY <1>1, <1>2 DEF Delivered, DeliveryTypes, Hand, Reading
<1>5. \A e \in mgr.shown : e <= row.cursor /\ heard[e] = 0
  BY DEF Delivered, Hand
<1>6. NothingSkipped'
  <2>1. ASSUME NEW e \in 1 .. row.cursor, kind[e] \in News PROVE heard'[e] > 0 \/ e \in dropped
    <3>1. e \in Events /\ (heard[e] > 0 \/ e \in mgr.shown \cup dropped)
      BY <1>1, <2>1 DEF Delivered, NothingSkipped, InHand
    <3>2. QED
      BY <3>1, <1>1, <1>5
  <2>2. QED
    BY <2>1 DEF NothingSkipped
<1>7. NothingTwice'
  <2>1. ASSUME NEW e \in Events PROVE heard'[e] <= 1 /\ (heard'[e] = 1 => e <= row.cursor)
    BY <1>1, <1>5, <2>1 DEF Delivered, NothingTwice
  <2>2. QED
    BY <2>1 DEF NothingTwice
<1>8. QED
  BY <1>3, <1>4, <1>6, <1>7 DEF Delivered

LEMMA SpeaksDelivered == ASSUME Delivered, PromptPrints \/ StopSays PROVE Delivered'
<1>1. /\ mgr.pc \in {"prints", "says"} /\ Hears(mgr.shown)
      /\ UNCHANGED <<last, kind, row, used, dropped>>
  BY DEF PromptPrints, StopSays, boardVars
<1>2. CASE PromptPrints
  <2>1. /\ mgr.active \in BOOLEAN
        /\ mgr' = [mgr EXCEPT !.pc = "turn", !.shown = {}, !.upto = 0, !.active = mgr.active]
    BY <1>2 DEF PromptPrints, Delivered, DeliveryTypes
  <2>2. QED
    BY <1>1, <2>1, Says
<1>3. CASE StopSays
  <2>1. mgr' = [mgr EXCEPT !.pc = "turn", !.shown = {}, !.upto = 0, !.active = TRUE]
    BY <1>3 DEF StopSays
  <2>2. QED
    BY <1>1, <2>1, Says
<1>4. QED
  BY <1>2, <1>3

LEMMA StopCountsDelivered == ASSUME Delivered, StopCounts PROVE Delivered'
<1>1. /\ mgr.pc = "counts" /\ used' = used + 1 /\ mgr' = [mgr EXCEPT !.pc = "keeps"]
      /\ UNCHANGED <<last, kind, row, heard, dropped>>
  BY DEF StopCounts, boardVars
<1>2. used' \in 0 .. Cap
  BY <1>1, WakesAssumption DEF Delivered, DeliveryTypes, Hand
<1>3. DeliveryTypes'
  BY <1>1, <1>2 DEF Delivered, DeliveryTypes
<1>4. mgr'.pc = "keeps" /\ mgr'.shown = mgr.shown /\ mgr'.upto = mgr.upto
  BY <1>1 DEF Delivered, DeliveryTypes
<1>5. Hand'
  BY <1>1, <1>4 DEF Delivered, Hand, Reading
<1>6. NothingSkipped' /\ NothingTwice'
  BY <1>1, <1>4 DEF Delivered, NothingSkipped, NothingTwice, InHand
<1>7. QED
  BY <1>3, <1>5, <1>6 DEF Delivered

(* The other steps of the hooks leave the rows alone and the hook with nothing in hand. *)
LEMMA EndsDelivered ==
  ASSUME Delivered, TakePrompt \/ TurnEnds \/ StopParks \/ StopEnds \/ HookKilled \/ GoesStale
  PROVE  Delivered'
<1>1. mgr.pc \notin {"prints", "says"} => InHand = {}
  BY DEF InHand
<1>2. UNCHANGED <<last, kind, used, heard>> /\ row'.cursor = row.cursor
  BY DEF TakePrompt, TurnEnds, StopParks, StopEnds, HookKilled, GoesStale, boardVars,
         Delivered, DeliveryTypes
<1>3. CASE TakePrompt
  <2>1. mgr' = [mgr EXCEPT !.pc = "prompted", !.upto = last] /\ UNCHANGED <<row, dropped>>
        /\ mgr.pc = "idle"
    BY <1>3 DEF TakePrompt
  <2>2. DeliveryTypes' /\ mgr'.pc = "prompted" /\ mgr'.upto <= last
    <3>1. last \in 0 .. MaxEvents /\ last <= last
      BY WakesAssumption DEF Delivered, DeliveryTypes
    <3>2. QED
      BY <3>1, <1>2, <2>1 DEF Delivered, DeliveryTypes
  <2>3. QED
    BY <1>1, <1>2, <2>1, <2>2, LetsGo
<1>4. CASE TurnEnds \/ StopEnds
  <2>1. /\ mgr' \in {[mgr EXCEPT !.pc = "stop"], [mgr EXCEPT !.pc = "idle"]}
        /\ UNCHANGED <<row, dropped>> /\ mgr.pc \in {"turn", "nudging"}
    BY <1>4 DEF TurnEnds, StopEnds
  <2>2. DeliveryTypes' /\ mgr'.pc \in {"stop", "idle"} /\ mgr'.upto <= last
    BY <1>2, <2>1 DEF Delivered, DeliveryTypes, Hand
  <2>3. QED
    BY <1>1, <1>2, <2>1, <2>2, LetsGo
<1>5. CASE StopParks
  <2>1. /\ mgr' \in {[mgr EXCEPT !.pc = pc, !.active = FALSE, !.owes = FALSE]
                       : pc \in {"nudging", "idle"}}
        /\ row' = [row EXCEPT !.state = "waiting"] /\ UNCHANGED dropped /\ mgr.pc = "parks"
    BY <1>5 DEF StopParks
  <2>2. DeliveryTypes' /\ mgr'.pc \in {"nudging", "idle"} /\ mgr'.upto <= last
    BY <1>2, <2>1 DEF Delivered, DeliveryTypes, Hand
  <2>3. QED
    BY <1>1, <1>2, <2>1, <2>2, LetsGo
<1>6. CASE HookKilled
  <2>1. /\ mgr' \in {[mgr EXCEPT !.pc = pc, !.shown = {}, !.upto = 0, !.active = FALSE,
                                 !.owes = FALSE] : pc \in {"turn", "idle"}}
        /\ UNCHANGED row
        /\ dropped' = IF mgr.pc \in {"prints", "says"} THEN dropped \cup mgr.shown ELSE dropped
    BY <1>6 DEF HookKilled
  <2>2. mgr'.pc \in {"turn", "idle"} /\ mgr'.upto = 0 /\ InHand \cup dropped \subseteq dropped'
    BY <2>1 DEF Delivered, DeliveryTypes, InHand
  <2>3. DeliveryTypes'
    <3>1. mgr' \in [pc : {"turn", "idle"}, shown : {{}}, upto : {0}, active : BOOLEAN,
                    owes : BOOLEAN]
      BY <2>1 DEF Delivered, DeliveryTypes
    <3>2. dropped' \subseteq Events
      BY <2>1 DEF Delivered, DeliveryTypes
    <3>3. QED
      BY <3>1, <3>2, <1>2, <2>1, WakesAssumption DEF Delivered, DeliveryTypes
  <2>4. mgr'.upto <= last
    BY <2>2 DEF Delivered, DeliveryTypes
  <2>5. QED
    BY <1>2, <2>2, <2>3, <2>4, LetsGo
<1>7. CASE GoesStale
  <2>1. row' = [row EXCEPT !.state = "stale"] /\ UNCHANGED <<mgr, dropped>>
        /\ mgr.pc \in {"idle", "turn"}
    BY <1>7 DEF GoesStale
  <2>2. DeliveryTypes' /\ mgr'.pc \in {"idle", "turn"} /\ mgr'.upto <= last
    BY <1>2, <2>1 DEF Delivered, DeliveryTypes, Hand
  <2>3. QED
    BY <1>1, <1>2, <2>1, <2>2, LetsGo
<1>8. QED
  BY <1>3, <1>4, <1>5, <1>6, <1>7

-----------------------------------------------------------------------------
(* What a nudge does at the box.                                           *)

SenderTypes == [pc : {"rest", "check", "guard", "paste", "render", "press", "look", "record"},
                acked : BOOLEAN, presses : 0 .. 2, late : BOOLEAN]

OtherTypes ==
  /\ box \in [ours : Nat, draft : BOOLEAN] /\ queue \in Nat
  /\ lately \in BOOLEAN /\ held \in {"no", "held", "answered"}
  /\ drafts \in 0 .. MaxDrafts /\ mishaps \in 0 .. MaxMishaps

(* No Enter before the press, no third one, and none beside a draft older than the look. *)
Careful(nudge, draft) ==
  /\ nudge.pc \in {"guard", "paste", "render"} => nudge.presses = 0
  /\ nudge.pc = "press" => nudge.presses < 2 /\ (draft => nudge.late)

Nudged ==
  /\ OtherTypes /\ sender \in [Senders -> SenderTypes]
  /\ \A s \in Senders : Careful(sender[s], box.draft)

(* One nudge goes on while no draft is begun. *)
LEMMA OneGoes ==
  ASSUME Nudged, OtherTypes', box'.draft => box.draft, NEW s \in Senders,
         NEW nudge \in SenderTypes, Careful(nudge, box'.draft),
         sender' = [sender EXCEPT ![s] = nudge]
  PROVE  Nudged'
<1>1. sender' \in [Senders -> SenderTypes]
  BY DEF Nudged
<1>2. ASSUME NEW r \in Senders PROVE Careful(sender'[r], box'.draft)
  BY DEF Nudged, Careful
<1>3. QED
  BY <1>1, <1>2 DEF Nudged

LEMMA NoneGoes ==
  ASSUME Nudged, OtherTypes', box'.draft => box.draft, UNCHANGED sender
  PROVE  Nudged'
BY DEF Nudged, Careful

LEMMA RestType == Rest \in SenderTypes /\ \A draft : Careful(Rest, draft)
BY DEF Rest, SenderTypes, Careful

LEMMA GuardType ==
  ASSUME NEW nudge \in SenderTypes, nudge.presses = 0
  PROVE  /\ [nudge EXCEPT !.pc = "guard"] \in SenderTypes
         /\ \A draft : Careful([nudge EXCEPT !.pc = "guard"], draft)
BY DEF SenderTypes, Careful

LEMMA PressType ==
  ASSUME NEW nudge \in SenderTypes, NEW n \in 0 .. 2
  PROVE  /\ [nudge EXCEPT !.pc = "look", !.presses = n, !.late = FALSE] \in SenderTypes
         /\ \A draft :
              Careful([nudge EXCEPT !.pc = "look", !.presses = n, !.late = FALSE], draft)
BY DEF SenderTypes, Careful

LEMMA TakePromptNudged == ASSUME Nudged, TakePrompt PROVE Nudged'
<1>1. /\ UNCHANGED box
      /\ sender' = [s \in Senders |->
           IF sender[s].pc = "rest" THEN sender[s] ELSE [sender[s] EXCEPT !.acked = TRUE]]
  BY DEF TakePrompt
<1>2. OtherTypes'
  BY DEF TakePrompt, Nudged, OtherTypes
<1>3. ASSUME NEW s \in Senders
      PROVE  sender'[s] \in SenderTypes /\ Careful(sender'[s], box.draft)
  BY <1>1 DEF Nudged, Careful, SenderTypes
<1>4. sender' \in [Senders -> SenderTypes]
  BY <1>1, <1>3
<1>5. QED
  BY <1>1, <1>2, <1>3, <1>4 DEF Nudged

LEMMA TypesNudged == ASSUME Nudged, Types PROVE Nudged'
<1>1. sender' = [s \in Senders |->
        IF At(s, "press") THEN [sender[s] EXCEPT !.late = TRUE] ELSE sender[s]]
  BY DEF Types
<1>2. OtherTypes'
  <2>1. drafts' \in 0 .. MaxDrafts
    BY WakesAssumption DEF Types, Nudged, OtherTypes
  <2>2. box' \in [ours : Nat, draft : BOOLEAN]
    BY DEF Types, Nudged, OtherTypes
  <2>3. QED
    BY <2>1, <2>2 DEF Types, Nudged, OtherTypes
<1>3. ASSUME NEW s \in Senders
      PROVE  sender'[s] \in SenderTypes /\ Careful(sender'[s], box'.draft)
  BY <1>1 DEF Nudged, Careful, SenderTypes, At
<1>4. sender' \in [Senders -> SenderTypes]
  BY <1>1, <1>3
<1>5. QED
  BY <1>2, <1>3, <1>4 DEF Nudged

(* A nudge begins. *)
LEMMA BeginsNudged ==
  ASSUME Nudged, NEW s \in Senders, OtherTypes', UNCHANGED box,
         sender' = [sender EXCEPT ![s].pc = "check"]
  PROVE  Nudged'
<1> DEFINE nudge == [sender[s] EXCEPT !.pc = "check"]
<1>1. nudge \in SenderTypes /\ Careful(nudge, box'.draft)
  BY DEF Nudged, SenderTypes, Careful
<1>2. sender' = [sender EXCEPT ![s] = nudge]
  BY DEF Nudged
<1>3. QED
  BY <1>1, <1>2, OneGoes

LEMMA StopHookNudged == ASSUME Nudged, StopParks \/ HookKilled PROVE Nudged'
<1>1. StopHook \in Senders /\ UNCHANGED box
  BY DEF StopParks, HookKilled, Senders
<1>2. OtherTypes'
  BY WakesAssumption DEF StopParks, HookKilled, Nudged, OtherTypes
<1>3. CASE StopParks /\ mgr.owes
  <2>1. sender' = [sender EXCEPT ![StopHook].pc = "check"]
    BY <1>3 DEF StopParks
  <2>2. QED
    BY <1>1, <1>2, <2>1, BeginsNudged
<1>4. CASE StopParks /\ ~ mgr.owes
  <2>1. sender' = [sender EXCEPT ![StopHook].pc = sender[StopHook].pc]
    BY <1>4 DEF StopParks
  <2>2. sender' = sender
    BY <1>1, <2>1 DEF Nudged, SenderTypes
  <2>3. QED
    BY <1>1, <1>2, <2>2, NoneGoes
<1>5. CASE HookKilled
  <2>1. sender' = [sender EXCEPT ![StopHook] = Rest]
    BY <1>5 DEF HookKilled
  <2>2. QED
    BY <1>1, <1>2, <2>1, RestType, OneGoes
<1>6. QED
  BY <1>3, <1>4, <1>5

LEMMA BeginNudged ==
  ASSUME Nudged,
         Retry \/ \E w \in Writers, k \in {"wake", "info", "left"} : Write(w, k)
  PROVE  Nudged'
<1>1. CASE Retry
  <2>1. OtherTypes' /\ UNCHANGED box /\ Refresh \in Senders
    BY <1>1 DEF Retry, Nudged, OtherTypes, Senders
  <2>2. sender' = sender \/ sender' = [sender EXCEPT ![Refresh].pc = "check"]
    BY <1>1 DEF Retry, Goes
  <2>3. QED
    BY <2>1, <2>2, NoneGoes, BeginsNudged
<1>2. ASSUME NEW w \in Writers, NEW k \in {"wake", "info", "left"}, Write(w, k) PROVE Nudged'
  <2>1. OtherTypes' /\ UNCHANGED box /\ w \in Senders
    BY <1>2 DEF Write, Nudged, OtherTypes, Senders
  <2>2. sender' = sender \/ sender' = [sender EXCEPT ![w].pc = "check"]
    BY <1>2 DEF Write, Goes
  <2>3. QED
    BY <2>1, <2>2, NoneGoes, BeginsNudged
<1>3. QED
  BY <1>1, <1>2

(* Each step of a nudge. *)
LEMMA NudgeNudged == ASSUME Nudged, NEW s \in Senders, Nudge(s) PROVE Nudged'
<1> DEFINE Gone(pc) == [sender[s] EXCEPT !.pc = pc]
<1>1. sender[s] \in SenderTypes /\ Careful(sender[s], box.draft)
  BY DEF Nudged
<1>2. ASSUME NEW pc, Goes(s, pc) PROVE sender' = [sender EXCEPT ![s] = Gone(pc)]
  BY <1>2 DEF Goes, Nudged
<1>3. \A pc \in {"render", "paste", "press", "record"} : Gone(pc) \in SenderTypes
  BY <1>1 DEF SenderTypes
<1>4. ASSUME HoldBack(s), UNCHANGED <<box, queue, lately, drafts, mishaps>> PROVE Nudged'
  <2>1. OtherTypes'
    BY <1>4 DEF HoldBack, Nudged, OtherTypes
  <2>2. QED
    BY <1>4, <2>1, RestType, OneGoes DEF HoldBack
<1>5. CASE Check(s)
  <2>1. OtherTypes' /\ UNCHANGED box
    BY <1>5 DEF Check, Nudged, OtherTypes
  <2>2. [Rest EXCEPT !.pc = "guard"] \in SenderTypes
        /\ Careful([Rest EXCEPT !.pc = "guard"], box'.draft)
    <3>1. Rest.presses = 0
      BY DEF Rest
    <3>2. QED
      BY <3>1, RestType, GuardType
  <2>3. \/ sender' = [sender EXCEPT ![s] = Rest]
        \/ sender' = [sender EXCEPT ![s] = [Rest EXCEPT !.pc = "guard"]]
    BY <1>5 DEF Check
  <2>4. QED
    BY <2>1, <2>2, <2>3, RestType, OneGoes
<1>6. CASE Guard(s)
  <2>1. UNCHANGED <<box, queue, lately, drafts, mishaps>>
    BY <1>6 DEF Guard
  <2>2. CASE HoldBack(s)
    BY <1>4, <2>1, <2>2
  <2>3. ASSUME NEW pc \in {"render", "paste"}, Goes(s, pc), UNCHANGED held PROVE Nudged'
    <3>1. Careful(Gone(pc), box'.draft)
      BY <1>1, <1>6, <2>3 DEF Guard, At, Careful, SenderTypes
    <3>2. OtherTypes'
      BY <2>1, <2>3 DEF Nudged, OtherTypes
    <3>3. QED
      BY <1>2, <1>3, <2>1, <2>3, <3>1, <3>2, OneGoes
  <2>4. QED
    BY <1>6, <2>2, <2>3 DEF Guard
<1>7. CASE Paste(s)
  <2>1. OtherTypes' /\ box'.draft = box.draft
    BY <1>7 DEF Paste, Nudged, OtherTypes
  <2>2. Careful(Gone("render"), box'.draft)
    BY <1>1, <1>7 DEF Paste, At, Careful, SenderTypes
  <2>3. QED
    BY <1>2, <1>3, <1>7, <2>1, <2>2, OneGoes DEF Paste
<1>8. CASE Render(s)
  <2>1. UNCHANGED <<box, queue, lately, drafts, mishaps>>
    BY <1>8 DEF Render
  <2>2. CASE HoldBack(s)
    BY <1>4, <2>1, <2>2
  <2>3. CASE (Holds \/ box = Empty) /\ Goes(s, "press") /\ UNCHANGED held
    <3>1. ~ box.draft
      BY <2>3 DEF Holds, Empty
    <3>2. Careful(Gone("press"), box'.draft)
      BY <1>1, <1>8, <2>1, <3>1 DEF Render, At, Careful, SenderTypes
    <3>3. OtherTypes'
      BY <2>1, <2>3 DEF Nudged, OtherTypes
    <3>4. QED
      BY <1>2, <1>3, <2>1, <2>3, <3>2, <3>3, OneGoes
  <2>4. QED
    BY <1>8, <2>2, <2>3 DEF Render
<1>9. CASE Press(s)
  <2> DEFINE n == sender[s].presses + 1
             nudge == [sender[s] EXCEPT !.pc = "look", !.presses = n, !.late = FALSE]
  <2>1. OtherTypes' /\ (box'.draft => box.draft)
    <3>1. CASE Submits /\ UNCHANGED mishaps
      BY <1>9, <3>1 DEF Press, Submits, Empty, Nudged, OtherTypes
    <3>2. CASE mishaps < MaxMishaps /\ mishaps' = mishaps + 1 /\ UNCHANGED <<box, queue>>
      <4>1. mishaps' \in 0 .. MaxMishaps
        BY <3>2, WakesAssumption DEF Nudged, OtherTypes
      <4>2. QED
        BY <1>9, <3>2, <4>1 DEF Press, Nudged, OtherTypes
    <3>3. QED
      BY <1>9, <3>1, <3>2 DEF Press
  <2>2. sender[s].presses \in 0 .. 2 /\ sender[s].presses < 2
    BY <1>1, <1>9 DEF Press, At, Careful, SenderTypes
  <2>3. nudge \in SenderTypes /\ Careful(nudge, box'.draft)
    <3>1. n \in 0 .. 2
      BY <2>2
    <3>2. QED
      BY <1>1, <3>1, PressType
  <2>4. sender' = [sender EXCEPT ![s] = nudge]
    BY <1>9 DEF Press, Nudged
  <2>5. QED
    BY <2>1, <2>3, <2>4, OneGoes
<1>10. CASE Look(s)
  <2>1. OtherTypes' /\ UNCHANGED box
    BY <1>10 DEF Look, Nudged, OtherTypes
  <2>2. CASE Goes(s, "record")
    <3>1. Careful(Gone("record"), box'.draft)
      BY <1>1 DEF Careful, SenderTypes
    <3>2. QED
      BY <1>2, <1>3, <2>1, <2>2, <3>1, OneGoes
  <2>3. CASE Holds /\ sender[s].presses < 2 /\ Goes(s, "press")
    <3>1. Careful(Gone("press"), box'.draft)
      BY <1>1, <2>1, <2>3 DEF Holds, Careful, SenderTypes
    <3>2. QED
      BY <1>2, <1>3, <2>1, <2>3, <3>1, OneGoes
  <2>4. QED
    BY <1>10, <2>2, <2>3 DEF Look
<1>11. CASE Record(s)
  <2>1. OtherTypes' /\ UNCHANGED box
    BY <1>11 DEF Record, Nudged, OtherTypes
  <2>2. QED
    BY <1>11, <2>1, RestType, OneGoes DEF Record
<1>12. QED
  BY <1>5, <1>6, <1>7, <1>8, <1>9, <1>10, <1>11 DEF Nudge

-----------------------------------------------------------------------------
(* The two together.                                                       *)

IInv == Delivered /\ Nudged

LEMMA InitOK == ASSUME Init PROVE IInv
<1>1. /\ DeliveryTypes /\ row.cursor = 0
      /\ mgr.upto = 0 /\ mgr.shown = {} /\ mgr.pc \in {"idle", "turn"}
  BY WakesAssumption DEF Init, DeliveryTypes, Kinds, Events
<1>2. Hand /\ NothingSkipped /\ NothingTwice
  BY <1>1, WakesAssumption DEF Init, Hand, Reading, NothingSkipped, NothingTwice, Events
<1>3. Nudged
  <2>1. OtherTypes
    <3>1. 0 \in 0 .. MaxDrafts /\ 0 \in 0 .. MaxMishaps
      BY WakesAssumption
    <3>2. Empty \in [ours : Nat, draft : BOOLEAN]
      BY DEF Empty
    <3>3. QED
      BY <3>1, <3>2 DEF Init, OtherTypes
  <2>2. sender = [s \in Senders |-> Rest]
    BY DEF Init
  <2>3. QED
    BY <2>1, <2>2, RestType DEF Nudged
<1>4. QED
  BY <1>1, <1>2, <1>3 DEF IInv, Delivered

(* The steps of the hooks that leave the nudges alone. *)
LEMMA HooksNudged ==
  ASSUME Nudged, \/ PromptReads \/ PromptMoves \/ PromptPrints \/ TurnEnds \/ StopReads
                 \/ StopCounts \/ StopKeeps \/ StopSays \/ StopEnds \/ GoesStale
  PROVE  Nudged'
<1>1. UNCHANGED <<box, queue, sender, lately, held, drafts, mishaps>>
  BY DEF PromptReads, PromptMoves, PromptPrints, TurnEnds, StopReads, StopCounts, StopKeeps,
         StopSays, StopEnds, GoesStale, nudgeVars
<1>2. QED
  BY <1>1, NoneGoes DEF Nudged, OtherTypes

LEMMA BoxNudged == ASSUME Nudged, Calm \/ HumanActs PROVE Nudged'
<1>1. UNCHANGED sender /\ (box'.draft => box.draft)
  BY DEF Calm, HumanActs, Submits, Empty, nudgeVars
<1>2. OtherTypes'
  <2>1. CASE Calm
    BY <2>1 DEF Calm, Nudged, OtherTypes
  <2>2. CASE HumanActs
    <3>1. box' = Empty /\ queue' \in {queue, queue + 1}
      BY <2>2 DEF HumanActs, Submits
    <3>2. box' \in [ours : Nat, draft : BOOLEAN] /\ queue' \in Nat
      BY <3>1 DEF Empty, Nudged, OtherTypes
    <3>3. QED
      BY <2>2, <3>2 DEF HumanActs, nudgeVars, Nudged, OtherTypes
  <2>3. QED
    BY <2>1, <2>2
<1>3. QED
  BY <1>1, <1>2, NoneGoes

LEMMA NextOK == ASSUME IInv, [Next]_vars PROVE IInv'
<1>1. CASE Manager
  <2>1. Delivered'
    BY <1>1, PromptReadsDelivered, PromptMovesDelivered, SpeaksDelivered, StopReadsDelivered,
       StopCountsDelivered, StopKeepsDelivered, EndsDelivered DEF IInv, Manager
  <2>2. Nudged'
    BY <1>1, TakePromptNudged, StopHookNudged, HooksNudged DEF IInv, Manager
  <2>3. QED
    BY <2>1, <2>2 DEF IInv
<1>2. CASE HookKilled
  BY <1>2, EndsDelivered, StopHookNudged DEF IInv
<1>3. CASE \E w \in Writers, k \in {"wake", "info", "left"} : Write(w, k)
  BY <1>3, WritesDelivered, BeginNudged DEF IInv
<1>4. CASE GoesStale
  BY <1>4, EndsDelivered, HooksNudged DEF IInv
<1>5. CASE Retry \/ Calm \/ Types \/ HumanActs
  <2>1. UNCHANGED <<boardVars, hookVars>>
    BY <1>5 DEF Retry, Calm, Types, HumanActs
  <2>2. QED
    BY <1>5, <2>1, DeliveredStays, BeginNudged, BoxNudged, TypesNudged DEF IInv
<1>6. CASE \E s \in Senders : Nudge(s)
  <2>1. UNCHANGED <<boardVars, hookVars>>
    BY <1>6 DEF Nudge, Check, Guard, Paste, Render, Press, Look, Record
  <2>2. QED
    BY <1>6, <2>1, DeliveredStays, NudgeNudged DEF IInv
<1>7. CASE UNCHANGED vars
  <2>1. UNCHANGED <<boardVars, hookVars>>
    BY <1>7 DEF vars, boardVars, hookVars
  <2>2. UNCHANGED <<box, queue, sender, lately, held, drafts, mishaps>>
    BY <1>7 DEF vars
  <2>3. QED
    BY <2>1, <2>2, DeliveredStays, NoneGoes DEF IInv, Nudged, OtherTypes
<1>8. QED
  BY <1>1, <1>2, <1>3, <1>4, <1>5, <1>6, <1>7 DEF Next

LEMMA Inductive == Spec => []IInv
<1>1. Init => IInv
  BY InitOK
<1>2. IInv /\ [Next]_vars => IInv'
  BY NextOK
<1>3. QED
  BY <1>1, <1>2, PTL DEF Spec

(* The types: no hour counts more continuations than the cap, whatever is killed between
   the read and the count, and no nudge presses Enter a third time. *)
THEOREM TypeCorrect == Spec => []TypeOK
<1>1. IInv => TypeOK
  BY DEF IInv, Delivered, DeliveryTypes, Nudged, OtherTypes, SenderTypes, TypeOK
<1>2. QED
  BY <1>1, Inductive, PTL

(* The cursor never passes news that was not given to the manager or in the hands of a
   hook (hook_prompt_heartbeat and hook_stop read, move and then speak). *)
THEOREM NewsIsNeverSkipped == Spec => []NothingSkipped
<1>1. IInv => NothingSkipped
  BY DEF IInv, Delivered
<1>2. QED
  BY <1>1, Inductive, PTL

(* And no event is given to it twice. *)
THEOREM NewsComesOnce == Spec => []NothingTwice
<1>1. IInv => NothingTwice
  BY DEF IInv, Delivered
<1>2. QED
  BY <1>1, Inductive, PTL

(* An Enter that takes a draft along follows a look at a box without it (deliver_typed). *)
THEOREM SeenDraftsStay == Spec => DraftsAreSeen
<1>1. IInv => \A s \in Senders : box.draft /\ At(s, "press") => sender[s].late
  BY DEF IInv, Nudged, Careful, At
<1>2. ASSUME IInv
      PROVE  [\A s \in Senders : box.draft /\ At(s, "press") /\ ~ At(s, "press")' /\ box' = Empty
                => sender[s].late]_vars
  BY <1>1, <1>2
<1>3. QED
  BY <1>2, Inductive, PTL DEF DraftsAreSeen
=============================================================================
