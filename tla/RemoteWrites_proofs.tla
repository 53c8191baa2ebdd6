------------------------ MODULE RemoteWrites_proofs ------------------------
(***************************************************************************)
(* A phone's writes, for any taps, other writes, sizes and memory of the   *)
(* ledger, unlocks and restarts.                                           *)
(*                                                                         *)
(* None of it is inductive alone.  A retry runs nothing twice because the  *)
(* ledger still knows the first try when it arrives: WritesInv says so,    *)
(* and what that rests on in the page, the connection and the books.       *)
(***************************************************************************)
EXTENDS RemoteWrites, SequenceTheorems, FunctionTheorems, FiniteSetTheorems,
        WellFoundedInduction, TLAPS

-----------------------------------------------------------------------------
(* A book as sets of records.                                              *)

Entries(s) == {s[n] : n \in DOMAIN s}
Ended(b) == Entries(b.fin) \cup Entries(b.spent)
Records(b) == Entries(b.run) \cup Ended(b)
Knows(b, i) == \E e \in Records(b) : e.id = i

\* A dict holds an id once, and an id with its answer is not also without it.
Once(s) == \A m, n \in DOMAIN s : s[m].id = s[n].id => m = n
Apart(s, t) == \A m \in DOMAIN s, n \in DOMAIN t : s[m].id # t[n].id
Whole(b) == /\ b \in Books
            /\ Once(b.fin) /\ Once(b.spent) /\ Apart(b.fin, b.spent)
            /\ Len(b.spent) <= Known - Kept

RunRecords == [id : RequestIds, age : 0..Ttl]
EndRecords == [id : RequestIds, ans : Endings, age : 0..Ttl]

LEMMA WholeTypes ==
  ASSUME NEW b, Whole(b)
  PROVE  /\ b = [run |-> b.run, fin |-> b.fin, spent |-> b.spent]
         /\ b.run \in Seq(RunRecords) /\ b.fin \in Seq(EndRecords) /\ b.spent \in Seq(EndRecords)
  BY DEF Whole, Books, RunRecords, EndRecords

LEMMA LeastOf ==
  ASSUME NEW S \in SUBSET Nat, S # {}
  PROVE  \E e \in S : \A d \in S : e <= d
<1>1. PICK x \in S : \A y \in S : ~ (<<y, x>> \in OpToRel(<, Nat))
  BY NatLessThanWellFounded, WFMin
<1>2. \A y \in S : ~ (y < x)
  BY <1>1 DEF OpToRel
<1>3. QED
  BY <1>2

\* t is s without its first k records.
Behind(s, t, k) == /\ Len(t) = Len(s) - k
                   /\ \A n \in 1..Len(t) : t[n] = s[n + k]

LEMMA YoungIs ==
  ASSUME NEW R, \A r \in R : r.age \in Nat, NEW s \in Seq(R)
  PROVE  /\ Young(s) \in Seq(R)
         /\ \E k \in 0..Len(s) : /\ Behind(s, Young(s), k)
                                 /\ \A n \in 1..k : ~ (s[n].age < Ttl)
<1> DEFINE young == {n \in DOMAIN s : s[n].age < Ttl}
<1>1. Len(s) \in Nat /\ DOMAIN s = 1..Len(s) /\ \A n \in 1..Len(s) : s[n] \in R
  BY LenProperties, ElementOfSeq
<1>2. CASE young = {}
  <2>1. Young(s) = <<>>
    BY <1>2 DEF Young
  <2>2. Behind(s, <<>>, Len(s)) /\ \A n \in 1..Len(s) : ~ (s[n].age < Ttl)
    BY <1>1, <1>2 DEF Behind
  <2>3. QED
    BY <2>1, <2>2, <1>1
<1>3. CASE young # {}
  <2>1. PICK first \in young : \A m \in young : first <= m
    <3>1. young \in SUBSET Nat
      BY <1>1
    <3>2. QED
      BY <3>1, <1>3, LeastOf
  <2> DEFINE p == CHOOSE n \in young : \A m \in young : n <= m
  <2>2. p \in young /\ \A m \in young : p <= m
    BY <2>1
  <2>3. Young(s) = SubSeq(s, p, Len(s))
    BY <1>3 DEF Young
  <2> HIDE DEF p
  <2>4. p \in 1..Len(s) /\ \A i \in p..Len(s) : s[i] \in R
    BY <1>1, <2>2
  <2>5. /\ SubSeq(s, p, Len(s)) \in Seq(R)
        /\ Len(SubSeq(s, p, Len(s))) = Len(s) - p + 1
        /\ \A i \in 1..Len(s) - p + 1 : SubSeq(s, p, Len(s))[i] = s[p + i - 1]
    BY <1>1, <2>4, SubSeqProperties
  <2>6. Behind(s, Young(s), p - 1)
    BY <1>1, <2>3, <2>4, <2>5 DEF Behind
  <2>7. \A n \in 1..p - 1 : ~ (s[n].age < Ttl)
    BY <1>1, <2>2, <2>4
  <2>8. p - 1 \in 0..Len(s)
    BY <2>4, <1>1
  <2>9. QED
    BY <2>3, <2>5, <2>6, <2>7, <2>8
<1>4. QED
  BY <1>2, <1>3

LEMMA BehindIs ==
  ASSUME NEW R, NEW s \in Seq(R), NEW t \in Seq(R), NEW k \in 0..Len(s), Behind(s, t, k)
  PROVE  /\ Entries(t) \subseteq Entries(s)
         /\ \A n \in k + 1..Len(s) : s[n] \in Entries(t)
         /\ Once(s) => Once(t)
<1>1. /\ Len(s) \in Nat /\ DOMAIN s = 1..Len(s)
      /\ Len(t) \in Nat /\ DOMAIN t = 1..Len(t)
  BY LenProperties
<1>2. \A n \in 1..Len(t) : n + k \in 1..Len(s) /\ t[n] = s[n + k]
  BY <1>1 DEF Behind
<1>3. Entries(t) \subseteq Entries(s)
  BY <1>1, <1>2 DEF Entries
<1>4. ASSUME NEW n \in k + 1..Len(s) PROVE s[n] \in Entries(t)
  <2>1. n - k \in 1..Len(t) /\ (n - k) + k = n
    BY <1>1 DEF Behind
  <2>2. QED
    BY <1>1, <1>2, <2>1 DEF Entries
<1>5. ASSUME Once(s) PROVE Once(t)
  <2>1. ASSUME NEW m \in 1..Len(t), NEW n \in 1..Len(t), t[m].id = t[n].id PROVE m = n
    <3>1. /\ m + k \in DOMAIN s /\ t[m] = s[m + k]
          /\ n + k \in DOMAIN s /\ t[n] = s[n + k]
      BY <1>1, <1>2, <2>1
    <3>2. s[m + k].id = s[n + k].id
      BY <2>1, <3>1
    <3>3. m + k = n + k
      BY <1>5, <3>1, <3>2 DEF Once
    <3>4. QED
      BY <3>3, <1>1
  <2>2. QED
    BY <2>1, <1>1 DEF Once
<1>6. QED
  BY <1>3, <1>4, <1>5

\* What Young keeps: nothing new, and every record young enough.
LEMMA YoungKeeps ==
  ASSUME NEW R, \A r \in R : r.age \in Nat, NEW s \in Seq(R)
  PROVE  /\ Young(s) \in Seq(R) /\ Len(Young(s)) <= Len(s)
         /\ Entries(Young(s)) \subseteq Entries(s)
         /\ \A e \in Entries(s) : e.age < Ttl => e \in Entries(Young(s))
         /\ Once(s) => Once(Young(s))
<1>1. Young(s) \in Seq(R)
  BY YoungIs
<1>2. PICK k \in 0..Len(s) : /\ Behind(s, Young(s), k)
                             /\ \A n \in 1..k : ~ (s[n].age < Ttl)
  BY YoungIs
<1>3. Len(s) \in Nat /\ DOMAIN s = 1..Len(s)
  BY LenProperties
<1>4. /\ Entries(Young(s)) \subseteq Entries(s)
      /\ \A n \in k + 1..Len(s) : s[n] \in Entries(Young(s))
      /\ Once(s) => Once(Young(s))
  BY <1>1, <1>2, BehindIs
<1>5. ASSUME NEW n \in 1..Len(s), s[n].age < Ttl PROVE s[n] \in Entries(Young(s))
  <2>1. n \notin 1..k
    BY <1>2, <1>5
  <2>2. n \in k + 1..Len(s)
    BY <2>1, <1>3
  <2>3. QED
    BY <2>2, <1>4
<1>6. \A e \in Entries(s) : e.age < Ttl => e \in Entries(Young(s))
  BY <1>3, <1>5 DEF Entries
<1>7. Len(Young(s)) <= Len(s)
  BY <1>2, <1>3 DEF Behind
<1>8. QED
  BY <1>1, <1>4, <1>6, <1>7

LEMMA WithoutKeeps ==
  ASSUME NEW R, NEW s \in Seq(R), NEW id
  PROVE  /\ Without(s, id) \in Seq(R) /\ Len(Without(s, id)) <= Len(s)
         /\ Entries(Without(s, id)) \subseteq Entries(s)
         /\ \A e \in Entries(s) : e.id # id => e \in Entries(Without(s, id))
         /\ Once(s) => /\ Once(Without(s, id))
                       /\ \A e \in Entries(Without(s, id)) : e.id # id
<1>1. Len(s) \in Nat /\ DOMAIN s = 1..Len(s) /\ \A n \in 1..Len(s) : s[n] \in R
  BY LenProperties, ElementOfSeq
<1>2. CASE ~ Has(s, id)
  BY <1>1, <1>2 DEF Without, Has, Entries
<1>3. CASE Has(s, id)
  <2> DEFINE p == Place(s, id)
             w == Without(s, id)
  <2>1. p \in 1..Len(s) /\ s[p].id = id
    BY <1>1, <1>3 DEF Has, Place
  <2>2. w = SubSeq(s, 1, p - 1) \o SubSeq(s, p + 1, Len(s))
    BY <1>3 DEF Without
  <2> HIDE DEF p, w
  <2>3. /\ SubSeq(s, 1, p - 1) \in Seq(R) /\ Len(SubSeq(s, 1, p - 1)) = p - 1
        /\ \A n \in 1..p - 1 : SubSeq(s, 1, p - 1)[n] = s[n]
    <3>1. 1 \in Int /\ p - 1 \in Int /\ \A n \in 1..p - 1 : s[n] \in R
      BY <1>1, <2>1
    <3>2. /\ SubSeq(s, 1, p - 1) \in Seq(R)
          /\ Len(SubSeq(s, 1, p - 1)) = IF 1 <= p - 1 THEN p - 1 - 1 + 1 ELSE 0
          /\ \A n \in 1..p - 1 - 1 + 1 : SubSeq(s, 1, p - 1)[n] = s[1 + n - 1]
      BY <3>1, SubSeqProperties
    <3>3. p - 1 - 1 + 1 = p - 1 /\ (~ (1 <= p - 1) => p - 1 = 0)
      BY <2>1, <1>1
    <3>4. \A n \in 1..p - 1 : 1 + n - 1 = n
      OBVIOUS
    <3>5. \A n \in 1..p - 1 : SubSeq(s, 1, p - 1)[n] = s[n]
      BY <3>2, <3>3, <3>4
    <3>6. QED
      BY <3>2, <3>3, <3>5
  <2>4. /\ SubSeq(s, p + 1, Len(s)) \in Seq(R) /\ Len(SubSeq(s, p + 1, Len(s))) = Len(s) - p
        /\ \A n \in 1..Len(s) - p : SubSeq(s, p + 1, Len(s))[n] = s[n + p]
    <3>1. p + 1 \in Int /\ Len(s) \in Int /\ \A n \in p + 1..Len(s) : s[n] \in R
      BY <1>1, <2>1
    <3>2. /\ SubSeq(s, p + 1, Len(s)) \in Seq(R)
          /\ Len(SubSeq(s, p + 1, Len(s))) = IF p + 1 <= Len(s) THEN Len(s) - (p + 1) + 1 ELSE 0
          /\ \A n \in 1..Len(s) - (p + 1) + 1 : SubSeq(s, p + 1, Len(s))[n] = s[p + 1 + n - 1]
      BY <3>1, SubSeqProperties
    <3>3. /\ Len(s) - (p + 1) + 1 = Len(s) - p
          /\ p = Len(s) \/ p + 1 <= Len(s)
      <4>1. p \in Int /\ Len(s) \in Int /\ p <= Len(s)
        BY <2>1, <1>1
      <4>2. Len(s) - (p + 1) + 1 = Len(s) - p
        BY <4>1
      <4>3. p = Len(s) \/ p + 1 <= Len(s)
        BY <4>1
      <4>4. QED
        BY <4>2, <4>3
    <3>4. ASSUME NEW n \in 1..Len(s) - p PROVE SubSeq(s, p + 1, Len(s))[n] = s[n + p]
      <4>1. p + 1 + n - 1 = n + p
        BY <2>1
      <4>2. n \in 1..Len(s) - (p + 1) + 1
        BY <3>3
      <4>3. QED
        BY <3>2, <4>1, <4>2
    <3>5. QED
      BY <3>2, <3>3, <3>4
  <2>5. /\ w \in Seq(R) /\ Len(w) = Len(s) - 1
        /\ \A n \in 1..Len(s) - 1 : w[n] = IF n < p THEN s[n] ELSE s[n + 1]
    <3>1. /\ w \in Seq(R) /\ Len(w) = p - 1 + (Len(s) - p)
          /\ \A n \in 1..p - 1 + (Len(s) - p) :
               w[n] = IF n <= p - 1 THEN SubSeq(s, 1, p - 1)[n]
                                    ELSE SubSeq(s, p + 1, Len(s))[n - (p - 1)]
      BY <2>2, <2>3, <2>4, ConcatProperties
    <3>2. ASSUME NEW n \in 1..Len(s) - 1 PROVE w[n] = IF n < p THEN s[n] ELSE s[n + 1]
      <4>1. CASE n < p
        <5>1. n \in 1..p - 1 /\ n <= p - 1 /\ n \in 1..p - 1 + (Len(s) - p)
          BY <4>1, <2>1, <1>1
        <5>2. QED
          BY <5>1, <3>1, <2>3, <4>1
      <4>2. CASE ~ (n < p)
        <5>1. n - (p - 1) \in 1..Len(s) - p /\ ~ (n <= p - 1) /\ n \in 1..p - 1 + (Len(s) - p)
          BY <4>2, <2>1, <1>1
        <5>2. n - (p - 1) + p = n + 1
          BY <2>1, <1>1
        <5>3. QED
          BY <5>1, <5>2, <3>1, <2>4, <4>2
      <4>3. QED
        BY <4>1, <4>2
    <3>3. p - 1 + (Len(s) - p) = Len(s) - 1
      BY <2>1, <1>1
    <3>4. QED
      BY <3>1, <3>2, <3>3
  <2>6. Len(w) \in Nat /\ DOMAIN w = 1..Len(s) - 1
    BY <2>5, LenProperties
  <2>7. Entries(w) \subseteq Entries(s)
    <3>1. \A n \in 1..Len(s) - 1 : n \in 1..Len(s) /\ n + 1 \in 1..Len(s)
      BY <1>1
    <3>2. QED
      BY <3>1, <1>1, <2>5, <2>6 DEF Entries
  <2>8. ASSUME NEW n \in 1..Len(s), n # p PROVE s[n] \in Entries(w)
    <3>1. CASE n < p
      <4>1. n \in 1..Len(s) - 1
        BY <3>1, <1>1, <2>1
      <4>2. QED
        BY <4>1, <3>1, <2>5, <2>6 DEF Entries
    <3>2. CASE ~ (n < p)
      <4>1. n - 1 \in 1..Len(s) - 1 /\ ~ (n - 1 < p) /\ n - 1 + 1 = n
        BY <3>2, <2>8, <1>1, <2>1
      <4>2. w[n - 1] = s[n]
        BY <4>1, <2>5
      <4>3. QED
        BY <4>1, <4>2, <2>6 DEF Entries
    <3>3. QED
      BY <3>1, <3>2
  <2>9. \A e \in Entries(s) : e.id # id => e \in Entries(w)
    BY <2>1, <2>8, <1>1 DEF Entries
  <2>10. ASSUME Once(s) PROVE Once(w) /\ \A e \in Entries(w) : e.id # id
    <3> DEFINE q(n) == IF n < p THEN n ELSE n + 1
    <3>1. \A n \in 1..Len(s) - 1 : q(n) \in 1..Len(s) /\ q(n) # p /\ w[n] = s[q(n)]
      BY <1>1, <2>1, <2>5
    <3>2. \A m, n \in 1..Len(s) - 1 : q(m) = q(n) => m = n
      BY <1>1, <2>1
    <3> HIDE DEF q
    <3>3. \A m, n \in 1..Len(s) - 1 : w[m].id = w[n].id => m = n
      BY <3>1, <3>2, <2>10, <1>1 DEF Once
    <3>4. \A n \in 1..Len(s) - 1 : w[n].id # id
      BY <3>1, <2>1, <2>10, <1>1 DEF Once
    <3>5. QED
      BY <3>3, <3>4, <2>6 DEF Once, Entries
  <2>11. w \in Seq(R) /\ Len(w) <= Len(s)
    BY <2>5, <1>1
  <2>12. QED
    BY <2>7, <2>9, <2>10, <2>11 DEF w
<1>4. QED
  BY <1>2, <1>3

\* Different ids are at most as many as there are ids.
LEMMA FewIds ==
  ASSUME NEW s \in Seq(EndRecords), NEW t \in Seq(EndRecords), Once(s), Once(t), Apart(s, t)
  PROVE  Len(s) + Len(t) <= Known
<1>1. /\ Len(s) \in Nat /\ DOMAIN s = 1..Len(s) /\ \A n \in 1..Len(s) : s[n] \in EndRecords
      /\ Len(t) \in Nat /\ DOMAIN t = 1..Len(t) /\ \A n \in 1..Len(t) : t[n] \in EndRecords
  BY LenProperties, ElementOfSeq
<1> DEFINE total == Len(s) + Len(t)
           at(n) == IF n <= Len(s) THEN s[n].id ELSE t[n - Len(s)].id
           f == [n \in 1..total |-> at(n)]
<1>2. \A n \in 1..total : at(n) \in RequestIds
  <2>1. \A n \in 1..Len(s) : s[n].id \in RequestIds
    BY <1>1 DEF EndRecords
  <2>2. \A n \in 1..Len(t) : t[n].id \in RequestIds
    BY <1>1 DEF EndRecords
  <2>3. ASSUME NEW n \in 1..total PROVE at(n) \in RequestIds
    <3>1. CASE n <= Len(s)
      <4>1. n \in 1..Len(s)
        BY <3>1, <1>1
      <4>2. QED
        BY <4>1, <3>1, <2>1
    <3>2. CASE ~ (n <= Len(s))
      <4>1. n - Len(s) \in 1..Len(t)
        BY <3>2, <1>1
      <4>2. QED
        BY <4>1, <3>2, <2>2
    <3>3. QED
      BY <3>1, <3>2
  <2>4. QED
    BY <2>3
<1>3. ASSUME NEW m \in 1..total, NEW n \in 1..total, at(m) = at(n) PROVE m = n
  <2>0. \A x \in 1..total : ~ (x <= Len(s)) => x - Len(s) \in 1..Len(t)
    BY <1>1
  <2>1. CASE m <= Len(s) /\ n <= Len(s)
    <3>1. m \in 1..Len(s) /\ n \in 1..Len(s) /\ s[m].id = s[n].id
      BY <1>1, <1>3, <2>1
    <3>2. QED
      BY <3>1, <1>1 DEF Once
  <2>2. CASE ~ (m <= Len(s)) /\ ~ (n <= Len(s))
    <3>1. t[m - Len(s)].id = t[n - Len(s)].id
      BY <1>3, <2>2
    <3>2. m - Len(s) = n - Len(s)
      BY <3>1, <2>0, <2>2, <1>1 DEF Once
    <3>3. QED
      BY <3>2, <1>1
  <2>3. CASE m <= Len(s) /\ ~ (n <= Len(s))
    <3>1. m \in 1..Len(s) /\ s[m].id = t[n - Len(s)].id
      BY <1>1, <1>3, <2>3
    <3>2. QED
      BY <3>1, <2>0, <2>3, <1>1 DEF Apart
  <2>4. CASE ~ (m <= Len(s)) /\ n <= Len(s)
    <3>1. n \in 1..Len(s) /\ s[n].id = t[m - Len(s)].id
      BY <1>1, <1>3, <2>4
    <3>2. QED
      BY <3>1, <2>0, <2>4, <1>1 DEF Apart
  <2>5. QED
    BY <2>1, <2>2, <2>3, <2>4
<1> HIDE DEF at
<1>4. f \in [1..total -> RequestIds] /\ \A m, n \in 1..total : f[m] = f[n] => m = n
  BY <1>2, <1>3
<1>5. f \in Injection(1..total, RequestIds)
  BY <1>4, Fun_IsInj
<1> HIDE DEF f
<1>6. Cardinality(1..total) <= Cardinality(RequestIds)
  BY <1>5, IdsAssumption, FS_Injection
<1>7. total \in Nat /\ Cardinality(1..total) = total
  <2>1. total \in Nat
    BY <1>1
  <2> HIDE DEF total
  <2>2. Cardinality(1..total) = IF 1 > total THEN 0 ELSE total - 1 + 1
    <3>1. 1 \in Int /\ total \in Int
      BY <2>1
    <3>2. QED
      BY <3>1, FS_Interval
  <2>3. QED
    BY <2>1, <2>2
<1>8. Cardinality(RequestIds) \in Nat /\ Cardinality(RequestIds) <= Known /\ Known \in Nat
  BY IdsAssumption, LedgerAssumption, FS_CardinalityType
<1>9. QED
  BY <1>6, <1>7, <1>8

-----------------------------------------------------------------------------
(* The operations of the ledger on a whole book.                           *)

LEMMA ForgottenIs ==
  ASSUME NEW b, Whole(b)
  PROVE  LET kept == Forgotten(b)
         IN /\ Whole(kept)
            /\ Entries(kept.run) \subseteq Entries(b.run)
            /\ Entries(kept.fin) \subseteq Entries(b.fin)
            /\ Ended(kept) \subseteq Ended(b)
            /\ \A e \in Records(b) : e.age < Ttl => e \in Records(kept)
            /\ \A e \in Ended(b) : e.age < Ttl => e \in Ended(kept)
<1> DEFINE kept == Forgotten(b)
<1>1. b.run \in Seq(RunRecords) /\ b.fin \in Seq(EndRecords) /\ b.spent \in Seq(EndRecords)
  BY WholeTypes
<1>2. kept.run = Young(b.run) /\ kept.fin = Young(b.fin) /\ kept.spent = Young(b.spent)
  BY DEF Forgotten
<1>3. /\ \A r \in RunRecords : r.age \in Nat
      /\ \A r \in EndRecords : r.age \in Nat
  BY LedgerAssumption DEF RunRecords, EndRecords
<1>4. /\ kept.run \in Seq(RunRecords) /\ Entries(kept.run) \subseteq Entries(b.run)
      /\ \A e \in Entries(b.run) : e.age < Ttl => e \in Entries(kept.run)
  BY <1>1, <1>2, <1>3, YoungKeeps
<1>5. /\ kept.fin \in Seq(EndRecords) /\ Entries(kept.fin) \subseteq Entries(b.fin)
      /\ Once(kept.fin)
      /\ \A e \in Entries(b.fin) : e.age < Ttl => e \in Entries(kept.fin)
  BY <1>1, <1>2, <1>3, YoungKeeps DEF Whole
<1>6. /\ kept.spent \in Seq(EndRecords) /\ Entries(kept.spent) \subseteq Entries(b.spent)
      /\ Once(kept.spent) /\ Len(kept.spent) <= Len(b.spent)
      /\ \A e \in Entries(b.spent) : e.age < Ttl => e \in Entries(kept.spent)
  BY <1>1, <1>2, <1>3, YoungKeeps DEF Whole
<1>7. Apart(kept.fin, kept.spent)
  <2>1. \A x \in Entries(b.fin), y \in Entries(b.spent) : x.id # y.id
    BY DEF Whole, Apart, Entries
  <2>2. \A x \in Entries(kept.fin), y \in Entries(kept.spent) : x.id # y.id
    BY <2>1, <1>5, <1>6
  <2> HIDE DEF kept
  <2>3. QED
    BY <2>2 DEF Apart, Entries
<1>8. Len(kept.spent) <= Known - Kept
  <2>1. Len(kept.spent) \in Nat /\ Len(b.spent) \in Nat
    BY <1>1, <1>6, LenProperties
  <2>2. QED
    BY <2>1, <1>6, LedgerAssumption DEF Whole
<1>9. kept \in Books
  BY <1>4, <1>5, <1>6 DEF Forgotten, Books, RunRecords, EndRecords
<1>10. Whole(kept)
  BY <1>5, <1>6, <1>7, <1>8, <1>9 DEF Whole
<1>11. QED
  BY <1>4, <1>5, <1>6, <1>10 DEF Ended, Records

LEMMA AppendKeeps ==
  ASSUME NEW R, NEW s \in Seq(R), NEW r \in R
  PROVE  /\ Append(s, r) \in Seq(R) /\ Len(Append(s, r)) = Len(s) + 1
         /\ Entries(Append(s, r)) = Entries(s) \cup {r}
         /\ Once(s) /\ (\A e \in Entries(s) : e.id # r.id) => Once(Append(s, r))
<1>1. Len(s) \in Nat /\ DOMAIN s = 1..Len(s)
  BY LenProperties
<1>2. /\ Append(s, r) \in Seq(R) /\ Len(Append(s, r)) = Len(s) + 1
      /\ DOMAIN Append(s, r) = 1..Len(s) + 1
      /\ Append(s, r)[Len(s) + 1] = r
      /\ \A n \in 1..Len(s) : Append(s, r)[n] = s[n]
  OBVIOUS
<1> DEFINE t == Append(s, r)
<1> HIDE DEF t
<1>3. \A n \in 1..Len(s) + 1 : n \in 1..Len(s) \/ n = Len(s) + 1
  BY <1>1
<1>4. \A n \in 1..Len(s) : n \in 1..Len(s) + 1
  BY <1>1
<1>5. Len(s) + 1 \in 1..Len(s) + 1
  BY <1>1
<1>6. Entries(t) = Entries(s) \cup {r}
  BY <1>1, <1>2, <1>3, <1>4, <1>5 DEF Entries, t
<1>7. ASSUME Once(s), \A e \in Entries(s) : e.id # r.id PROVE Once(t)
  <2>1. \A n \in 1..Len(s) : s[n].id # r.id
    BY <1>1, <1>7 DEF Entries
  <2>2. QED
    BY <2>1, <1>1, <1>2, <1>3, <1>7 DEF Once, t
<1>8. QED
  BY <1>2, <1>6, <1>7 DEF t

LEMMA BegunIs ==
  ASSUME NEW b, Whole(b), NEW i \in RequestIds
  PROVE  LET begun == LedgerBegun(b, i)
         IN /\ Whole(begun) /\ Ended(begun) = Ended(b)
            /\ Entries(begun.run) = Entries(b.run) \cup {[id |-> i, age |-> 0]}
<1> DEFINE begun == LedgerBegun(b, i)
<1>1. b.run \in Seq(RunRecords) /\ [id |-> i, age |-> 0] \in RunRecords
  <2>1. 0 \in 0..Ttl
    BY LedgerAssumption
  <2>2. QED
    BY <2>1, WholeTypes DEF RunRecords
<1>2. begun = [b EXCEPT !.run = Append(b.run, [id |-> i, age |-> 0])]
  BY DEF LedgerBegun
<1>3. /\ begun.run = Append(b.run, [id |-> i, age |-> 0])
      /\ begun.fin = b.fin /\ begun.spent = b.spent
  BY <1>2, WholeTypes
<1>4. begun.run \in Seq(RunRecords)
  BY <1>1, <1>3, AppendKeeps
<1>5. begun \in Books
  BY <1>2, <1>3, <1>4 DEF Whole, Books, RunRecords
<1>6. Entries(begun.run) = Entries(b.run) \cup {[id |-> i, age |-> 0]}
  BY <1>1, <1>3, AppendKeeps
<1>7. QED
  BY <1>3, <1>5, <1>6 DEF Whole, Ended

LEMMA AsEntries ==
  /\ \A s, t : Apart(s, t) <=> \A x \in Entries(s), y \in Entries(t) : x.id # y.id
  /\ \A s, id : Has(s, id) <=> \E x \in Entries(s) : x.id = id
  BY DEF Apart, Has, Entries

LEMMA TailIs ==
  ASSUME NEW R, NEW s \in Seq(R), Len(s) > 1, Once(s)
  PROVE  /\ Tail(s) \in Seq(R) /\ Len(Tail(s)) = Len(s) - 1 /\ Once(Tail(s))
         /\ Head(s) \in R /\ Entries(s) = Entries(Tail(s)) \cup {Head(s)}
         /\ s[Len(s)] \in Entries(Tail(s))
         /\ \A x \in Entries(Tail(s)) : x.id # Head(s).id
<1>1. /\ Len(s) \in Nat /\ DOMAIN s = 1..Len(s) /\ s # <<>>
      /\ 1 \in 1..Len(s) /\ 1 \in 0..Len(s) /\ Len(s) \in 1 + 1..Len(s)
  BY LenProperties
<1>2. /\ Head(s) \in R /\ Tail(s) \in Seq(R) /\ Len(Tail(s)) = Len(s) - 1
      /\ \A i \in 1..Len(Tail(s)) : Tail(s)[i] = s[i + 1]
  BY <1>1, HeadTailProperties
<1>3. Head(s) = s[1]
  BY <1>1
<1>4. Behind(s, Tail(s), 1)
  BY <1>2 DEF Behind
<1>5. /\ Entries(Tail(s)) \subseteq Entries(s)
      /\ \A n \in 1 + 1..Len(s) : s[n] \in Entries(Tail(s))
      /\ Once(Tail(s))
  BY <1>1, <1>2, <1>4, BehindIs
<1>6. Entries(s) = Entries(Tail(s)) \cup {Head(s)}
  <2>1. \A n \in 1..Len(s) : n = 1 \/ n \in 1 + 1..Len(s)
    BY <1>1
  <2>2. \A n \in 1..Len(s) : s[n] \in Entries(Tail(s)) \cup {Head(s)}
    BY <2>1, <1>3, <1>5
  <2>3. Head(s) \in Entries(s)
    BY <1>1, <1>3 DEF Entries
  <2>4. Entries(s) \subseteq Entries(Tail(s)) \cup {Head(s)}
    BY <2>2, <1>1 DEF Entries
  <2>5. QED
    BY <2>3, <2>4, <1>5
<1>7. \A x \in Entries(Tail(s)) : x.id # Head(s).id
  <2>1. DOMAIN Tail(s) = 1..Len(s) - 1
    BY <1>2, LenProperties
  <2>2. \A n \in 1..Len(s) - 1 : n + 1 \in 1..Len(s) /\ n + 1 # 1
    BY <1>1
  <2>3. \A n \in 1..Len(s) - 1 : Tail(s)[n].id # s[1].id
    BY <2>2, <1>1, <1>2 DEF Once
  <2>4. QED
    BY <2>1, <2>3, <1>3 DEF Entries
<1>8. QED
  BY <1>1, <1>2, <1>5, <1>6, <1>7

\* o is b with the ending e, and without what b had of its id.
Ends(b, o, e) == /\ Whole(o) /\ e \in Entries(o.fin)
                 /\ Entries(o.run) \subseteq Entries(b.run)
                 /\ Ended(o) \subseteq Ended(b) \cup {e}
                 /\ \A x \in Entries(b.run) : x.id # e.id => x \in Entries(o.run)
                 /\ \A x \in Ended(b) : x.id # e.id => x \in Ended(o)

\* An ending is known at once, and takes no other id out of the book: past
\* the last Kept there is always room for the ids, as there are no more than
\* Known of them.
LEMMA FinishedIs ==
  ASSUME NEW b, Whole(b), NEW i \in RequestIds, NEW ans \in Endings
  PROVE  Ends(b, LedgerFinished(b, i, ans), [id |-> i, ans |-> ans, age |-> 0])
<1> DEFINE over == LedgerFinished(b, i, ans)
           e == [id |-> i, ans |-> ans, age |-> 0]
           run == Without(b.run, i)
           fin == Append(Without(b.fin, i), e)
           spent == Without(b.spent, i)
<1>1. /\ b.run \in Seq(RunRecords) /\ b.fin \in Seq(EndRecords) /\ b.spent \in Seq(EndRecords)
      /\ Once(b.fin) /\ Once(b.spent) /\ Apart(b.fin, b.spent) /\ Len(b.spent) <= Known - Kept
  BY WholeTypes DEF Whole
<1>2. e \in EndRecords /\ e.id = i
  <2>1. 0 \in 0..Ttl
    BY LedgerAssumption
  <2>2. QED
    BY <2>1 DEF EndRecords
<1> HIDE DEF e
<1>3. /\ run \in Seq(RunRecords) /\ Entries(run) \subseteq Entries(b.run)
      /\ \A x \in Entries(b.run) : x.id # i => x \in Entries(run)
  BY <1>1, WithoutKeeps
<1>4. /\ Without(b.fin, i) \in Seq(EndRecords) /\ Entries(Without(b.fin, i)) \subseteq Entries(b.fin)
      /\ \A x \in Entries(b.fin) : x.id # i => x \in Entries(Without(b.fin, i))
      /\ Once(Without(b.fin, i)) /\ \A x \in Entries(Without(b.fin, i)) : x.id # i
  BY <1>1, WithoutKeeps
<1>5. /\ spent \in Seq(EndRecords) /\ Entries(spent) \subseteq Entries(b.spent)
      /\ Len(spent) <= Len(b.spent)
      /\ \A x \in Entries(b.spent) : x.id # i => x \in Entries(spent)
      /\ Once(spent) /\ \A x \in Entries(spent) : x.id # i
  BY <1>1, WithoutKeeps
<1>6. /\ fin \in Seq(EndRecords) /\ Entries(fin) = Entries(Without(b.fin, i)) \cup {e}
      /\ Once(fin) /\ Len(fin) = Len(Without(b.fin, i)) + 1 /\ fin[Len(fin)] = e
  <2>1. /\ fin \in Seq(EndRecords) /\ Entries(fin) = Entries(Without(b.fin, i)) \cup {e}
        /\ Once(fin) /\ Len(fin) = Len(Without(b.fin, i)) + 1
    BY <1>2, <1>4, AppendKeeps
  <2>2. fin[Len(Without(b.fin, i)) + 1] = e
    BY <1>2, <1>4
  <2>3. QED
    BY <2>1, <2>2
<1>7. Apart(fin, spent)
  <2>1. \A x \in Entries(b.fin), y \in Entries(b.spent) : x.id # y.id
    BY <1>1, AsEntries
  <2>2. \A x \in Entries(fin), y \in Entries(spent) : x.id # y.id
    BY <2>1, <1>2, <1>4, <1>5, <1>6
  <2>3. QED
    BY <2>2, AsEntries
<1>8. Len(fin) \in Nat /\ Len(spent) \in Nat /\ Len(b.spent) \in Nat
  BY <1>1, <1>5, <1>6, LenProperties
<1>9. over.run = run
  BY DEF LedgerFinished, e
<1>10. ASSUME NEW f \in Seq(EndRecords), NEW s \in Seq(EndRecords),
              over.fin = f, over.spent = s, over = [run |-> run, fin |-> f, spent |-> s],
              Once(f), Once(s), Apart(f, s), Len(s) <= Known - Kept,
              e \in Entries(f), Entries(f) \cup Entries(s) = Entries(fin) \cup Entries(spent)
       PROVE  Ends(b, over, e)
  <2> HIDE DEF over, run, fin, spent
  <2>1. over \in Books
    BY <1>3, <1>10 DEF Books, RunRecords, EndRecords
  <2>2. Whole(over)
    BY <2>1, <1>10 DEF Whole
  <2>3. Ended(over) = Entries(fin) \cup Entries(spent)
    BY <1>10 DEF Ended
  <2>4. /\ Ended(over) \subseteq Ended(b) \cup {e}
        /\ \A x \in Ended(b) : x.id # i => x \in Ended(over)
    BY <2>3, <1>4, <1>5, <1>6 DEF Ended
  <2>5. QED
    BY <2>2, <2>4, <1>2, <1>3, <1>9, <1>10 DEF Ends
<1>11. ASSUME ~ (Len(fin) > Kept) PROVE Ends(b, over, e)
  <2>1. ~ (Len(spent) > Known - Kept)
    BY <1>1, <1>5, <1>8, LedgerAssumption
  <2>2. over = [run |-> run, fin |-> fin, spent |-> spent]
    BY <1>11, <2>1 DEF LedgerFinished, e
  <2>3. over.fin = fin /\ over.spent = spent
    BY <2>2
  <2>4. Len(spent) <= Known - Kept /\ e \in Entries(fin)
    BY <2>1, <1>6, <1>8, LedgerAssumption
  <2> HIDE DEF over, run, fin, spent
  <2>5. QED
    BY <2>2, <2>3, <2>4, <1>5, <1>6, <1>7, <1>10
<1>12. ASSUME Len(fin) > Kept PROVE Ends(b, over, e)
  <2> DEFINE h == Head(fin)
             moved == Append(spent, h)
  <2>1. Len(fin) > 1
    BY <1>12, <1>8, LedgerAssumption
  <2>2. /\ Tail(fin) \in Seq(EndRecords) /\ Len(Tail(fin)) = Len(fin) - 1 /\ Once(Tail(fin))
        /\ h \in EndRecords /\ Entries(fin) = Entries(Tail(fin)) \cup {h}
        /\ e \in Entries(Tail(fin))
        /\ \A x \in Entries(Tail(fin)) : x.id # h.id
    <3> HIDE DEF fin
    <3>1. QED
      BY <2>1, <1>6, TailIs
  <2>3. /\ moved \in Seq(EndRecords) /\ Entries(moved) = Entries(spent) \cup {h} /\ Once(moved)
    <3>1. \A y \in Entries(spent) : y.id # h.id
      <4> HIDE DEF fin, spent, h
      <4>1. QED
        BY <2>2, <1>7, AsEntries
    <3>2. QED
      BY <3>1, <2>2, <1>5, AppendKeeps
  <2>4. Apart(Tail(fin), moved)
    <3> HIDE DEF fin, spent, h, moved
    <3>1. \A x \in Entries(Tail(fin)), y \in Entries(moved) : x.id # y.id
      BY <2>2, <2>3, <1>7, AsEntries
    <3>2. QED
      BY <3>1, AsEntries
  <2>5. Len(moved) \in Nat /\ Len(moved) <= Known - Kept
    <3>1. Len(Tail(fin)) + Len(moved) <= Known
      <4> HIDE DEF fin, spent, h, moved
      <4>1. QED
        BY <2>2, <2>3, <2>4, FewIds
    <3>2. Len(moved) \in Nat
      BY <2>3, LenProperties
    <3> HIDE DEF fin, spent, h, moved
    <3>3. QED
      BY <3>1, <3>2, <2>2, <1>8, <1>12, LedgerAssumption
  <2>6. ~ (Len(moved) > Known - Kept)
    <3> HIDE DEF moved
    <3>1. QED
      BY <2>5, LedgerAssumption
  <2>7. over = [run |-> run, fin |-> Tail(fin), spent |-> moved]
    BY <1>12, <2>6 DEF LedgerFinished, e
  <2>8. over.fin = Tail(fin) /\ over.spent = moved
    BY <2>7
  <2> HIDE DEF over, run, fin, spent, h, moved
  <2>9. Entries(Tail(fin)) \cup Entries(moved) = Entries(fin) \cup Entries(spent)
    BY <2>2, <2>3
  <2>10. QED
    BY <2>2, <2>3, <2>4, <2>5, <2>7, <2>8, <2>9, <1>10
<1>13. QED
  BY <1>11, <1>12 DEF e

\* What a retry is told.
LEMMA SeenIs ==
  ASSUME NEW b, Whole(b), NEW i \in RequestIds
  PROVE  LET seen == LedgerSeen(b, i)
         IN /\ seen \in Answers \cup {"new"}
            /\ seen = "new" => ~ Knows(b, i)
            /\ seen \in Endings => \E e \in Entries(b.fin) : e.id = i /\ e.ans = seen
<1>1. CASE Has(b.fin, i)
  <2>1. b.fin \in Seq(EndRecords)
    BY WholeTypes
  <2>2. /\ Place(b.fin, i) \in DOMAIN b.fin /\ b.fin[Place(b.fin, i)].id = i
    BY <1>1 DEF Has, Place
  <2>3. Of(b.fin, i) \in EndRecords /\ Of(b.fin, i) \in Entries(b.fin) /\ Of(b.fin, i).id = i
    <3>1. b.fin[Place(b.fin, i)] \in EndRecords
      BY <2>1, <2>2, LenProperties, ElementOfSeq
    <3>2. QED
      BY <3>1, <2>2 DEF Of, Entries
  <2>4. LedgerSeen(b, i) = Of(b.fin, i).ans /\ Of(b.fin, i).ans \in Endings
    BY <1>1, <2>3 DEF LedgerSeen, EndRecords
  <2>5. QED
    BY <2>3, <2>4 DEF Answers, Endings
<1>2. CASE ~ Has(b.fin, i)
  <2>1. LedgerSeen(b, i) \in {"in_progress", "already_answered", "new"}
    BY <1>2 DEF LedgerSeen
  <2>2. LedgerSeen(b, i) = "new" => ~ Has(b.run, i) /\ ~ Has(b.spent, i)
    BY <1>2 DEF LedgerSeen
  <2>3. ~ Has(b.run, i) /\ ~ Has(b.spent, i) => ~ Knows(b, i)
    BY <1>2, AsEntries DEF Knows, Records, Ended
  <2>4. QED
    BY <2>1, <2>2, <2>3 DEF Answers, Endings
<1>3. QED
  BY <1>1, <1>2

LEMMA AgedIs ==
  ASSUME NEW R \in {RunRecords, EndRecords}, NEW s \in Seq(R)
  PROVE  /\ Aged(s) \in Seq(R) /\ Len(Aged(s)) = Len(s) /\ DOMAIN Aged(s) = DOMAIN s
         /\ \A n \in DOMAIN s : /\ Aged(s)[n] = [s[n] EXCEPT !.age = Aged(s)[n].age]
                                /\ Aged(s)[n].age <= s[n].age + 1
<1>1. Len(s) \in Nat /\ DOMAIN s = 1..Len(s) /\ \A n \in 1..Len(s) : s[n] \in R
  BY LenProperties, ElementOfSeq
<1> DEFINE older(r) == [r EXCEPT !.age = IF @ < Ttl THEN @ + 1 ELSE @]
<1>2. ASSUME NEW r \in R PROVE /\ older(r) \in R /\ older(r).age <= r.age + 1
                               /\ older(r) = [r EXCEPT !.age = older(r).age]
  <2>1. r.age \in 0..Ttl /\ Ttl \in Nat
    <3>1. CASE R = RunRecords
      BY <3>1, LedgerAssumption DEF RunRecords
    <3>2. CASE R = EndRecords
      BY <3>2, LedgerAssumption DEF EndRecords
    <3>3. QED
      BY <3>1, <3>2
  <2>2. (IF r.age < Ttl THEN r.age + 1 ELSE r.age) \in 0..Ttl
    BY <2>1
  <2>3. older(r).age = IF r.age < Ttl THEN r.age + 1 ELSE r.age
    BY DEF RunRecords, EndRecords
  <2>4. older(r) \in R
    BY <2>2 DEF RunRecords, EndRecords
  <2>5. older(r).age <= r.age + 1
    BY <2>1, <2>3
  <2>6. older(r) = [r EXCEPT !.age = older(r).age]
    BY <2>3
  <2>7. QED
    BY <2>4, <2>5, <2>6
<1>3. Aged(s) = [n \in 1..Len(s) |-> older(s[n])]
  BY <1>1 DEF Aged
<1> HIDE DEF older
<1>4. Aged(s) \in Seq(R) /\ Len(Aged(s)) = Len(s) /\ DOMAIN Aged(s) = DOMAIN s
  <2>1. Aged(s) \in [1..Len(s) -> R]
    BY <1>1, <1>2, <1>3
  <2>2. QED
    BY <2>1, <1>1, <1>3
<1>5. QED
  BY <1>1, <1>2, <1>3, <1>4

LEMMA OlderIs ==
  ASSUME NEW b, Whole(b)
  PROVE  LET aged == Older(b)
         IN /\ Whole(aged)
            /\ \A e \in Records(aged) : \E x \in Records(b) : x.id = e.id /\ e.age <= x.age + 1
            /\ \A x \in Records(b) : \E e \in Records(aged) : x.id = e.id
            /\ \A e \in Ended(aged) : \E x \in Ended(b) : x.id = e.id /\ x.ans = e.ans
<1> DEFINE aged == Older(b)
<1>1. /\ b.run \in Seq(RunRecords) /\ b.fin \in Seq(EndRecords) /\ b.spent \in Seq(EndRecords)
      /\ aged.run = Aged(b.run) /\ aged.fin = Aged(b.fin) /\ aged.spent = Aged(b.spent)
  BY WholeTypes DEF Older
<1>2. ASSUME NEW R \in {RunRecords, EndRecords}, NEW s \in Seq(R)
      PROVE  /\ \A e \in Entries(Aged(s)) : \E x \in Entries(s) : x.id = e.id /\ e.age <= x.age + 1
             /\ \A x \in Entries(s) : \E e \in Entries(Aged(s)) : x.id = e.id
             /\ Once(s) => Once(Aged(s))
             /\ R = EndRecords => \A e \in Entries(Aged(s)) : \E x \in Entries(s) : x.id = e.id /\ x.ans = e.ans
  <2>1. /\ DOMAIN Aged(s) = DOMAIN s
        /\ \A n \in DOMAIN s : /\ Aged(s)[n] = [s[n] EXCEPT !.age = Aged(s)[n].age]
                               /\ Aged(s)[n].age <= s[n].age + 1
    BY AgedIs
  <2>2. \A n \in DOMAIN s : s[n] \in R
    BY LenProperties, ElementOfSeq
  <2>3. \A n \in DOMAIN s : Aged(s)[n].id = s[n].id
    BY <2>1, <2>2 DEF RunRecords, EndRecords
  <2>4. R = EndRecords => \A n \in DOMAIN s : Aged(s)[n].ans = s[n].ans
    BY <2>1, <2>2 DEF EndRecords
  <2>5. QED
    BY <2>1, <2>3, <2>4 DEF Entries, Once
<1>3. /\ aged.run \in Seq(RunRecords)
      /\ aged.fin \in Seq(EndRecords) /\ Once(aged.fin)
      /\ aged.spent \in Seq(EndRecords) /\ Once(aged.spent) /\ Len(aged.spent) <= Known - Kept
  BY <1>1, <1>2, AgedIs DEF Whole
<1>4. Apart(aged.fin, aged.spent)
  <2>1. \A x \in Entries(b.fin), y \in Entries(b.spent) : x.id # y.id
    BY AsEntries DEF Whole
  <2>2. \A e \in Entries(aged.fin) : \E x \in Entries(b.fin) : x.id = e.id
    BY <1>1, <1>2
  <2>3. \A e \in Entries(aged.spent) : \E x \in Entries(b.spent) : x.id = e.id
    BY <1>1, <1>2
  <2> HIDE DEF aged
  <2>4. \A x \in Entries(aged.fin), y \in Entries(aged.spent) : x.id # y.id
    BY <2>1, <2>2, <2>3
  <2>5. QED
    BY <2>4, AsEntries
<1>5. aged \in Books
  BY <1>3 DEF Older, Books, RunRecords, EndRecords
<1>6. Whole(aged)
  BY <1>3, <1>4, <1>5 DEF Whole
<1>7. \A e \in Records(aged) : \E x \in Records(b) : x.id = e.id /\ e.age <= x.age + 1
  BY <1>1, <1>2 DEF Records, Ended
<1>8. \A x \in Records(b) : \E e \in Records(aged) : x.id = e.id
  BY <1>1, <1>2 DEF Records, Ended
<1>9. \A e \in Ended(aged) : \E x \in Ended(b) : x.id = e.id /\ x.ans = e.ans
  BY <1>1, <1>2 DEF Ended
<1>10. QED
  BY <1>6, <1>7, <1>8, <1>9

LEMMA RecentIs ==
  ASSUME NEW b, Whole(b)
  PROVE  LedgerRecent(b) \subseteq [id : RequestIds, ans : Endings]
<1>1. b.fin \in Seq(EndRecords)
  BY WholeTypes
<1>2. \A n \in DOMAIN b.fin : b.fin[n] \in EndRecords
  BY <1>1, LenProperties, ElementOfSeq
<1>3. QED
  BY <1>2 DEF LedgerRecent, EndRecords

-----------------------------------------------------------------------------
(* What an operation does to the records of the taps followed here.        *)

\* Nothing is written, and nothing young forgotten.
Keeps(b, o) ==
  /\ \A x \in Records(o) : x.id \in Ids => x \in Records(b)
  /\ \A x \in Ended(o) : x.id \in Ids => x \in Ended(b)
  /\ \A x \in Records(b) : x.id \in Ids /\ x.age < Ttl => x \in Records(o)

\* Of i alone a record is written; an ending's answer is of S.
Writes(b, o, i, S) ==
  /\ \A x \in Records(o) : x.id \in Ids => x \in Records(b) \/ (x.id = i /\ x.age = 0)
  /\ \A x \in Ended(o) : x.id \in Ids => x \in Ended(b) \/ (x.id = i /\ x.ans \in S)
  /\ \A x \in Records(b) : x.id \in Ids \ {i} /\ x.age < Ttl => x \in Records(o)
  /\ Knows(o, i)

LEMMA ForgottenKeeps ==
  ASSUME NEW b, Whole(b)
  PROVE  Keeps(b, b) /\ Keeps(b, Forgotten(b))
<1>1. Entries(Forgotten(b).run) \subseteq Entries(b.run) /\ Ended(Forgotten(b)) \subseteq Ended(b)
  BY ForgottenIs
<1>2. \A e \in Records(b) : e.age < Ttl => e \in Records(Forgotten(b))
  BY ForgottenIs
<1>3. QED
  BY <1>1, <1>2 DEF Keeps, Records

LEMMA BegunWrites ==
  ASSUME NEW b, Whole(b), NEW i \in RequestIds
  PROVE  /\ Whole(LedgerBegun(Forgotten(b), i))
         /\ Writes(b, LedgerBegun(Forgotten(b), i), i, {})
<1> DEFINE kept == Forgotten(b)
           begun == LedgerBegun(kept, i)
           r == [id |-> i, age |-> 0]
<1>1. Whole(kept) /\ Keeps(b, kept)
  BY ForgottenIs, ForgottenKeeps
<1>2. r.id = i /\ r.age = 0
  OBVIOUS
<1> HIDE DEF kept, r
<1>3. Whole(begun) /\ Ended(begun) = Ended(kept) /\ Entries(begun.run) = Entries(kept.run) \cup {r}
  BY <1>1, BegunIs DEF r
<1> HIDE DEF begun
<1>4. Records(begun) = Records(kept) \cup {r}
  BY <1>3 DEF Records
<1>5. Writes(b, begun, i, {})
  BY <1>1, <1>2, <1>3, <1>4 DEF Writes, Keeps, Knows
<1>6. QED
  BY <1>3, <1>5 DEF begun, kept

LEMMA FinishedWrites ==
  ASSUME NEW b, Whole(b), NEW i \in RequestIds, NEW ans \in Endings
  PROVE  /\ Whole(LedgerFinished(Forgotten(b), i, ans))
         /\ Writes(b, LedgerFinished(Forgotten(b), i, ans), i, {ans})
<1> DEFINE kept == Forgotten(b)
           over == LedgerFinished(kept, i, ans)
           e == [id |-> i, ans |-> ans, age |-> 0]
<1>1. Whole(kept) /\ Keeps(b, kept)
  BY ForgottenIs, ForgottenKeeps
<1>2. e.id = i /\ e.age = 0 /\ e.ans = ans
  OBVIOUS
<1> HIDE DEF kept, e
<1>3. Ends(kept, over, e)
  BY <1>1, FinishedIs DEF e
<1> HIDE DEF over
<1>4. /\ e \in Records(over) /\ Records(over) \subseteq Records(kept) \cup {e}
      /\ \A x \in Records(kept) : x.id # i => x \in Records(over)
  BY <1>2, <1>3 DEF Ends, Records, Ended
<1>5. Writes(b, over, i, {ans})
  BY <1>1, <1>2, <1>3, <1>4 DEF Ends, Writes, Keeps, Knows
<1>6. QED
  BY <1>3, <1>5 DEF over, kept, Ends

\* Begun and ended in one go.
LEMMA AtOnceWrites ==
  ASSUME NEW b, Whole(b), NEW i \in RequestIds, NEW ans \in Endings
  PROVE  LET over == LedgerFinished(LedgerBegun(Forgotten(b), i), i, ans)
         IN Whole(over) /\ Writes(b, over, i, {ans})
<1> DEFINE begun == LedgerBegun(Forgotten(b), i)
           over == LedgerFinished(begun, i, ans)
           e == [id |-> i, ans |-> ans, age |-> 0]
<1>1. Whole(begun) /\ Writes(b, begun, i, {})
  BY BegunWrites
<1>2. e.id = i /\ e.age = 0 /\ e.ans = ans
  OBVIOUS
<1> HIDE DEF begun, e
<1>3. Ends(begun, over, e)
  BY <1>1, FinishedIs DEF e
<1> HIDE DEF over
<1>4. /\ e \in Records(over) /\ Records(over) \subseteq Records(begun) \cup {e}
      /\ \A x \in Records(begun) : x.id # i => x \in Records(over)
  BY <1>2, <1>3 DEF Ends, Records, Ended
<1>5. Writes(b, over, i, {ans})
  BY <1>1, <1>2, <1>3, <1>4 DEF Ends, Writes, Knows
<1>6. Whole(over)
  BY <1>3 DEF Ends
<1>7. QED
  BY <1>5, <1>6 DEF over, begun

LEMMA OthersKeep ==
  ASSUME NEW b, Whole(b), NEW o \in Others
  PROVE  LET over == LedgerFinished(LedgerBegun(Forgotten(b), o), o, "done")
         IN Whole(over) /\ Keeps(b, over)
<1> DEFINE over == LedgerFinished(LedgerBegun(Forgotten(b), o), o, "done")
<1>1. o \in RequestIds /\ o \notin Ids /\ "done" \in Endings
  BY IdsAssumption DEF Endings
<1>2. Whole(over) /\ Writes(b, over, o, {"done"})
  BY <1>1, AtOnceWrites
<1> HIDE DEF over
<1>3. Keeps(b, over)
  BY <1>1, <1>2 DEF Writes, Keeps
<1>4. QED
  BY <1>2, <1>3 DEF over

-----------------------------------------------------------------------------
(* The invariant.                                                          *)

Devices == 1..Unlocks
Active(c) == call[c].at \in {"queued", "handling"}

\* A tap the page may still send again.
MayRetry(i) == page[i] \in {"first", "lost"} /\ i \notin dropped /\ age[i] <= RetryWithin
\* A request of i may still arrive, and names device d.
Comes(i, d) == \/ \E k \in {1, 2} : call[<<i, k>>].at = "sent" /\ call[<<i, k>>].dev = d
               \/ MayRetry(i) /\ d = dev
\* ... or has arrived and is not over.
Out(i, d) == Comes(i, d) \/ \E k \in {1, 2} : Active(<<i, k>>) /\ call[<<i, k>>].dev = d
\* The handler of i was started in this life of the server, or is about to be.
Begun(i) == ran[i] = "ran" \/ \E k \in {1, 2} : Active(<<i, k>>)

BooksWhole == \A d \in Devices : Whole(book[d])

\* A locked page sends nothing again: dropRetries took every tap it had.
LockedOut == locked => Pending \subseteq dropped

Fresh == \A i \in Ids : page[i] = "fresh" =>
           /\ \A k \in {1, 2} : call[<<i, k>>].at = "none"
           /\ ran[i] # "ran"
           /\ \A d \in Devices : ~ Knows(book[d], i)

\* What is out of a tap names one device, and no other device's book has it.
OneDevice == \A i \in Ids, d, e \in Devices :
               Out(i, e) /\ (Out(i, d) \/ Knows(book[d], i)) => d = e

\* While a request of a tap may come, what the ledger has of it is younger
\* than the tap, so it is not forgotten yet ...
Recent == \A i \in Ids, d \in Devices : Comes(i, d) =>
            \A x \in Records(book[d]) : x.id = i => x.age <= age[i]
\* ... and the ledger has something of every tap that has begun.
Remembered == \A i \in Ids, d \in Devices : Comes(i, d) /\ Begun(i) => Knows(book[d], i)

\* One of a tap's two calls is with the pool at a time, and before any ending.
OneRun == \A i \in Ids, k \in {1, 2} :
            /\ call[<<i, k>>].at = "queued" => ran[i] # "ran"
            /\ call[<<i, k>>].at = "handling" => ran[i] = "ran"
            /\ Active(<<i, k>>) => /\ ~ Active(<<i, 3 - k>>)
                                   /\ \A d \in Devices : \A x \in Ended(book[d]) : x.id # i

\* The ledger says of a tap what became of it.
Truths == \A i \in Ids, d \in Devices : \A x \in Ended(book[d]) :
            x.id = i => /\ x.ans = "done" => ran[i] = "ran"
                        /\ x.ans \in {"busy", "read_only"} => ran[i] # "ran"

PageInv == TypeOK /\ BooksWhole /\ LockedOut
WritesInv == /\ PageInv
             /\ Fresh /\ OneDevice /\ Recent /\ Remembered /\ OneRun /\ Truths

LEMMA CallsFact ==
  /\ \A i \in Ids, k \in {1, 2} : <<i, k>> \in Calls /\ <<i, 3 - k>> \in Calls
  /\ \A i, k : <<i, k>>[1] = i /\ <<i, k>>[2] = k
  /\ \A c \in Calls : c[1] \in Ids /\ c[2] \in {1, 2} /\ c = <<c[1], c[2]>>
  /\ Ids \subseteq RequestIds
  BY IdsAssumption DEF Calls

\* The calls of another tap than c's.
LEMMA OtherTap ==
  ASSUME NEW c \in Calls, NEW i \in Ids, i # c[1], NEW k \in {1, 2}
  PROVE  <<i, k>> # c /\ <<i, 3 - k>> # c /\ <<i, k>> \in Calls /\ <<i, 3 - k>> \in Calls
<1>1. <<i, k>>[1] = i /\ <<i, 3 - k>>[1] = i
  OBVIOUS
<1>2. QED
  BY <1>1, CallsFact

LEMMA NoBookIs == Whole(NoBook) /\ Records(NoBook) = {} /\ Ended(NoBook) = {}
<1>1. <<>> \in Seq(RunRecords) /\ <<>> \in Seq(EndRecords) /\ Len(<<>>) = 0 /\ DOMAIN <<>> = {}
  BY EmptySeq
<1>2. NoBook \in Books
  BY <1>1 DEF NoBook, Books, RunRecords, EndRecords
<1>3. 0 <= Known - Kept
  BY LedgerAssumption
<1>4. Once(<<>>) /\ Apart(<<>>, <<>>) /\ Entries(<<>>) = {}
  BY <1>1 DEF Once, Apart, Entries
<1>5. NoBook.run = <<>> /\ NoBook.fin = <<>> /\ NoBook.spent = <<>>
  BY DEF NoBook
<1>6. Whole(NoBook)
  BY <1>1, <1>2, <1>3, <1>4, <1>5 DEF Whole
<1>7. QED
  BY <1>4, <1>5, <1>6 DEF Records, Ended

LEMMA InvInit == Init => WritesInv
<1> SUFFICES ASSUME Init PROVE WritesInv
  OBVIOUS
<1> USE DEF Init
<1>1. NoCall \in [at : Places, dev : 1..Unlocks, ans : Answers \cup {"none"}]
  BY BoundAssumption DEF NoCall, Places
<1>2. NoBook \in Books
  BY NoBookIs DEF Whole
<1>3. TypeOK
  <2>1. 1 \in 1..Unlocks
    BY BoundAssumption
  <2>2. page \in [Ids -> Pages] /\ ran \in [Ids -> {"no", "ran", "before"}] /\ restarts \in 0..MaxRestarts
    BY BoundAssumption DEF Pages
  <2>3. age \in [Ids -> 0..RetryWithin + Delay]
    BY ClockAssumption
  <2>4. QED
    BY <1>1, <1>2, <2>1, <2>2, <2>3 DEF TypeOK
<1>4. BooksWhole
  BY NoBookIs DEF BooksWhole, Devices
<1>5. \A c \in Calls : call[c].at = "none"
  BY DEF NoCall
<1>6. \A i \in Ids, k \in {1, 2} : call[<<i, k>>].at = "none" /\ ~ Active(<<i, k>>)
  BY <1>5, CallsFact DEF Active
<1>7. \A i \in Ids, d \in Devices : ~ Comes(i, d) /\ ~ Out(i, d)
  BY <1>6 DEF Comes, Out, MayRetry
<1>8. \A d \in Devices : Records(book[d]) = {} /\ Ended(book[d]) = {}
  BY NoBookIs DEF Devices
<1>9. Fresh /\ OneDevice /\ Recent /\ Remembered /\ OneRun /\ Truths
  BY <1>6, <1>7, <1>8 DEF Fresh, OneDevice, Recent, Remembered, OneRun, Truths, Knows
<1>10. LockedOut
  BY DEF LockedOut
<1>11. QED
  BY <1>3, <1>4, <1>9, <1>10 DEF WritesInv, PageInv

-----------------------------------------------------------------------------
(* Types, whole books and what a locked page holds back.                   *)

CallRecords == [at : Places, dev : 1..Unlocks, ans : Answers \cup {"none"}]

\* What PageInv says of the page's own variables.
PageTypes == /\ page \in [Ids -> Pages]
             /\ dropped \subseteq Pending
             /\ orphans \subseteq {i \in Ids : page[i] = "over"}
             /\ locked \in BOOLEAN /\ dev \in 1..Unlocks
             /\ sock \in BOOLEAN /\ shown \subseteq [id : RequestIds, ans : Endings]
             /\ LockedOut
\* ... and of the rest.
OtherTypes == /\ age \in [Ids -> 0..RetryWithin + Delay]
              /\ call \in [Calls -> CallRecords]
              /\ live \subseteq 1..Unlocks
              /\ book \in [Devices -> Books] /\ BooksWhole
              /\ ran \in [Ids -> {"no", "ran", "before"}]
              /\ restarts \in 0..MaxRestarts

LEMMA PageInvParts == PageInv <=> PageTypes /\ OtherTypes
  BY DEF PageInv, TypeOK, PageTypes, OtherTypes, CallRecords, Devices, Pending

LEMMA PageParts == (PageInv <=> PageTypes /\ OtherTypes)'
  BY DEF PageInv, TypeOK, PageTypes, OtherTypes, CallRecords, Devices, Pending, BooksWhole

LEMMA NoCallType == NoCall \in CallRecords
  BY BoundAssumption DEF NoCall, CallRecords, Places

LEMMA SentType == dev \in 1..Unlocks => /\ Sent \in CallRecords
                                        /\ Sent.at = "sent" /\ Sent.dev = dev
  BY DEF Sent, NoCall, CallRecords, Places

\* apiWrite ends, for the taps of S: what is left of them is a hope.
LEMMA OverTypes ==
  ASSUME PageTypes, NEW S \in SUBSET Pending, NEW H \in SUBSET S, Over(S, H)
  PROVE  /\ page' \in [Ids -> Pages]
         /\ Pending' = Pending \ S
         /\ orphans' \subseteq {i \in Ids : page'[i] = "over"}
  BY DEF PageTypes, Pending, Over, Pages

LEMMA GoLockedTypes ==
  ASSUME PageTypes, NEW heard \in SUBSET Pending, GoLocked(heard), dev' = dev
  PROVE  PageTypes'
<1>1. Lost \in SUBSET Pending
  BY DEF Lost, Pending
<1>2. /\ page' \in [Ids -> Pages]
      /\ Pending' = Pending \ (Lost \cup heard)
      /\ orphans' \subseteq {i \in Ids : page'[i] = "over"}
  BY <1>1, OverTypes DEF GoLocked
<1>3. dropped' = Pending' /\ locked' = TRUE /\ sock' = FALSE /\ shown' = {}
  BY <1>2 DEF GoLocked
<1>4. QED
  BY <1>2, <1>3 DEF PageTypes, LockedOut

LEMMA SettleTypes ==
  ASSUME PageTypes, NEW recent, SettleFromLedger(recent), locked' = locked, dev' = dev, sock' = sock,
         shown' \subseteq [id : RequestIds, ans : Endings]
  PROVE  PageTypes'
<1> DEFINE said == {e.id : e \in recent} \cap Ids
           settled == {i \in said : page[i] \in {"lost", "again"}}
<1>1. /\ page' = [i \in Ids |-> IF i \in settled THEN "over" ELSE page[i]]
      /\ orphans' = orphans \ (said \ settled)
      /\ dropped' = dropped \ settled
  BY DEF SettleFromLedger
<1>2. settled \subseteq Pending
  BY DEF Pending
<1> HIDE DEF said, settled
<1>3. page' \in [Ids -> Pages] /\ Pending' = Pending \ settled
  BY <1>1, <1>2 DEF PageTypes, Pending, Pages
<1>4. orphans' \subseteq {i \in Ids : page'[i] = "over"}
  BY <1>1 DEF PageTypes
<1>5. QED
  BY <1>1, <1>3, <1>4 DEF PageTypes, LockedOut

LEMMA ListeningPends ==
  ASSUME PageTypes, NEW c \in Calls, Listening(c)
  PROVE  c[1] \in Pending
  BY CallsFact DEF Listening, Pending

LEMMA PageVarsStep ==
  ASSUME PageTypes, BooksWhole, book \in [Devices -> Books], [Next]_vars
  PROVE  PageTypes'
<1>1. ASSUME NEW i \in Ids, Tap(i) PROVE PageTypes'
  BY <1>1 DEF Tap, PageTypes, Pending, Pages, LockedOut
<1>2. ASSUME NEW i \in Ids, FirstFails(i) PROVE PageTypes'
  BY <1>2 DEF FirstFails, PageTypes, Pending, Pages, LockedOut
<1>3. ASSUME NEW i \in Ids, GiveUp(i) PROVE PageTypes'
  <2>1. {i} \in SUBSET Pending
    BY <1>3 DEF GiveUp, Pending
  <2>2. /\ page' \in [Ids -> Pages] /\ Pending' = Pending \ {i}
        /\ orphans' \subseteq {j \in Ids : page'[j] = "over"}
    BY <1>3, <2>1, OverTypes DEF GiveUp
  <2>3. QED
    BY <1>3, <2>2 DEF GiveUp, PageTypes, LockedOut
<1>4. ASSUME NEW c \in Calls, Answered(c) PROVE PageTypes'
  <2>1. c[1] \in Pending
    BY <1>4, ListeningPends DEF Answered
  <2>2. CASE GoLocked({c[1]})
    BY <1>4, <2>1, <2>2, GoLockedTypes DEF Answered
  <2>3. CASE /\ Over({c[1]}, IF call[c].ans = "in_progress" THEN {c[1]} ELSE {})
             /\ dropped' = dropped \ {c[1]}
             /\ UNCHANGED <<locked, sock, shown>>
    <3>1. /\ page' \in [Ids -> Pages] /\ Pending' = Pending \ {c[1]}
          /\ orphans' \subseteq {j \in Ids : page'[j] = "over"}
      BY <2>1, <2>3, OverTypes
    <3>2. QED
      BY <1>4, <2>3, <3>1 DEF Answered, PageTypes, LockedOut
  <2>4. QED
    BY <1>4, <2>2, <2>3 DEF Answered
<1>5. CASE Connect
  <2> DEFINE again == {i \in Lost : ~NotAgain(i)}
  <2>1. /\ page' = [i \in Ids |-> CASE i \in again -> "again"
                                    [] i \in Lost \ again -> "over"
                                    [] OTHER -> page[i]]
        /\ orphans' = orphans \cup (Lost \ again) /\ dropped' = dropped \ Lost
        /\ sock' = TRUE /\ shown' = {} /\ ~ locked /\ locked' = locked /\ dev' = dev
    BY <1>5 DEF Connect
  <2>2. again \subseteq Lost /\ Lost \subseteq Ids
    BY DEF Lost
  <2> HIDE DEF again
  <2>3. page' \in [Ids -> Pages]
    BY <2>1 DEF PageTypes, Pages
  <2>4. dropped' \subseteq Pending'
    BY <2>1, <2>2 DEF PageTypes, Pending, Lost
  <2>5. orphans' \subseteq {i \in Ids : page'[i] = "over"}
    BY <2>1, <2>2 DEF PageTypes, Lost
  <2>6. QED
    BY <2>1, <2>3, <2>4, <2>5 DEF PageTypes, LockedOut
<1>6. CASE SocketDrops
  BY <1>6 DEF SocketDrops, PageTypes, Pending, LockedOut
<1>7. CASE ActionFrame
  <2>1. Whole(Forgotten(book[dev]))
    BY ForgottenIs DEF PageTypes, BooksWhole, Devices
  <2>2. LedgerRecent(Forgotten(book[dev])) \subseteq [id : RequestIds, ans : Endings]
    BY <2>1, RecentIs
  <2>3. QED
    BY <1>7, <2>2, SettleTypes DEF ActionFrame
<1>8. CASE RefreshActions
  <2>1. shown \subseteq [id : RequestIds, ans : Endings]
    BY DEF PageTypes
  <2>2. QED
    BY <1>8, <2>1, SettleTypes DEF RefreshActions
<1>9. CASE ToUnlock
  BY <1>9, GoLockedTypes DEF ToUnlock
<1>10. CASE Unlock
  <2>1. dev + 1 \in 1..Unlocks
    BY <1>10, BoundAssumption DEF Unlock, PageTypes
  <2>2. QED
    BY <1>10, <2>1 DEF Unlock, PageTypes, Pending, LockedOut
<1>11. CASE Reload
  <2>1. /\ page' \in [Ids -> Pages] /\ Pending' = {}
        /\ orphans' \subseteq {j \in Ids : page'[j] = "over"}
    <3>1. Over(Pending, Pending)
      BY <1>11 DEF Reload
    <3>2. QED
      BY <3>1, OverTypes
  <2>2. QED
    BY <1>11, <2>1 DEF Reload, PageTypes, LockedOut
<1>12. CASE Restart
  BY <1>12 DEF Restart, PageTypes, Pending, LockedOut
<1>13. CASE UNCHANGED <<page, dropped, orphans, locked, dev, sock, shown>>
  BY <1>13 DEF PageTypes, Pending, LockedOut
<1>14. CASE ServerStep \/ Tick \/ UNCHANGED vars
  BY <1>12, <1>13, <1>14 DEF ServerStep, Vanish, Arrive, Refuse, Start, End, OtherWrite, Revoke,
                             Tick, vars, pageVars
<1>15. QED
  BY <1>1, <1>2, <1>3, <1>4, <1>5, <1>6, <1>7, <1>8, <1>9, <1>10, <1>11, <1>14 DEF Next, PageStep

\* What a response does to the requests.
LEMMA SaysIs ==
  ASSUME NEW c \in Calls, NEW ans \in Answers, Says(c, ans), call \in [Calls -> CallRecords]
  PROVE  /\ call' \in [Calls -> CallRecords]
         /\ call'[c].at \in {"none", "ended"}
         /\ call'[c].at = "ended" => call'[c].ans = ans
         /\ \A d \in Calls : d # c => call'[d] = call[d]
<1>1. [call[c] EXCEPT !.at = "ended", !.ans = ans] \in CallRecords
  BY DEF CallRecords, Places
<1>2. /\ [call[c] EXCEPT !.at = "ended", !.ans = ans].at = "ended"
      /\ [call[c] EXCEPT !.at = "ended", !.ans = ans].ans = ans
  <2>1. call[c] \in CallRecords
    OBVIOUS
  <2>2. QED
    BY <2>1 DEF CallRecords
<1>3. NoCall.at = "none"
  BY DEF NoCall
<1>4. CASE Listening(c)
  <2>1. call' = [call EXCEPT ![c] = [call[c] EXCEPT !.at = "ended", !.ans = ans]]
    BY <1>4 DEF Says
  <2>2. QED
    BY <2>1, <1>1, <1>2
<1>5. CASE ~ Listening(c)
  <2>1. call' = [call EXCEPT ![c] = NoCall]
    BY <1>5 DEF Says
  <2>2. QED
    BY <2>1, <1>3, NoCallType
<1>6. QED
  BY <1>4, <1>5

LEMMA MovedIs ==
  ASSUME NEW c \in Calls, NEW place \in Places, Moved(c, place), call \in [Calls -> CallRecords]
  PROVE  /\ call' \in [Calls -> CallRecords]
         /\ call'[c].at = place /\ call'[c].dev = call[c].dev
         /\ \A d \in Calls : d # c => call'[d] = call[d]
<1>1. call[c] \in CallRecords
  OBVIOUS
<1>2. /\ [call[c] EXCEPT !.at = place] \in CallRecords
      /\ [call[c] EXCEPT !.at = place].at = place
      /\ [call[c] EXCEPT !.at = place].dev = call[c].dev
  BY <1>1 DEF CallRecords
<1>3. call' = [call EXCEPT ![c] = [call[c] EXCEPT !.at = place]]
  BY DEF Moved
<1>4. QED
  BY <1>2, <1>3

\* One device's book changes, to a whole one.
LEMMA BookTypes ==
  ASSUME book \in [Devices -> Books], BooksWhole, NEW d \in Devices, NEW b, Whole(b),
         book' = [book EXCEPT ![d] = b]
  PROVE  /\ book' \in [Devices -> Books] /\ BooksWhole'
         /\ book'[d] = b /\ \A e \in Devices : e # d => book'[e] = book[e]
<1>1. b \in Books
  BY DEF Whole
<1>2. /\ book' \in [Devices -> Books]
      /\ book'[d] = b /\ \A e \in Devices : e # d => book'[e] = book[e]
  BY <1>1
<1>3. \A e \in Devices : Whole(book'[e])
  BY <1>2 DEF BooksWhole
<1>4. QED
  BY <1>2, <1>3 DEF BooksWhole, Devices

\* The ledger is asked, and nothing else.
LEMMA Asked ==
  ASSUME book \in [Devices -> Books], BooksWhole, NEW d \in Devices,
         book' = [book EXCEPT ![d] = Forgotten(book[d])]
  PROVE  /\ book' \in [Devices -> Books] /\ BooksWhole'
         /\ \A e \in Devices : Keeps(book[e], book'[e])
<1>1. \A e \in Devices : Whole(book[e])
  BY DEF BooksWhole
<1>2. /\ Whole(Forgotten(book[d])) /\ Keeps(book[d], Forgotten(book[d]))
      /\ \A e \in Devices : Keeps(book[e], book[e])
  BY <1>1, ForgottenIs, ForgottenKeeps
<1>3. QED
  BY <1>2, BookTypes

\* An ending of a tap is written.
LEMMA FinishIs ==
  ASSUME OtherTypes, NEW c \in Calls, NEW ans \in Endings, Finish(c, ans)
  PROVE  /\ book' \in [Devices -> Books] /\ BooksWhole'
         /\ Writes(book[call[c].dev], book'[call[c].dev], c[1], {ans})
         /\ \A e \in Devices : e # call[c].dev => book'[e] = book[e]
         /\ Says(c, ans)
<1> DEFINE d == call[c].dev
<1>1. call[c] \in CallRecords
  BY DEF OtherTypes
<1>2. d \in Devices /\ c[1] \in RequestIds
  BY <1>1, CallsFact DEF CallRecords, Devices
<1>3. book \in [Devices -> Books] /\ BooksWhole /\ Whole(book[d])
  BY <1>2 DEF OtherTypes, BooksWhole
<1>4. book' = [book EXCEPT ![d] = LedgerFinished(Forgotten(book[d]), c[1], ans)] /\ Says(c, ans)
  BY DEF Finish
<1> HIDE DEF d
<1>5. /\ Whole(LedgerFinished(Forgotten(book[d]), c[1], ans))
      /\ Writes(book[d], LedgerFinished(Forgotten(book[d]), c[1], ans), c[1], {ans})
  BY <1>2, <1>3, FinishedWrites
<1>6. QED
  BY <1>2, <1>3, <1>4, <1>5, BookTypes DEF d

\* The ways a request can arrive.
Rejected(c) == /\ UNCHANGED book /\ Says(c, "unauthorized")
Replied(c, ans) == /\ book' = [book EXCEPT ![call[c].dev] = Forgotten(book[call[c].dev])]
                   /\ Says(c, ans)
                   /\ \/ ans = LedgerSeen(Forgotten(book[call[c].dev]), c[1])
                      \/ /\ ans = "read_only"
                         /\ LedgerSeen(Forgotten(book[call[c].dev]), c[1]) = "new"
Queued(c) == /\ book' = [book EXCEPT ![call[c].dev] =
                           LedgerBegun(Forgotten(book[call[c].dev]), c[1])]
             /\ Moved(c, "queued")
             /\ LedgerSeen(Forgotten(book[call[c].dev]), c[1]) = "new"
TurnedAway(c) == /\ book' = [book EXCEPT ![call[c].dev] =
                     LedgerFinished(LedgerBegun(Forgotten(book[call[c].dev]), c[1]), c[1], "busy")]
                 /\ Says(c, "busy")
                 /\ LedgerSeen(Forgotten(book[call[c].dev]), c[1]) = "new"

LEMMA ArriveKinds ==
  ASSUME OtherTypes, NEW c \in Calls, Arrive(c)
  PROVE  /\ call[c].at = "sent" /\ call[c].dev \in Devices /\ UNCHANGED <<pageVars, live, ran, restarts>>
         /\ Rejected(c) \/ (\E ans \in Answers : Replied(c, ans)) \/ Queued(c) \/ TurnedAway(c)
<1> DEFINE d == call[c].dev
           seen == LedgerSeen(Forgotten(book[d]), c[1])
<1>1. call[c] \in CallRecords
  BY DEF OtherTypes
<1>2. d \in Devices /\ c[1] \in RequestIds
  BY <1>1, CallsFact DEF CallRecords, Devices
<1>3. Whole(Forgotten(book[d]))
  BY <1>2, ForgottenIs DEF OtherTypes, BooksWhole
<1>4. seen \in Answers \cup {"new"}
  BY <1>2, <1>3, SeenIs
<1>5. "read_only" \in Answers
  BY DEF Answers, Endings
<1>6. ASSUME book' = [book EXCEPT ![d] = Forgotten(book[d])],
             \E allowed \in BOOLEAN : Answer(c, seen, allowed)
      PROVE  \E ans \in Answers : Replied(c, ans)
  <2>1. CASE seen # "new" /\ Says(c, seen)
    BY <1>4, <1>6, <2>1 DEF Replied
  <2>2. CASE seen = "new" /\ Says(c, "read_only")
    BY <1>5, <1>6, <2>2 DEF Replied
  <2>3. QED
    BY <1>6, <2>1, <2>2 DEF Answer
<1>7. QED
  BY <1>2, <1>6 DEF Arrive, Rejected, Queued, TurnedAway

LEMMA OtherVarsStep ==
  ASSUME PageInv, [Next]_vars
  PROVE  OtherTypes'
<1>0. PageTypes /\ OtherTypes
  BY PageInvParts
<1>1. /\ dev \in Devices /\ dev \in 1..Unlocks
      /\ call \in [Calls -> CallRecords] /\ book \in [Devices -> Books] /\ BooksWhole
      /\ \A c \in Calls : call[c] \in CallRecords /\ call[c].dev \in Devices
      /\ \A d \in Devices : Whole(book[d])
  BY <1>0 DEF PageTypes, OtherTypes, Devices, BooksWhole, CallRecords
<1>book. ASSUME UNCHANGED book PROVE book' \in [Devices -> Books] /\ BooksWhole'
  BY <1>1, <1>book DEF BooksWhole, Devices
<1>2. ASSUME call' \in [Calls -> CallRecords], book' \in [Devices -> Books], BooksWhole',
             ran' \in [Ids -> {"no", "ran", "before"}], UNCHANGED <<age, live, restarts>>
      PROVE  OtherTypes'
  BY <1>0, <1>2 DEF OtherTypes, Devices
<1>ran. ran \in [Ids -> {"no", "ran", "before"}]
  BY <1>0 DEF OtherTypes
<1>3. ASSUME NEW i \in Ids, Tap(i) PROVE OtherTypes'
  <2>1. call' \in [Calls -> CallRecords]
    BY <1>1, <1>3, SentType DEF Tap
  <2>2. QED
    BY <1>2, <1>book, <1>ran, <1>3, <2>1 DEF Tap
<1>4. ASSUME UNCHANGED <<call, book, ran, age, live, restarts>> PROVE OtherTypes'
  BY <1>1, <1>2, <1>book, <1>ran, <1>4
<1>5. ASSUME NEW c \in Calls, Answered(c) \/ Vanish(c) PROVE OtherTypes'
  <2>1. call' \in [Calls -> CallRecords]
    BY <1>1, <1>5, NoCallType DEF Answered, Vanish
  <2>2. QED
    BY <1>2, <1>book, <1>ran, <1>5, <2>1 DEF Answered, Vanish, pageVars
<1>6. CASE Connect
  <2>1. call' \in [Calls -> CallRecords]
    BY <1>1, <1>6, SentType DEF Connect
  <2>2. QED
    BY <1>2, <1>book, <1>ran, <1>6, <2>1 DEF Connect
<1>7. CASE ActionFrame \/ RefreshActions
  <2>1. book' = [book EXCEPT ![dev] = Forgotten(book[dev])]
    BY <1>7 DEF ActionFrame, RefreshActions
  <2>2. book' \in [Devices -> Books] /\ BooksWhole'
    BY <2>1, <1>1, Asked
  <2>3. QED
    BY <1>1, <1>2, <1>ran, <1>7, <2>2 DEF ActionFrame, RefreshActions
<1>8. CASE Unlock
  <2>1. dev + 1 \in 1..Unlocks
    BY <1>1, <1>8, BoundAssumption DEF Unlock
  <2>2. QED
    BY <1>0, <1>8, <1>book, <2>1 DEF Unlock, OtherTypes
<1>9. ASSUME NEW c \in Calls, Arrive(c) PROVE OtherTypes'
  <2>1. Rejected(c) \/ (\E ans \in Answers : Replied(c, ans)) \/ Queued(c) \/ TurnedAway(c)
    BY <1>0, <1>9, ArriveKinds
  <2>2. call[c].dev \in Devices /\ c[1] \in RequestIds /\ Whole(book[call[c].dev])
    BY <1>1, CallsFact
  <2>3. ASSUME Rejected(c)
        PROVE  call' \in [Calls -> CallRecords] /\ book' \in [Devices -> Books] /\ BooksWhole'
    <3>1. "unauthorized" \in Answers
      BY DEF Answers, Endings
    <3>2. QED
      BY <1>1, <1>book, <2>3, <3>1, SaysIs DEF Rejected
  <2>4. ASSUME NEW ans \in Answers, Replied(c, ans)
        PROVE  call' \in [Calls -> CallRecords] /\ book' \in [Devices -> Books] /\ BooksWhole'
    BY <1>1, <2>2, <2>4, SaysIs, Asked DEF Replied
  <2>5. ASSUME Queued(c)
        PROVE  call' \in [Calls -> CallRecords] /\ book' \in [Devices -> Books] /\ BooksWhole'
    <3>1. Whole(LedgerBegun(Forgotten(book[call[c].dev]), c[1]))
      BY <2>2, BegunWrites
    <3>2. book' \in [Devices -> Books] /\ BooksWhole'
      BY <1>1, <2>2, <2>5, <3>1, BookTypes DEF Queued
    <3>3. QED
      BY <1>1, <2>5, <3>2, MovedIs DEF Queued, Places
  <2>6. ASSUME TurnedAway(c)
        PROVE  call' \in [Calls -> CallRecords] /\ book' \in [Devices -> Books] /\ BooksWhole'
    <3>1. "busy" \in Endings /\ "busy" \in Answers
      BY DEF Endings, Answers
    <3>2. Whole(LedgerFinished(LedgerBegun(Forgotten(book[call[c].dev]), c[1]), c[1], "busy"))
      BY <2>2, <3>1, AtOnceWrites
    <3>3. book' \in [Devices -> Books] /\ BooksWhole'
      BY <1>1, <2>2, <2>6, <3>2, BookTypes DEF TurnedAway
    <3>4. QED
      BY <1>1, <2>6, <3>1, <3>3, SaysIs DEF TurnedAway
  <2>7. call' \in [Calls -> CallRecords] /\ book' \in [Devices -> Books] /\ BooksWhole'
    BY <2>1, <2>3, <2>4, <2>5, <2>6
  <2>8. QED
    BY <1>2, <1>9, <1>ran, <2>7 DEF Arrive, pageVars
<1>10. ASSUME NEW c \in Calls, Refuse(c) \/ End(c) PROVE OtherTypes'
  <2>1. \E ans \in Endings : Finish(c, ans)
    BY <1>10 DEF Refuse, End, Endings
  <2>2. PICK ans \in Endings : Finish(c, ans)
    BY <2>1
  <2>3. book' \in [Devices -> Books] /\ BooksWhole' /\ Says(c, ans)
    BY <1>0, <2>2, FinishIs
  <2>4. call' \in [Calls -> CallRecords]
    BY <1>1, <2>3, SaysIs DEF Answers
  <2>5. QED
    BY <1>2, <1>10, <1>ran, <2>3, <2>4 DEF Refuse, End, pageVars
<1>11. ASSUME NEW c \in Calls, Start(c) PROVE OtherTypes'
  <2>1. call' \in [Calls -> CallRecords]
    BY <1>1, <1>11, MovedIs DEF Start, Places
  <2>2. ran' \in [Ids -> {"no", "ran", "before"}]
    BY <1>11, <1>ran DEF Start
  <2>3. QED
    BY <1>2, <1>book, <1>11, <2>1, <2>2 DEF Start, pageVars
<1>12. ASSUME NEW o \in Others, OtherWrite(o) PROVE OtherTypes'
  <2>1. Whole(LedgerFinished(LedgerBegun(Forgotten(book[dev]), o), o, "done"))
    BY <1>1, OthersKeep
  <2>2. book' \in [Devices -> Books] /\ BooksWhole'
    BY <1>1, <1>12, <2>1, BookTypes DEF OtherWrite
  <2>3. QED
    BY <1>1, <1>2, <1>12, <1>ran, <2>2 DEF OtherWrite, pageVars
<1>13. CASE Revoke
  BY <1>0, <1>13, <1>book DEF Revoke, OtherTypes, pageVars
<1>14. CASE Restart
  <2>1. call' \in [Calls -> CallRecords]
    BY <1>1, <1>14, NoCallType DEF Restart
  <2>2. book' \in [Devices -> Books] /\ BooksWhole'
    <3>1. NoBook \in Books /\ book' = [d \in Devices |-> NoBook]
      BY <1>14, NoBookIs DEF Restart, Whole, Devices
    <3>2. QED
      BY <3>1, NoBookIs DEF BooksWhole, Devices
  <2>3. ran' \in [Ids -> {"no", "ran", "before"}]
    BY <1>14 DEF Restart
  <2>4. restarts' \in 0..MaxRestarts
    BY <1>0, <1>14, BoundAssumption DEF Restart, OtherTypes
  <2>5. QED
    BY <1>0, <1>14, <2>1, <2>2, <2>3, <2>4 DEF Restart, OtherTypes, Devices
<1>15. CASE Tick
  <2>1. book' \in [Devices -> Books] /\ BooksWhole'
    <3>1. \A d \in Devices : Whole(Older(book[d]))
      BY <1>1, OlderIs
    <3>2. book' = [d \in Devices |-> Older(book[d])]
      BY <1>15 DEF Tick, Devices
    <3>3. QED
      BY <3>1, <3>2 DEF BooksWhole, Whole, Devices
  <2>2. age' \in [Ids -> 0..RetryWithin + Delay]
    <3>1. age \in [Ids -> 0..RetryWithin + Delay] /\ RetryWithin + Delay \in Nat
      BY <1>0, ClockAssumption DEF OtherTypes
    <3>2. QED
      BY <1>15, <3>1 DEF Tick
  <2>3. QED
    BY <1>0, <1>15, <2>1, <2>2 DEF Tick, OtherTypes, Devices
<1>16. CASE PageStep
  BY <1>3, <1>4, <1>5, <1>6, <1>7, <1>8, <1>16
     DEF PageStep, FirstFails, GiveUp, SocketDrops, ToUnlock, Reload
<1>17. CASE ServerStep
  BY <1>5, <1>9, <1>10, <1>11, <1>12, <1>13, <1>14, <1>17 DEF ServerStep
<1>18. CASE UNCHANGED vars
  BY <1>4, <1>18 DEF vars, pageVars
<1>19. QED
  BY <1>15, <1>16, <1>17, <1>18 DEF Next

LEMMA PageInvStep ==
  ASSUME PageInv, [Next]_vars
  PROVE  PageInv'
<1>1. PageTypes /\ OtherTypes
  BY PageInvParts
<1>2. PageTypes'
  BY <1>1, PageVarsStep DEF OtherTypes
<1>3. QED
  BY <1>2, OtherVarsStep, PageParts

-----------------------------------------------------------------------------
(* The rest of the invariant, by what a step does.                         *)

LEMMA Facts ==
  ASSUME WritesInv
  PROVE  /\ dev \in Devices
         /\ call \in [Calls -> CallRecords]
         /\ \A c \in Calls : call[c] \in CallRecords /\ call[c].dev \in Devices
         /\ book \in [Devices -> Books] /\ \A d \in Devices : Whole(book[d])
         /\ \A i \in Ids : age[i] \in Nat /\ age[i] < Ttl
         /\ \A d \in Devices : \A x \in Records(book[d]) : x.id \in RequestIds /\ x.age \in 0..Ttl
<1>1. PageTypes /\ OtherTypes
  BY PageInvParts DEF WritesInv
<1>2. /\ dev \in Devices
      /\ call \in [Calls -> CallRecords]
      /\ \A c \in Calls : call[c] \in CallRecords /\ call[c].dev \in Devices
      /\ book \in [Devices -> Books] /\ \A d \in Devices : Whole(book[d])
  BY <1>1 DEF PageTypes, OtherTypes, Devices, BooksWhole, CallRecords
<1>3. \A i \in Ids : age[i] \in Nat /\ age[i] < Ttl
  <2>1. \A i \in Ids : age[i] \in 0..RetryWithin + Delay
    BY <1>1 DEF OtherTypes
  <2>2. QED
    BY <2>1, ClockAssumption, LedgerAssumption
<1>4. ASSUME NEW d \in Devices, NEW x \in Records(book[d])
      PROVE  x.id \in RequestIds /\ x.age \in 0..Ttl
  <2>1. /\ book[d].run \in Seq(RunRecords)
        /\ book[d].fin \in Seq(EndRecords) /\ book[d].spent \in Seq(EndRecords)
    BY <1>2, WholeTypes
  <2>2. /\ \A n \in DOMAIN book[d].run : book[d].run[n] \in RunRecords
        /\ \A n \in DOMAIN book[d].fin : book[d].fin[n] \in EndRecords
        /\ \A n \in DOMAIN book[d].spent : book[d].spent[n] \in EndRecords
    BY <2>1, LenProperties, ElementOfSeq
  <2>3. x \in RunRecords \/ x \in EndRecords
    BY <1>4, <2>2 DEF Records, Ended, Entries
  <2>4. QED
    BY <2>3 DEF RunRecords, EndRecords
<1>5. QED
  BY <1>2, <1>3, <1>4

\* What the ledger has of a tap, it still has when the next request comes.
LEMMA YoungEnough ==
  ASSUME WritesInv, NEW i \in Ids, NEW d \in Devices, Comes(i, d), NEW o,
         \A x \in Records(book[d]) : x.id \in Ids /\ x.age < Ttl => x \in Records(o)
  PROVE  \A x \in Records(book[d]) : x.id = i => x \in Records(o)
<1>1. ASSUME NEW x \in Records(book[d]), x.id = i PROVE x \in Records(o)
  <2>1. x.age <= age[i] /\ x.age \in Nat /\ age[i] \in Nat /\ age[i] < Ttl
    BY <1>1, Facts, LedgerAssumption DEF WritesInv, Recent
  <2>2. x.age < Ttl
    BY <2>1, LedgerAssumption
  <2>3. QED
    BY <1>1, <2>2
<1>2. QED
  BY <1>1

\* Steps that write nothing of a tap, run nothing, and let nothing come that
\* could not come before.
LEMMA QuietStep ==
  ASSUME WritesInv, PageInv', UNCHANGED <<age, ran>>,
         \A d \in Devices : Keeps(book[d], book'[d]),
         \A c \in Calls : \/ call'[c].at = "none"
                          \/ call'[c].at = "ended" /\ call[c].at # "none"
                          \/ call'[c] = call[c]
                          \/ call'[c].at = "sent" /\ Comes(c[1], call'[c].dev),
         \A i \in Ids : page'[i] \in {"first", "lost"} /\ i \notin dropped' /\ age[i] <= RetryWithin =>
                          MayRetry(i) /\ dev' = dev,
         \A i \in Ids : page'[i] = "fresh" => page[i] = "fresh"
  PROVE  WritesInv'
<1>inv. Fresh /\ OneDevice /\ Recent /\ Remembered /\ OneRun /\ Truths
  BY DEF WritesInv
<1>1. ASSUME NEW i \in Ids, NEW d \in Devices, Comes(i, d)' PROVE Comes(i, d)
  <2>1. CASE \E k \in {1, 2} : call'[<<i, k>>].at = "sent" /\ call'[<<i, k>>].dev = d
    <3>1. PICK k \in {1, 2} : call'[<<i, k>>].at = "sent" /\ call'[<<i, k>>].dev = d
      BY <2>1
    <3>2. <<i, k>> \in Calls /\ <<i, k>>[1] = i
      BY CallsFact
    <3>3. call'[<<i, k>>] = call[<<i, k>>] \/ Comes(i, call'[<<i, k>>].dev)
      BY <3>1, <3>2
    <3>4. QED
      BY <3>1, <3>3 DEF Comes
  <2>2. CASE MayRetry(i)' /\ d = dev'
    BY <2>2 DEF MayRetry, Comes
  <2>3. QED
    BY <1>1, <2>1, <2>2 DEF Comes
<1>2. ASSUME NEW c \in Calls, Active(c)' PROVE Active(c) /\ call'[c] = call[c]
  BY <1>2 DEF Active
<1>3. \A i \in Ids, d \in Devices : Out(i, d)' => Out(i, d)
  BY <1>1, <1>2, CallsFact DEF Out
<1>4. \A i \in Ids : Begun(i)' => Begun(i)
  BY <1>2, CallsFact DEF Begun
<1>5. /\ \A d \in Devices : \A x \in Records(book'[d]) : x.id \in Ids => x \in Records(book[d])
      /\ \A d \in Devices : \A x \in Ended(book'[d]) : x.id \in Ids => x \in Ended(book[d])
  BY DEF Keeps
<1>6. \A i \in Ids, d \in Devices : Knows(book'[d], i) => Knows(book[d], i)
  BY <1>5 DEF Knows
<1>7. \A i \in Ids, d \in Devices : Comes(i, d) /\ Knows(book[d], i) => Knows(book'[d], i)
  BY YoungEnough DEF Keeps, Knows
<1>8. Fresh'
  <2>1. ASSUME NEW i \in Ids, page'[i] = "fresh", NEW k \in {1, 2}
        PROVE  call'[<<i, k>>].at = "none"
    <3>1. /\ \A m \in {1, 2} : call[<<i, m>>].at = "none"
          /\ page[i] = "fresh" /\ <<i, k>> \in Calls /\ <<i, k>>[1] = i
      BY <2>1, <1>inv, CallsFact DEF Fresh
    <3>2. ~ Comes(i, call'[<<i, k>>].dev)
      BY <3>1 DEF Comes, MayRetry
    <3>3. QED
      BY <3>1, <3>2
  <2>2. QED
    BY <2>1, <1>inv, <1>6 DEF Fresh, Devices
<1>9. OneDevice'
  BY <1>inv, <1>3, <1>6 DEF OneDevice, Devices
<1>10. Recent'
  BY <1>inv, <1>1, <1>5 DEF Recent, Devices
<1>11. Remembered'
  BY <1>inv, <1>1, <1>4, <1>7 DEF Remembered, Devices
<1>12. OneRun'
  <2>1. ASSUME NEW i \in Ids, NEW k \in {1, 2}, Active(<<i, k>>)'
        PROVE  /\ call'[<<i, k>>].at = "queued" => ran'[i] # "ran"
               /\ call'[<<i, k>>].at = "handling" => ran'[i] = "ran"
               /\ ~ Active(<<i, 3 - k>>)'
               /\ \A d \in Devices : \A x \in Ended(book'[d]) : x.id # i
    <3>1. Active(<<i, k>>) /\ call'[<<i, k>>] = call[<<i, k>>]
      BY <2>1, <1>2, CallsFact
    <3>2. ~ Active(<<i, 3 - k>>) /\ \A d \in Devices : \A x \in Ended(book[d]) : x.id # i
      BY <3>1, <1>inv DEF OneRun
    <3>3. ~ Active(<<i, 3 - k>>)'
      BY <3>2, <1>2, CallsFact
    <3>4. QED
      BY <3>1, <3>2, <3>3, <1>inv, <1>5 DEF OneRun
  <2>2. QED
    BY <2>1 DEF OneRun, Devices, Active
<1>13. Truths'
  BY <1>inv, <1>5 DEF Truths, Devices
<1>14. QED
  BY <1>8, <1>9, <1>10, <1>11, <1>12, <1>13 DEF WritesInv

\* A request that finds nothing in the ledger is the first of its tap: no
\* device's book has the tap, and the pool has none of its calls.
LEMMA FirstOfItsTap ==
  ASSUME WritesInv, NEW c \in Calls, call[c].at = "sent",
         LedgerSeen(Forgotten(book[call[c].dev]), c[1]) = "new"
  PROVE  /\ ~ Begun(c[1])
         /\ \A d \in Devices : ~ Knows(book[d], c[1])
<1> DEFINE i == c[1]
           d == call[c].dev
<1>1. i \in Ids /\ i \in RequestIds /\ c[2] \in {1, 2} /\ c = <<i, c[2]>> /\ d \in Devices
  BY CallsFact, Facts
<1>2. Comes(i, d) /\ Out(i, d)
  BY <1>1 DEF Comes, Out
<1>3. Whole(book[d]) /\ Whole(Forgotten(book[d]))
  BY <1>1, Facts, ForgottenIs
<1>4. ~ Knows(Forgotten(book[d]), i)
  BY <1>1, <1>3, SeenIs
<1> HIDE DEF i, d
<1>5. ~ Knows(book[d], i)
  <2>1. \A x \in Records(book[d]) : x.id \in Ids /\ x.age < Ttl => x \in Records(Forgotten(book[d]))
    BY <1>3, ForgottenKeeps DEF Keeps
  <2>2. QED
    BY <2>1, <1>1, <1>2, <1>4, YoungEnough DEF Knows
<1>6. ~ Begun(i)
  BY <1>1, <1>2, <1>5 DEF WritesInv, Remembered
<1>7. \A e \in Devices : ~ Knows(book[e], i)
  BY <1>1, <1>2, <1>5 DEF WritesInv, OneDevice
<1>8. QED
  BY <1>6, <1>7 DEF i

\* A step that takes the request c from its way, or from the pool, and writes
\* of its tap: what is not about the pool or the answers.
LEMMA WrittenStep ==
  ASSUME WritesInv, PageInv', UNCHANGED <<pageVars, ran>>,
         NEW c \in Calls, NEW S, Out(c[1], call[c].dev), call[c].at # "none",
         Writes(book[call[c].dev], book'[call[c].dev], c[1], S),
         \A e \in Devices : e # call[c].dev => book'[e] = book[e],
         \A b \in Calls : b # c => call'[b] = call[b],
         \/ call'[c].at \in {"none", "ended"}
         \/ call'[c].at = "queued" /\ call'[c].dev = call[c].dev
  PROVE  /\ Fresh' /\ OneDevice' /\ Recent'
         /\ \A i \in Ids, e \in Devices : Comes(i, e)' => Comes(i, e)
         /\ \A i \in Ids, e \in Devices :
              Comes(i, e)' /\ (i = c[1] \/ Knows(book[e], i)) => Knows(book'[e], i)
         /\ \A e \in Devices : \A x \in Ended(book'[e]) :
              x.id \in Ids => x \in Ended(book[e]) \/ (x.id = c[1] /\ x.ans \in S)
<1> DEFINE d == call[c].dev
<1>inv. Fresh /\ OneDevice /\ Recent
  BY DEF WritesInv
<1>0. c[1] \in Ids /\ c[2] \in {1, 2} /\ c = <<c[1], c[2]>> /\ d \in Devices
  BY CallsFact, Facts
<1>1. ASSUME NEW i \in Ids, NEW e \in Devices, Comes(i, e)' PROVE Comes(i, e)
  <2>1. CASE \E k \in {1, 2} : call'[<<i, k>>].at = "sent" /\ call'[<<i, k>>].dev = e
    <3>1. PICK k \in {1, 2} : call'[<<i, k>>].at = "sent" /\ call'[<<i, k>>].dev = e
      BY <2>1
    <3>2. call'[<<i, k>>] = call[<<i, k>>]
      BY <3>1, CallsFact
    <3>3. QED
      BY <3>1, <3>2 DEF Comes
  <2>2. CASE MayRetry(i)' /\ e = dev'
    BY <2>2 DEF MayRetry, Comes, pageVars
  <2>3. QED
    BY <1>1, <2>1, <2>2 DEF Comes
<1>2. ASSUME NEW i \in Ids, NEW e \in Devices, Out(i, e)' PROVE Out(i, e)
  <2>1. CASE \E k \in {1, 2} : Active(<<i, k>>)' /\ call'[<<i, k>>].dev = e
    <3>1. PICK k \in {1, 2} : Active(<<i, k>>)' /\ call'[<<i, k>>].dev = e
      BY <2>1
    <3>2. CASE <<i, k>> = c
      <4>1. i = c[1] /\ call'[c].dev = d
        BY <3>1, <3>2, <1>0, CallsFact DEF Active
      <4>2. QED
        BY <3>1, <3>2, <4>1
    <3>3. CASE <<i, k>> # c
      <4>1. call'[<<i, k>>] = call[<<i, k>>]
        BY <3>3, CallsFact
      <4>2. QED
        BY <3>1, <4>1 DEF Active, Out
    <3>4. QED
      BY <3>2, <3>3
  <2>2. CASE Comes(i, e)'
    BY <1>1, <2>2 DEF Out
  <2>3. QED
    BY <1>2, <2>1, <2>2 DEF Out
<1>3. \A e \in Devices : \A x \in Records(book'[e]) :
        x.id \in Ids => x \in Records(book[e]) \/ (e = d /\ x.id = c[1] /\ x.age = 0)
  BY DEF Writes
<1>4. \A e \in Devices : \A x \in Ended(book'[e]) :
        x.id \in Ids => x \in Ended(book[e]) \/ (x.id = c[1] /\ x.ans \in S)
  BY DEF Writes
<1>5. \A i \in Ids, e \in Devices : Knows(book'[e], i) => Knows(book[e], i) \/ (e = d /\ i = c[1])
  BY <1>3 DEF Knows
<1> HIDE DEF d
<1>6. ASSUME NEW i \in Ids, NEW e \in Devices, Comes(i, e)', i = c[1] \/ Knows(book[e], i)
      PROVE  Knows(book'[e], i)
  <2>1. Comes(i, e)
    BY <1>1, <1>6
  <2>2. CASE i = c[1]
    <3>1. e = d
      BY <1>0, <1>inv, <2>1, <2>2 DEF OneDevice, Out, d
    <3>2. QED
      BY <2>2, <3>1 DEF Writes, d
  <2>3. CASE i # c[1] /\ Knows(book[e], i)
    <3>1. CASE e = d
      <4>1. PICK x \in Records(book[e]) : x.id = i
        BY <2>3 DEF Knows
      <4>2. x.age < Ttl
        <5>1. x.age <= age[i] /\ age[i] \in Nat /\ age[i] < Ttl /\ x.age \in 0..Ttl
          BY <2>1, <4>1, <1>inv, Facts DEF Recent
        <5>2. QED
          BY <5>1, LedgerAssumption
      <4>3. x \in Records(book'[e])
        BY <2>3, <3>1, <4>1, <4>2 DEF Writes, d
      <4>4. QED
        BY <4>1, <4>3 DEF Knows
    <3>2. CASE e # d
      BY <2>3, <3>2 DEF d
    <3>3. QED
      BY <3>1, <3>2
  <2>4. QED
    BY <1>6, <2>2, <2>3
<1>7. Fresh'
  <2>1. ASSUME NEW i \in Ids, page'[i] = "fresh"
        PROVE  /\ \A k \in {1, 2} : call'[<<i, k>>].at = "none"
               /\ ran'[i] # "ran"
               /\ \A e \in Devices : ~ Knows(book'[e], i)
    <3>1. page[i] = "fresh"
      BY <2>1 DEF pageVars
    <3>2. ASSUME i = c[1] PROVE FALSE
      <4>1. call[<<i, c[2]>>].at = "none"
        BY <3>1, <1>0, <1>inv DEF Fresh
      <4>2. <<i, c[2]>> = c
        BY <3>2, <1>0
      <4>3. QED
        BY <4>1, <4>2
    <3>3. i # c[1] /\ \A k \in {1, 2} : <<i, k>> # c /\ <<i, k>> \in Calls
      BY <3>2, OtherTap
    <3>4. QED
      BY <3>1, <3>3, <1>inv, <1>5 DEF Fresh
  <2>2. QED
    BY <2>1 DEF Fresh, Devices
<1>8. OneDevice'
  <2>1. ASSUME NEW i \in Ids, NEW e \in Devices, NEW f \in Devices,
               Out(i, f)', Out(i, e)' \/ Knows(book'[e], i)
        PROVE  e = f
    <3>1. Out(i, f) /\ (Out(i, e) \/ Knows(book[e], i) \/ (e = d /\ i = c[1]))
      BY <2>1, <1>2, <1>5
    <3>2. QED
      BY <3>1, <1>inv DEF OneDevice, d
  <2>2. QED
    BY <2>1 DEF OneDevice, Devices
<1>9. Recent'
  <2>1. ASSUME NEW i \in Ids, NEW e \in Devices, Comes(i, e)', NEW x \in Records(book'[e]), x.id = i
        PROVE  x.age <= age'[i]
    <3>1. age'[i] = age[i] /\ age[i] \in Nat
      BY Facts DEF pageVars
    <3>2. QED
      BY <2>1, <3>1, <1>1, <1>3, <1>inv DEF Recent
  <2>2. QED
    BY <2>1 DEF Recent, Devices
<1>10. QED
  BY <1>1, <1>4, <1>6, <1>7, <1>8, <1>9

\* A write is begun.
LEMMA QueuedStep ==
  ASSUME WritesInv, PageInv', UNCHANGED <<pageVars, ran>>,
         NEW c \in Calls, call[c].at = "sent", Queued(c)
  PROVE  WritesInv'
<1> DEFINE d == call[c].dev
<1>inv. OneRun /\ Remembered /\ Truths
  BY DEF WritesInv
<1>0. c[1] \in Ids /\ c[1] \in RequestIds /\ c[2] \in {1, 2} /\ c = <<c[1], c[2]>> /\ d \in Devices
  BY CallsFact, Facts
<1>1. ~ Begun(c[1]) /\ \A e \in Devices : ~ Knows(book[e], c[1])
  BY FirstOfItsTap DEF Queued
<1>2. /\ call'[c].at = "queued" /\ call'[c].dev = d
      /\ \A b \in Calls : b # c => call'[b] = call[b]
  BY MovedIs, Facts DEF Queued, Places
<1>3. /\ Whole(LedgerBegun(Forgotten(book[d]), c[1]))
      /\ Writes(book[d], LedgerBegun(Forgotten(book[d]), c[1]), c[1], {})
  BY <1>0, Facts, BegunWrites
<1>4. /\ Writes(book[d], book'[d], c[1], {})
      /\ \A e \in Devices : e # d => book'[e] = book[e]
  BY <1>0, <1>3, Facts DEF Queued
<1>5. Out(c[1], d)
  BY <1>0 DEF Out, Comes
<1> HIDE DEF d
<1>6. /\ Fresh' /\ OneDevice' /\ Recent'
      /\ \A i \in Ids, e \in Devices : Comes(i, e)' => Comes(i, e)
      /\ \A i \in Ids, e \in Devices :
           Comes(i, e)' /\ (i = c[1] \/ Knows(book[e], i)) => Knows(book'[e], i)
      /\ \A e \in Devices : \A x \in Ended(book'[e]) :
           x.id \in Ids => x \in Ended(book[e])
  <2> DEFINE S == {}
  <2>0. \A x : x \notin S
    OBVIOUS
  <2> HIDE DEF S
  <2>1. /\ Out(c[1], call[c].dev) /\ call[c].at # "none"
        /\ Writes(book[call[c].dev], book'[call[c].dev], c[1], S)
        /\ \A e \in Devices : e # call[c].dev => book'[e] = book[e]
        /\ \A b \in Calls : b # c => call'[b] = call[b]
        /\ call'[c].at = "queued" /\ call'[c].dev = call[c].dev
    BY <1>2, <1>4, <1>5 DEF d, S
  <2>2. QED
    BY <2>0, <2>1, WrittenStep
<1>7. Remembered'
  <2>1. ASSUME NEW i \in Ids, NEW e \in Devices, Comes(i, e)', Begun(i)' PROVE Knows(book'[e], i)
    <3>1. CASE i = c[1]
      BY <2>1, <3>1, <1>6
    <3>2. CASE i # c[1]
      <4>1. \A k \in {1, 2} : call'[<<i, k>>] = call[<<i, k>>]
        BY <3>2, <1>2, OtherTap
      <4>2. Begun(i)
        BY <2>1, <4>1 DEF Begun, Active
      <4>3. QED
        BY <2>1, <4>2, <1>6, <1>inv DEF Remembered
    <3>3. QED
      BY <3>1, <3>2
  <2>2. QED
    BY <2>1 DEF Remembered, Devices
<1>8. OneRun'
  <2>1. ASSUME NEW i \in Ids, NEW k \in {1, 2}, Active(<<i, k>>)'
        PROVE  /\ call'[<<i, k>>].at = "queued" => ran'[i] # "ran"
               /\ call'[<<i, k>>].at = "handling" => ran'[i] = "ran"
               /\ ~ Active(<<i, 3 - k>>)'
               /\ \A e \in Devices : \A x \in Ended(book'[e]) : x.id # i
    <3>1. CASE i = c[1]
      <4>1. /\ ran[i] # "ran" /\ \A m \in {1, 2} : ~ Active(<<i, m>>)
            /\ \A e \in Devices : \A x \in Ended(book[e]) : x.id # i
        BY <3>1, <1>1 DEF Begun, Knows, Records
      <4>2. <<i, k>> = c
        BY <2>1, <4>1, <1>2, CallsFact DEF Active
      <4>3. <<i, 3 - k>> # c /\ <<i, 3 - k>> \in Calls /\ 3 - k \in {1, 2}
        <5>1. 3 - k # k /\ 3 - k \in {1, 2}
          OBVIOUS
        <5>2. QED
          BY <4>2, <5>1, CallsFact
      <4>4. ~ Active(<<i, 3 - k>>)'
        BY <4>1, <4>3, <1>2 DEF Active
      <4>5. QED
        BY <4>1, <4>2, <4>4, <1>2, <1>6
    <3>2. CASE i # c[1]
      <4>1. /\ \A m \in {1, 2} : call'[<<i, m>>] = call[<<i, m>>]
            /\ call'[<<i, 3 - k>>] = call[<<i, 3 - k>>]
        BY <3>2, <1>2, OtherTap
      <4>2. Active(<<i, k>>)
        BY <2>1, <4>1 DEF Active
      <4>3. QED
        BY <4>1, <4>2, <1>6, <1>inv DEF OneRun, Active
    <3>3. QED
      BY <3>1, <3>2
  <2>2. QED
    BY <2>1 DEF OneRun, Devices, Active
<1>9. Truths'
  BY <1>inv, <1>6 DEF Truths, Devices
<1>10. QED
  BY <1>6, <1>7, <1>8, <1>9 DEF WritesInv

\* A write ends, in the pool or turned away from it: its tap has no other
\* call in the pool, and the ledger is told what is so.
LEMMA ConcludedStep ==
  ASSUME WritesInv, PageInv', UNCHANGED <<pageVars, ran>>,
         NEW c \in Calls, NEW ans \in Endings, Says(c, ans),
         call[c].at = "sent" \/ Active(c),
         Writes(book[call[c].dev], book'[call[c].dev], c[1], {ans}),
         \A e \in Devices : e # call[c].dev => book'[e] = book[e],
         \A k \in {1, 2} : <<c[1], k>> # c => ~ Active(<<c[1], k>>),
         ans = "done" => ran[c[1]] = "ran",
         ans \in {"busy", "read_only"} => ran[c[1]] # "ran"
  PROVE  WritesInv'
<1>inv. OneRun /\ Remembered /\ Truths
  BY DEF WritesInv
<1>0. c[1] \in Ids /\ c[2] \in {1, 2} /\ c = <<c[1], c[2]>> /\ call[c].dev \in Devices
  BY CallsFact, Facts
<1>1. /\ call'[c].at \in {"none", "ended"}
      /\ \A b \in Calls : b # c => call'[b] = call[b]
  BY SaysIs, Facts DEF Answers
<1>2. Out(c[1], call[c].dev) /\ call[c].at # "none"
  BY <1>0 DEF Out, Comes, Active
<1>3. /\ Fresh' /\ OneDevice' /\ Recent'
      /\ \A i \in Ids, e \in Devices : Comes(i, e)' => Comes(i, e)
      /\ \A i \in Ids, e \in Devices :
           Comes(i, e)' /\ (i = c[1] \/ Knows(book[e], i)) => Knows(book'[e], i)
      /\ \A e \in Devices : \A x \in Ended(book'[e]) :
           x.id \in Ids => x \in Ended(book[e]) \/ (x.id = c[1] /\ x.ans \in {ans})
  <2> DEFINE S == {ans}
  <2>1. Writes(book[call[c].dev], book'[call[c].dev], c[1], S)
    OBVIOUS
  <2>2. S = {ans}
    OBVIOUS
  <2> HIDE DEF S
  <2>3. QED
    BY <1>1, <1>2, <2>1, <2>2, WrittenStep
<1>4. \A b \in Calls : Active(b)' => b # c /\ Active(b) /\ call'[b] = call[b]
  BY <1>1 DEF Active
<1>5. \A i \in Ids : Begun(i)' => Begun(i)
  BY <1>4, CallsFact DEF Begun
<1>6. Remembered'
  BY <1>inv, <1>3, <1>5 DEF Remembered, Devices
<1>7. OneRun'
  <2>1. ASSUME NEW i \in Ids, NEW k \in {1, 2}, Active(<<i, k>>)'
        PROVE  /\ call'[<<i, k>>].at = "queued" => ran'[i] # "ran"
               /\ call'[<<i, k>>].at = "handling" => ran'[i] = "ran"
               /\ ~ Active(<<i, 3 - k>>)'
               /\ \A e \in Devices : \A x \in Ended(book'[e]) : x.id # i
    <3>1. <<i, k>> # c /\ Active(<<i, k>>) /\ call'[<<i, k>>] = call[<<i, k>>]
      BY <2>1, <1>4, CallsFact
    <3>2. i # c[1]
      BY <3>1
    <3>3. ~ Active(<<i, 3 - k>>)'
      BY <3>1, <1>inv, <1>4, CallsFact DEF OneRun
    <3>4. QED
      BY <3>1, <3>2, <3>3, <1>inv, <1>3 DEF OneRun
  <2>2. QED
    BY <2>1 DEF OneRun, Devices, Active
<1>8. Truths'
  BY <1>inv, <1>3 DEF Truths, Devices
<1>9. QED
  BY <1>3, <1>6, <1>7, <1>8 DEF WritesInv

\* The two calls of a tap.
LEMMA OtherCall ==
  ASSUME NEW c \in Calls
  PROVE  \A k \in {1, 2} : <<c[1], k>> # c => k = 3 - c[2]
<1>1. c[2] \in {1, 2} /\ c = <<c[1], c[2]>>
  BY CallsFact
<1>2. ASSUME NEW k \in {1, 2}, k # 3 - c[2] PROVE k = c[2]
  BY <1>1, <1>2
<1>3. QED
  BY <1>1, <1>2

LEMMA TurnedAwayStep ==
  ASSUME WritesInv, PageInv', UNCHANGED <<pageVars, ran>>,
         NEW c \in Calls, call[c].at = "sent", TurnedAway(c)
  PROVE  WritesInv'
<1>0. c[1] \in Ids /\ c[1] \in RequestIds /\ call[c].dev \in Devices /\ "busy" \in Endings
  BY CallsFact, Facts DEF Endings
<1>1. ~ Begun(c[1])
  BY FirstOfItsTap DEF TurnedAway
<1> DEFINE over == LedgerFinished(LedgerBegun(Forgotten(book[call[c].dev]), c[1]), c[1], "busy")
<1>2. Whole(over) /\ Writes(book[call[c].dev], over, c[1], {"busy"})
  BY <1>0, Facts, AtOnceWrites
<1>3. book' = [book EXCEPT ![call[c].dev] = over] /\ Says(c, "busy")
  BY DEF TurnedAway
<1> HIDE DEF over
<1>4. /\ Writes(book[call[c].dev], book'[call[c].dev], c[1], {"busy"})
      /\ \A e \in Devices : e # call[c].dev => book'[e] = book[e]
  BY <1>0, <1>2, <1>3, Facts
<1>5. ran[c[1]] # "ran" /\ \A k \in {1, 2} : ~ Active(<<c[1], k>>)
  BY <1>1 DEF Begun
<1>6. QED
  BY <1>0, <1>3, <1>4, <1>5, ConcludedStep

LEMMA FinishStep ==
  ASSUME WritesInv, PageInv', UNCHANGED <<pageVars, ran>>,
         NEW c \in Calls, NEW ans \in Endings, Finish(c, ans), Active(c),
         ans = "done" => ran[c[1]] = "ran",
         ans \in {"busy", "read_only"} => ran[c[1]] # "ran"
  PROVE  WritesInv'
<1>1. OtherTypes
  BY PageInvParts DEF WritesInv
<1>2. /\ Writes(book[call[c].dev], book'[call[c].dev], c[1], {ans})
      /\ \A e \in Devices : e # call[c].dev => book'[e] = book[e]
      /\ Says(c, ans)
  BY <1>1, FinishIs
<1>3. \A k \in {1, 2} : <<c[1], k>> # c => ~ Active(<<c[1], k>>)
  <2>1. c[1] \in Ids /\ c[2] \in {1, 2} /\ c = <<c[1], c[2]>>
    BY CallsFact
  <2>2. ~ Active(<<c[1], 3 - c[2]>>)
    BY <2>1 DEF WritesInv, OneRun
  <2>3. QED
    BY <2>2, OtherCall
<1>4. QED
  BY <1>2, <1>3, ConcludedStep

\* The handler of a queued write starts.
LEMMA StartStep ==
  ASSUME WritesInv, PageInv', NEW c \in Calls, Start(c)
  PROVE  WritesInv'
<1>inv. Fresh /\ OneDevice /\ Recent /\ OneRun /\ Remembered /\ Truths
  BY DEF WritesInv
<1>0. c[1] \in Ids /\ c[2] \in {1, 2} /\ c = <<c[1], c[2]>>
  BY CallsFact
<1>1. /\ call[c].at = "queued" /\ call'[c].at = "handling" /\ call'[c].dev = call[c].dev
      /\ \A b \in Calls : b # c => call'[b] = call[b]
      /\ UNCHANGED <<pageVars, book>>
  BY MovedIs, Facts DEF Start, Places
<1>2. /\ ran'[c[1]] = "ran"
      /\ \A i \in Ids : i # c[1] => ran'[i] = ran[i]
  <2>1. ran \in [Ids -> {"no", "ran", "before"}]
    BY DEF WritesInv, PageInv, TypeOK
  <2>2. QED
    BY <2>1, <1>0 DEF Start
<1>3. /\ \A b \in Calls : Active(b)' <=> Active(b)
      /\ \A b \in Calls : call'[b].dev = call[b].dev
      /\ \A b \in Calls : call'[b].at = "sent" => call[b].at = "sent"
      /\ \A b \in Calls : call[b].at = "none" => call'[b].at = "none"
  BY <1>1 DEF Active
<1>4. \A i \in Ids, d \in Devices : Comes(i, d)' => Comes(i, d)
  BY <1>1, <1>3, CallsFact DEF Comes, MayRetry, pageVars
<1>5. \A i \in Ids, d \in Devices : Out(i, d)' => Out(i, d)
  BY <1>3, <1>4, CallsFact DEF Out
<1>6. \A i \in Ids : Begun(i)' => Begun(i)
  BY <1>0, <1>1, <1>2, <1>3, CallsFact DEF Begun, Active
<1>7. /\ \A d \in Devices : \A x \in Ended(book[d]) : x.id # c[1]
      /\ ~ Active(<<c[1], 3 - c[2]>>)
  BY <1>0, <1>1, <1>inv DEF OneRun, Active
<1>8. Fresh'
  <2>1. ASSUME NEW i \in Ids, page[i] = "fresh" PROVE i # c[1]
    BY <2>1, <1>0, <1>1, <1>inv DEF Fresh
  <2>2. QED
    BY <2>1, <1>1, <1>2, <1>3, <1>inv, CallsFact DEF Fresh, pageVars, Devices
<1>9. OneDevice' /\ Recent' /\ Remembered'
  BY <1>1, <1>4, <1>5, <1>6, <1>inv DEF OneDevice, Recent, Remembered, Devices, pageVars
<1>10. OneRun'
  <2>1. ASSUME NEW i \in Ids, NEW k \in {1, 2}, Active(<<i, k>>)'
        PROVE  /\ call'[<<i, k>>].at = "queued" => ran'[i] # "ran"
               /\ call'[<<i, k>>].at = "handling" => ran'[i] = "ran"
               /\ ~ Active(<<i, 3 - k>>)'
               /\ \A e \in Devices : \A x \in Ended(book'[e]) : x.id # i
    <3>1. Active(<<i, k>>)
      BY <2>1, <1>3, CallsFact
    <3>2. /\ ~ Active(<<i, 3 - k>>) /\ \A e \in Devices : \A x \in Ended(book[e]) : x.id # i
      BY <3>1, <1>inv DEF OneRun
    <3>3. ~ Active(<<i, 3 - k>>)'
      BY <3>2, <1>3, CallsFact
    <3>4. CASE i = c[1]
      <4>1. <<i, k>> = c
        <5>1. <<i, k>> # c => k = 3 - c[2]
          BY <3>4, OtherCall
        <5>2. k # 3 - c[2]
          BY <3>1, <3>4, <1>7
        <5>3. QED
          BY <5>1, <5>2
      <4>2. QED
        BY <4>1, <3>2, <3>3, <3>4, <1>1, <1>2
    <3>5. CASE i # c[1]
      <4>1. call'[<<i, k>>] = call[<<i, k>>] /\ ran'[i] = ran[i]
        BY <3>5, <1>1, <1>2, OtherTap
      <4>2. QED
        BY <4>1, <3>2, <3>3, <1>1, <1>inv DEF OneRun
    <3>6. QED
      BY <3>4, <3>5
  <2>2. QED
    BY <2>1 DEF OneRun, Devices, Active
<1>11. Truths'
  BY <1>1, <1>2, <1>7, <1>inv DEF Truths, Devices
<1>12. QED
  BY <1>8, <1>9, <1>10, <1>11 DEF WritesInv

\* A tap: its first request names the page's device, and nobody knows of it yet.
LEMMA TapStep ==
  ASSUME WritesInv, PageInv', NEW i \in Ids, Tap(i)
  PROVE  WritesInv'
<1>inv. Fresh /\ OneDevice /\ Recent /\ OneRun /\ Remembered /\ Truths
  BY DEF WritesInv
<1>0. /\ dev \in Devices /\ dev \in 1..Unlocks /\ call \in [Calls -> CallRecords]
      /\ page \in [Ids -> Pages]
  BY Facts DEF Devices, WritesInv, PageInv, TypeOK
<1>1. /\ <<i, 1>> \in Calls /\ page[i] = "fresh"
      /\ call' = [call EXCEPT ![<<i, 1>>] = Sent]
      /\ page' = [page EXCEPT ![i] = "first"]
      /\ UNCHANGED <<dropped, age, dev, book, ran>>
  BY CallsFact DEF Tap
<1>2. /\ call'[<<i, 1>>].at = "sent" /\ call'[<<i, 1>>].dev = dev
      /\ \A c \in Calls : c # <<i, 1>> => call'[c] = call[c]
  BY <1>0, <1>1, SentType
<1>3. /\ \A k \in {1, 2} : call[<<i, k>>].at = "none"
      /\ ran[i] # "ran" /\ \A d \in Devices : ~ Knows(book[d], i)
  BY <1>1, <1>inv DEF Fresh
<1>4. \A c \in Calls : Active(c)' => Active(c) /\ call'[c] = call[c]
  BY <1>2 DEF Active
<1>5. ASSUME NEW j \in Ids, NEW d \in Devices, Comes(j, d)'
      PROVE  Comes(j, d) \/ (j = i /\ d = dev)
  <2>1. CASE j # i
    <3>1. \A k \in {1, 2} : <<j, k>> \in Calls /\ <<j, k>> # <<i, 1>>
      BY <2>1, CallsFact
    <3>2. page'[j] = page[j] /\ \A k \in {1, 2} : call'[<<j, k>>] = call[<<j, k>>]
      BY <2>1, <3>1, <1>0, <1>1, <1>2
    <3>3. QED
      BY <3>2, <1>1, <1>5 DEF Comes, MayRetry
  <2>2. CASE j = i
    <3>1. call'[<<i, 2>>] = call[<<i, 2>>]
      BY <1>2, CallsFact
    <3>2. QED
      BY <2>2, <3>1, <1>1, <1>2, <1>3, <1>5 DEF Comes
  <2>3. QED
    BY <2>1, <2>2
<1>6. \A d \in Devices : ~ Out(i, d)' \/ d = dev
  <2>1. \A k \in {1, 2} : ~ Active(<<i, k>>)
    BY <1>3 DEF Active
  <2>2. \A d \in Devices : ~ Comes(i, d)
    BY <1>1, <1>3 DEF Comes, MayRetry
  <2>3. QED
    BY <2>1, <2>2, <1>4, <1>5, CallsFact DEF Out
<1>7. \A j \in Ids, d \in Devices : Out(j, d)' => Out(j, d) \/ j = i
  BY <1>4, <1>5, CallsFact DEF Out
<1>8. \A j \in Ids : Begun(j)' => Begun(j)
  BY <1>1, <1>4, CallsFact DEF Begun
<1>9. ~ Begun(i)
  BY <1>3 DEF Begun, Active
<1>10. Fresh'
  <2>1. ASSUME NEW j \in Ids, page'[j] = "fresh"
        PROVE  j # i /\ page[j] = "fresh"
    BY <2>1, <1>0, <1>1
  <2>2. \A j \in Ids : j # i => \A k \in {1, 2} : call'[<<j, k>>] = call[<<j, k>>]
    BY <1>2, CallsFact
  <2>3. QED
    BY <2>1, <2>2, <1>1, <1>inv DEF Fresh, Devices
<1>11. OneDevice'
  <2>1. ASSUME NEW j \in Ids, NEW d \in Devices, NEW e \in Devices,
               Out(j, e)', Out(j, d)' \/ Knows(book'[d], j)
        PROVE  d = e
    <3>1. CASE j = i
      BY <2>1, <3>1, <1>1, <1>3, <1>6
    <3>2. CASE j # i
      BY <2>1, <3>2, <1>1, <1>7, <1>inv DEF OneDevice
    <3>3. QED
      BY <3>1, <3>2
  <2>2. QED
    BY <2>1 DEF OneDevice, Devices
<1>12. Recent'
  <2>1. ASSUME NEW j \in Ids, NEW d \in Devices, Comes(j, d)', NEW x \in Records(book'[d]), x.id = j
        PROVE  x.age <= age'[j]
    <3>1. Knows(book[d], j)
      BY <2>1, <1>1 DEF Knows
    <3>2. j # i
      BY <3>1, <1>3
    <3>3. QED
      BY <2>1, <3>2, <1>1, <1>5, <1>inv DEF Recent
  <2>2. QED
    BY <2>1 DEF Recent, Devices
<1>13. Remembered'
  BY <1>1, <1>5, <1>8, <1>9, <1>inv DEF Remembered, Devices
<1>14. OneRun'
  <2>1. ASSUME NEW j \in Ids, NEW k \in {1, 2}, Active(<<j, k>>)'
        PROVE  /\ call'[<<j, k>>].at = "queued" => ran'[j] # "ran"
               /\ call'[<<j, k>>].at = "handling" => ran'[j] = "ran"
               /\ ~ Active(<<j, 3 - k>>)'
               /\ \A e \in Devices : \A x \in Ended(book'[e]) : x.id # j
    <3>1. Active(<<j, k>>) /\ call'[<<j, k>>] = call[<<j, k>>]
      BY <2>1, <1>4, CallsFact
    <3>2. ~ Active(<<j, 3 - k>>)'
      BY <3>1, <1>4, <1>inv, CallsFact DEF OneRun
    <3>3. QED
      BY <3>1, <3>2, <1>1, <1>inv DEF OneRun
  <2>2. QED
    BY <2>1 DEF OneRun, Devices, Active
<1>15. Truths'
  BY <1>1, <1>inv DEF Truths, Devices
<1>16. QED
  BY <1>10, <1>11, <1>12, <1>13, <1>14, <1>15 DEF WritesInv

\* After a restart the pool and the books are empty.
LEMMA RestartStep ==
  ASSUME WritesInv, PageInv', Restart
  PROVE  WritesInv'
<1>inv. Fresh /\ OneDevice
  BY DEF WritesInv
<1>1. /\ \A c \in Calls : call'[c] = IF call[c].at = "sent" THEN call[c] ELSE NoCall
      /\ \A i \in Ids : ran'[i] # "ran"
      /\ \A d \in Devices : book'[d] = NoBook
      /\ UNCHANGED <<page, dropped, age, dev>>
  BY DEF Restart, Devices
<1>2. \A c \in Calls : call'[c] = call[c] \/ call'[c].at = "none"
  BY <1>1 DEF NoCall
<1>3. /\ \A c \in Calls : ~ Active(c)'
      /\ \A c \in Calls : call'[c].at = "sent" => call'[c] = call[c]
  BY <1>1, <1>2 DEF Active, NoCall
<1>4. \A i \in Ids, d \in Devices : Comes(i, d)' => Comes(i, d)
  BY <1>1, <1>3, CallsFact DEF Comes, MayRetry
<1>5. \A i \in Ids, d \in Devices : Out(i, d)' => Out(i, d)
  BY <1>3, <1>4, CallsFact DEF Out
<1>6. /\ \A d \in Devices : Records(book'[d]) = {} /\ Ended(book'[d]) = {}
      /\ \A i \in Ids, d \in Devices : ~ Knows(book'[d], i)
  BY <1>1, NoBookIs DEF Knows
<1>7. \A i \in Ids : ~ Begun(i)'
  BY <1>1, <1>3, CallsFact DEF Begun
<1>8. Fresh'
  BY <1>1, <1>2, <1>6, <1>inv, CallsFact DEF Fresh, Devices
<1>9. OneDevice'
  BY <1>5, <1>6, <1>inv DEF OneDevice, Devices
<1>10. Recent' /\ Remembered' /\ Truths'
  BY <1>6, <1>7 DEF Recent, Remembered, Truths, Devices
<1>11. OneRun'
  BY <1>3, CallsFact DEF OneRun, Active
<1>12. QED
  BY <1>8, <1>9, <1>10, <1>11 DEF WritesInv

\* Time passes for the taps no slower than for the books.
LEMMA TickStep ==
  ASSUME WritesInv, PageInv', Tick
  PROVE  WritesInv'
<1>inv. Fresh /\ OneDevice /\ Recent /\ OneRun /\ Remembered /\ Truths
  BY DEF WritesInv
<1>1. /\ UNCHANGED <<page, dropped, dev, call, ran>>
      /\ \A c \in Calls : call[c].at = "sent" => age[c[1]] < RetryWithin + Delay
      /\ \A i \in Ids : age'[i] = IF page[i] # "fresh" /\ age[i] < RetryWithin + Delay
                                  THEN age[i] + 1 ELSE age[i]
      /\ \A d \in Devices : book'[d] = Older(book[d])
  BY DEF Tick, Devices
<1>2. \A d \in Devices :
        /\ \A e \in Records(book'[d]) : \E x \in Records(book[d]) : x.id = e.id /\ e.age <= x.age + 1
        /\ \A x \in Records(book[d]) : \E e \in Records(book'[d]) : x.id = e.id
        /\ \A e \in Ended(book'[d]) : \E x \in Ended(book[d]) : x.id = e.id /\ x.ans = e.ans
  BY <1>1, Facts, OlderIs
<1>3. \A i, d : d \in Devices => (Knows(book'[d], i) <=> Knows(book[d], i))
  BY <1>2 DEF Knows
<1>4. /\ \A i \in Ids : age[i] \in Nat
      /\ RetryWithin \in Nat /\ Delay \in Nat \ {0}
  BY Facts, ClockAssumption
<1>5. ASSUME NEW i \in Ids, MayRetry(i)' PROVE MayRetry(i) /\ age'[i] = age[i] + 1
  <2>1. page[i] \in {"first", "lost"} /\ i \notin dropped /\ age'[i] <= RetryWithin
    BY <1>1, <1>5 DEF MayRetry
  <2>2. age[i] < RetryWithin + Delay
    BY <2>1, <1>1, <1>4
  <2>3. age'[i] = age[i] + 1
    BY <2>1, <2>2, <1>1
  <2>4. age[i] <= RetryWithin
    BY <2>1, <2>3, <1>4
  <2>5. QED
    BY <2>1, <2>3, <2>4 DEF MayRetry
<1>6. ASSUME NEW i \in Ids, NEW d \in Devices, Comes(i, d)'
      PROVE  Comes(i, d) /\ age'[i] = age[i] + 1
  <2>1. CASE \E k \in {1, 2} : call'[<<i, k>>].at = "sent" /\ call'[<<i, k>>].dev = d
    <3>1. PICK k \in {1, 2} : call[<<i, k>>].at = "sent" /\ call[<<i, k>>].dev = d
      BY <2>1, <1>1
    <3>2. age[i] < RetryWithin + Delay
      BY <3>1, <1>1, CallsFact
    <3>3. page[i] # "fresh"
      BY <3>1, <1>inv DEF Fresh
    <3>4. QED
      BY <3>1, <3>2, <3>3, <1>1 DEF Comes
  <2>2. CASE MayRetry(i)' /\ d = dev'
    BY <2>2, <1>1, <1>5 DEF Comes
  <2>3. QED
    BY <1>6, <2>1, <2>2 DEF Comes
<1>7. \A i \in Ids, d \in Devices : Out(i, d)' => Out(i, d)
  BY <1>1, <1>6 DEF Out, Active
<1>8. \A i \in Ids : Begun(i)' => Begun(i)
  BY <1>1 DEF Begun, Active
<1>9. Fresh'
  BY <1>1, <1>3, <1>inv DEF Fresh, Devices
<1>10. OneDevice' /\ Remembered'
  BY <1>3, <1>6, <1>7, <1>8, <1>inv DEF OneDevice, Remembered, Devices
<1>11. Recent'
  <2>1. ASSUME NEW i \in Ids, NEW d \in Devices, Comes(i, d)', NEW e \in Records(book'[d]), e.id = i
        PROVE  e.age <= age'[i]
    <3>1. PICK x \in Records(book[d]) : x.id = e.id /\ e.age <= x.age + 1
      BY <1>2
    <3>2. x.age <= age[i] /\ age'[i] = age[i] + 1
      BY <2>1, <3>1, <1>6, <1>inv DEF Recent
    <3>3. x.age \in Nat /\ e.age \in Nat /\ age[i] \in Nat
      <4>1. x.age \in 0..Ttl
        BY Facts
      <4>2. e.age \in Nat
        <5>1. Whole(book'[d])
          BY DEF PageInv, BooksWhole, Devices
        <5>2. book'[d].run \in Seq(RunRecords) /\ book'[d].fin \in Seq(EndRecords) /\ book'[d].spent \in Seq(EndRecords)
          BY <5>1, WholeTypes
        <5>3. /\ \A n \in DOMAIN book'[d].run : book'[d].run[n] \in RunRecords
              /\ \A n \in DOMAIN book'[d].fin : book'[d].fin[n] \in EndRecords
              /\ \A n \in DOMAIN book'[d].spent : book'[d].spent[n] \in EndRecords
          BY <5>2, LenProperties, ElementOfSeq
        <5>4. e \in RunRecords \/ e \in EndRecords
          BY <2>1, <5>3 DEF Records, Ended, Entries
        <5>5. e.age \in 0..Ttl
          BY <5>4 DEF RunRecords, EndRecords
        <5>6. QED
          BY <5>5, LedgerAssumption
      <4>3. QED
        BY <4>1, <4>2, <1>4, LedgerAssumption
    <3>4. QED
      BY <3>1, <3>2, <3>3
  <2>2. QED
    BY <2>1 DEF Recent, Devices
<1>12. OneRun'
  <2>1. \A i \in Ids, d \in Devices :
          (\A x \in Ended(book[d]) : x.id # i) => \A x \in Ended(book'[d]) : x.id # i
    BY <1>2
  <2>2. QED
    BY <2>1, <1>1, <1>inv DEF OneRun, Active, Devices
<1>13. Truths'
  <2>1. ASSUME NEW i \in Ids, NEW d \in Devices, NEW e \in Ended(book'[d]), e.id = i
        PROVE  /\ e.ans = "done" => ran'[i] = "ran"
               /\ e.ans \in {"busy", "read_only"} => ran'[i] # "ran"
    <3>1. PICK x \in Ended(book[d]) : x.id = i /\ x.ans = e.ans
      BY <2>1, <1>2
    <3>2. QED
      BY <3>1, <1>1, <1>inv DEF Truths
  <2>2. QED
    BY <2>1 DEF Truths, Devices
<1>14. QED
  BY <1>9, <1>10, <1>11, <1>12, <1>13 DEF WritesInv

\* The page's own steps let nothing come that could not before: what ends is
\* over, and a page that locks holds all of it back.
LEMMA QuietPage ==
  ASSUME WritesInv, PageInv', UNCHANGED <<age, ran, call>>,
         \A d \in Devices : Keeps(book[d], book'[d]),
         \A i \in Ids : page'[i] \in {"first", "lost"} /\ i \notin dropped' /\ age[i] <= RetryWithin =>
                          MayRetry(i) /\ dev' = dev,
         \A i \in Ids : page'[i] = "fresh" => page[i] = "fresh"
  PROVE  WritesInv'
  BY QuietStep

LEMMA BooksStay ==
  ASSUME WritesInv, UNCHANGED book
  PROVE  \A d \in Devices : Keeps(book[d], book'[d])
  BY Facts, ForgottenKeeps

LEMMA OverIsQuiet ==
  ASSUME NEW S, NEW H, Over(S, H), dev' = dev, \A i \in Ids \ S : i \in dropped => i \in dropped'
  PROVE  /\ \A i \in Ids : page'[i] \in {"first", "lost"} /\ i \notin dropped' /\ age[i] <= RetryWithin =>
                             MayRetry(i) /\ dev' = dev
         /\ \A i \in Ids : page'[i] = "fresh" => page[i] = "fresh"
<1>1. \A i \in Ids : page'[i] = IF i \in S THEN "over" ELSE page[i]
  BY DEF Over
<1>2. QED
  BY <1>1 DEF MayRetry

LEMMA GoLockedIsQuiet ==
  ASSUME NEW heard, GoLocked(heard), dev' = dev
  PROVE  /\ \A i \in Ids : page'[i] \in {"first", "lost"} /\ i \notin dropped' /\ age[i] <= RetryWithin =>
                             MayRetry(i) /\ dev' = dev
         /\ \A i \in Ids : page'[i] = "fresh" => page[i] = "fresh"
<1>1. \A i \in Ids : page'[i] = IF i \in Lost \cup heard THEN "over" ELSE page[i]
  BY DEF GoLocked, Over
<1>2. dropped' = Pending \ (Lost \cup heard)
  BY DEF GoLocked
<1>3. QED
  BY <1>1, <1>2 DEF MayRetry, Pending

LEMMA SettleIsQuiet ==
  ASSUME NEW recent, SettleFromLedger(recent), dev' = dev
  PROVE  /\ \A i \in Ids : page'[i] \in {"first", "lost"} /\ i \notin dropped' /\ age[i] <= RetryWithin =>
                             MayRetry(i) /\ dev' = dev
         /\ \A i \in Ids : page'[i] = "fresh" => page[i] = "fresh"
<1> DEFINE said == {e.id : e \in recent} \cap Ids
           settled == {i \in said : page[i] \in {"lost", "again"}}
<1>1. /\ page' = [i \in Ids |-> IF i \in settled THEN "over" ELSE page[i]]
      /\ dropped' = dropped \ settled
  BY DEF SettleFromLedger
<1> HIDE DEF said, settled
<1>2. QED
  BY <1>1 DEF MayRetry

LEMMA PageStepKeeps ==
  ASSUME WritesInv, PageInv', PageStep
  PROVE  WritesInv'
<1>1. ASSUME NEW i \in Ids, FirstFails(i) PROVE WritesInv'
  <2>1. \A j \in Ids : page'[j] = IF j = i THEN "lost" ELSE page[j]
    BY <1>1 DEF FirstFails, WritesInv, PageInv, TypeOK
  <2>2. /\ \A j \in Ids : page'[j] \in {"first", "lost"} /\ j \notin dropped' /\ age[j] <= RetryWithin =>
                             MayRetry(j) /\ dev' = dev
        /\ \A j \in Ids : page'[j] = "fresh" => page[j] = "fresh"
    BY <1>1, <2>1 DEF FirstFails, MayRetry
  <2>3. QED
    BY <1>1, <2>2, BooksStay, QuietPage DEF FirstFails
<1>2. ASSUME NEW i \in Ids, GiveUp(i) PROVE WritesInv'
  <2>1. Over({i}, {i}) /\ dropped' = dropped \ {i} /\ UNCHANGED <<age, dev, call, book, ran>>
    BY <1>2 DEF GiveUp
  <2>2. QED
    BY <2>1, BooksStay, OverIsQuiet, QuietPage
<1>3. ASSUME NEW c \in Calls, Answered(c) PROVE WritesInv'
  <2>1. /\ UNCHANGED <<age, dev, book, ran>>
        /\ \A b \in Calls : call'[b] = call[b] \/ call'[b].at = "none"
    BY <1>3, Facts DEF Answered, NoCall
  <2>2. /\ \A i \in Ids : page'[i] \in {"first", "lost"} /\ i \notin dropped' /\ age[i] <= RetryWithin =>
                            MayRetry(i) /\ dev' = dev
        /\ \A i \in Ids : page'[i] = "fresh" => page[i] = "fresh"
    <3>1. CASE GoLocked({c[1]})
      BY <2>1, <3>1, GoLockedIsQuiet
    <3>2. CASE /\ Over({c[1]}, IF call[c].ans = "in_progress" THEN {c[1]} ELSE {})
               /\ dropped' = dropped \ {c[1]}
      BY <2>1, <3>2, OverIsQuiet
    <3>3. QED
      BY <1>3, <3>1, <3>2 DEF Answered
  <2>3. QED
    BY <2>1, <2>2, BooksStay, QuietStep
<1>4. CASE Connect
  <2> DEFINE again == {i \in Lost : ~NotAgain(i)}
  <2>1. /\ UNCHANGED <<age, dev, book, ran>>
        /\ dropped' = dropped \ Lost
        /\ \A i \in Ids : page'[i] = CASE i \in again -> "again"
                                       [] i \in Lost \ again -> "over"
                                       [] OTHER -> page[i]
        /\ \A c \in Calls : call'[c] = IF c[2] = 2 /\ c[1] \in again THEN Sent ELSE call[c]
    BY <1>4 DEF Connect
  <2>2. \A i \in again : MayRetry(i)
    BY Facts, ClockAssumption DEF Lost, NotAgain, MayRetry
  <2>3. Sent.at = "sent" /\ Sent.dev = dev
    BY SentType, Facts DEF Devices
  <2> HIDE DEF again
  <2>4. \A c \in Calls : \/ call'[c] = call[c]
                         \/ call'[c].at = "sent" /\ Comes(c[1], call'[c].dev)
    BY <2>1, <2>2, <2>3 DEF Comes
  <2>5. /\ \A i \in Ids : page'[i] \in {"first", "lost"} /\ i \notin dropped' /\ age[i] <= RetryWithin =>
                            MayRetry(i) /\ dev' = dev
        /\ \A i \in Ids : page'[i] = "fresh" => page[i] = "fresh"
    BY <2>1 DEF MayRetry, Lost
  <2>6. QED
    BY <2>1, <2>4, <2>5, BooksStay, QuietStep
<1>5. CASE SocketDrops
  BY <1>5, BooksStay, QuietPage DEF SocketDrops, MayRetry
<1>6. CASE ActionFrame \/ RefreshActions
  <2>1. /\ \E recent : SettleFromLedger(recent)
        /\ book' = [book EXCEPT ![dev] = Forgotten(book[dev])]
        /\ UNCHANGED <<age, dev, call, ran>>
    BY <1>6 DEF ActionFrame, RefreshActions
  <2>2. \A d \in Devices : Keeps(book[d], book'[d])
    BY <2>1, Asked, Facts DEF WritesInv, PageInv
  <2>3. QED
    BY <2>1, <2>2, SettleIsQuiet, QuietPage
<1>7. CASE ToUnlock
  BY <1>7, BooksStay, GoLockedIsQuiet, QuietPage DEF ToUnlock
<1>8. CASE Unlock
  <2>1. locked /\ UNCHANGED <<page, dropped, age, call, book, ran>>
    BY <1>8 DEF Unlock
  <2>2. \A i \in Ids : page[i] \in {"first", "lost"} => i \in dropped
    BY <2>1 DEF WritesInv, PageInv, LockedOut, Pending
  <2>3. QED
    BY <2>1, <2>2, BooksStay, QuietPage
<1>9. CASE Reload
  <2>1. Over(Pending, Pending) /\ UNCHANGED <<age, dev, call, book, ran>>
    BY <1>9 DEF Reload
  <2>2. \A i \in Ids \ Pending : i \in dropped => i \in dropped'
    BY DEF WritesInv, PageInv, TypeOK, Pending
  <2>3. QED
    BY <2>1, <2>2, BooksStay, OverIsQuiet, QuietPage
<1>10. QED
  BY <1>1, <1>2, <1>3, <1>4, <1>5, <1>6, <1>7, <1>8, <1>9, TapStep DEF PageStep

LEMMA ServerStepKeeps ==
  ASSUME WritesInv, PageInv', ServerStep
  PROVE  WritesInv'
<1>0. OtherTypes
  BY PageInvParts DEF WritesInv
<1>page. ASSUME UNCHANGED pageVars
         PROVE  /\ \A i \in Ids : page'[i] \in {"first", "lost"} /\ i \notin dropped' /\ age[i] <= RetryWithin =>
                                    MayRetry(i) /\ dev' = dev
                /\ \A i \in Ids : page'[i] = "fresh" => page[i] = "fresh"
                /\ age' = age
  BY <1>page DEF pageVars, MayRetry
<1>1. ASSUME NEW c \in Calls, Vanish(c) PROVE WritesInv'
  <2>1. \A b \in Calls : call'[b] = call[b] \/ call'[b].at = "none"
    BY <1>1, Facts DEF Vanish, NoCall
  <2>2. UNCHANGED <<pageVars, book, ran>>
    BY <1>1 DEF Vanish
  <2>3. QED
    BY <2>1, <2>2, <1>page, BooksStay, QuietStep
<1>2. ASSUME NEW c \in Calls, Arrive(c) PROVE WritesInv'
  <2>1. /\ call[c].at = "sent" /\ call[c].dev \in Devices /\ UNCHANGED <<pageVars, ran>>
        /\ Rejected(c) \/ (\E ans \in Answers : Replied(c, ans)) \/ Queued(c) \/ TurnedAway(c)
    BY <1>0, <1>2, ArriveKinds
  <2>2. ASSUME NEW ans \in Answers, Says(c, ans), \A d \in Devices : Keeps(book[d], book'[d])
        PROVE  WritesInv'
    <3>1. \A b \in Calls : \/ call'[b].at = "none"
                           \/ call'[b].at = "ended" /\ call[b].at # "none"
                           \/ call'[b] = call[b]
      BY <2>1, <2>2, SaysIs, Facts
    <3>2. QED
      BY <2>1, <2>2, <3>1, <1>page, QuietStep
  <2>3. CASE Rejected(c)
    <3>1. "unauthorized" \in Answers
      BY DEF Answers, Endings
    <3>2. QED
      BY <2>2, <2>3, <3>1, BooksStay DEF Rejected
  <2>4. ASSUME NEW ans \in Answers, Replied(c, ans) PROVE WritesInv'
    <3>1. \A d \in Devices : Keeps(book[d], book'[d])
      BY <2>1, <2>4, <1>0, Asked DEF Replied, OtherTypes
    <3>2. QED
      BY <2>2, <2>4, <3>1 DEF Replied
  <2>5. QED
    BY <2>1, <2>3, <2>4, QueuedStep, TurnedAwayStep
<1>3. ASSUME NEW c \in Calls, Refuse(c) PROVE WritesInv'
  <2>1. /\ Active(c) /\ UNCHANGED <<pageVars, ran>>
        /\ \E ans \in {"read_only", "unauthorized"} : Finish(c, ans)
    BY <1>3 DEF Refuse, Active
  <2>2. PICK ans \in {"read_only", "unauthorized"} : Finish(c, ans)
    BY <2>1
  <2>3. ran[c[1]] # "ran"
    <3>1. c[1] \in Ids /\ c[2] \in {1, 2} /\ c = <<c[1], c[2]>>
      BY CallsFact
    <3>2. QED
      BY <1>3, <3>1 DEF Refuse, WritesInv, OneRun
  <2>4. ans \in Endings /\ ans # "done"
    BY DEF Endings
  <2>5. QED
    BY <2>1, <2>2, <2>3, <2>4, FinishStep
<1>4. ASSUME NEW c \in Calls, End(c) PROVE WritesInv'
  <2>1. /\ Active(c) /\ UNCHANGED <<pageVars, ran>>
        /\ \E ans \in {"done", "failed"} : Finish(c, ans)
    BY <1>4 DEF End, Active
  <2>2. PICK ans \in {"done", "failed"} : Finish(c, ans)
    BY <2>1
  <2>3. ran[c[1]] = "ran"
    <3>1. c[1] \in Ids /\ c[2] \in {1, 2} /\ c = <<c[1], c[2]>>
      BY CallsFact
    <3>2. QED
      BY <1>4, <3>1 DEF End, WritesInv, OneRun
  <2>4. ans \in Endings /\ ans \notin {"busy", "read_only"}
    BY DEF Endings
  <2>5. QED
    BY <2>1, <2>2, <2>3, <2>4, FinishStep
<1>5. ASSUME NEW o \in Others, OtherWrite(o) PROVE WritesInv'
  <2> DEFINE over == LedgerFinished(LedgerBegun(Forgotten(book[dev]), o), o, "done")
  <2>1. UNCHANGED <<pageVars, call, ran>> /\ book' = [book EXCEPT ![dev] = over]
    BY <1>5 DEF OtherWrite
  <2>2. Whole(book[dev]) /\ dev \in Devices
    BY Facts
  <2>3. Whole(over) /\ Keeps(book[dev], over)
    BY <2>2, OthersKeep
  <2> HIDE DEF over
  <2>4. \A d \in Devices : Keeps(book[d], book'[d])
    BY <2>1, <2>3, Facts, ForgottenKeeps
  <2>5. QED
    BY <2>1, <2>4, <1>page, QuietPage
<1>6. CASE Revoke
  BY <1>6, <1>page, BooksStay, QuietPage DEF Revoke
<1>7. QED
  BY <1>1, <1>2, <1>3, <1>4, <1>5, <1>6, StartStep, RestartStep DEF ServerStep

LEMMA InvStep == WritesInv /\ [Next]_vars => WritesInv'
<1> SUFFICES ASSUME WritesInv, [Next]_vars
             PROVE  WritesInv'
  OBVIOUS
<1>1. PageInv'
  BY PageInvStep DEF WritesInv
<1>2. CASE UNCHANGED vars
  BY <1>1, <1>2, BooksStay, QuietPage DEF vars, pageVars, MayRetry
<1>3. QED
  BY <1>1, <1>2, PageStepKeeps, ServerStepKeeps, TickStep DEF Next

LEMMA InvHolds == Spec => []WritesInv
  BY InvInit, InvStep, PTL DEF Spec

-----------------------------------------------------------------------------
(* What is promised.                                                       *)

(* Every variable keeps its type: above all, no walk over a book and no    *)
(* making of room takes it out of shape.                                   *)
THEOREM TypesHold == Spec => []TypeOK
<1>1. WritesInv => TypeOK
  BY DEF WritesInv, PageInv
<1>2. QED
  BY <1>1, InvHolds, PTL

(* While the server lives, a tap's handler starts once, whatever becomes   *)
(* of its two requests, however small the ledger's memory for answers is,  *)
(* and whoever else writes (app.js:802).                                   *)
THEOREM TapsRunOnce == Spec => RunsOnce
<1>1. ASSUME WritesInv, NEW i \in Ids, Starts(i) PROVE ran[i] # "ran"
  <2>1. PICK k \in {1, 2} : call[<<i, k>>].at = "queued"
    BY <1>1 DEF Starts
  <2>2. QED
    BY <1>1, <2>1 DEF WritesInv, OneRun
<1>2. WritesInv => (\A i \in Ids : Starts(i) => ran[i] # "ran")
  BY <1>1
<1>3. QED
  BY <1>2, InvHolds, PTL DEF RunsOnce

\* Who says something of a write: the pool as it ends, or the ledger as it arrives.
LEMMA WhoSays ==
  ASSUME WritesInv, [Next]_vars, NEW c \in Calls, call[c].at # "ended", call'[c].at = "ended"
  PROVE  Arrive(c) \/ Refuse(c) \/ End(c)
<1>0. dev \in Devices /\ call \in [Calls -> CallRecords]
  BY Facts
<1>1. NoCall.at = "none" /\ Sent.at = "sent"
  BY <1>0, SentType DEF NoCall, Devices
<1>2. \A i \in Ids : ~ Tap(i)
  BY <1>0, <1>1 DEF Tap
<1>3. \A b \in Calls : ~ Answered(b) /\ ~ Vanish(b)
  BY <1>0, <1>1 DEF Answered, Vanish
<1>4. ~ Connect
  BY <1>0, <1>1 DEF Connect
<1>5. ~ Restart
  BY <1>1 DEF Restart
<1>6. call' # call
  OBVIOUS
<1>7. ~ (\E i \in Ids : FirstFails(i) \/ GiveUp(i)) /\ ~ SocketDrops /\ ~ ActionFrame
      /\ ~ RefreshActions /\ ~ ToUnlock /\ ~ Unlock /\ ~ Reload
  BY <1>6 DEF FirstFails, GiveUp, SocketDrops, ActionFrame, RefreshActions, ToUnlock, Unlock, Reload
<1>8. ~ (\E o \in Others : OtherWrite(o)) /\ ~ Revoke /\ ~ Tick /\ ~ UNCHANGED vars
  BY <1>6 DEF OtherWrite, Revoke, Tick, vars
<1>9. PICK b \in Calls : Arrive(b) \/ Refuse(b) \/ Start(b) \/ End(b)
  BY <1>2, <1>3, <1>4, <1>5, <1>7, <1>8 DEF Next, PageStep, ServerStep
<1>10. ~ Start(b)
  BY <1>0, MovedIs DEF Start, Places
<1>11. \A d \in Calls : d # b => call'[d] = call[d]
  <2>1. OtherTypes
    BY PageInvParts DEF WritesInv
  <2>2. CASE Refuse(b) \/ End(b)
    <3>1. PICK ans \in Endings : Finish(b, ans)
      BY <2>2 DEF Refuse, End, Endings
    <3>2. QED
      BY <1>0, <3>1, SaysIs DEF Finish, Answers
  <2>3. CASE Arrive(b)
    <3>1. Rejected(b) \/ (\E ans \in Answers : Replied(b, ans)) \/ Queued(b) \/ TurnedAway(b)
      BY <2>1, <2>3, ArriveKinds
    <3>2. "unauthorized" \in Answers /\ "busy" \in Answers /\ "queued" \in Places
      BY DEF Answers, Endings, Places
    <3>3. QED
      BY <1>0, <3>1, <3>2, SaysIs, MovedIs DEF Rejected, Replied, Queued, TurnedAway
  <2>4. QED
    BY <1>9, <1>10, <2>2, <2>3
<1>12. b = c
  BY <1>11
<1>13. QED
  BY <1>9, <1>10, <1>12

LEMMA SaidIsTrue ==
  ASSUME WritesInv, [Next]_vars, NEW c \in Calls, call[c].at # "ended", call'[c].at = "ended"
  PROVE  /\ call'[c].ans = "done" => ran[c[1]] = "ran"
         /\ call'[c].ans \in {"busy", "read_only"} =>
              ran[c[1]] # "ran" /\ ~ Active(<<c[1], 3 - c[2]>>)
<1> DEFINE i == c[1]
           d == call[c].dev
<1>0. /\ i \in Ids /\ i \in RequestIds /\ c[2] \in {1, 2} /\ c = <<i, c[2]>>
      /\ d \in Devices /\ 3 - c[2] \in {1, 2} /\ call \in [Calls -> CallRecords]
  BY CallsFact, Facts
<1>inv. OneRun /\ Truths /\ OtherTypes
  BY PageInvParts DEF WritesInv
<1>1. CASE Refuse(c) \/ End(c)
  <2>1. call[c].at \in {"queued", "handling"} /\ Active(c)
    BY <1>1 DEF Refuse, End, Active
  <2>2. ~ Active(<<i, 3 - c[2]>>)
    BY <2>1, <1>0, <1>inv DEF OneRun
  <2>3. CASE Refuse(c)
    <3>1. \E ans \in {"read_only", "unauthorized"} : Says(c, ans)
      BY <2>3 DEF Refuse, Finish
    <3>2. call'[c].ans \in {"read_only", "unauthorized"}
      BY <3>1, <1>0, SaysIs DEF Answers, Endings
    <3>3. ran[i] # "ran"
      BY <2>3, <1>0, <1>inv DEF Refuse, OneRun
    <3>4. QED
      BY <2>2, <3>2, <3>3
  <2>4. CASE End(c)
    <3>1. \E ans \in {"done", "failed"} : Says(c, ans)
      BY <2>4 DEF End, Finish
    <3>2. call'[c].ans \in {"done", "failed"}
      BY <3>1, <1>0, SaysIs DEF Answers, Endings
    <3>3. ran[i] = "ran"
      BY <2>4, <1>0, <1>inv DEF End, OneRun
    <3>4. QED
      BY <3>2, <3>3
  <2>5. QED
    BY <1>1, <2>3, <2>4
<1>2. CASE Arrive(c)
  <2>1. /\ call[c].at = "sent"
        /\ Rejected(c) \/ (\E ans \in Answers : Replied(c, ans)) \/ Queued(c) \/ TurnedAway(c)
    BY <1>2, <1>inv, ArriveKinds
  <2>2. LedgerSeen(Forgotten(book[d]), i) = "new" => ~ Begun(i)
    BY <2>1, FirstOfItsTap
  <2>3. ~ Begun(i) => ran[i] # "ran" /\ ~ Active(<<i, 3 - c[2]>>)
    BY <1>0 DEF Begun
  <2>4. CASE Rejected(c)
    BY <2>4, <1>0, SaysIs DEF Rejected, Answers, Endings
  <2>5. CASE Queued(c)
    BY <2>5, <1>0, MovedIs DEF Queued, Places
  <2>6. CASE TurnedAway(c)
    <3>1. call'[c].ans = "busy"
      BY <2>6, <1>0, SaysIs DEF TurnedAway, Answers, Endings
    <3>2. QED
      BY <2>2, <2>3, <2>6, <3>1 DEF TurnedAway
  <2>7. ASSUME NEW ans \in Answers, Replied(c, ans)
        PROVE  /\ call'[c].ans = "done" => ran[i] = "ran"
               /\ call'[c].ans \in {"busy", "read_only"} =>
                    ran[i] # "ran" /\ ~ Active(<<i, 3 - c[2]>>)
    <3>1. call'[c].ans = ans
      BY <2>7, <1>0, SaysIs DEF Replied
    <3>2. CASE ans = "read_only" /\ LedgerSeen(Forgotten(book[d]), i) = "new"
      BY <2>2, <2>3, <3>1, <3>2
    <3>3. CASE ans = LedgerSeen(Forgotten(book[d]), i) /\ ans \in {"done", "busy", "read_only"}
      <4>1. Whole(book[d]) /\ Whole(Forgotten(book[d])) /\ Ended(Forgotten(book[d])) \subseteq Ended(book[d])
        BY <1>0, Facts, ForgottenIs
      <4>2. ans \in Endings
        BY <3>3 DEF Endings
      <4>3. \E e \in Entries(Forgotten(book[d]).fin) : e.id = i /\ e.ans = ans
        BY <1>0, <3>3, <4>1, <4>2, SeenIs
      <4>4. PICK e \in Ended(book[d]) : e.id = i /\ e.ans = ans
        BY <4>1, <4>3 DEF Ended
      <4>5. ~ Active(<<i, 3 - c[2]>>)
        BY <1>0, <1>inv, <4>4 DEF OneRun
      <4>6. QED
        BY <1>0, <1>inv, <3>1, <4>4, <4>5 DEF Truths
    <3>4. CASE ans \notin {"done", "busy", "read_only"}
      BY <3>1, <3>4
    <3>5. QED
      BY <2>7, <3>2, <3>3, <3>4 DEF Replied
  <2>8. QED
    BY <2>1, <2>4, <2>5, <2>6, <2>7
<1>3. QED
  BY <1>1, <1>2, WhoSays

(* The page is told done of what ran, and busy or read-only only of what   *)
(* neither of a tap's calls had run or was about to.                       *)
THEOREM PageHearsTheTruth == Spec => AnswersAreTrue
<1> DEFINE True(i, k) ==
      call[<<i, k>>].at # "ended" /\ call'[<<i, k>>].at = "ended" =>
        /\ call'[<<i, k>>].ans = "done" => ran[i] = "ran"
        /\ call'[<<i, k>>].ans \in {"busy", "read_only"} =>
             ran[i] # "ran" /\ call[<<i, 3 - k>>].at \notin {"queued", "handling"}
<1>1. ASSUME WritesInv, [Next]_vars, NEW i \in Ids, NEW k \in {1, 2} PROVE True(i, k)
  <2>1. /\ <<i, k>> \in Calls /\ <<i, k>>[1] = i /\ <<i, k>>[2] = k
    BY CallsFact
  <2>2. ASSUME call[<<i, k>>].at # "ended", call'[<<i, k>>].at = "ended"
        PROVE  /\ call'[<<i, k>>].ans = "done" => ran[i] = "ran"
               /\ call'[<<i, k>>].ans \in {"busy", "read_only"} =>
                    ran[i] # "ran" /\ ~ Active(<<i, 3 - k>>)
    BY <1>1, <2>1, <2>2, SaidIsTrue
  <2>3. QED
    BY <2>2 DEF Active
<1>2. WritesInv /\ [Next]_vars => \A i \in Ids, k \in {1, 2} : True(i, k)
  BY <1>1
<1>3. QED
  BY <1>2, InvHolds, PTL DEF Spec, AnswersAreTrue
=============================================================================
