------------------------- MODULE SuperTimelineProofs -------------------------
(* A provenance of the super timeline that is there tells the truth of its *)
(* four outputs, for any manifests, sizes of chunks and of the summary and *)
(* any number of runs and kills.                                           *)
EXTENDS SuperTimeline, SequenceTheorems, FiniteSetTheorems, WellFoundedInduction, TLAPS

\* A set of numbers that is not empty has a least one.
LEMMA LeastNumber ==
  ASSUME NEW S \in SUBSET Nat, S # {}
  PROVE  \E m \in S : \A n \in S : ~(n < m)
<1> DEFINE R == OpToRel(<, Nat)
<1>1. IsWellFoundedOn(R, Nat)
  BY NatLessThanWellFounded
<1>2. R = {ss \in Nat \X Nat : ss[1] < ss[2]}
  BY DEF OpToRel
<1> HIDE DEF R
<1>3. PICK m \in S : \A n \in S : ~(<<n, m>> \in R)
  BY <1>1, WFMin
<1> QED
  BY <1>2, <1>3
-----------------------------------------------------------------------------
(* Sequences in the order of their keys                                    *)

Keyed == [time : Nat, label : Nat, input : Nat, row : Nat]
InOrder(s) == \A i, j \in 1 .. Len(s) : i < j => KeyBefore(s[i], s[j])
Members(s) == {s[i] : i \in 1 .. Len(s)}

\* The keys are in a strict order in which any two differ.
LEMMA KeysInOrder ==
  /\ \A d \in Keyed : ~ KeyBefore(d, d)
  /\ \A d, e, f \in Keyed : KeyBefore(d, e) /\ KeyBefore(e, f) => KeyBefore(d, f)
  /\ \A d, e \in Keyed : d # e => KeyBefore(d, e) \/ KeyBefore(e, d)
<1>1. \A d \in Keyed : ~ KeyBefore(d, d)
  BY DEF Keyed, KeyBefore
<1>2. \A d, e, f \in Keyed : KeyBefore(d, e) /\ KeyBefore(e, f) => KeyBefore(d, f)
  BY DEF Keyed, KeyBefore
<1>3. \A d, e \in Keyed : d # e => KeyBefore(d, e) \/ KeyBefore(e, d)
  BY DEF Keyed, KeyBefore
<1> QED
  BY <1>1, <1>2, <1>3

\* A sequence in order has no member twice.
LEMMA OrderCounts ==
  ASSUME NEW s \in Seq(Keyed), InOrder(s)
  PROVE  /\ IsFiniteSet(Members(s)) /\ Cardinality(Members(s)) = Len(s)
         /\ s \in [1 .. Len(s) -> Members(s)]
         /\ \A i, j \in 1 .. Len(s) : s[i] = s[j] => i = j
<1>1. Len(s) \in Nat /\ s \in [1 .. Len(s) -> Keyed]
  BY LenProperties
<1>2. \A i, j \in 1 .. Len(s) : s[i] = s[j] => i = j
  <2> SUFFICES ASSUME NEW i \in 1 .. Len(s), NEW j \in 1 .. Len(s), s[i] = s[j] PROVE i = j
    OBVIOUS
  <2>1. s[i] \in Keyed /\ s[j] \in Keyed
    BY <1>1
  <2>2. ~(i < j) /\ ~(j < i)
    BY <2>1, KeysInOrder DEF InOrder
  <2> QED
    BY <1>1, <2>2
<1>3. s \in [1 .. Len(s) -> Members(s)]
  BY <1>1 DEF Members
<1>4. s \in Surjection(1 .. Len(s), Members(s))
  BY <1>3 DEF Surjection, Members
<1>5. s \in Injection(1 .. Len(s), Members(s))
  BY <1>2, <1>3 DEF Injection, IsInjective
<1>6. IsFiniteSet(1 .. Len(s)) /\ Cardinality(1 .. Len(s)) = Len(s)
  BY <1>1, FS_Interval
<1>7. IsFiniteSet(Members(s)) /\ Cardinality(Members(s)) = Cardinality(1 .. Len(s))
  BY <1>4, <1>5, <1>6, FS_Surjection
<1> QED
  BY <1>2, <1>3, <1>6, <1>7

\* A set has no two sequences in order.
LEMMA OrderUnique ==
  ASSUME NEW s \in Seq(Keyed), NEW t \in Seq(Keyed), InOrder(s), InOrder(t),
         Members(s) = Members(t)
  PROVE  s = t
<1>1. /\ Len(s) \in Nat /\ Len(t) \in Nat /\ Len(s) = Len(t)
      /\ s \in [1 .. Len(s) -> Keyed] /\ t \in [1 .. Len(s) -> Keyed]
  BY OrderCounts, LenProperties
<1> DEFINE Other == {i \in 1 .. Len(s) : s[i] # t[i]}
<1>2. SUFFICES ASSUME Other # {} PROVE FALSE
  <2>1. \A i \in 1 .. Len(s) : s[i] = t[i]
    BY <1>2
  <2> QED
    BY <1>1, <2>1
<1>3. Other \in SUBSET Nat
  BY <1>1
<1>4. PICK i \in Other : \A n \in Other : ~(n < i)
  BY <1>2, <1>3, LeastNumber
<1>5. i \in 1 .. Len(s) /\ s[i] # t[i] /\ \A k \in 1 .. Len(s) : k < i => s[k] = t[k]
  BY <1>4
<1> HIDE DEF Other
<1>6. PICK j \in 1 .. Len(s) : s[i] = t[j]
  BY <1>1, <1>5 DEF Members
<1>7. PICK k \in 1 .. Len(s) : t[i] = s[k]
  BY <1>1, <1>5 DEF Members
<1>8. i < j
  <2>1. ~(j < i)
    <3> SUFFICES ASSUME j < i PROVE FALSE
      OBVIOUS
    <3>1. s[j] = s[i]
      BY <1>5, <1>6
    <3>2. j = i
      BY <1>5, <3>1, OrderCounts
    <3> QED
      BY <1>5, <3>2
  <2> QED
    BY <1>1, <1>5, <1>6, <2>1
<1>9. i < k
  <2>1. ~(k < i)
    <3> SUFFICES ASSUME k < i PROVE FALSE
      OBVIOUS
    <3>1. t[k] = t[i]
      BY <1>5, <1>7
    <3>2. k = i
      BY <1>1, <1>5, <3>1, OrderCounts
    <3> QED
      BY <1>5, <3>2
  <2> QED
    BY <1>1, <1>5, <1>7, <2>1
<1>10. KeyBefore(t[i], t[j]) /\ KeyBefore(s[i], s[k])
  BY <1>1, <1>5, <1>8, <1>9 DEF InOrder
<1>11. s[i] \in Keyed /\ t[i] \in Keyed
  BY <1>1, <1>5
<1>12. KeyBefore(t[i], s[i]) /\ KeyBefore(s[i], t[i])
  BY <1>6, <1>7, <1>10
<1> QED
  BY <1>11, <1>12, KeysInOrder

\* One more that is after all
LEMMA OrderAppend ==
  ASSUME NEW s \in Seq(Keyed), InOrder(s), NEW e \in Keyed,
         \A i \in 1 .. Len(s) : KeyBefore(s[i], e)
  PROVE  /\ Append(s, e) \in Seq(Keyed) /\ InOrder(Append(s, e))
         /\ Len(Append(s, e)) = Len(s) + 1
         /\ Members(Append(s, e)) = Members(s) \cup {e}
         /\ \A i \in 1 .. Len(s) : Append(s, e)[i] = s[i]
         /\ Append(s, e)[Len(s) + 1] = e
<1> DEFINE t == Append(s, e)
<1>1. Len(s) \in Nat
  BY LenProperties
<1>2. /\ t \in Seq(Keyed) /\ Len(t) = Len(s) + 1
      /\ \A i \in 1 .. Len(s) : t[i] = s[i]
      /\ t[Len(s) + 1] = e
  BY AppendProperties
<1> HIDE DEF t
<1>3. InOrder(t)
  <2> SUFFICES ASSUME NEW i \in 1 .. Len(t), NEW j \in 1 .. Len(t), i < j
               PROVE  KeyBefore(t[i], t[j])
    BY DEF InOrder
  <2>1. i \in 1 .. Len(s)
    BY <1>1, <1>2
  <2>2. CASE j \in 1 .. Len(s)
    BY <1>2, <2>1, <2>2 DEF InOrder
  <2>3. CASE j = Len(s) + 1
    BY <1>2, <2>1, <2>3
  <2> QED
    BY <1>1, <1>2, <2>2, <2>3
<1>4. Members(t) = Members(s) \cup {e}
  <2>1. 1 .. Len(t) = (1 .. Len(s)) \cup {Len(s) + 1}
    BY <1>1, <1>2
  <2> QED
    BY <1>2, <2>1 DEF Members
<1> QED
  BY <1>2, <1>3, <1>4 DEF t

\* Every finite set has a sequence in order.
LEMMA OrderExists ==
  ASSUME NEW V \in SUBSET Keyed, IsFiniteSet(V)
  PROVE  \E s \in Seq(Keyed) : InOrder(s) /\ Members(s) = V
<1> DEFINE Has(W) == \E s \in Seq(Keyed) : InOrder(s) /\ Members(s) = W
           Bad == {n \in Nat : \E W \in SUBSET Keyed : IsFiniteSet(W) /\ Cardinality(W) = n /\ ~ Has(W)}
<1>1. SUFFICES ASSUME Bad # {} PROVE FALSE
  <2>1. Cardinality(V) \in Nat
    BY FS_CardinalityType
  <2> QED
    BY <1>1, <2>1
<1>2. Bad \in SUBSET Nat
  OBVIOUS
<1>3. PICK n \in Bad : \A m \in Bad : ~(m < n)
  BY <1>1, <1>2, LeastNumber
<1>4. PICK W \in SUBSET Keyed : IsFiniteSet(W) /\ Cardinality(W) = n /\ ~ Has(W)
  BY <1>3
<1>5. n \in Nat
  BY <1>3
<1>6. \A U \in SUBSET Keyed : IsFiniteSet(U) /\ Cardinality(U) = n - 1 /\ n # 0 => Has(U)
  BY <1>3, <1>5
<1> HIDE DEF Bad, Has
<1>7. W # {}
  <2>1. <<>> \in Seq(Keyed) /\ Len(<<>>) = 0
    BY EmptySeq
  <2>2. InOrder(<<>>) /\ Members(<<>>) = {}
    BY <2>1 DEF InOrder, Members
  <2> QED
    BY <1>4, <2>1, <2>2 DEF Has
<1>8. n # 0
  BY <1>4, <1>7, FS_EmptySet
<1>9. \A x \in W : Has(W \ {x})
  <2> SUFFICES ASSUME NEW x \in W PROVE Has(W \ {x})
    OBVIOUS
  <2>1. IsFiniteSet(W \ {x}) /\ Cardinality(W \ {x}) = n - 1
    BY <1>4, FS_RemoveElement
  <2>2. W \ {x} \in SUBSET Keyed
    OBVIOUS
  <2> QED
    BY <1>6, <1>8, <2>1, <2>2
<1>10. \A x \in W : \E y \in W : KeyBefore(x, y)
  <2> SUFFICES ASSUME NEW x \in W, \A y \in W : ~ KeyBefore(x, y) PROVE FALSE
    OBVIOUS
  <2>1. PICK s \in Seq(Keyed) : InOrder(s) /\ Members(s) = W \ {x}
    BY <1>9 DEF Has
  <2>2. \A i \in 1 .. Len(s) : s[i] \in W /\ s[i] # x
    BY <2>1 DEF Members
  <2>3. x \in Keyed
    OBVIOUS
  <2>4. \A i \in 1 .. Len(s) : KeyBefore(s[i], x)
    BY <2>2, <2>3, KeysInOrder
  <2>5. /\ Append(s, x) \in Seq(Keyed) /\ InOrder(Append(s, x))
        /\ Members(Append(s, x)) = (W \ {x}) \cup {x}
    BY <2>1, <2>3, <2>4, OrderAppend
  <2>6. (W \ {x}) \cup {x} = W
    OBVIOUS
  <2> QED
    BY <1>4, <2>5, <2>6 DEF Has
<1>11. PICK x : x \in W
  BY <1>7
<1>12. PICK s \in Seq(Keyed) : InOrder(s) /\ Members(s) = W \ {x}
  BY <1>9, <1>11 DEF Has
<1>13. Len(s) \in Nat /\ \A i \in 1 .. Len(s) : s[i] \in W /\ s[i] # x
  BY <1>12, LenProperties DEF Members
<1>14. PICK y \in W : KeyBefore(x, y)
  BY <1>10, <1>11
<1>15. x # y
  BY <1>14, <1>11, KeysInOrder
<1>16. Len(s) \in 1 .. Len(s)
  <2>1. y \in Members(s)
    BY <1>12, <1>15
  <2> QED
    BY <1>13, <2>1 DEF Members
<1>17. PICK z \in W : KeyBefore(s[Len(s)], z)
  BY <1>10, <1>13, <1>16
<1>18. s[Len(s)] \in Keyed /\ z \in Keyed /\ x \in Keyed /\ y \in Keyed
  BY <1>11, <1>13, <1>16
<1>19. z \notin Members(s)
  <2> SUFFICES ASSUME NEW i \in 1 .. Len(s), z = s[i] PROVE FALSE
    BY DEF Members
  <2>1. i = Len(s) \/ KeyBefore(s[i], s[Len(s)])
    BY <1>12, <1>13, <1>16 DEF InOrder
  <2> QED
    BY <1>17, <1>18, <2>1, KeysInOrder
<1>20. z = x
  BY <1>12, <1>19
<1>21. \A i \in 1 .. Len(s) : KeyBefore(s[i], x)
  <2> SUFFICES ASSUME NEW i \in 1 .. Len(s) PROVE KeyBefore(s[i], x)
    OBVIOUS
  <2>1. i = Len(s) \/ KeyBefore(s[i], s[Len(s)])
    BY <1>12, <1>13, <1>16 DEF InOrder
  <2>2. s[i] \in Keyed
    BY <1>13
  <2> QED
    BY <1>17, <1>18, <1>20, <2>1, <2>2, KeysInOrder
<1>22. y \in Members(s)
  BY <1>12, <1>15
<1>23. KeyBefore(y, x)
  BY <1>21, <1>22 DEF Members
<1> QED
  BY <1>14, <1>18, <1>23, KeysInOrder

\* What SortedByKey gives
LEMMA SortedOf ==
  ASSUME NEW V \in SUBSET Keyed, IsFiniteSet(V)
  PROVE  /\ SortedByKey(V) \in Seq(Keyed) /\ InOrder(SortedByKey(V))
         /\ Members(SortedByKey(V)) = V /\ Len(SortedByKey(V)) = Cardinality(V)
<1> DEFINE n == Cardinality(V)
           Fits(s) == \A i, j \in DOMAIN s : i < j => KeyBefore(s[i], s[j])
           c == CHOOSE s \in [1 .. n -> V] : Fits(s)
<1>1. PICK t \in Seq(Keyed) : InOrder(t) /\ Members(t) = V
  BY OrderExists
<1>2. t \in [1 .. Len(t) -> V] /\ Len(t) = n /\ Len(t) \in Nat
  BY <1>1, OrderCounts, LenProperties
<1>3. Fits(t)
  BY <1>1, <1>2 DEF InOrder
<1>4. c \in [1 .. n -> V] /\ Fits(c)
  <2> HIDE DEF Fits
  <2> QED
    BY <1>2, <1>3
<1>5. SortedByKey(V) = c
  BY DEF SortedByKey
<1> HIDE DEF c
<1>6. c \in [1 .. n -> Keyed] /\ n \in Nat
  BY <1>2, <1>4
<1>7. c \in Seq(Keyed) /\ Len(c) = n
  BY <1>6
<1>8. InOrder(c)
  BY <1>4, <1>7 DEF InOrder
<1>9. Members(c) \in SUBSET V
  BY <1>4, <1>7 DEF Members
<1>10. Cardinality(Members(c)) = n
  BY <1>7, <1>8, OrderCounts
<1>11. Members(c) = V
  BY <1>9, <1>10, FS_Subset
<1> QED
  BY <1>5, <1>7, <1>8, <1>11

\* A sequence in order is what SortedByKey gives of its members.
LEMMA SortedIs ==
  ASSUME NEW s \in Seq(Keyed), InOrder(s)
  PROVE  s = SortedByKey(Members(s))
<1>1. Members(s) \in SUBSET Keyed /\ IsFiniteSet(Members(s))
  BY OrderCounts, LenProperties DEF Members
<1> QED
  BY <1>1, SortedOf, OrderUnique

-----------------------------------------------------------------------------
(* What is read of a manifest                                              *)

Bit(m, i, r) == [time |-> m[i].rows[r], label |-> m[i].label, input |-> i, row |-> r]

\* The rows and events before row r of input i
RowsTo(m, i, r) == {q \in RowsOf(m) : q[1] < i \/ (q[1] = i /\ q[2] < r)}
EventsTo(m, i, r) == {e \in EventsOf(m) : e.input < i \/ (e.input = i /\ e.row < r)}

\* A manifest's inputs and rows
LEMMA ManifestShape ==
  ASSUME NEW m \in StManifests
  PROVE  /\ Len(m) \in Nat /\ DOMAIN m = 1 .. Len(m)
         /\ \A i \in 1 .. Len(m) :
              /\ m[i].label \in Nat /\ Len(m[i].rows) \in Nat
              /\ DOMAIN m[i].rows = 1 .. Len(m[i].rows)
              /\ \A r \in 1 .. Len(m[i].rows) : m[i].rows[r] \in Nat \cup {StBad}
<1> DEFINE L == [label : Nat, rows : Seq(Nat \cup {StBad})]
<1>1. m \in Seq(L)
  BY StConstants
<1> HIDE DEF L
<1>2. Len(m) \in Nat /\ DOMAIN m = 1 .. Len(m) /\ \A i \in 1 .. Len(m) : m[i] \in L
  BY <1>1, LenProperties
<1>3. ASSUME NEW i \in 1 .. Len(m)
      PROVE  /\ m[i].label \in Nat /\ Len(m[i].rows) \in Nat
             /\ DOMAIN m[i].rows = 1 .. Len(m[i].rows)
             /\ \A r \in 1 .. Len(m[i].rows) : m[i].rows[r] \in Nat \cup {StBad}
  <2>1. m[i].label \in Nat /\ m[i].rows \in Seq(Nat \cup {StBad})
    BY <1>2 DEF L
  <2>2. PICK s \in Seq(Nat \cup {StBad}) : s = m[i].rows
    BY <2>1
  <2>3. Len(s) \in Nat /\ DOMAIN s = 1 .. Len(s) /\ \A r \in 1 .. Len(s) : s[r] \in Nat \cup {StBad}
    BY LenProperties, ElementOfSeq
  <2> QED
    BY <2>1, <2>2, <2>3
<1> QED
  BY <1>2, <1>3

\* Its rows and its events, one by one
LEMMA ManifestHolds ==
  ASSUME NEW m \in StManifests
  PROVE  /\ \A q : q \in RowsOf(m) <=> \E i \in 1 .. Len(m) : \E r \in 1 .. Len(m[i].rows) : q = <<i, r>>
         /\ \A e : e \in EventsOf(m) <=>
              \E i \in 1 .. Len(m) : \E r \in 1 .. Len(m[i].rows) : m[i].rows[r] # StBad /\ e = Bit(m, i, r)
         /\ \A i \in 1 .. Len(m) : \A r \in 1 .. Len(m[i].rows) : m[i].rows[r] # StBad => Bit(m, i, r) \in Keyed
         /\ EventsOf(m) \in SUBSET Keyed
<1>1. DOMAIN m = 1 .. Len(m) /\ \A i \in 1 .. Len(m) : DOMAIN m[i].rows = 1 .. Len(m[i].rows)
  BY ManifestShape
<1>2. \A q : q \in RowsOf(m) <=> \E i \in 1 .. Len(m) : \E r \in 1 .. Len(m[i].rows) : q = <<i, r>>
  BY <1>1 DEF RowsOf
<1>3. \A e : e \in EventsOf(m) <=>
        \E i \in 1 .. Len(m) : \E r \in 1 .. Len(m[i].rows) : m[i].rows[r] # StBad /\ e = Bit(m, i, r)
  <2> DEFINE Ev(p) == [time |-> m[p[1]].rows[p[2]], label |-> m[p[1]].label, input |-> p[1], row |-> p[2]]
  <2>1. \A i, r : Ev(<<i, r>>) = Bit(m, i, r) /\ <<i, r>>[1] = i /\ <<i, r>>[2] = r
    BY DEF Bit
  <2>2. EventsOf(m) = {Ev(p) : p \in {q \in RowsOf(m) : m[q[1]].rows[q[2]] # StBad}}
    BY DEF EventsOf
  <2> HIDE DEF Ev
  <2>3. ASSUME NEW e \in EventsOf(m)
        PROVE  \E i \in 1 .. Len(m) : \E r \in 1 .. Len(m[i].rows) : m[i].rows[r] # StBad /\ e = Bit(m, i, r)
    <3>1. PICK q \in RowsOf(m) : m[q[1]].rows[q[2]] # StBad /\ e = Ev(q)
      BY <2>2
    <3>2. PICK i \in 1 .. Len(m) : \E r \in 1 .. Len(m[i].rows) : q = <<i, r>>
      BY <1>2
    <3>3. PICK r \in 1 .. Len(m[i].rows) : q = <<i, r>>
      BY <3>2
    <3>4. e = Bit(m, i, r) /\ m[i].rows[r] # StBad
      BY <2>1, <3>1, <3>3
    <3> QED
      BY <3>4
  <2>4. ASSUME NEW i \in 1 .. Len(m), NEW r \in 1 .. Len(m[i].rows), m[i].rows[r] # StBad
        PROVE  Bit(m, i, r) \in EventsOf(m)
    <3>1. <<i, r>> \in RowsOf(m)
      BY <1>2
    <3>2. <<i, r>> \in {q \in RowsOf(m) : m[q[1]].rows[q[2]] # StBad}
      BY <2>1, <2>4, <3>1
    <3>3. Ev(<<i, r>>) \in EventsOf(m)
      BY <2>2, <3>2
    <3> QED
      BY <2>1, <3>3
  <2> QED
    BY <2>3, <2>4
<1>4. ASSUME NEW i \in 1 .. Len(m), NEW r \in 1 .. Len(m[i].rows), m[i].rows[r] # StBad
      PROVE  Bit(m, i, r) \in Keyed
  <2>1. m[i].label \in Nat /\ m[i].rows[r] \in Nat /\ i \in Nat /\ r \in Nat
    BY <1>4, ManifestShape
  <2> QED
    BY <2>1 DEF Bit, Keyed
<1>5. EventsOf(m) \in SUBSET Keyed
  BY <1>3, <1>4
<1> QED
  BY <1>2, <1>3, <1>4, <1>5

\* Nothing is before the first row.
LEMMA ReadNothing ==
  ASSUME NEW m \in StManifests
  PROVE  RowsTo(m, 1, 1) = {} /\ EventsTo(m, 1, 1) = {}
<1>1. \A q \in RowsOf(m) : q[1] \in Nat \ {0} /\ q[2] \in Nat \ {0}
  BY ManifestShape, ManifestHolds
<1>2. \A e \in EventsOf(m) : e.input \in Nat \ {0} /\ e.row \in Nat \ {0}
  <2> SUFFICES ASSUME NEW e \in EventsOf(m) PROVE e.input \in Nat \ {0} /\ e.row \in Nat \ {0}
    OBVIOUS
  <2>1. PICK i \in 1 .. Len(m) : \E r \in 1 .. Len(m[i].rows) : e = Bit(m, i, r)
    BY ManifestHolds
  <2>2. PICK r \in 1 .. Len(m[i].rows) : e = Bit(m, i, r)
    BY <2>1
  <2>3. e.input = i /\ e.row = r
    BY <2>2 DEF Bit
  <2> QED
    BY <2>3, ManifestShape
<1> QED
  BY <1>1, <1>2 DEF RowsTo, EventsTo

\* The row that is next
LEMMA ReadOne ==
  ASSUME NEW m \in StManifests, NEW i \in 1 .. Len(m), NEW r \in 1 .. Len(m[i].rows)
  PROVE  /\ RowsTo(m, i, r + 1) = RowsTo(m, i, r) \cup {<<i, r>>} /\ <<i, r>> \notin RowsTo(m, i, r)
         /\ EventsTo(m, i, r + 1) = EventsTo(m, i, r) \cup (IF m[i].rows[r] = StBad THEN {} ELSE {Bit(m, i, r)})
         /\ Bit(m, i, r) \notin EventsTo(m, i, r)
<1>1. i \in Nat /\ r \in Nat
  BY ManifestShape
<1>2. RowsTo(m, i, r + 1) = RowsTo(m, i, r) \cup {<<i, r>>}
  <2>1. <<i, r>> \in RowsOf(m)
    BY ManifestHolds
  <2>2. \A q \in RowsOf(m) : q[1] \in Nat /\ q[2] \in Nat /\ q = <<q[1], q[2]>>
    BY ManifestShape, ManifestHolds
  <2>3. \A q \in RowsOf(m) : (q[1] < i \/ (q[1] = i /\ q[2] < r + 1))
                               <=> (q[1] < i \/ (q[1] = i /\ q[2] < r)) \/ q = <<i, r>>
    <3> SUFFICES ASSUME NEW q \in RowsOf(m)
                 PROVE  (q[1] < i \/ (q[1] = i /\ q[2] < r + 1))
                               <=> (q[1] < i \/ (q[1] = i /\ q[2] < r)) \/ q = <<i, r>>
      OBVIOUS
    <3>1. q = <<i, r>> <=> q[1] = i /\ q[2] = r
      BY <2>2
    <3> QED
      BY <1>1, <2>2, <3>1
  <2> QED
    BY <2>1, <2>3 DEF RowsTo
<1>3. <<i, r>> \notin RowsTo(m, i, r)
  BY <1>1 DEF RowsTo
<1>4. Bit(m, i, r) \notin EventsTo(m, i, r)
  BY <1>1 DEF EventsTo, Bit
<1>5. \A e \in EventsOf(m) : (e.input < i \/ (e.input = i /\ e.row < r + 1))
                               <=> (e.input < i \/ (e.input = i /\ e.row < r)) \/ e = Bit(m, i, r)
  <2> SUFFICES ASSUME NEW e \in EventsOf(m)
               PROVE  (e.input < i \/ (e.input = i /\ e.row < r + 1))
                        <=> (e.input < i \/ (e.input = i /\ e.row < r)) \/ e = Bit(m, i, r)
    OBVIOUS
  <2>1. PICK j \in 1 .. Len(m) : \E k \in 1 .. Len(m[j].rows) : e = Bit(m, j, k)
    BY ManifestHolds
  <2>2. PICK k \in 1 .. Len(m[j].rows) : e = Bit(m, j, k)
    BY <2>1
  <2>3. e.input = j /\ e.row = k /\ j \in Nat /\ k \in Nat
    BY <2>2, ManifestShape DEF Bit
  <2>4. e = Bit(m, i, r) <=> j = i /\ k = r
    BY <2>2, <2>3 DEF Bit
  <2> QED
    BY <1>1, <2>3, <2>4
<1>6. EventsTo(m, i, r + 1) = EventsTo(m, i, r) \cup (IF m[i].rows[r] = StBad THEN {} ELSE {Bit(m, i, r)})
  <2>1. CASE m[i].rows[r] = StBad
    <3>1. Bit(m, i, r) \notin EventsOf(m)
      <4> SUFFICES ASSUME Bit(m, i, r) \in EventsOf(m) PROVE FALSE
        OBVIOUS
      <4>1. PICK j \in 1 .. Len(m) : \E k \in 1 .. Len(m[j].rows) :
                   m[j].rows[k] # StBad /\ Bit(m, i, r) = Bit(m, j, k)
        BY ManifestHolds
      <4>2. PICK k \in 1 .. Len(m[j].rows) : m[j].rows[k] # StBad /\ Bit(m, i, r) = Bit(m, j, k)
        BY <4>1
      <4>3. i = j /\ r = k
        BY <4>2 DEF Bit
      <4> QED
        BY <2>1, <4>2, <4>3
    <3> QED
      BY <1>5, <2>1, <3>1 DEF EventsTo
  <2>2. CASE m[i].rows[r] # StBad
    <3>1. Bit(m, i, r) \in EventsOf(m)
      BY <2>2, ManifestHolds
    <3> QED
      BY <1>5, <2>2, <3>1 DEF EventsTo
  <2> QED
    BY <2>1, <2>2
<1> QED
  BY <1>2, <1>3, <1>4, <1>6

\* The input that is next, and the end
LEMMA ReadOn ==
  ASSUME NEW m \in StManifests, NEW i \in Nat \ {0}, NEW r \in Nat \ {0},
         i \in 1 .. Len(m) => r > Len(m[i].rows)
  PROVE  /\ RowsTo(m, i + 1, 1) = RowsTo(m, i, r) /\ EventsTo(m, i + 1, 1) = EventsTo(m, i, r)
         /\ i > Len(m) => RowsTo(m, i, r) = RowsOf(m) /\ EventsTo(m, i, r) = EventsOf(m)
<1>1. \A j \in 1 .. Len(m) : \A k \in 1 .. Len(m[j].rows) :
        /\ j < i + 1 \/ (j = i + 1 /\ k < 1) <=> j < i \/ (j = i /\ k < r)
        /\ i > Len(m) => j < i
  BY ManifestShape
<1>2. \A q \in RowsOf(m) :
        /\ q[1] < i + 1 \/ (q[1] = i + 1 /\ q[2] < 1) <=> q[1] < i \/ (q[1] = i /\ q[2] < r)
        /\ i > Len(m) => q[1] < i
  <2> SUFFICES ASSUME NEW q \in RowsOf(m)
               PROVE  /\ q[1] < i + 1 \/ (q[1] = i + 1 /\ q[2] < 1) <=> q[1] < i \/ (q[1] = i /\ q[2] < r)
                      /\ i > Len(m) => q[1] < i
    OBVIOUS
  <2>1. PICK j \in 1 .. Len(m) : \E k \in 1 .. Len(m[j].rows) : q = <<j, k>>
    BY ManifestHolds
  <2>2. PICK k \in 1 .. Len(m[j].rows) : q = <<j, k>>
    BY <2>1
  <2>3. q[1] = j /\ q[2] = k
    BY <2>2
  <2> QED
    BY <1>1, <2>3
<1>3. \A e \in EventsOf(m) :
        /\ e.input < i + 1 \/ (e.input = i + 1 /\ e.row < 1) <=> e.input < i \/ (e.input = i /\ e.row < r)
        /\ i > Len(m) => e.input < i
  <2> SUFFICES ASSUME NEW e \in EventsOf(m)
               PROVE  /\ e.input < i + 1 \/ (e.input = i + 1 /\ e.row < 1)
                           <=> e.input < i \/ (e.input = i /\ e.row < r)
                      /\ i > Len(m) => e.input < i
    OBVIOUS
  <2>1. PICK j \in 1 .. Len(m) : \E k \in 1 .. Len(m[j].rows) : e = Bit(m, j, k)
    BY ManifestHolds
  <2>2. PICK k \in 1 .. Len(m[j].rows) : e = Bit(m, j, k)
    BY <2>1
  <2>3. e.input = j /\ e.row = k
    BY <2>2 DEF Bit
  <2> QED
    BY <1>1, <2>3
<1>4. RowsTo(m, i + 1, 1) = RowsTo(m, i, r) /\ (i > Len(m) => RowsTo(m, i, r) = RowsOf(m))
  BY <1>2 DEF RowsTo
<1>5. EventsTo(m, i + 1, 1) = EventsTo(m, i, r) /\ (i > Len(m) => EventsTo(m, i, r) = EventsOf(m))
  BY <1>3 DEF EventsTo
<1> QED
  BY <1>4, <1>5
-----------------------------------------------------------------------------
(* The summary                                                             *)

Told(V) == {e \in V : e.time \in StTold}

\* The summary of nothing
LEMMA SummaryNone == SummaryOf({}) = <<>> /\ SortedByKey({}) = <<>> /\ Cardinality(Told({})) = 0
<1>1. <<>> \in Seq(Keyed) /\ Len(<<>>) = 0
  BY EmptySeq
<1>2. InOrder(<<>>) /\ Members(<<>>) = {}
  BY <1>1 DEF InOrder, Members
<1>3. SortedByKey({}) = <<>>
  BY <1>1, <1>2, SortedIs
<1>4. {e \in {} : e.time \in StTold} = {}
  OBVIOUS
<1>5. SummaryOf({}) = SubSeq(<<>>, 1, IF 0 < StSummaryLimit THEN 0 ELSE StSummaryLimit)
  BY <1>1, <1>3, <1>4 DEF SummaryOf
<1>6. (IF 0 < StSummaryLimit THEN 0 ELSE StSummaryLimit) = 0
  BY StConstants
<1>7. SubSeq(<<>>, 1, 0) = <<>>
  BY SubSeqEmpty
<1>8. Cardinality({}) = 0
  BY FS_EmptySet
<1> QED
  BY <1>3, <1>4, <1>5, <1>6, <1>7, <1>8 DEF Told

\* The summary keeps its limit, and an event that comes after all others is
\* in it if it matches and there is room.
LEMMA SummaryNext ==
  ASSUME NEW V \in SUBSET Keyed, IsFiniteSet(V), NEW e \in Keyed, \A d \in V : KeyBefore(d, e)
  PROVE  /\ Len(SummaryOf(V)) <= StSummaryLimit
         /\ Cardinality(Told(V)) \in Nat
         /\ Cardinality(Told(V \cup {e})) = Cardinality(Told(V)) + (IF Matches(e) THEN 1 ELSE 0)
         /\ SummaryOf(V \cup {e}) = IF Matches(e) /\ Len(SummaryOf(V)) < StSummaryLimit
                                    THEN Append(SummaryOf(V), e) ELSE SummaryOf(V)
<1> DEFINE t == SortedByKey(Told(V))
           k == IF Len(t) < StSummaryLimit THEN Len(t) ELSE StSummaryLimit
<1>1. Told(V) \in SUBSET Keyed /\ IsFiniteSet(Told(V))
  <2>1. Told(V) \in SUBSET V
    BY DEF Told
  <2> QED
    BY <2>1, FS_Subset
<1>2. /\ t \in Seq(Keyed) /\ InOrder(t) /\ Members(t) = Told(V) /\ Len(t) = Cardinality(Told(V))
      /\ Len(t) \in Nat
  <2>1. /\ t \in Seq(Keyed) /\ InOrder(t) /\ Members(t) = Told(V) /\ Len(t) = Cardinality(Told(V))
    BY <1>1, SortedOf
  <2> QED
    BY <2>1, LenProperties
<1>3. SummaryOf(V) = SubSeq(t, 1, k)
  BY DEF SummaryOf, Told
<1>4. StSummaryLimit \in Nat
  BY StConstants
<1>5. k \in 0 .. Len(t) /\ k <= StSummaryLimit
  BY <1>2, <1>4
<1>6. \A d \in Told(V) : KeyBefore(d, e)
  BY DEF Told
<1> HIDE DEF t, k
<1>7. \A u \in Seq(Keyed) : \A n \in 0 .. Len(u) :
        /\ SubSeq(u, 1, n) \in Seq(Keyed) /\ Len(SubSeq(u, 1, n)) = n
        /\ \A i \in 1 .. n : SubSeq(u, 1, n)[i] = u[i]
  <2> SUFFICES ASSUME NEW u \in Seq(Keyed), NEW n \in 0 .. Len(u)
               PROVE  /\ SubSeq(u, 1, n) \in Seq(Keyed) /\ Len(SubSeq(u, 1, n)) = n
                      /\ \A i \in 1 .. n : SubSeq(u, 1, n)[i] = u[i]
    OBVIOUS
  <2>1. Len(u) \in Nat /\ \A i \in 1 .. Len(u) : u[i] \in Keyed
    BY LenProperties
  <2>2. n \in Int /\ 1 \in Int /\ \A i \in 1 .. n : u[i] \in Keyed
    BY <2>1
  <2>3. /\ SubSeq(u, 1, n) \in Seq(Keyed)
        /\ Len(SubSeq(u, 1, n)) = IF 1 <= n THEN n - 1 + 1 ELSE 0
        /\ \A i \in 1 .. n - 1 + 1 : SubSeq(u, 1, n)[i] = u[1 + i - 1]
    BY <2>2, SubSeqProperties
  <2>4. n \in Nat
    BY <2>1
  <2>5. Len(SubSeq(u, 1, n)) = n
    BY <2>3, <2>4
  <2>6. \A i \in 1 .. n : i \in 1 .. n - 1 + 1 /\ 1 + i - 1 = i
    BY <2>4
  <2> QED
    BY <2>3, <2>5, <2>6
<1>8. Len(SummaryOf(V)) = k
  BY <1>2, <1>3, <1>5, <1>7
<1>9. CASE ~ Matches(e)
  <2>1. Told(V \cup {e}) = Told(V)
    BY <1>9 DEF Told, Matches
  <2>2. SummaryOf(V \cup {e}) = SummaryOf(V)
    BY <2>1 DEF SummaryOf, Told
  <2> QED
    BY <1>2, <1>5, <1>8, <1>9, <2>1, <2>2
<1>10. CASE Matches(e)
  <2> DEFINE u == Append(t, e)
  <2>1. Told(V \cup {e}) = Told(V) \cup {e}
    BY <1>10 DEF Told, Matches
  <2>2. \A i \in 1 .. Len(t) : KeyBefore(t[i], e)
    BY <1>2, <1>6 DEF Members
  <2>3. /\ u \in Seq(Keyed) /\ InOrder(u) /\ Members(u) = Told(V) \cup {e} /\ Len(u) = Len(t) + 1
        /\ \A i \in 1 .. Len(t) : u[i] = t[i]
        /\ u[Len(t) + 1] = e
    BY <1>2, <2>2, OrderAppend
  <2> HIDE DEF u
  <2>4. SortedByKey(Told(V \cup {e})) = u
    BY <2>1, <2>3, SortedIs
  <2>5. Cardinality(Told(V \cup {e})) = Len(u)
    BY <2>1, <2>3, OrderCounts
  <2>6. SummaryOf(V \cup {e}) = SubSeq(u, 1, IF Len(u) < StSummaryLimit THEN Len(u) ELSE StSummaryLimit)
    BY <2>4 DEF SummaryOf, Told
  <2>7. CASE k < StSummaryLimit
    <3>1. k = Len(t) /\ (IF Len(u) < StSummaryLimit THEN Len(u) ELSE StSummaryLimit) = Len(u)
      BY <1>2, <1>4, <2>3, <2>7 DEF k
    <3>2. SubSeq(u, 1, Len(u)) = u /\ SubSeq(t, 1, Len(t)) = t
      BY <1>2, <2>3
    <3> QED
      BY <1>2, <1>3, <1>5, <1>8, <1>10, <2>3, <2>5, <2>6, <2>7, <3>1, <3>2 DEF u
  <2>8. CASE ~(k < StSummaryLimit)
    <3>1. k = StSummaryLimit /\ (IF Len(u) < StSummaryLimit THEN Len(u) ELSE StSummaryLimit) = k
      BY <1>2, <1>4, <1>5, <2>3, <2>8 DEF k
    <3>2. k \in 0 .. Len(u) /\ k \in Nat
      BY <1>2, <1>5, <2>3
    <3>3. /\ SubSeq(u, 1, k) \in Seq(Keyed) /\ Len(SubSeq(u, 1, k)) = k
          /\ \A i \in 1 .. k : SubSeq(u, 1, k)[i] = u[i]
      BY <1>7, <2>3, <3>2
    <3>4. /\ SubSeq(t, 1, k) \in Seq(Keyed) /\ Len(SubSeq(t, 1, k)) = k
          /\ \A i \in 1 .. k : SubSeq(t, 1, k)[i] = t[i]
      BY <1>2, <1>5, <1>7
    <3>5. \A i \in 1 .. k : u[i] = t[i]
      BY <1>2, <1>5, <2>3
    <3>6. SubSeq(u, 1, k) = SubSeq(t, 1, k)
      BY <3>3, <3>4, <3>5
    <3> QED
      BY <1>2, <1>3, <1>5, <1>8, <1>10, <2>3, <2>5, <2>6, <2>8, <3>1, <3>6
  <2> QED
    BY <2>7, <2>8
<1> QED
  BY <1>9, <1>10

-----------------------------------------------------------------------------
(* The chunks                                                              *)

Pending(chunks) == UNION {Members(chunks[c]) : c \in 1 .. Len(chunks)}

ChunksOK(chunks) ==
    /\ chunks \in Seq(Seq(Keyed))
    /\ \A c \in 1 .. Len(chunks) : InOrder(chunks[c])
    /\ \A c, d \in 1 .. Len(chunks) : c # d => Members(chunks[c]) \cap Members(chunks[d]) = {}

\* No chunks
LEMMA ChunksNone == ChunksOK(<<>>) /\ Pending(<<>>) = {}
<1>1. Len(<<>>) = 0 /\ <<>> \in Seq(Seq(Keyed))
  BY EmptySeq
<1> QED
  BY <1>1 DEF ChunksOK, Pending

\* One more chunk, of events that no other has
LEMMA ChunksMore ==
  ASSUME NEW chunks, ChunksOK(chunks), NEW V \in SUBSET Keyed, IsFiniteSet(V),
         V \cap Pending(chunks) = {}
  PROVE  /\ ChunksOK(Append(chunks, SortedByKey(V)))
         /\ Pending(Append(chunks, SortedByKey(V))) = Pending(chunks) \cup V
<1>1. PICK s \in Seq(Keyed) : s = SortedByKey(V) /\ InOrder(s) /\ Members(s) = V
  BY SortedOf
<1>2. PICK more : more = Append(chunks, s)
  OBVIOUS
<1> DEFINE S == Seq(Keyed)
<1>3. chunks \in Seq(S) /\ s \in S
  BY DEF ChunksOK
<1> HIDE DEF S
<1>4. /\ more \in Seq(S) /\ Len(more) = Len(chunks) + 1 /\ Len(chunks) \in Nat
      /\ \A c \in 1 .. Len(chunks) : more[c] = chunks[c]
      /\ more[Len(chunks) + 1] = s
  BY <1>2, <1>3, AppendProperties, LenProperties
<1>5. 1 .. Len(more) = (1 .. Len(chunks)) \cup {Len(chunks) + 1}
  BY <1>4
<1>6. \A c \in 1 .. Len(chunks) : Members(chunks[c]) \cap V = {}
  BY DEF Pending
<1>7. \A c \in 1 .. Len(more) : InOrder(more[c])
  BY <1>1, <1>4, <1>5 DEF ChunksOK
<1>8. \A c, d \in 1 .. Len(more) : c # d => Members(more[c]) \cap Members(more[d]) = {}
  <2> SUFFICES ASSUME NEW c \in 1 .. Len(more), NEW d \in 1 .. Len(more), c # d
               PROVE  Members(more[c]) \cap Members(more[d]) = {}
    OBVIOUS
  <2>1. CASE c \in 1 .. Len(chunks) /\ d \in 1 .. Len(chunks)
    BY <1>4, <2>1 DEF ChunksOK
  <2>2. CASE c \in 1 .. Len(chunks) /\ d = Len(chunks) + 1
    BY <1>1, <1>4, <1>6, <2>2
  <2>3. CASE c = Len(chunks) + 1 /\ d \in 1 .. Len(chunks)
    BY <1>1, <1>4, <1>6, <2>3
  <2> QED
    BY <1>5, <2>1, <2>2, <2>3
<1>9. Pending(more) = Pending(chunks) \cup V
  <2>1. ASSUME NEW e \in Pending(more) PROVE e \in Pending(chunks) \cup V
    <3>1. PICK c \in 1 .. Len(more) : e \in Members(more[c])
      BY DEF Pending
    <3>2. CASE c \in 1 .. Len(chunks)
      BY <1>4, <3>1, <3>2 DEF Pending
    <3>3. CASE c = Len(chunks) + 1
      BY <1>1, <1>4, <3>1, <3>3
    <3> QED
      BY <1>5, <3>2, <3>3
  <2>2. ASSUME NEW e \in Pending(chunks) PROVE e \in Pending(more)
    <3>1. PICK c \in 1 .. Len(chunks) : e \in Members(chunks[c])
      BY DEF Pending
    <3>2. c \in 1 .. Len(more) /\ e \in Members(more[c])
      BY <1>4, <1>5, <3>1
    <3> QED
      BY <3>2 DEF Pending
  <2>3. ASSUME NEW e \in V PROVE e \in Pending(more)
    <3>1. Len(chunks) + 1 \in 1 .. Len(more) /\ e \in Members(more[Len(chunks) + 1])
      BY <1>1, <1>4, <1>5
    <3> QED
      BY <3>1 DEF Pending
  <2> QED
    BY <2>1, <2>2, <2>3
<1>10. ChunksOK(more)
  BY <1>4, <1>7, <1>8 DEF ChunksOK, S
<1> QED
  BY <1>1, <1>2, <1>9, <1>10

\* A sequence in order without its head
LEMMA OrderTail ==
  ASSUME NEW s \in Seq(Keyed), InOrder(s), s # <<>>
  PROVE  /\ Head(s) \in Keyed /\ Head(s) \in Members(s)
         /\ Tail(s) \in Seq(Keyed) /\ InOrder(Tail(s))
         /\ Members(Tail(s)) = Members(s) \ {Head(s)}
         /\ \A e \in Members(Tail(s)) : KeyBefore(Head(s), e)
<1>1. PICK t : t = Tail(s)
  OBVIOUS
<1>2. /\ Head(s) \in Keyed /\ t \in Seq(Keyed) /\ Len(t) = Len(s) - 1 /\ Len(s) \in Nat /\ Len(t) \in Nat
      /\ \A i \in 1 .. Len(t) : t[i] = s[i + 1]
      /\ \A i \in 1 .. Len(s) : s[i] \in Keyed
  BY <1>1, HeadTailProperties, LenProperties
<1>3. Head(s) = s[1]
  OBVIOUS
<1>4. 1 \in 1 .. Len(s) /\ \A i \in 1 .. Len(t) : i + 1 \in 1 .. Len(s) /\ 1 < i + 1
  BY <1>2
<1>5. \A j \in 1 .. Len(s) : j # 1 => j - 1 \in 1 .. Len(t) /\ (j - 1) + 1 = j
  BY <1>2
<1>6. InOrder(t)
  <2> SUFFICES ASSUME NEW i \in 1 .. Len(t), NEW j \in 1 .. Len(t), i < j PROVE KeyBefore(t[i], t[j])
    BY DEF InOrder
  <2>1. i + 1 < j + 1
    BY <1>2
  <2> QED
    BY <1>2, <1>4, <2>1 DEF InOrder
<1>7. \A i \in 1 .. Len(t) : KeyBefore(s[1], t[i])
  BY <1>2, <1>4 DEF InOrder
<1>8. \A i \in 1 .. Len(t) : t[i] # s[1]
  BY <1>2, <1>4, <1>7, KeysInOrder
<1>9. Members(t) = Members(s) \ {s[1]}
  <2>1. ASSUME NEW e \in Members(t) PROVE e \in Members(s) \ {s[1]}
    BY <1>2, <1>4, <1>8 DEF Members
  <2>2. ASSUME NEW e \in Members(s), e # s[1] PROVE e \in Members(t)
    <3>1. PICK j \in 1 .. Len(s) : e = s[j]
      BY DEF Members
    <3>2. j - 1 \in 1 .. Len(t) /\ t[j - 1] = e
      BY <1>2, <1>5, <2>2, <3>1
    <3> QED
      BY <3>2 DEF Members
  <2> QED
    BY <2>1, <2>2
<1>10. s[1] \in Members(s)
  BY <1>4 DEF Members
<1> QED
  BY <1>1, <1>2, <1>3, <1>6, <1>7, <1>9, <1>10 DEF Members

\* The least of the heads is the least of all that is pending.
LEMMA ChunksTake ==
  ASSUME NEW chunks, ChunksOK(chunks), NEW c \in 1 .. Len(chunks), chunks[c] # <<>>,
         \A d \in 1 .. Len(chunks) : d # c /\ chunks[d] # <<>> => KeyBefore(Head(chunks[c]), Head(chunks[d]))
  PROVE  /\ Head(chunks[c]) \in Keyed /\ Head(chunks[c]) \in Pending(chunks)
         /\ ChunksOK([chunks EXCEPT ![c] = Tail(chunks[c])])
         /\ Pending([chunks EXCEPT ![c] = Tail(chunks[c])]) = Pending(chunks) \ {Head(chunks[c])}
         /\ \A e \in Pending(chunks) \ {Head(chunks[c])} : KeyBefore(Head(chunks[c]), e)
<1> DEFINE S == Seq(Keyed)
<1>1. chunks \in Seq(S)
  BY DEF ChunksOK
<1>2. \A d \in 1 .. Len(chunks) : chunks[d] \in Seq(Keyed) /\ InOrder(chunks[d])
  <2> HIDE DEF S
  <2>1. \A d \in 1 .. Len(chunks) : chunks[d] \in S
    BY <1>1, ElementOfSeq
  <2> QED
    BY <2>1 DEF S, ChunksOK
<1> HIDE DEF S
<1>3. PICK h : h = Head(chunks[c])
  OBVIOUS
<1>4. PICK t : t = Tail(chunks[c])
  OBVIOUS
<1>5. /\ h \in Keyed /\ h \in Members(chunks[c]) /\ t \in S /\ InOrder(t)
      /\ Members(t) = Members(chunks[c]) \ {h}
      /\ \A e \in Members(t) : KeyBefore(h, e)
  BY <1>2, <1>3, <1>4, OrderTail DEF S
<1>6. PICK rest : rest = [chunks EXCEPT ![c] = t]
  OBVIOUS
<1>7. /\ rest \in Seq(S) /\ Len(rest) = Len(chunks) /\ rest[c] = t
      /\ \A d \in 1 .. Len(chunks) : d # c => rest[d] = chunks[d]
  <2>1. Len(chunks) \in Nat /\ chunks \in [1 .. Len(chunks) -> S]
    BY <1>1, LenProperties
  <2>2. rest \in [1 .. Len(chunks) -> S]
    BY <1>5, <1>6, <2>1
  <2>3. rest \in Seq(S) /\ Len(rest) = Len(chunks)
    BY <2>1, <2>2
  <2> QED
    BY <1>6, <2>1, <2>3
<1>8. \A d \in 1 .. Len(chunks) : \A e \in Members(chunks[d]) : d # c => e # h /\ KeyBefore(h, e)
  <2> SUFFICES ASSUME NEW d \in 1 .. Len(chunks), d # c, NEW e \in Members(chunks[d])
               PROVE  e # h /\ KeyBefore(h, e)
    OBVIOUS
  <2>1. e # h
    BY <1>5 DEF ChunksOK
  <2>2. PICK u \in Seq(Keyed) : u = chunks[d] /\ InOrder(u)
    BY <1>2
  <2>3. u # <<>>
    BY <2>2 DEF Members
  <2>4. /\ Head(u) \in Keyed /\ Members(Tail(u)) = Members(u) \ {Head(u)}
        /\ \A f \in Members(Tail(u)) : KeyBefore(Head(u), f)
    BY <2>2, <2>3, OrderTail
  <2>5. KeyBefore(h, Head(u))
    BY <1>3, <2>2, <2>3
  <2>6. e = Head(u) \/ KeyBefore(Head(u), e)
    BY <2>2, <2>4
  <2>7. e \in Keyed
    BY <2>2, LenProperties DEF Members
  <2> QED
    BY <1>5, <2>1, <2>4, <2>5, <2>6, <2>7, KeysInOrder
<1>9. \A d \in 1 .. Len(rest) : Members(rest[d]) = Members(chunks[d]) \ {h}
  <2> SUFFICES ASSUME NEW d \in 1 .. Len(rest) PROVE Members(rest[d]) = Members(chunks[d]) \ {h}
    OBVIOUS
  <2>1. CASE d = c
    BY <1>5, <1>7, <2>1
  <2>2. CASE d # c
    <3>1. rest[d] = chunks[d] /\ h \notin Members(chunks[d])
      BY <1>7, <1>8, <2>2
    <3> QED
      BY <3>1
  <2> QED
    BY <2>1, <2>2
<1>10. \A d \in 1 .. Len(rest) : InOrder(rest[d])
  BY <1>2, <1>5, <1>7
<1>11. \A a, b \in 1 .. Len(rest) : a # b => Members(rest[a]) \cap Members(rest[b]) = {}
  BY <1>7, <1>9 DEF ChunksOK
<1>12. ChunksOK(rest)
  BY <1>7, <1>10, <1>11 DEF ChunksOK, S
<1>13. Pending(rest) = Pending(chunks) \ {h}
  <2>1. ASSUME NEW e \in Pending(rest) PROVE e \in Pending(chunks) \ {h}
    <3>1. PICK d \in 1 .. Len(rest) : e \in Members(rest[d])
      BY DEF Pending
    <3>2. d \in 1 .. Len(chunks) /\ e \in Members(chunks[d]) /\ e # h
      BY <1>7, <1>9, <3>1
    <3> QED
      BY <3>2 DEF Pending
  <2>2. ASSUME NEW e \in Pending(chunks), e # h PROVE e \in Pending(rest)
    <3>1. PICK d \in 1 .. Len(chunks) : e \in Members(chunks[d])
      BY DEF Pending
    <3>2. d \in 1 .. Len(rest) /\ e \in Members(rest[d])
      BY <1>7, <1>9, <2>2, <3>1
    <3> QED
      BY <3>2 DEF Pending
  <2> QED
    BY <2>1, <2>2
<1>14. \A e \in Pending(chunks) \ {h} : KeyBefore(h, e)
  <2> SUFFICES ASSUME NEW e \in Pending(chunks), e # h PROVE KeyBefore(h, e)
    OBVIOUS
  <2>1. PICK d \in 1 .. Len(chunks) : e \in Members(chunks[d])
    BY DEF Pending
  <2> QED
    BY <1>5, <1>8, <2>1
<1>15. h \in Pending(chunks)
  BY <1>5 DEF Pending
<1> QED
  BY <1>3, <1>4, <1>5, <1>6, <1>12, <1>13, <1>14, <1>15

\* Nothing is pending when no chunk is open.
LEMMA ChunksClosed ==
  ASSUME ChunksOK(stChunks)
  PROVE  /\ StOpenChunks = {c \in 1 .. Len(stChunks) : stChunks[c] # <<>>}
         /\ StOpenChunks = {} => Pending(stChunks) = {}
         /\ Pending(stChunks) \in SUBSET Keyed
<1> DEFINE S == Seq(Keyed)
<1>1. stChunks \in Seq(S)
  BY DEF ChunksOK
<1> HIDE DEF S
<1>2. DOMAIN stChunks = 1 .. Len(stChunks) /\ \A c \in 1 .. Len(stChunks) : stChunks[c] \in S
  BY <1>1, LenProperties, ElementOfSeq
<1>3. StOpenChunks = {c \in 1 .. Len(stChunks) : stChunks[c] # <<>>}
  BY <1>2 DEF StOpenChunks
<1>4. \A s \in S : Members(s) \in SUBSET Keyed
  BY LenProperties DEF S, Members
<1>5. Pending(stChunks) \in SUBSET Keyed
  BY <1>2, <1>4 DEF Pending
<1>6. Members(<<>>) = {}
  BY EmptySeq DEF Members
<1>7. ASSUME StOpenChunks = {} PROVE Pending(stChunks) = {}
  <2>1. \A c \in 1 .. Len(stChunks) : Members(stChunks[c]) = {}
    BY <1>3, <1>6, <1>7
  <2> QED
    BY <2>1 DEF Pending
<1> QED
  BY <1>3, <1>5, <1>7

-----------------------------------------------------------------------------
(* What memory, chunks and merged events hold together                     *)

Keeps(records, chunks, merged) ==
    /\ records \in SUBSET Keyed /\ IsFiniteSet(records) /\ Cardinality(records) < StChunk
    /\ ChunksOK(chunks) /\ records \cap Pending(chunks) = {}
    /\ merged \in Seq(Keyed) /\ InOrder(merged)
    /\ \A i \in 1 .. Len(merged) : \A e \in Pending(chunks) : KeyBefore(merged[i], e)

\* Every row before row r of input i is rejected, or its event held.
Accounted(m, i, r, held, rejected) ==
    /\ rejected \in Nat /\ IsFiniteSet(RowsTo(m, i, r)) /\ IsFiniteSet(EventsTo(m, i, r))
    /\ Cardinality(RowsTo(m, i, r)) = Cardinality(EventsTo(m, i, r)) + rejected
    /\ held = EventsTo(m, i, r)

\* At the start nothing is held, and no row has been read.
LEMMA KeepsNone ==
  /\ Keeps({}, <<>>, <<>>) /\ Members(<<>>) = {}
  /\ \A m \in StManifests : Accounted(m, 1, 1, {} \cup Pending(<<>>) \cup Members(<<>>), 0)
<1>1. Len(<<>>) = 0 /\ <<>> \in Seq(Keyed)
  BY EmptySeq
<1>2. IsFiniteSet({}) /\ Cardinality({}) = 0
  BY FS_EmptySet
<1>3. InOrder(<<>>) /\ Members(<<>>) = {}
  BY <1>1 DEF InOrder, Members
<1>4. Keeps({}, <<>>, <<>>)
  BY <1>1, <1>2, <1>3, ChunksNone, StConstants DEF Keeps
<1>5. \A m \in StManifests : Accounted(m, 1, 1, {} \cup Pending(<<>>) \cup Members(<<>>), 0)
  <2> SUFFICES ASSUME NEW m \in StManifests PROVE Accounted(m, 1, 1, {} \cup Pending(<<>>) \cup Members(<<>>), 0)
    OBVIOUS
  <2>1. RowsTo(m, 1, 1) = {} /\ EventsTo(m, 1, 1) = {}
    BY ReadNothing
  <2>2. {} \cup Pending(<<>>) \cup Members(<<>>) = {}
    BY <1>3, ChunksNone
  <2>3. Cardinality({}) = Cardinality({}) + 0
    BY <1>2
  <2> QED
    BY <1>2, <2>1, <2>2, <2>3 DEF Accounted
<1> QED
  BY <1>3, <1>4, <1>5

\* What is in memory becomes a chunk.
LEMMA KeepsChunk ==
  ASSUME NEW records \in SUBSET Keyed, IsFiniteSet(records), NEW chunks, ChunksOK(chunks),
         records \cap Pending(chunks) = {}
  PROVE  /\ Keeps({}, Append(chunks, SortedByKey(records)), <<>>)
         /\ Pending(Append(chunks, SortedByKey(records))) = Pending(chunks) \cup records
<1>1. Len(<<>>) = 0 /\ <<>> \in Seq(Keyed)
  BY EmptySeq
<1>2. IsFiniteSet({}) /\ Cardinality({}) = 0
  BY FS_EmptySet
<1>3. InOrder(<<>>)
  BY <1>1 DEF InOrder
<1>4. /\ ChunksOK(Append(chunks, SortedByKey(records)))
      /\ Pending(Append(chunks, SortedByKey(records))) = Pending(chunks) \cup records
  BY ChunksMore
<1> QED
  BY <1>1, <1>2, <1>3, <1>4, StConstants DEF Keeps

\* What the next row is: an event, or one more rejected
Fresh(m, i, r) == IF m[i].rows[r] = StBad THEN {} ELSE {Bit(m, i, r)}
Refused(m, i, r) == IF m[i].rows[r] = StBad THEN 1 ELSE 0

\* The next row is counted, and its event is new.
LEMMA KeepsRow ==
  ASSUME NEW m \in StManifests, NEW i \in 1 .. Len(m), NEW r \in 1 .. Len(m[i].rows),
         NEW records, NEW chunks, NEW rejected, NEW merged, Keeps(records, chunks, merged),
         Accounted(m, i, r, records \cup Pending(chunks), rejected),
         NEW now, now = records \cup Fresh(m, i, r)
  PROVE  /\ now \in SUBSET Keyed /\ IsFiniteSet(now) /\ now \cap Pending(chunks) = {}
         /\ Accounted(m, i, r + 1, now \cup Pending(chunks), rejected + Refused(m, i, r))
<1> DEFINE new == Fresh(m, i, r)
<1>1. PICK rows : rows = RowsTo(m, i, r)
  OBVIOUS
<1>2. PICK events : events = EventsTo(m, i, r)
  OBVIOUS
<1>3. /\ rejected \in Nat /\ IsFiniteSet(rows) /\ IsFiniteSet(events)
      /\ Cardinality(rows) = Cardinality(events) + rejected /\ events = records \cup Pending(chunks)
  BY <1>1, <1>2 DEF Accounted
<1>4. /\ RowsTo(m, i, r + 1) = rows \cup {<<i, r>>} /\ <<i, r>> \notin rows
      /\ EventsTo(m, i, r + 1) = events \cup new /\ Bit(m, i, r) \notin events
  BY <1>1, <1>2, ReadOne DEF Fresh
<1>5. IsFiniteSet(rows \cup {<<i, r>>}) /\ Cardinality(rows \cup {<<i, r>>}) = Cardinality(rows) + 1
  BY <1>3, <1>4, FS_AddElement
<1>6. Cardinality(rows) \in Nat /\ Cardinality(events) \in Nat
  BY <1>3, FS_CardinalityType
<1>7. records \in SUBSET Keyed /\ IsFiniteSet(records) /\ records \cap Pending(chunks) = {}
  BY DEF Keeps
<1>8. CASE m[i].rows[r] = StBad
  <2>1. new = {} /\ events \cup new = events /\ now = records
    BY <1>8 DEF Fresh
  <2>2. /\ rejected + Refused(m, i, r) = rejected + 1
        /\ rejected + 1 \in Nat /\ Cardinality(rows) + 1 = Cardinality(events) + (rejected + 1)
    BY <1>3, <1>6, <1>8 DEF Refused
  <2>3. Accounted(m, i, r + 1, now \cup Pending(chunks), rejected + 1)
    BY <1>3, <1>4, <1>5, <2>1, <2>2 DEF Accounted
  <2> QED
    BY <1>7, <2>1, <2>2, <2>3
<1>9. CASE m[i].rows[r] # StBad
  <2>1. PICK e : e = Bit(m, i, r)
    OBVIOUS
  <2>2. new = {e} /\ e \in Keyed /\ e \notin events
    BY <1>4, <1>9, <2>1, ManifestHolds DEF Fresh
  <2>3. IsFiniteSet(events \cup {e}) /\ Cardinality(events \cup {e}) = Cardinality(events) + 1
    BY <1>3, <2>2, FS_AddElement
  <2>4. IsFiniteSet(records \cup {e})
    BY <1>7, FS_AddElement
  <2>5. (records \cup {e}) \cap Pending(chunks) = {}
    BY <1>3, <1>7, <2>2
  <2>6. events \cup {e} = (records \cup {e}) \cup Pending(chunks)
    BY <1>3
  <2>7. rejected + Refused(m, i, r) = rejected
    BY <1>3, <1>9 DEF Refused
  <2>8. Cardinality(rows) + 1 = (Cardinality(events) + 1) + rejected
    BY <1>3, <1>6
  <2>9. Accounted(m, i, r + 1, now \cup Pending(chunks), rejected)
    BY <1>3, <1>4, <1>5, <2>2, <2>3, <2>6, <2>8 DEF Accounted
  <2> QED
    BY <1>7, <2>2, <2>4, <2>5, <2>7, <2>9
<1> QED
  BY <1>8, <1>9

\* The chunks without the head of one of them
Taken(chunks, c) == [chunks EXCEPT ![c] = Tail(chunks[c])]

\* The least head is merged.
LEMMA KeepsMerged ==
  ASSUME NEW chunks, NEW merged, Keeps({}, chunks, merged),
         NEW c \in 1 .. Len(chunks), chunks[c] # <<>>,
         \A d \in 1 .. Len(chunks) : d # c /\ chunks[d] # <<>> => KeyBefore(Head(chunks[c]), Head(chunks[d])),
         NEW e, e = Head(chunks[c])
  PROVE  /\ Keeps({}, Taken(chunks, c), Append(merged, e))
         /\ Pending(Taken(chunks, c)) \cup Members(Append(merged, e))
              = Pending(chunks) \cup Members(merged)
         /\ e \in Keyed /\ Members(Append(merged, e)) = Members(merged) \cup {e}
         /\ Members(merged) \in SUBSET Keyed /\ IsFiniteSet(Members(merged))
         /\ \A d \in Members(merged) : KeyBefore(d, e)
<1>1. PICK rest : rest = Taken(chunks, c)
  OBVIOUS
<1>2. PICK more : more = Append(merged, e)
  OBVIOUS
<1>3. ChunksOK(chunks) /\ merged \in Seq(Keyed) /\ InOrder(merged)
  BY DEF Keeps
<1>4. \A i \in 1 .. Len(merged) : \A d \in Pending(chunks) : KeyBefore(merged[i], d)
  BY DEF Keeps
<1>5. /\ e \in Keyed /\ e \in Pending(chunks) /\ ChunksOK(rest) /\ Pending(rest) = Pending(chunks) \ {e}
      /\ \A d \in Pending(chunks) \ {e} : KeyBefore(e, d)
  BY <1>1, <1>3, ChunksTake DEF Taken
<1>6. \A i \in 1 .. Len(merged) : KeyBefore(merged[i], e)
  BY <1>4, <1>5
<1>7. /\ more \in Seq(Keyed) /\ InOrder(more) /\ Len(more) = Len(merged) + 1
      /\ Members(more) = Members(merged) \cup {e}
      /\ \A i \in 1 .. Len(merged) : more[i] = merged[i]
      /\ more[Len(merged) + 1] = e
  BY <1>2, <1>3, <1>5, <1>6, OrderAppend
<1>8. Len(merged) \in Nat
  BY <1>3, LenProperties
<1>9. \A i \in 1 .. Len(more) : \A d \in Pending(rest) : KeyBefore(more[i], d)
  <2> SUFFICES ASSUME NEW i \in 1 .. Len(more), NEW d \in Pending(rest) PROVE KeyBefore(more[i], d)
    OBVIOUS
  <2>1. CASE i \in 1 .. Len(merged)
    BY <1>4, <1>5, <1>7, <2>1
  <2>2. CASE i = Len(merged) + 1
    BY <1>5, <1>7, <2>2
  <2> QED
    BY <1>7, <1>8, <2>1, <2>2
<1>10. Keeps({}, rest, more)
  BY <1>5, <1>7, <1>9 DEF Keeps
<1>11. Pending(rest) \cup Members(more) = Pending(chunks) \cup Members(merged)
  BY <1>5, <1>7
<1>12. Members(merged) \in SUBSET Keyed /\ IsFiniteSet(Members(merged))
  BY <1>3, OrderCounts, LenProperties DEF Members
<1>13. \A d \in Members(merged) : KeyBefore(d, e)
  BY <1>6 DEF Members
<1> QED
  BY <1>1, <1>2, <1>5, <1>7, <1>10, <1>11, <1>12, <1>13

\* A summary keeps its limit.
LEMMA SummaryShort ==
  ASSUME NEW V \in SUBSET Keyed, IsFiniteSet(V)
  PROVE  Len(SummaryOf(V)) <= StSummaryLimit /\ Cardinality(Told(V)) \in Nat
<1> DEFINE t == SortedByKey(Told(V))
           k == IF Len(t) < StSummaryLimit THEN Len(t) ELSE StSummaryLimit
<1>1. Told(V) \in SUBSET Keyed /\ IsFiniteSet(Told(V))
  <2>1. Told(V) \in SUBSET V
    BY DEF Told
  <2> QED
    BY <2>1, FS_Subset
<1>2. t \in Seq(Keyed) /\ Len(t) \in Nat /\ \A i \in 1 .. Len(t) : t[i] \in Keyed
  <2>1. t \in Seq(Keyed)
    BY <1>1, SortedOf
  <2> QED
    BY <2>1, LenProperties
<1>3. SummaryOf(V) = SubSeq(t, 1, k)
  BY DEF SummaryOf, Told
<1>4. k \in Nat /\ k <= Len(t) /\ k <= StSummaryLimit
  BY <1>2, StConstants
<1> HIDE DEF t, k
<1>5. k \in Int /\ 1 \in Int /\ \A i \in 1 .. k : t[i] \in Keyed
  BY <1>2, <1>4
<1>6. Len(SubSeq(t, 1, k)) = IF 1 <= k THEN k - 1 + 1 ELSE 0
  BY <1>2, <1>5, SubSeqProperties
<1>7. Len(SubSeq(t, 1, k)) = k
  BY <1>4, <1>6
<1>8. Cardinality(Told(V)) \in Nat
  BY <1>1, FS_CardinalityType
<1> QED
  BY <1>3, <1>4, <1>7, <1>8

-----------------------------------------------------------------------------
(* The inductive invariant                                                 *)

\* What memory, chunks and merged events hold, and what is counted of them
StBooks ==
    /\ stPc \in StSteps /\ stAt \in Nat \ {0} /\ stRow \in Nat \ {0} /\ stRejected \in Nat
    /\ Keeps(stRecords, stChunks, stMerged)
    /\ stSummary = SummaryOf(Members(stMerged)) /\ stMatches = Cardinality(Told(Members(stMerged)))

\* Between them they hold every event read so far.
StRead ==
    stPc # "idle" =>
        /\ stManifest \in StManifests
        /\ Accounted(stManifest, stAt, stRow,
                     stRecords \cup Pending(stChunks) \cup Members(stMerged), stRejected)

\* What each step of a run has left behind
StStage ==
    /\ stPc = "idle" => /\ stAt = 1 /\ stRow = 1 /\ stRecords = {} /\ stChunks = <<>>
                        /\ stRejected = 0
    /\ stPc \in {"idle", "read"} => stMerged = <<>>
    /\ stPc \notin {"idle", "read"} => stRecords = {} /\ stAt > Len(stManifest)
    /\ stPc \in {"unlink", "rename", "provenance"} => Pending(stChunks) = {}

\* Which outputs are in place
StPlaced ==
    /\ stFile = [f \in StFiles |-> stFile[f]]
    /\ stPc # "rename" => stLeft = <<>>
    /\ stPc \in {"rename", "provenance"} => stProv = StNil
    /\ stPc = "rename" =>
          /\ stLeft \in Seq(StFiles) /\ Len(stLeft) \in 1 .. 4
          /\ \A i \in 1 .. Len(stLeft) : stLeft[i] = StOrder[4 - Len(stLeft) + i]
          /\ \A i \in 1 .. 4 - Len(stLeft) : stFile[StOrder[i]] = Contents(StOrder[i])
    /\ stPc = "provenance" => \A i \in 1 .. 4 : stFile[StOrder[i]] = Contents(StOrder[i])

StInv == StBooks /\ StRead /\ StStage /\ StPlaced /\ StProvenanceIsTrue

\* The files in the order of their renames
LEMMA OrderOfFiles ==
  /\ StFiles = {"jsonl", "csv", "summary_csv", "summary_html"}
  /\ StOrder \in Seq(StFiles) /\ Len(StOrder) = 4
  /\ \A f \in StFiles : \E n \in 1 .. 4 : f = StOrder[n]
  /\ \A i, n \in 1 .. 4 : StOrder[i] = StOrder[n] => i = n
<1>1. DOMAIN StOrder = 1 .. 4 /\ Len(StOrder) = 4
  BY DEF StOrder
<1>2. StOrder[1] = "jsonl" /\ StOrder[2] = "csv" /\ StOrder[3] = "summary_csv" /\ StOrder[4] = "summary_html"
  BY DEF StOrder
<1>3. \A n \in 1 .. 4 : n = 1 \/ n = 2 \/ n = 3 \/ n = 4
  OBVIOUS
<1>4. StFiles = {"jsonl", "csv", "summary_csv", "summary_html"}
  BY <1>1, <1>2, <1>3 DEF StFiles
<1>5. StOrder \in Seq(StFiles)
  BY <1>4 DEF StOrder
<1>6. \A i, n \in 1 .. 4 : StOrder[i] = StOrder[n] => i = n
  BY <1>2, <1>3
<1>7. \A f \in StFiles : \E n \in 1 .. 4 : f = StOrder[n]
  BY <1>2, <1>4
<1> QED
  BY <1>1, <1>4, <1>5, <1>6, <1>7

\* The program starts with an empty record.
LEMMA StStarts == StInit => StInv
<1> SUFFICES ASSUME StInit PROVE StInv
  OBVIOUS
<1>1. /\ Keeps({}, <<>>, <<>>) /\ SummaryOf({}) = <<>> /\ Cardinality(Told({})) = 0
      /\ Members(<<>>) = {}
  BY KeepsNone, SummaryNone
<1>2. StBooks
  <2>1. stRecords = {} /\ stChunks = <<>> /\ stMerged = <<>> /\ stSummary = <<>> /\ stMatches = 0
    BY DEF StInit
  <2>2. Keeps(stRecords, stChunks, stMerged)
    BY <1>1, <2>1
  <2>3. stSummary = SummaryOf(Members(stMerged)) /\ stMatches = Cardinality(Told(Members(stMerged)))
    BY <1>1, <2>1
  <2>4. stPc \in StSteps /\ stAt \in Nat \ {0} /\ stRow \in Nat \ {0} /\ stRejected \in Nat
    BY DEF StInit, StSteps
  <2> QED
    BY <2>2, <2>3, <2>4 DEF StBooks
<1>3. StRead /\ StStage
  BY DEF StInit, StRead, StStage
<1>4. StPlaced /\ StProvenanceIsTrue
  BY DEF StInit, StPlaced, StProvenanceIsTrue
<1> QED
  BY <1>2, <1>3, <1>4 DEF StInv

\* A run that ends leaves nothing in memory.
LEMMA StEnds ==
  ASSUME StInv, StForget, stPc' = "idle", stFile' = stFile, StProvenanceIsTrue'
  PROVE  StInv'
<1>1. /\ Keeps({}, <<>>, <<>>) /\ SummaryOf({}) = <<>> /\ Cardinality(Told({})) = 0
      /\ Members(<<>>) = {}
  BY KeepsNone, SummaryNone
<1>2. StBooks'
  <2>1. stRecords' = {} /\ stChunks' = <<>> /\ stMerged' = <<>> /\ stSummary' = <<>> /\ stMatches' = 0
    BY DEF StForget
  <2>2. Keeps(stRecords', stChunks', stMerged')
    BY <1>1, <2>1
  <2>3. stSummary' = SummaryOf(Members(stMerged')) /\ stMatches' = Cardinality(Told(Members(stMerged')))
    BY <1>1, <2>1
  <2>4. (stPc \in StSteps /\ stAt \in Nat \ {0} /\ stRow \in Nat \ {0} /\ stRejected \in Nat)'
    BY DEF StForget, StSteps
  <2> QED
    BY <2>2, <2>3, <2>4 DEF StBooks
<1>3. StRead' /\ StStage'
  BY DEF StForget, StRead, StStage
<1>4. StPlaced'
  BY DEF StInv, StForget, StPlaced
<1> QED
  BY <1>2, <1>3, <1>4 DEF StInv

\* A step that only reads or merges keeps what is published.
LEMMA StStays ==
  ASSUME StInv, stFile' = stFile, stProv' = stProv, stLeft' = stLeft,
         stPc \notin {"rename", "provenance"}, stPc' \notin {"rename", "provenance"}
  PROVE  StPlaced' /\ StProvenanceIsTrue'
<1>1. StPlaced'
  BY DEF StInv, StPlaced
<1>2. StProvenanceIsTrue'
  BY DEF StInv, StProvenanceIsTrue
<1> QED
  BY <1>1, <1>2

\* A run starts.
LEMMA StStartStep == ASSUME StInv, StStart PROVE StInv'
<1>1. PICK m \in StManifests : m = stManifest'
  BY DEF StStart
<1>2. Accounted(m, 1, 1, {} \cup Pending(<<>>) \cup Members(<<>>), 0)
  BY KeepsNone
<1>3. /\ stPc = "idle" /\ stPc' = "read" /\ stAt' = stAt /\ stRow' = stRow /\ stRecords' = stRecords
      /\ stChunks' = stChunks /\ stRejected' = stRejected /\ stMerged' = stMerged
      /\ stSummary' = stSummary /\ stMatches' = stMatches
      /\ stFile' = stFile /\ stProv' = stProv /\ stLeft' = stLeft
  BY DEF StStart
<1>4. /\ stAt = 1 /\ stRow = 1 /\ stRecords = {} /\ stChunks = <<>> /\ stRejected = 0 /\ stMerged = <<>>
  BY <1>3 DEF StInv, StStage
<1>5. StBooks'
  BY <1>3 DEF StInv, StBooks, StSteps
<1>6. StRead'
  BY <1>1, <1>2, <1>3, <1>4 DEF StRead
<1>7. StStage'
  BY <1>3, <1>4 DEF StStage
<1> QED
  BY <1>3, <1>5, <1>6, <1>7, StStays DEF StInv

\* A row is read.
LEMMA StReadRowStep == ASSUME StInv, StReadRow PROVE StInv'
<1>1. PICK m : m = stManifest
  OBVIOUS
<1>2. PICK i : i = stAt
  OBVIOUS
<1>3. PICK r : r = stRow
  OBVIOUS
<1>4. PICK records : records = stRecords
  OBVIOUS
<1>5. PICK chunks : chunks = stChunks
  OBVIOUS
<1>6. PICK rejected : rejected = stRejected
  OBVIOUS
<1>7. PICK new : new = Fresh(m, i, r)
  OBVIOUS
<1>8. /\ stPc = "read" /\ stPc' = "read" /\ m \in StManifests /\ i \in Nat \ {0} /\ r \in Nat \ {0}
      /\ i <= Len(m) /\ r <= Len(m[i].rows) /\ stMerged = <<>>
      /\ rejected \in Nat /\ stSummary = SummaryOf(Members(<<>>))
      /\ stMatches = Cardinality(Told(Members(<<>>)))
  BY <1>1, <1>2, <1>3, <1>6 DEF StReadRow, StInv, StBooks, StRead, StStage
<1>9. i \in 1 .. Len(m) /\ r \in 1 .. Len(m[i].rows)
  BY <1>8, ManifestShape
<1>10. Keeps(records, chunks, <<>>)
  BY <1>4, <1>5, <1>8 DEF StInv, StBooks
<1>11. records \cup Pending(chunks) \cup Members(<<>>) = records \cup Pending(chunks)
  BY KeepsNone
<1>12. Accounted(m, i, r, records \cup Pending(chunks), rejected)
  <2>1. Accounted(m, i, r, records \cup Pending(chunks) \cup Members(<<>>), rejected)
    BY <1>1, <1>2, <1>3, <1>4, <1>5, <1>6, <1>8 DEF StInv, StRead
  <2> QED
    BY <1>11, <2>1
<1>13. PICK one : one = rejected + Refused(m, i, r)
  OBVIOUS
<1>14. PICK now : now = records \cup new
  OBVIOUS
<1>15. /\ now \in SUBSET Keyed /\ IsFiniteSet(now) /\ now \cap Pending(chunks) = {}
       /\ Accounted(m, i, r + 1, now \cup Pending(chunks), one)
  <2>1. m \in StManifests
    BY <1>8
  <2>2. now = records \cup Fresh(m, i, r)
    BY <1>7, <1>14
  <2>3. /\ now \in SUBSET Keyed /\ IsFiniteSet(now) /\ now \cap Pending(chunks) = {}
        /\ Accounted(m, i, r + 1, now \cup Pending(chunks), rejected + Refused(m, i, r))
    <3>1. \A set : set = records \cup Fresh(m, i, r) =>
             /\ set \in SUBSET Keyed /\ IsFiniteSet(set) /\ set \cap Pending(chunks) = {}
             /\ Accounted(m, i, r + 1, set \cup Pending(chunks), rejected + Refused(m, i, r))
      BY <1>9, <1>10, <1>12, <2>1, KeepsRow
    <3> QED
      BY <2>2, <3>1
  <2> QED
    BY <1>13, <2>3
<1>16. /\ stFile' = stFile /\ stProv' = stProv /\ stLeft' = stLeft
       /\ stManifest' = m /\ stAt' = i /\ stRow' = r + 1 /\ stMerged' = <<>>
       /\ stSummary' = stSummary /\ stMatches' = stMatches /\ stRejected' = one
  BY <1>1, <1>2, <1>3, <1>6, <1>8, <1>13 DEF StReadRow, NextRow, Refused
<1>17. IF Cardinality(now) >= StChunk
       THEN stChunks' = Append(chunks, SortedByKey(now)) /\ stRecords' = {}
       ELSE stRecords' = now /\ stChunks' = chunks
  BY <1>1, <1>2, <1>3, <1>4, <1>5, <1>7, <1>14 DEF StReadRow, NextRow, Normalized, Bit, Fresh
<1>18. PICK chunks1 : chunks1 = stChunks'
  OBVIOUS
<1>19. PICK records1 : records1 = stRecords'
  OBVIOUS
<1>20. Keeps(records1, chunks1, <<>>) /\ records1 \cup Pending(chunks1) = now \cup Pending(chunks)
  <2>1. CASE Cardinality(now) >= StChunk
    <3>1. chunks1 = Append(chunks, SortedByKey(now)) /\ records1 = {}
      BY <1>17, <1>18, <1>19, <2>1
    <3>2. ChunksOK(chunks)
      BY <1>10 DEF Keeps
    <3>3. Keeps({}, chunks1, <<>>) /\ Pending(chunks1) = Pending(chunks) \cup now
      BY <1>15, <3>1, <3>2, KeepsChunk
    <3> QED
      BY <3>1, <3>3
  <2>2. CASE ~(Cardinality(now) >= StChunk)
    <3>1. chunks1 = chunks /\ records1 = now
      BY <1>17, <1>18, <1>19, <2>2
    <3>2. Cardinality(now) \in Nat
      BY <1>15, FS_CardinalityType
    <3>3. Cardinality(now) < StChunk
      BY <2>2, <3>2, StConstants
    <3> QED
      BY <1>10, <1>15, <3>1, <3>3 DEF Keeps
  <2> QED
    BY <2>1, <2>2
<1>21. one \in Nat
  BY <1>15 DEF Accounted
<1>22. StBooks'
  BY <1>8, <1>16, <1>18, <1>19, <1>20, <1>21 DEF StBooks, StSteps
<1>23. StRead'
  <2>1. records1 \cup Pending(chunks1) \cup Members(<<>>) = now \cup Pending(chunks)
    BY <1>20, KeepsNone
  <2> QED
    BY <1>8, <1>15, <1>16, <1>18, <1>19, <2>1 DEF StRead
<1>24. StStage'
  BY <1>8, <1>16 DEF StStage
<1> QED
  BY <1>8, <1>16, <1>22, <1>23, <1>24, StStays DEF StInv

\* The next input is read.
LEMMA StNextInputStep == ASSUME StInv, StNextInput PROVE StInv'
<1>1. PICK m : m = stManifest
  OBVIOUS
<1>2. PICK i : i = stAt
  OBVIOUS
<1>3. PICK r : r = stRow
  OBVIOUS
<1>4. /\ stPc = "read" /\ stPc' = "read" /\ m \in StManifests /\ i \in Nat \ {0} /\ r \in Nat \ {0}
      /\ i <= Len(m) /\ r > Len(m[i].rows)
      /\ stAt' = i + 1 /\ stRow' = 1 /\ stManifest' = m
      /\ stRecords' = stRecords /\ stChunks' = stChunks /\ stRejected' = stRejected
      /\ stMerged' = stMerged /\ stSummary' = stSummary /\ stMatches' = stMatches
      /\ stFile' = stFile /\ stProv' = stProv /\ stLeft' = stLeft
  BY <1>1, <1>2, <1>3 DEF StNextInput, StInv, StBooks, StRead
<1>5. RowsTo(m, i + 1, 1) = RowsTo(m, i, r) /\ EventsTo(m, i + 1, 1) = EventsTo(m, i, r)
  BY <1>4, ReadOn
<1>6. StBooks'
  BY <1>4 DEF StInv, StBooks
<1>7. StRead'
  <2>1. Accounted(m, i, r, stRecords \cup Pending(stChunks) \cup Members(stMerged), stRejected)
    BY <1>1, <1>2, <1>3, <1>4 DEF StInv, StRead
  <2>2. Accounted(m, i + 1, 1, stRecords \cup Pending(stChunks) \cup Members(stMerged), stRejected)
    BY <1>5, <2>1 DEF Accounted
  <2> QED
    BY <1>4, <2>2 DEF StRead
<1>8. StStage'
  BY <1>4 DEF StInv, StStage
<1> QED
  BY <1>4, <1>6, <1>7, <1>8, StStays DEF StInv

\* All inputs are read.
LEMMA StReadAllStep == ASSUME StInv, StReadAll PROVE StInv'
<1>1. PICK records : records = stRecords
  OBVIOUS
<1>2. PICK chunks : chunks = stChunks
  OBVIOUS
<1>3. PICK chunks1 : chunks1 = stChunks'
  OBVIOUS
<1>4. /\ stPc = "read" /\ stPc' = "merge" /\ stAt > Len(stManifest) /\ stMerged = <<>>
      /\ stAt' = stAt /\ stRow' = stRow /\ stManifest' = stManifest
      /\ stRecords' = {} /\ stRejected' = stRejected
      /\ stMerged' = stMerged /\ stSummary' = stSummary /\ stMatches' = stMatches
      /\ stFile' = stFile /\ stProv' = stProv /\ stLeft' = stLeft
      /\ chunks1 = IF records = {} THEN chunks ELSE Append(chunks, SortedByKey(records))
  BY <1>1, <1>2, <1>3 DEF StReadAll, StInv, StStage
<1>5. Keeps(records, chunks, <<>>)
  BY <1>1, <1>2, <1>4 DEF StInv, StBooks
<1>6. Keeps({}, chunks1, <<>>) /\ Pending(chunks1) = records \cup Pending(chunks)
  <2>1. CASE records = {}
    BY <1>4, <1>5, <2>1
  <2>2. CASE records # {}
    <3>1. /\ records \in SUBSET Keyed /\ IsFiniteSet(records) /\ ChunksOK(chunks)
          /\ records \cap Pending(chunks) = {}
      BY <1>5 DEF Keeps
    <3>2. chunks1 = Append(chunks, SortedByKey(records))
      BY <1>4, <2>2
    <3>3. Keeps({}, chunks1, <<>>) /\ Pending(chunks1) = Pending(chunks) \cup records
      BY <3>1, <3>2, KeepsChunk
    <3> QED
      BY <3>3
  <2> QED
    BY <2>1, <2>2
<1>7. StBooks'
  <2>1. Keeps(stRecords', stChunks', stMerged')
    BY <1>3, <1>4, <1>6
  <2> QED
    BY <1>4, <2>1 DEF StInv, StBooks, StSteps
<1>8. StRead'
  <2>1. stRecords' \cup Pending(stChunks') \cup Members(stMerged')
          = stRecords \cup Pending(stChunks) \cup Members(stMerged)
    BY <1>1, <1>2, <1>3, <1>4, <1>6
  <2> QED
    BY <1>4, <2>1 DEF StInv, StRead
<1>9. StStage'
  BY <1>4 DEF StStage
<1> QED
  BY <1>4, <1>7, <1>8, <1>9, StStays DEF StInv

\* An event is merged.
LEMMA StMergeStep == ASSUME StInv, StMerge PROVE StInv'
<1>1. PICK chunks : chunks = stChunks
  OBVIOUS
<1>2. PICK merged : merged = stMerged
  OBVIOUS
<1>3. PICK c \in StOpenChunks :
        /\ IsLeast(c)
        /\ stChunks' = [stChunks EXCEPT ![c] = Tail(stChunks[c])]
        /\ stMerged' = Append(stMerged, Head(stChunks[c]))
        /\ stMatches' = stMatches + (IF Matches(Head(stChunks[c])) THEN 1 ELSE 0)
        /\ stSummary' = IF Matches(Head(stChunks[c])) /\ Len(stSummary) < StSummaryLimit
                        THEN Append(stSummary, Head(stChunks[c])) ELSE stSummary
  BY DEF StMerge
<1>4. PICK e : e = Head(chunks[c])
  OBVIOUS
<1>5. /\ stPc = "merge" /\ stPc' = "merge" /\ stRecords = {} /\ stAt > Len(stManifest)
      /\ stAt' = stAt /\ stRow' = stRow /\ stManifest' = stManifest
      /\ stRecords' = stRecords /\ stRejected' = stRejected
      /\ stFile' = stFile /\ stProv' = stProv /\ stLeft' = stLeft
  BY DEF StMerge, StInv, StStage
<1>6. Keeps({}, chunks, merged)
  BY <1>1, <1>2, <1>5 DEF StInv, StBooks
<1>7. ChunksOK(stChunks)
  BY <1>1, <1>6 DEF Keeps
<1>8. c \in 1 .. Len(chunks) /\ chunks[c] # <<>>
  BY <1>1, <1>7, ChunksClosed
<1>9. \A d \in 1 .. Len(chunks) : d # c /\ chunks[d] # <<>> => KeyBefore(Head(chunks[c]), Head(chunks[d]))
  <2>1. \A d \in StOpenChunks \ {c} : KeyBefore(Head(stChunks[c]), Head(stChunks[d]))
    BY <1>3 DEF IsLeast
  <2>2. \A d \in 1 .. Len(chunks) : chunks[d] # <<>> => d \in StOpenChunks
    BY <1>1, <1>7, ChunksClosed
  <2> QED
    BY <1>1, <2>1, <2>2
<1>10. PICK rest : rest = [chunks EXCEPT ![c] = Tail(chunks[c])]
  OBVIOUS
<1>11. PICK more : more = Append(merged, e)
  OBVIOUS
<1>12. /\ Keeps({}, rest, more) /\ Pending(rest) \cup Members(more) = Pending(chunks) \cup Members(merged)
       /\ e \in Keyed /\ Members(more) = Members(merged) \cup {e}
       /\ Members(merged) \in SUBSET Keyed /\ IsFiniteSet(Members(merged))
       /\ \A d \in Members(merged) : KeyBefore(d, e)
  <2>1. \A head : head = Head(chunks[c]) =>
          /\ Keeps({}, Taken(chunks, c), Append(merged, head))
          /\ Pending(Taken(chunks, c)) \cup Members(Append(merged, head))
                = Pending(chunks) \cup Members(merged)
          /\ head \in Keyed /\ Members(Append(merged, head)) = Members(merged) \cup {head}
          /\ Members(merged) \in SUBSET Keyed /\ IsFiniteSet(Members(merged))
          /\ \A d \in Members(merged) : KeyBefore(d, head)
    BY <1>6, <1>8, <1>9, KeepsMerged
  <2> QED
    BY <1>4, <1>10, <1>11, <2>1 DEF Taken
<1>13. PICK V \in SUBSET Keyed : V = Members(merged) /\ IsFiniteSet(V)
  BY <1>12
<1>14. /\ Cardinality(Told(V \cup {e})) = Cardinality(Told(V)) + (IF Matches(e) THEN 1 ELSE 0)
       /\ SummaryOf(V \cup {e}) = IF Matches(e) /\ Len(SummaryOf(V)) < StSummaryLimit
                                  THEN Append(SummaryOf(V), e) ELSE SummaryOf(V)
  BY <1>12, <1>13, SummaryNext
<1>15. stChunks' = rest /\ stMerged' = more
  BY <1>1, <1>2, <1>3, <1>4, <1>10, <1>11
<1>16. stSummary = SummaryOf(V) /\ stMatches = Cardinality(Told(V))
  BY <1>2, <1>13 DEF StInv, StBooks
<1>17. Members(more) = V \cup {e}
  BY <1>12, <1>13
<1>18. stSummary' = SummaryOf(Members(more)) /\ stMatches' = Cardinality(Told(Members(more)))
  BY <1>1, <1>3, <1>4, <1>14, <1>16, <1>17
<1>19. StBooks'
  <2>1. Keeps(stRecords', stChunks', stMerged')
    BY <1>5, <1>12, <1>15
  <2> QED
    BY <1>5, <1>15, <1>18, <2>1 DEF StInv, StBooks
<1>20. StRead'
  <2>1. stRecords' \cup Pending(stChunks') \cup Members(stMerged')
          = stRecords \cup Pending(stChunks) \cup Members(stMerged)
    BY <1>1, <1>2, <1>5, <1>12, <1>15
  <2> QED
    BY <1>5, <2>1 DEF StInv, StRead
<1>21. StStage'
  BY <1>5 DEF StStage
<1> QED
  BY <1>5, <1>19, <1>20, <1>21, StStays DEF StInv

\* A step that leaves all of the work as it is
LEMMA StWorkStays ==
  ASSUME StInv, stWork' = stWork, stPc \notin {"idle", "read"}, stPc' \notin {"idle", "read"},
         stPc' \in StSteps, stPc' \in {"unlink", "rename", "provenance"} => Pending(stChunks) = {}
  PROVE  StBooks' /\ StRead' /\ StStage'
<1>1. /\ stAt' = stAt /\ stRow' = stRow /\ stManifest' = stManifest
      /\ stRecords' = stRecords /\ stChunks' = stChunks /\ stRejected' = stRejected
      /\ stMerged' = stMerged /\ stSummary' = stSummary /\ stMatches' = stMatches
  BY DEF stWork
<1>2. StBooks'
  BY <1>1 DEF StInv, StBooks
<1>3. StRead'
  BY <1>1 DEF StInv, StRead
<1>4. StStage'
  BY <1>1 DEF StInv, StStage
<1> QED
  BY <1>2, <1>3, <1>4

\* Everything is merged.
LEMMA StMergedAllStep == ASSUME StInv, StMergedAll PROVE StInv'
<1>1. /\ stPc = "merge" /\ stPc' = "unlink" /\ StOpenChunks = {} /\ stWork' = stWork
      /\ stFile' = stFile /\ stProv' = stProv /\ stLeft' = stLeft
  BY DEF StMergedAll
<1>2. ChunksOK(stChunks)
  BY DEF StInv, StBooks, Keeps
<1>3. Pending(stChunks) = {}
  BY <1>1, <1>2, ChunksClosed
<1>4. StBooks' /\ StRead' /\ StStage'
  <2>1. /\ stPc \notin {"idle", "read"} /\ stPc' \notin {"idle", "read"} /\ stPc' \in StSteps
    BY <1>1 DEF StSteps
  <2> QED
    BY <1>1, <1>3, <2>1, StWorkStays
<1> QED
  BY <1>1, <1>4, StStays DEF StInv

\* The provenance of an earlier run goes.
LEMMA StUnlinkStep == ASSUME StInv, StUnlink PROVE StInv'
<1>1. /\ stPc = "unlink" /\ stPc' = "rename" /\ stWork' = stWork
      /\ stFile' = stFile /\ stProv' = StNil /\ stLeft' = StOrder
  BY DEF StUnlink
<1>2. StBooks' /\ StRead' /\ StStage'
  <2>1. /\ stPc \notin {"idle", "read"} /\ stPc' \notin {"idle", "read"} /\ stPc' \in StSteps
        /\ Pending(stChunks) = {}
    BY <1>1 DEF StSteps, StInv, StStage
  <2> QED
    BY <1>1, <2>1, StWorkStays
<1>3. StPlaced'
  <2>1. /\ stLeft' \in Seq(StFiles) /\ Len(stLeft') \in 1 .. 4
        /\ \A i \in 1 .. Len(stLeft') : stLeft'[i] = StOrder[4 - Len(stLeft') + i]
    BY <1>1, OrderOfFiles
  <2>2. 1 .. 4 - Len(stLeft') = {}
    BY <1>1, OrderOfFiles
  <2> QED
    BY <1>1, <2>1, <2>2 DEF StInv, StPlaced
<1>4. StProvenanceIsTrue'
  BY <1>1 DEF StProvenanceIsTrue
<1> QED
  BY <1>2, <1>3, <1>4 DEF StInv

\* One more output is in place.
LEMMA StRenameStep == ASSUME StInv, StRename PROVE StInv'
<1>1. /\ stPc = "rename" /\ stPc' = (IF Tail(stLeft) = <<>> THEN "provenance" ELSE "rename")
      /\ stWork' = stWork /\ stProv' = stProv /\ stLeft' = Tail(stLeft)
      /\ stFile' = [stFile EXCEPT ![Head(stLeft)] = Contents(Head(stLeft))]
  BY DEF StRename
<1>2. StBooks' /\ StRead' /\ StStage'
  <2>1. /\ stPc \notin {"idle", "read"} /\ stPc' \notin {"idle", "read"} /\ stPc' \in StSteps
        /\ Pending(stChunks) = {}
    BY <1>1 DEF StSteps, StInv, StStage
  <2> QED
    BY <1>1, <2>1, StWorkStays
<1>3. PICK left : left = stLeft
  OBVIOUS
<1>4. /\ left \in Seq(StFiles) /\ Len(left) \in 1 .. 4
      /\ \A i \in 1 .. Len(left) : left[i] = StOrder[4 - Len(left) + i]
      /\ \A i \in 1 .. 4 - Len(left) : stFile[StOrder[i]] = Contents(StOrder[i])
  BY <1>1, <1>3 DEF StInv, StPlaced
<1>5. PICK rest : rest = Tail(left)
  OBVIOUS
<1>6. /\ left # <<>> /\ Head(left) = left[1] /\ rest \in Seq(StFiles) /\ Len(rest) = Len(left) - 1
      /\ \A i \in 1 .. Len(rest) : rest[i] = left[i + 1]
      /\ left[1] \in StFiles
  <2>1. left # <<>>
    BY <1>4, EmptySeq
  <2> QED
    BY <1>4, <1>5, <2>1, HeadTailProperties
<1>7. PICK n \in 1 .. 4 : n = 5 - Len(left)
  <2>1. \A k \in 1 .. 4 : 5 - k \in 1 .. 4
    OBVIOUS
  <2> QED
    BY <1>4, <2>1
<1>8. left[1] = StOrder[n] /\ StOrder[n] \in StFiles
  <2>1. 1 \in 1 .. Len(left) /\ 4 - Len(left) + 1 = n
    BY <1>4, <1>7
  <2> QED
    BY <1>4, <1>6, <2>1
<1>9. /\ \A f \in StFiles : f # StOrder[n] => stFile'[f] = stFile[f]
      /\ stFile'[StOrder[n]] = Contents(StOrder[n])
      /\ stFile' = [f \in StFiles |-> stFile'[f]]
  <2>1. stFile = [f \in StFiles |-> stFile[f]]
    BY DEF StInv, StPlaced
  <2>2. stFile' = [stFile EXCEPT ![StOrder[n]] = Contents(StOrder[n])]
    BY <1>1, <1>3, <1>6, <1>8
  <2> QED
    BY <1>8, <2>1, <2>2
<1>10. \A f : Contents(f)' = Contents(f)
  BY <1>1 DEF Contents, stWork
<1>11. \A i \in 1 .. n : stFile'[StOrder[i]] = Contents(StOrder[i])
  <2> SUFFICES ASSUME NEW i \in 1 .. n PROVE stFile'[StOrder[i]] = Contents(StOrder[i])
    OBVIOUS
  <2>1. CASE i = n
    BY <1>9, <2>1
  <2>2. CASE i # n
    <3>1. i \in 1 .. 4 - Len(left) /\ i \in 1 .. 4
      BY <1>4, <1>7, <2>2
    <3>2. StOrder[i] # StOrder[n]
      BY <2>2, <3>1, OrderOfFiles
    <3>3. StOrder[i] \in StFiles
      BY <3>1, OrderOfFiles, ElementOfSeq
    <3> QED
      BY <1>4, <1>9, <3>1, <3>2, <3>3
  <2> QED
    BY <2>1, <2>2
<1>12. CASE rest = <<>>
  <2>1. n = 4
    <3>1. Len(rest) = 0
      BY <1>12, EmptySeq
    <3>2. PICK k \in 1 .. 4 : k = Len(left)
      BY <1>4
    <3>3. k - 1 = 0 /\ n = 5 - k
      BY <1>6, <1>7, <3>1, <3>2
    <3> QED
      BY <3>3
  <2>2. stPc' = "provenance" /\ stLeft' = <<>>
    BY <1>1, <1>3, <1>5, <1>12
  <2>3. \A i \in 1 .. 4 : stFile'[StOrder[i]] = Contents(StOrder[i])'
    BY <1>10, <1>11, <2>1
  <2>4. StPlaced'
    BY <1>1, <1>9, <2>2, <2>3 DEF StInv, StPlaced
  <2>5. StProvenanceIsTrue'
    BY <1>1 DEF StInv, StPlaced, StProvenanceIsTrue
  <2> QED
    BY <1>2, <2>4, <2>5 DEF StInv
<1>13. CASE rest # <<>>
  <2>1. stPc' = "rename" /\ stLeft' = rest
    BY <1>1, <1>3, <1>5, <1>13
  <2>2. Len(rest) \in 1 .. 4 /\ 4 - Len(rest) = n
    <3>1. Len(rest) # 0
      BY <1>6, <1>13, EmptySeq
    <3>2. PICK k \in 1 .. 4 : k = Len(left)
      BY <1>4
    <3>3. Len(rest) = k - 1 /\ n = 5 - k
      BY <1>6, <1>7, <3>2
    <3> QED
      BY <3>1, <3>3
  <2>3. \A i \in 1 .. Len(rest) : rest[i] = StOrder[4 - Len(rest) + i]
    <3> SUFFICES ASSUME NEW i \in 1 .. Len(rest) PROVE rest[i] = StOrder[4 - Len(rest) + i]
      OBVIOUS
    <3>1. i + 1 \in 1 .. Len(left) /\ 4 - Len(left) + (i + 1) = 4 - Len(rest) + i
      BY <1>4, <1>6
    <3> QED
      BY <1>4, <1>6, <3>1
  <2>4. \A i \in 1 .. 4 - Len(rest) : stFile'[StOrder[i]] = Contents(StOrder[i])'
    BY <1>10, <1>11, <2>2
  <2>5. StPlaced'
    BY <1>1, <1>6, <1>9, <2>1, <2>2, <2>3, <2>4 DEF StInv, StPlaced
  <2>6. StProvenanceIsTrue'
    BY <1>1 DEF StInv, StPlaced, StProvenanceIsTrue
  <2> QED
    BY <1>2, <2>5, <2>6 DEF StInv
<1> QED
  BY <1>12, <1>13

\* The provenance that is published is true.
LEMMA StPublishStep == ASSUME StInv, StPublish PROVE StInv'
<1>1. PICK m : m = stManifest
  OBVIOUS
<1>2. PICK merged : merged = stMerged
  OBVIOUS
<1>3. PICK i : i = stAt
  OBVIOUS
<1>4. PICK r : r = stRow
  OBVIOUS
<1>5. PICK rejected : rejected = stRejected
  OBVIOUS
<1>6. /\ stPc = "provenance" /\ stPc' = "idle" /\ StForget /\ stFile' = stFile
      /\ stProv' = [manifest |-> m, hashes |-> [f \in StFiles |-> Contents(f)],
                    count |-> Len(merged), rejected |-> rejected, matches |-> stMatches]
  BY <1>1, <1>2, <1>5 DEF StPublish
<1>7. /\ m \in StManifests /\ i \in Nat \ {0} /\ r \in Nat \ {0} /\ i > Len(m) /\ Pending(stChunks) = {}
      /\ stRecords = {} /\ merged \in Seq(Keyed) /\ InOrder(merged)
      /\ stSummary = SummaryOf(Members(merged)) /\ stMatches = Cardinality(Told(Members(merged)))
      /\ Accounted(m, i, r, stRecords \cup Pending(stChunks) \cup Members(stMerged), stRejected)
  BY <1>1, <1>2, <1>3, <1>4, <1>6 DEF StInv, StBooks, StRead, StStage, Keeps
<1>8. RowsTo(m, i, r) = RowsOf(m) /\ EventsTo(m, i, r) = EventsOf(m)
  <2>1. i \notin 1 .. Len(m)
    BY <1>7, ManifestShape
  <2> QED
    BY <1>7, <2>1, ReadOn
<1>9. /\ Members(merged) = EventsOf(m) /\ rejected \in Nat
      /\ Cardinality(RowsOf(m)) = Cardinality(EventsOf(m)) + rejected
  BY <1>2, <1>5, <1>7, <1>8 DEF Accounted
<1>10. merged = SortedByKey(EventsOf(m)) /\ Len(merged) = Cardinality(EventsOf(m))
  BY <1>7, <1>9, SortedIs, OrderCounts
<1>11. rejected = Cardinality(RowsOf(m)) - Cardinality(EventsOf(m))
  <2>1. Cardinality(EventsOf(m)) \in Nat
    BY <1>7, <1>10, LenProperties
  <2> QED
    BY <1>9, <2>1
<1>12. /\ \A f \in StFiles : stFile[f] = Contents(f)
       /\ \A f \in {"jsonl", "csv"} : stFile[f] = merged
       /\ \A f \in {"summary_csv", "summary_html"} : stFile[f] = SummaryOf(EventsOf(m))
  <2>1. \A n \in 1 .. 4 : stFile[StOrder[n]] = Contents(StOrder[n])
    BY <1>6 DEF StInv, StPlaced
  <2>2. \A f \in StFiles : stFile[f] = Contents(f)
    BY <2>1, OrderOfFiles
  <2>3. \A f \in {"jsonl", "csv", "summary_csv", "summary_html"} : f \in StFiles
    BY OrderOfFiles
  <2> QED
    BY <1>2, <1>7, <1>9, <2>2, <2>3 DEF Contents
<1>13. StProvenanceIsTrue'
  <2>1. /\ stProv'.manifest = m /\ stProv'.count = Len(merged) /\ stProv'.rejected = rejected
        /\ stProv'.matches = stMatches /\ stProv'.hashes = [f \in StFiles |-> Contents(f)]
    BY <1>6
  <2>2. \A f \in StFiles : stFile'[f] = stProv'.hashes[f]
    BY <1>6, <1>12, <2>1
  <2>3. stProv'.matches = Cardinality({e \in EventsOf(m) : e.time \in StTold})
    BY <1>7, <1>9, <2>1 DEF Told
  <2> QED
    BY <1>6, <1>10, <1>11, <1>12, <2>1, <2>2, <2>3 DEF StProvenanceIsTrue
<1> QED
  BY <1>6, <1>13, StEnds

\* Every step keeps the invariant.
LEMMA StMoves == ASSUME StInv, [StNext]_stVars PROVE StInv'
<1>1. CASE StStart
  BY <1>1, StStartStep
<1>2. CASE StReadRow
  BY <1>2, StReadRowStep
<1>3. CASE StNextInput
  BY <1>3, StNextInputStep
<1>4. CASE StReadAll
  BY <1>4, StReadAllStep
<1>5. CASE StNoEvents \/ StAbort
  <2>1. StForget /\ stPc' = "idle" /\ stFile' = stFile /\ stProv' = stProv
    BY <1>5 DEF StNoEvents, StAbort
  <2>2. StProvenanceIsTrue'
    BY <2>1 DEF StInv, StProvenanceIsTrue
  <2> QED
    BY <2>1, <2>2, StEnds
<1>6. CASE StMerge
  BY <1>6, StMergeStep
<1>7. CASE StMergedAll
  BY <1>7, StMergedAllStep
<1>8. CASE StUnlink
  BY <1>8, StUnlinkStep
<1>9. CASE StRename
  BY <1>9, StRenameStep
<1>10. CASE StPublish
  BY <1>10, StPublishStep
<1>11. CASE UNCHANGED stVars
  <2>1. /\ stAt' = stAt /\ stRow' = stRow /\ stManifest' = stManifest
        /\ stRecords' = stRecords /\ stChunks' = stChunks /\ stRejected' = stRejected
        /\ stMerged' = stMerged /\ stSummary' = stSummary /\ stMatches' = stMatches
        /\ stFile' = stFile /\ stProv' = stProv /\ stLeft' = stLeft /\ stPc' = stPc
    BY <1>11 DEF stVars, stWork
  <2>2. StBooks' /\ StRead' /\ StStage'
    BY <2>1 DEF StInv, StBooks, StRead, StStage
  <2>3. StPlaced'
    BY <2>1 DEF StInv, StPlaced, Contents
  <2>4. StProvenanceIsTrue'
    BY <2>1 DEF StInv, StProvenanceIsTrue
  <2> QED
    BY <2>2, <2>3, <2>4 DEF StInv
<1> QED
  BY <1>1, <1>2, <1>3, <1>4, <1>5, <1>6, <1>7, <1>8, <1>9, <1>10, <1>11 DEF StNext

\* The invariant holds in every state.
THEOREM StInvariant == StSpec => []StInv
<1>1. StInit => StInv
  BY StStarts
<1>2. StInv /\ [StNext]_stVars => StInv'
  BY StMoves
<1> QED
  BY <1>1, <1>2, PTL DEF StSpec

\* A provenance that is there tells the truth.
THEOREM StProvenanceIsTrueAlways == StSpec => []StProvenanceIsTrue
<1>1. StInv => StProvenanceIsTrue
  BY DEF StInv
<1> QED
  BY <1>1, StInvariant, PTL

\* The types
LEMMA StTyped == StInv => StTypeOK
<1> SUFFICES ASSUME StInv PROVE StTypeOK
  OBVIOUS
<1>1. /\ stPc \in StSteps /\ stRow \in Nat /\ stRejected \in Nat
      /\ Cardinality(stRecords) < StChunk /\ stMerged \in Seq(Keyed) /\ InOrder(stMerged)
  BY DEF StInv, StBooks, Keeps
<1>2. PICK merged \in Seq(Keyed) : merged = stMerged /\ InOrder(merged)
  BY <1>1
<1>3. Members(merged) \in SUBSET Keyed /\ IsFiniteSet(Members(merged))
  BY <1>2, OrderCounts, LenProperties DEF Members
<1>4. PICK V \in SUBSET Keyed : V = Members(merged) /\ IsFiniteSet(V)
  BY <1>3
<1>5. Len(SummaryOf(V)) <= StSummaryLimit /\ Cardinality(Told(V)) \in Nat
  BY <1>4, SummaryShort
<1>6. Len(stSummary) <= StSummaryLimit /\ stMatches \in Nat
  BY <1>2, <1>4, <1>5 DEF StInv, StBooks
<1>7. Len(stLeft) <= Len(StOrder)
  <2>1. CASE stPc = "rename"
    <3>1. PICK k \in 1 .. 4 : k = Len(stLeft)
      BY <2>1 DEF StInv, StPlaced
    <3>2. k <= 4
      OBVIOUS
    <3> QED
      BY <3>1, <3>2, OrderOfFiles
  <2>2. CASE stPc # "rename"
    <3>1. stLeft = <<>>
      BY <2>2 DEF StInv, StPlaced
    <3>2. Len(<<>>) = 0 /\ 0 <= 4
      BY EmptySeq
    <3> QED
      BY <3>1, <3>2, OrderOfFiles
  <2> QED
    BY <2>1, <2>2
<1> QED
  BY <1>1, <1>6, <1>7 DEF StTypeOK
=============================================================================
