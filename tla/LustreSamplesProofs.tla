------------------------ MODULE LustreSamplesProofs ------------------------
(***************************************************************************)
(* What is proved of LustreSamples, for any metric names, batch size and      *)
(* time series.  The invariant says that the rows are those of the time       *)
(* series normalised so far.  At the end these are all of them, as the        *)
(* batches cover the metrics, and a sum over rows is a sum over time series   *)
(* because no two series of one metric share a row.                         *)
(***************************************************************************)
EXTENDS LustreSamples, FiniteSetTheorems, FunctionTheorems, SequenceTheorems,
        WellFoundedInduction, TLAPS

----------------------------------------------------------------------------
(* Least and greatest numbers.                                             *)

LEMMA LeastNat ==
  ASSUME NEW T, T \subseteq Nat, T # {}
  PROVE  \E x \in T : \A y \in T : x <= y
<1> DEFINE R == {ss \in Nat \X Nat : ss[1] < ss[2]}
<1>1. IsWellFoundedOn(R, Nat)
  BY NatLessThanWellFounded, Zenon DEF R, OpToRel
<1>2. PICK x \in T : \A y \in T : ~(<<y, x>> \in R)
  BY <1>1, WFMin
<1>3. ASSUME NEW y \in T
      PROVE  x <= y
  <2>1. <<y, x>> \in Nat \X Nat
    OBVIOUS
  <2>2. ~(<<y, x>>[1] < <<y, x>>[2])
    BY <1>2, <2>1, Zenon DEF R
  <2> QED
    BY <2>2
<1> QED
  BY <1>3

LEMMA MinNat ==
  ASSUME NEW T, T \subseteq Nat, T # {}
  PROVE  Min(T) \in T /\ \A y \in T : Min(T) <= y
<1>1. \E x \in T : \A y \in T : x =< y
  BY LeastNat
<1> QED
  BY <1>1, Zenon DEF Min

\* A set of numbers has one greatest at most, so that who finds it has its Max.
LEMMA MaxIs ==
  ASSUME NEW T, T \subseteq Nat, NEW x \in T, \A y \in T : x >= y
  PROVE  Max(T) = x
<1>1. Max(T) \in T /\ \A y \in T : Max(T) >= y
  BY Zenon DEF Max
<1> DEFINE m == Max(T)
<1>2. m \in Nat /\ x \in Nat /\ m >= x /\ x >= m
  BY <1>1
<1> HIDE DEF m
<1>3. m = x
  BY <1>2
<1> QED
  BY <1>3 DEF m

LEMMA MaxBounded ==
  ASSUME NEW n \in Nat, NEW T, T \subseteq 1 .. n, T # {}
  PROVE  Max(T) \in T
<1> DEFINE Back == {i \in Nat : i <= n /\ n - i \in T}
<1>1. Back \subseteq Nat /\ Back # {}
  <2>1. PICK x \in T : TRUE
    OBVIOUS
  <2>2. n - x \in Nat /\ n - x <= n /\ n - (n - x) = x
    OBVIOUS
  <2> QED
    BY <2>2
<1>2. PICK least \in Back : \A y \in Back : least <= y
  BY <1>1, LeastNat
<1>3. n - least \in T
  BY <1>2
<1>4. ASSUME NEW y \in T
      PROVE  n - least >= y
  <2>1. n - y \in Back
    <3>1. n - y \in Nat /\ n - y <= n /\ n - (n - y) = y
      OBVIOUS
    <3> QED
      BY <3>1
  <2>2. least <= n - y
    BY <1>2, <2>1
  <2> QED
    BY <1>2, <2>2
<1>5. T \subseteq Nat
  OBVIOUS
<1> QED
  BY <1>3, <1>4, <1>5, MaxIs

----------------------------------------------------------------------------
(* The batches cover the metrics.                                           *)

LEMMA Division ==
  ASSUME NEW a \in Nat, NEW b \in Nat \ {0}
  PROVE  /\ a \div b \in Nat
         /\ (a \div b) * b <= a /\ a < (a \div b) * b + b
  OBVIOUS

LEMMA ProductOrder ==
  ASSUME NEW x \in Nat, NEW y \in Nat, NEW b \in Nat \ {0}, x * b < y * b
  PROVE  x < y
<1> SUFFICES ASSUME y <= x
             PROVE  y * b <= x * b
  OBVIOUS
<1>1. PICK d \in Nat : x = y + d
  <2>1. x - y \in Nat /\ x = y + (x - y)
    OBVIOUS
  <2> QED
    BY <2>1
<1>2. x * b = y * b + d * b /\ d * b \in Nat
  BY <1>1
<1> QED
  BY <1>2

\* Every name is in one of the chunks.
LEMMA ChunksCover ==
  ASSUME NEW names \in Seq(STRING), NEW size \in Nat \ {0}
  PROVE  /\ Chunk(names, size) \in Seq(Seq(STRING))
         /\ \A x \in ToSet(names) : \E i \in 1 .. Len(Chunk(names, size)) :
               x \in ToSet(Chunk(names, size)[i])
<1> DEFINE N == (Len(names) + size - 1) \div size
           last(i) == IF i * size < Len(names) THEN i * size ELSE Len(names)
           part(i) == SubSeq(names, (i - 1) * size + 1, last(i))
<1>1. Len(names) \in Nat /\ Len(names) + size - 1 \in Nat /\ size \in Nat \ {0}
      /\ DOMAIN names = 1 .. Len(names)
  OBVIOUS
<1>2. N \in Nat /\ Len(names) + size - 1 < N * size + size
  BY <1>1, Division
<1>3. ASSUME NEW i \in 1 .. N
      PROVE  /\ (i - 1) * size \in Nat /\ last(i) \in Nat /\ last(i) <= Len(names)
             /\ part(i) \in Seq(STRING)
             /\ \A j \in (i - 1) * size + 1 .. last(i) : names[j] \in ToSet(part(i))
  <2>1. i - 1 \in Nat /\ i \in Nat
    BY <1>2
  <2>2. (i - 1) * size \in Nat /\ i * size \in Nat
    BY <2>1
  <2>3. last(i) \in Nat /\ last(i) <= Len(names)
    BY <1>1, <2>2
  <2> DEFINE m == (i - 1) * size + 1
             l == last(i)
  <2>4. m \in Nat /\ m >= 1 /\ l \in Nat /\ l <= Len(names)
    BY <2>2, <2>3
  <2> HIDE DEF m, l
  <2>5. \A j \in m .. l : j \in 1 .. Len(names) /\ names[j] \in STRING
    BY <2>4
  <2>6. /\ SubSeq(names, m, l) \in Seq(STRING)
        /\ Len(SubSeq(names, m, l)) = IF m <= l THEN l - m + 1 ELSE 0
        /\ \A j \in 1 .. l - m + 1 : SubSeq(names, m, l)[j] = names[m + j - 1]
    BY <2>4, <2>5, SubSeqProperties
  <2>7. ASSUME NEW j \in m .. l
        PROVE  names[j] \in ToSet(SubSeq(names, m, l))
    <3>1. j - m + 1 \in 1 .. l - m + 1 /\ m + (j - m + 1) - 1 = j /\ m <= l
      BY <2>4
    <3>2. SubSeq(names, m, l)[j - m + 1] = names[j]
      BY <2>6, <3>1
    <3>3. j - m + 1 \in DOMAIN SubSeq(names, m, l)
      BY <2>6, <3>1
    <3> QED
      BY <3>2, <3>3 DEF ToSet
  <2>8. part(i) = SubSeq(names, m, l)
    BY DEF m, l
  <2>9. \A j \in (i - 1) * size + 1 .. last(i) : j \in m .. l
    BY DEF m, l
  <2> QED
    BY <2>2, <2>3, <2>6, <2>7, <2>8, <2>9
<1>4. ASSUME NEW j \in 1 .. Len(names)
      PROVE  \E i \in 1 .. N : j \in (i - 1) * size + 1 .. last(i)
  <2> DEFINE q == (j - 1) \div size
  <2>1. j - 1 \in Nat
    BY <1>1
  <2>2. q \in Nat /\ q * size <= j - 1 /\ j - 1 < q * size + size
    BY <2>1, <1>1, Division
  <2> HIDE DEF q, N
  <2>3. q * size \in Nat /\ N * size \in Nat /\ (q + 1) * size = q * size + size
        /\ (N + 1) * size = N * size + size
    BY <1>1, <1>2, <2>2
  <2>4. (q + 1) * size < (N + 1) * size
    BY <1>1, <1>2, <2>2, <2>3
  <2>5. q + 1 < N + 1
    BY <1>1, <1>2, <2>2, <2>4, ProductOrder
  <2>6. q + 1 \in 1 .. N /\ (q + 1) - 1 = q
    BY <1>2, <2>2, <2>5
  <2>7. j \in q * size + 1 .. last(q + 1)
    BY <1>1, <2>2, <2>3
  <2> QED
    BY <2>6, <2>7
<1>5. Chunk(names, size) = [i \in 1 .. N |-> part(i)]
  BY DEF Chunk
<1> HIDE DEF N, part, last
<1>6. Chunk(names, size) \in Seq(Seq(STRING)) /\ Len(Chunk(names, size)) = N
  BY <1>2, <1>3, <1>5
<1>7. ASSUME NEW x \in ToSet(names)
      PROVE  \E i \in 1 .. N : x \in ToSet(part(i))
  <2>1. PICK j \in 1 .. Len(names) : names[j] = x
    BY <1>1 DEF ToSet
  <2> QED
    BY <1>3, <1>4, <2>1
<1> QED
  BY <1>5, <1>6, <1>7

LEMMA ToSetOfBoth ==
  ASSUME NEW a \in Seq(STRING), NEW b \in Seq(STRING)
  PROVE  a \o b \in Seq(STRING) /\ ToSet(a \o b) = ToSet(a) \cup ToSet(b)
<1>1. /\ a \o b \in Seq(STRING) /\ Len(a \o b) = Len(a) + Len(b)
      /\ \A i \in 1 .. Len(a) + Len(b) :
            (a \o b)[i] = IF i <= Len(a) THEN a[i] ELSE b[i - Len(a)]
  BY ConcatProperties
<1>2. /\ DOMAIN a = 1 .. Len(a) /\ DOMAIN b = 1 .. Len(b) /\ DOMAIN (a \o b) = 1 .. Len(a \o b)
      /\ Len(a) \in Nat /\ Len(b) \in Nat
  BY <1>1
<1>3. ASSUME NEW i \in 1 .. Len(a)
      PROVE  a[i] \in ToSet(a \o b)
  <2>1. i \in DOMAIN (a \o b) /\ (a \o b)[i] = a[i]
    BY <1>1, <1>2
  <2> QED
    BY <2>1 DEF ToSet
<1>4. ASSUME NEW i \in 1 .. Len(b)
      PROVE  b[i] \in ToSet(a \o b)
  <2>1. Len(a) + i \in DOMAIN (a \o b) /\ (a \o b)[Len(a) + i] = b[i]
    BY <1>1, <1>2
  <2> QED
    BY <2>1 DEF ToSet
<1>5. ASSUME NEW i \in 1 .. Len(a) + Len(b)
      PROVE  (a \o b)[i] \in ToSet(a) \cup ToSet(b)
  <2>1. CASE i <= Len(a)
    BY <1>1, <1>2, <2>1 DEF ToSet
  <2>2. CASE ~(i <= Len(a))
    <3>1. i - Len(a) \in DOMAIN b /\ (a \o b)[i] = b[i - Len(a)]
      BY <1>1, <1>2, <2>2
    <3> QED
      BY <3>1 DEF ToSet
  <2> QED
    BY <2>1, <2>2
<1> QED
  BY <1>1, <1>2, <1>3, <1>4, <1>5 DEF ToSet

LEMMA TupleTypes ==
  /\ OstSimple \in Seq(STRING) /\ OstOperation \in Seq(STRING)
  /\ MdtSimple \in Seq(STRING) /\ MdtOperation \in Seq(STRING) /\ MdtTotal \in Seq(STRING)
  BY NamesAssumption

\* The metrics, by the tuples they are in.
LEMMA MetricSets ==
  /\ OstMetrics = ToSet(OstSimple) \cup ToSet(OstOperation)
  /\ OperationMetrics = ToSet(OstOperation) \cup ToSet(MdtOperation)
  /\ Metrics = OstMetrics \cup ToSet(MdtSimple) \cup ToSet(MdtOperation) \cup ToSet(MdtTotal)
  /\ OstMetrics \cap (ToSet(MdtSimple) \cup ToSet(MdtOperation) \cup ToSet(MdtTotal)) = {}
  /\ OperationMetrics \cap (ToSet(OstSimple) \cup ToSet(MdtSimple) \cup ToSet(MdtTotal)) = {}
<1>1. ToSet(OstSimple \o OstOperation) = ToSet(OstSimple) \cup ToSet(OstOperation)
  BY TupleTypes, ToSetOfBoth
<1>2. ToSet(OstOperation \o MdtOperation) = ToSet(OstOperation) \cup ToSet(MdtOperation)
  BY TupleTypes, ToSetOfBoth
<1>3. /\ MdtSimple \o MdtOperation \in Seq(STRING)
      /\ ToSet(MdtSimple \o MdtOperation) = ToSet(MdtSimple) \cup ToSet(MdtOperation)
  BY TupleTypes, ToSetOfBoth
<1>4. ToSet(MdtSimple \o MdtOperation \o MdtTotal)
        = ToSet(MdtSimple) \cup ToSet(MdtOperation) \cup ToSet(MdtTotal)
  BY <1>3, TupleTypes, ToSetOfBoth
<1>5. /\ OstSimple \o MdtSimple \in Seq(STRING)
      /\ ToSet(OstSimple \o MdtSimple) = ToSet(OstSimple) \cup ToSet(MdtSimple)
  BY TupleTypes, ToSetOfBoth
<1>6. ToSet(OstSimple \o MdtSimple \o MdtTotal)
        = ToSet(OstSimple) \cup ToSet(MdtSimple) \cup ToSet(MdtTotal)
  BY <1>5, TupleTypes, ToSetOfBoth
<1>7. /\ OstMetrics = ToSet(OstSimple) \cup ToSet(OstOperation)
      /\ OperationMetrics = ToSet(OstOperation) \cup ToSet(MdtOperation)
  BY <1>1, <1>2 DEF OstMetrics, OperationMetrics
<1>8. Metrics = OstMetrics \cup ToSet(MdtSimple) \cup ToSet(MdtOperation) \cup ToSet(MdtTotal)
  BY <1>4 DEF Metrics
<1> QED
  BY <1>4, <1>6, <1>7, <1>8, NamesAssumption

LEMMA BatchesCover ==
  /\ Len(Batches) \in Nat
  /\ \A m \in Metrics : \E i \in 1 .. Len(Batches) : m \in ToSet(Batches[i])
<1> DEFINE simple == Chunk(OstSimple \o MdtSimple, BatchSize)
           ops == <<OstOperation, MdtOperation>>
           total == Chunk(MdtTotal, BatchSize)
<1>1. /\ OstSimple \o MdtSimple \in Seq(STRING)
      /\ ToSet(OstSimple \o MdtSimple) = ToSet(OstSimple) \cup ToSet(MdtSimple)
  BY TupleTypes, ToSetOfBoth
<1>2. BatchSize \in Nat \ {0}
  BY SamplesAssumption
<1>3. /\ simple \in Seq(Seq(STRING))
      /\ \A x \in ToSet(OstSimple) \cup ToSet(MdtSimple) :
            \E i \in 1 .. Len(simple) : x \in ToSet(simple[i])
  BY <1>1, <1>2, ChunksCover
<1>4. /\ total \in Seq(Seq(STRING))
      /\ \A x \in ToSet(MdtTotal) : \E i \in 1 .. Len(total) : x \in ToSet(total[i])
  BY <1>2, TupleTypes, ChunksCover
<1>5. /\ ops \in Seq(Seq(STRING)) /\ Len(ops) = 2
      /\ ops[1] = OstOperation /\ ops[2] = MdtOperation
  BY TupleTypes
<1>6. Batches = simple \o ops \o total
  BY DEF Batches
<1> HIDE DEF simple, ops, total
<1> DEFINE first == simple \o ops
<1>7. /\ first \in Seq(Seq(STRING)) /\ Len(first) = Len(simple) + 2
      /\ \A i \in 1 .. Len(simple) + 2 :
            first[i] = IF i <= Len(simple) THEN simple[i] ELSE ops[i - Len(simple)]
  <2>1. /\ simple \o ops \in Seq(Seq(STRING)) /\ Len(simple \o ops) = Len(simple) + Len(ops)
        /\ \A i \in 1 .. Len(simple) + Len(ops) : (simple \o ops)[i] =
              IF i <= Len(simple) THEN simple[i] ELSE ops[i - Len(simple)]
    BY <1>3, <1>5, ConcatProperties
  <2> QED
    BY <1>5, <2>1 DEF first
<1> HIDE DEF first
<1>8. /\ Len(Batches) = Len(first) + Len(total)
      /\ \A i \in 1 .. Len(first) + Len(total) :
            Batches[i] = IF i <= Len(first) THEN first[i] ELSE total[i - Len(first)]
  <2>1. Batches = first \o total
    BY <1>6 DEF first
  <2> QED
    BY <1>4, <1>7, <2>1, ConcatProperties
<1>9. Len(simple) \in Nat /\ Len(first) \in Nat /\ Len(total) \in Nat
  BY <1>3, <1>4, <1>7
<1>10. ASSUME NEW i \in 1 .. Len(simple)
       PROVE  i \in 1 .. Len(Batches) /\ Batches[i] = simple[i]
  BY <1>7, <1>8, <1>9
<1>11. /\ Len(simple) + 1 \in 1 .. Len(Batches) /\ Batches[Len(simple) + 1] = OstOperation
       /\ Len(simple) + 2 \in 1 .. Len(Batches) /\ Batches[Len(simple) + 2] = MdtOperation
  BY <1>5, <1>7, <1>8, <1>9
<1>12. ASSUME NEW i \in 1 .. Len(total)
       PROVE  Len(first) + i \in 1 .. Len(Batches) /\ Batches[Len(first) + i] = total[i]
  BY <1>8, <1>9
<1>13. Len(Batches) \in Nat
  BY <1>8, <1>9
<1>14. ASSUME NEW m \in Metrics
       PROVE  \E i \in 1 .. Len(Batches) : m \in ToSet(Batches[i])
  <2>1. CASE m \in ToSet(OstSimple) \cup ToSet(MdtSimple)
    BY <1>3, <1>10, <2>1
  <2>2. CASE m \in ToSet(OstOperation) \/ m \in ToSet(MdtOperation)
    BY <1>11, <2>2
  <2>3. CASE m \in ToSet(MdtTotal)
    BY <1>4, <1>12, <2>3
  <2> QED
    BY <2>1, <2>2, <2>3, MetricSets
<1> QED
  BY <1>13, <1>14

----------------------------------------------------------------------------
(* The rows while they are filled.                                          *)

\* The time series that were asked for, and those that have been normalised.
Asked == {s \in azure : \E i \in 1 .. batch : s.metric \in ToSet(Batches[i])}
Normalized == Asked \ merged
Seen(k) == {Latest(s).stamp : s \in {t \in Normalized : Kept(t) /\ Key(t) = k}} \ {None}

TypeInv ==
    /\ azure \subseteq Series /\ IsFiniteSet(azure) /\ Consistent(azure)
    /\ batch \in 0 .. Len(Batches)
    /\ merged \subseteq Asked /\ (batch < Len(Batches) => merged = Asked)
    /\ values \in [Keys -> [Metrics -> Nat \cup {None}]]
    /\ stamps \in [Keys -> Nat \cup {None}]

FieldsInv ==
    /\ \A s \in Normalized : Kept(s) => values[Key(s)][s.metric] = Latest(s).value
    /\ \A k \in Keys, m \in Metrics : values[k][m] # None =>
          \E s \in Normalized : Kept(s) /\ Key(s) = k /\ s.metric = m

DatesInv ==
    \A k \in Keys :
       IF Seen(k) = {} THEN stamps[k] = None
       ELSE stamps[k] \in Seen(k) /\ \A t \in Seen(k) : stamps[k] >= t

SamplesInv == TypeInv /\ FieldsInv /\ DatesInv

LEMMA LatestType ==
  ASSUME NEW s \in Series, Latest(s) # None
  PROVE  Latest(s).value \in Nat /\ Latest(s).stamp \in Nat \cup {None}
<1> DEFINE dated == {i \in DOMAIN s.data : s.data[i].value # None}
           P == [value : Nat \cup {None}, stamp : Nat \cup {None}]
<1>1. s.data \in Seq(P) /\ Len(s.data) \in Nat /\ DOMAIN s.data = 1 .. Len(s.data)
  <2>1. s.data \in Seq(P)
    BY SamplesAssumption
  <2> HIDE DEF P
  <2> QED
    BY <2>1, LenProperties
<1>2. dated # {} /\ Latest(s) = s.data[Max(dated)]
  BY DEF Latest
<1>3. dated \subseteq 1 .. Len(s.data)
  BY <1>1
<1>4. Max(dated) \in dated
  <2> HIDE DEF dated
  <2> QED
    BY <1>1, <1>2, <1>3, MaxBounded
<1>5. PICK i \in dated : Latest(s) = s.data[i]
  BY <1>2, <1>4
<1>6. s.data[i] \in P /\ s.data[i].value # None
  <2>1. i \in 1 .. Len(s.data)
    BY <1>3
  <2> HIDE DEF P
  <2>2. s.data[i] \in P
    BY <1>1, <2>1, ElementOfSeq
  <2> QED
    BY <2>2
<1> QED
  BY <1>5, <1>6

LEMMA KeyType ==
  ASSUME NEW s \in Series, Kept(s)
  PROVE  /\ Key(s) \in Keys /\ s.metric \in Metrics
         /\ Latest(s).value \in Nat /\ Latest(s).stamp \in Nat \cup {None}
         /\ None \notin Nat
  BY LatestType, SamplesAssumption DEF Kept, Keys

LEMMA SamplesInit == Init => SamplesInv
<1> SUFFICES ASSUME Init
             PROVE  SamplesInv
  OBVIOUS
<1>1. Asked = {} /\ Normalized = {}
  <2>1. batch = 0 /\ 1 .. 0 = {}
    BY DEF Init
  <2> QED
    BY <2>1 DEF Asked, Normalized
<1>2. \A k : Seen(k) = {}
  BY <1>1 DEF Seen
<1>3. azure \subseteq Series /\ IsFiniteSet(azure)
  <2>1. PICK n \in 0 .. MaxSeries : \E f \in [1 .. n -> Series] : azure = Range(f)
    BY DEF Init
  <2>2. PICK f \in [1 .. n -> Series] : azure = Range(f)
    BY <2>1
  <2>3. azure \subseteq Series
    BY <2>2 DEF Range
  <2>4. f \in Surjection(1 .. n, azure)
    BY <2>2 DEF Range, Surjection
  <2>5. IsFiniteSet(1 .. n)
    BY SamplesAssumption, FS_Interval
  <2> QED
    BY <2>3, <2>4, <2>5, FS_Surjection
<1>4. TypeInv
  BY <1>1, <1>3, BatchesCover DEF Init, TypeInv
<1>5. FieldsInv
  BY <1>1 DEF Init, FieldsInv
<1>6. DatesInv
  BY <1>2 DEF Init, DatesInv
<1> QED
  BY <1>4, <1>5, <1>6 DEF SamplesInv

LEMMA QueryKeeps ==
  ASSUME SamplesInv, Query
  PROVE  SamplesInv'
<1>1. /\ batch < Len(Batches) /\ batch' = batch + 1 /\ UNCHANGED <<azure, values, stamps>>
      /\ merged' = merged \cup {s \in azure : s.metric \in ToSet(Batches[batch'])}
  BY DEF Query
<1>2. batch \in Nat /\ Len(Batches) \in Nat /\ merged = Asked /\ Normalized = {}
  BY <1>1, BatchesCover DEF SamplesInv, TypeInv, Normalized
<1>3. 1 .. batch' = (1 .. batch) \cup {batch'}
  BY <1>1, <1>2
<1>4. merged' = Asked'
  BY <1>1, <1>2, <1>3 DEF Asked
<1>5. Normalized' = {}
  BY <1>4 DEF Normalized
<1>6. \A k : Seen(k)' = {} /\ Seen(k) = {}
  BY <1>2, <1>5 DEF Seen
<1>7. TypeInv'
  BY <1>1, <1>2, <1>4 DEF SamplesInv, TypeInv, Consistent
<1>8. FieldsInv'
  BY <1>1, <1>2, <1>5 DEF SamplesInv, FieldsInv
<1>9. DatesInv'
  BY <1>1, <1>6 DEF SamplesInv, DatesInv
<1> QED
  BY <1>7, <1>8, <1>9 DEF SamplesInv

LEMMA NormalizeKeeps ==
  ASSUME SamplesInv, NEW s \in merged, Normalize(s)
  PROVE  SamplesInv'
<1>1. batch = Len(Batches) /\ merged' = merged \ {s} /\ UNCHANGED <<azure, batch>>
  BY DEF Normalize
<1>2. s \in azure /\ s \in Series /\ s \in Asked /\ azure \subseteq Series
  BY DEF SamplesInv, TypeInv, Asked
<1>3. Asked' = Asked /\ Normalized' = Normalized \cup {s} /\ Normalized \subseteq azure
      /\ s \notin Normalized
  BY <1>1, <1>2 DEF Asked, Normalized
<1>4. /\ values \in [Keys -> [Metrics -> Nat \cup {None}]] /\ stamps \in [Keys -> Nat \cup {None}]
      /\ FieldsInv /\ DatesInv
  BY DEF SamplesInv, TypeInv
<1>5. /\ azure' \subseteq Series /\ IsFiniteSet(azure') /\ Consistent(azure)'
      /\ batch' \in 0 .. Len(Batches) /\ merged' \subseteq Asked'
      /\ ~(batch' < Len(Batches))
  BY <1>1, <1>3, BatchesCover DEF SamplesInv, TypeInv, Consistent
<1>6. CASE ~Kept(s)
  <2>1. UNCHANGED <<values, stamps>>
    BY <1>6 DEF Normalize
  <2>2. \A k : Seen(k)' = Seen(k)
    BY <1>3, <1>6 DEF Seen
  <2>3. FieldsInv'
    BY <1>3, <1>4, <1>6, <2>1 DEF FieldsInv
  <2>4. DatesInv'
    BY <1>4, <2>1, <2>2 DEF DatesInv
  <2> QED
    BY <1>4, <1>5, <2>1, <2>3, <2>4 DEF SamplesInv, TypeInv
<1>7. CASE Kept(s)
  <2> DEFINE key == Key(s)
             v == Latest(s).value
             d == Latest(s).stamp
  <2>1. /\ key \in Keys /\ s.metric \in Metrics /\ v \in Nat /\ d \in Nat \cup {None}
        /\ None \notin Nat
    BY <1>2, <1>7, KeyType
  <2>2. /\ values' = [values EXCEPT ![key][s.metric] = v]
        /\ stamps' = [stamps EXCEPT ![key] = Later(d, @)]
    BY <1>7 DEF Normalize
  <2>3. \A t \in Normalized : Kept(t) =>
           Key(t) \in Keys /\ t.metric \in Metrics /\ (Key(t) # key \/ t.metric # s.metric)
    <3>1. ASSUME NEW t \in Normalized, Kept(t), Key(t) = key, t.metric = s.metric
          PROVE  FALSE
      <4>1. t \in azure /\ Consistent(azure)
        BY <1>3 DEF SamplesInv, TypeInv
      <4>2. t = s
        BY <1>2, <3>1, <4>1 DEF Consistent
      <4> QED
        BY <1>3, <4>2
    <3> QED
      BY <1>2, <1>3, <3>1, KeyType
  <2>4. \A k : k # key => Seen(k)' = Seen(k)
    BY <1>3 DEF Seen
  <2>5. Seen(key)' = (Seen(key) \cup {d}) \ {None}
    BY <1>3, <1>7 DEF Seen
  <2> HIDE DEF key, v, d
  <2>6. /\ values' \in [Keys -> [Metrics -> Nat \cup {None}]]
        /\ values'[key][s.metric] = v
        /\ \A k \in Keys, m \in Metrics : k # key \/ m # s.metric => values'[k][m] = values[k][m]
    BY <1>4, <2>1, <2>2
  <2>7. /\ stamps' \in [Keys -> Nat \cup {None}] /\ stamps'[key] = Later(d, stamps[key])
        /\ \A k \in Keys : k # key => stamps'[k] = stamps[k]
    BY <1>4, <2>1, <2>2 DEF Later
  <2>8. FieldsInv'
    <3>1. ASSUME NEW t \in Normalized', Kept(t)
          PROVE  values'[Key(t)][t.metric] = Latest(t).value
      <4>1. CASE t = s
        BY <2>6, <4>1 DEF key, v
      <4>2. CASE t \in Normalized
        BY <1>4, <2>3, <2>6, <3>1, <4>2 DEF FieldsInv
      <4> QED
        BY <1>3, <4>1, <4>2
    <3>2. ASSUME NEW k \in Keys, NEW m \in Metrics, values'[k][m] # None
          PROVE  \E t \in Normalized' : Kept(t) /\ Key(t) = k /\ t.metric = m
      <4>1. CASE k = key /\ m = s.metric
        BY <1>3, <1>7, <4>1 DEF key
      <4>2. CASE k # key \/ m # s.metric
        <5>1. values[k][m] # None
          BY <2>6, <3>2, <4>2
        <5> QED
          BY <1>3, <1>4, <5>1 DEF FieldsInv
      <4> QED
        BY <4>1, <4>2
    <3> QED
      BY <3>1, <3>2 DEF FieldsInv
  <2>9. DatesInv'
    <3> SUFFICES ASSUME NEW k \in Keys
                 PROVE  IF Seen(k)' = {} THEN stamps'[k] = None
                        ELSE stamps'[k] \in Seen(k)' /\ \A t \in Seen(k)' : stamps'[k] >= t
      BY DEF DatesInv
    <3>1. IF Seen(k) = {} THEN stamps[k] = None
          ELSE stamps[k] \in Seen(k) /\ \A t \in Seen(k) : stamps[k] >= t
      BY <1>4 DEF DatesInv
    <3>2. CASE k # key
      BY <2>4, <2>7, <3>1, <3>2
    <3>3. CASE k = key
      <4>1. Seen(key) \subseteq Nat
        <5>1. ASSUME NEW t \in Normalized, Kept(t), Latest(t).stamp # None
              PROVE  Latest(t).stamp \in Nat
          BY <1>2, <1>3, <5>1, KeyType
        <5> QED
          BY <5>1 DEF Seen
      <4>2. CASE d = None
        <5>1. Seen(key)' = Seen(key) /\ stamps'[key] = stamps[key]
          BY <2>1, <2>5, <2>7, <4>1, <4>2 DEF Later
        <5> QED
          BY <3>1, <3>3, <5>1
      <4>3. CASE d # None
        <5>1. d \in Nat /\ Seen(key)' = Seen(key) \cup {d}
          BY <2>1, <2>5, <4>1, <4>3
        <5>2. CASE Seen(key) = {}
          <6>1. stamps'[key] = d
            BY <2>7, <3>1, <3>3, <5>2 DEF Later
          <6> QED
            BY <3>3, <5>1, <5>2, <6>1
        <5>3. CASE Seen(key) # {}
          <6>1. /\ stamps[key] \in Seen(key) /\ stamps[key] \in Nat /\ stamps[key] # None
                /\ \A t \in Seen(key) : t \in Nat /\ stamps[key] >= t
            BY <2>1, <3>1, <3>3, <4>1, <5>3
          <6>2. stamps'[key] = IF d > stamps[key] THEN d ELSE stamps[key]
            BY <2>7, <4>3, <6>1 DEF Later
          <6>3. stamps'[key] >= d /\ stamps'[key] >= stamps[key] /\ stamps'[key] \in {d, stamps[key]}
            BY <5>1, <6>1, <6>2
          <6>4. \A t \in Seen(key) : stamps'[key] >= t
            BY <5>1, <6>1, <6>3
          <6> QED
            BY <3>3, <5>1, <6>1, <6>3, <6>4
        <5> QED
          BY <5>2, <5>3
      <4> QED
        BY <4>2, <4>3
    <3> QED
      BY <3>2, <3>3
  <2> QED
    BY <1>5, <2>6, <2>7, <2>8, <2>9 DEF SamplesInv, TypeInv
<1> QED
  BY <1>6, <1>7

LEMMA SamplesStep ==
  ASSUME SamplesInv, [Next]_vars
  PROVE  SamplesInv'
<1>1. CASE UNCHANGED vars
  <2>1. UNCHANGED <<azure, batch, merged, values, stamps>>
    BY <1>1 DEF vars
  <2>2. Asked' = Asked /\ Normalized' = Normalized
    BY <2>1 DEF Asked, Normalized
  <2>3. \A k : Seen(k)' = Seen(k)
    BY <2>2 DEF Seen
  <2> QED
    BY <2>1, <2>2, <2>3 DEF SamplesInv, TypeInv, FieldsInv, DatesInv, Consistent
<1> QED
  BY <1>1, QueryKeeps, NormalizeKeeps DEF Next

----------------------------------------------------------------------------
(* When all is normalised.                                                  *)

\* Then everything Azure has was asked for, and is in the rows.
LEMMA AllNormalized ==
  ASSUME SamplesInv, Done
  PROVE  /\ \A s \in Shown : s \in Normalized /\ s \in Series /\ Kept(s)
         /\ \A s \in Normalized : s \in azure
         /\ \A k : Seen(k) = DatesOf(k) /\ DatesOf(k) \subseteq Nat
<1>1. batch = Len(Batches) /\ merged = {} /\ azure \subseteq Series
  BY DEF Done, SamplesInv, TypeInv
<1>2. ASSUME NEW s \in Shown
      PROVE  s \in Normalized /\ s \in Series /\ Kept(s)
  <2>1. s \in azure /\ Kept(s) /\ s.metric \in Metrics
    BY DEF Shown, Kept
  <2>2. s \in Asked
    BY <1>1, <2>1, BatchesCover DEF Asked
  <2> QED
    BY <1>1, <2>1, <2>2 DEF Normalized
<1>3. ASSUME NEW s \in Normalized
      PROVE  s \in azure
  BY DEF Normalized, Asked
<1>4. \A k : Seen(k) = DatesOf(k)
  <2>1. \A t : t \in Normalized /\ Kept(t) <=> t \in Shown
    BY <1>2, <1>3 DEF Shown
  <2> QED
    BY <2>1 DEF Seen, DatesOf
<1>5. ASSUME NEW k, NEW t \in DatesOf(k)
      PROVE  t \in Nat
  <2>1. PICK s \in Shown : t = Latest(s).stamp
    BY DEF DatesOf
  <2>2. t # None
    BY DEF DatesOf
  <2> QED
    BY <1>2, <2>1, <2>2, KeyType
<1> QED
  BY <1>2, <1>3, <1>4, <1>5

LEMMA RowsComplete ==
  ASSUME SamplesInv, Done
  PROVE  NothingIsLost
<1>1. \A s \in Shown : values[Key(s)][s.metric] = Latest(s).value
  BY AllNormalized DEF SamplesInv, FieldsInv
<1>2. ASSUME NEW k \in Keys, NEW m \in Metrics, values[k][m] # None
      PROVE  \E s \in Of(m) : Key(s) = k
  BY <1>2, AllNormalized DEF SamplesInv, FieldsInv, Of, Shown
<1>3. ASSUME NEW k \in Keys
      PROVE  stamps[k] = IF DatesOf(k) = {} THEN None ELSE Max(DatesOf(k))
  <2>1. Seen(k) = DatesOf(k) /\ DatesOf(k) \subseteq Nat
    BY AllNormalized
  <2>2. IF Seen(k) = {} THEN stamps[k] = None
        ELSE stamps[k] \in Seen(k) /\ \A t \in Seen(k) : stamps[k] >= t
    BY DEF SamplesInv, DatesInv
  <2> DEFINE D == DatesOf(k)
  <2> HIDE DEF D
  <2>3. ASSUME D # {}
        PROVE  Max(D) = stamps[k]
    <3>1. D \subseteq Nat /\ stamps[k] \in D /\ \A t \in D : stamps[k] >= t
      BY <2>1, <2>2, <2>3 DEF D
    <3> QED
      BY <3>1, MaxIs
  <2> QED
    BY <2>1, <2>2, <2>3 DEF D
<1> QED
  BY <1>1, <1>2, <1>3 DEF NothingIsLost

\* However the metrics are cut into requests, whatever Azure has and in whatever
\* order it comes, the rows hold exactly that, with the latest date of each.
THEOREM RowsHoldEverything == Spec => []NothingIsLost
<1>1. SamplesInv => NothingIsLost
  BY RowsComplete DEF NothingIsLost
<1> QED
  BY <1>1, SamplesInit, SamplesStep, PTL DEF Spec

----------------------------------------------------------------------------
(* The aggregates.                                                          *)

LEMMA ColumnFinite ==
  ASSUME NEW i, NEW n \in Nat
  PROVE  IsFiniteSet({i} \X (1 .. n))
<1>1. IsFiniteSet(1 .. n)
  BY FS_Interval
<1>2. IsFiniteSet({i})
  BY FS_Singleton
<1> QED
  BY <1>1, <1>2, FS_Product

LEMMA UnitsFinite ==
  ASSUME NEW f, NEW S, IsFiniteSet(S), \A i \in S : f[i] \in Nat
  PROVE  IsFiniteSet(Units(f, S)) /\ Sum(f, S) \in Nat
<1> DEFINE Column(i) == {i} \X (1 .. f[i])
           Columns == {Column(i) : i \in S}
<1>1. \A i \in S : IsFiniteSet(Column(i))
  BY ColumnFinite
<1>2. UNION Columns = Units(f, S)
  BY DEF Units
<1> HIDE DEF Column
<1>3. [i \in S |-> Column(i)] \in Surjection(S, Columns)
  BY DEF Surjection
<1>4. IsFiniteSet(Columns)
  BY <1>3, FS_Surjection
<1>5. IsFiniteSet(Units(f, S))
  BY <1>1, <1>2, <1>4, FS_UNION
<1> QED
  BY <1>5, FS_CardinalityType DEF Sum

\* The sum is that of other terms, one for each that is not zero.
LEMMA SumRenamed ==
  ASSUME NEW S, NEW T, NEW h \in [S -> T], NEW f, NEW g, IsFiniteSet(S),
         \A i \in S : f[i] \in Nat /\ g[h[i]] = f[i],
         \A i, j \in S : h[i] = h[j] => i = j,
         \A t \in T : g[t] # 0 => \E i \in S : h[i] = t
  PROVE  Sum(g, T) = Sum(f, S)
<1> DEFINE U == Units(f, S)
           V == Units(g, T)
           F == [u \in U |-> <<h[u[1]], u[2]>>]
<1>1. \A u \in U : u = <<u[1], u[2]>> /\ u[1] \in S /\ u[2] \in 1 .. f[u[1]]
  BY DEF Units
<1>2. \A i \in S : \A n \in 1 .. f[i] : <<i, n>> \in U
  BY DEF Units
<1>3. \A v \in V : v = <<v[1], v[2]>> /\ v[1] \in T /\ v[2] \in 1 .. g[v[1]]
  BY DEF Units
<1>4. \A t \in T : \A n \in 1 .. g[t] : <<t, n>> \in V
  BY DEF Units
<1> HIDE DEF U, V
<1>5. F \in [U -> V]
  <2> SUFFICES ASSUME NEW u \in U
               PROVE  <<h[u[1]], u[2]>> \in V
    OBVIOUS
  <2>1. h[u[1]] \in T /\ u[2] \in 1 .. g[h[u[1]]]
    BY <1>1
  <2> QED
    BY <1>4, <2>1
<1>6. ASSUME NEW u \in U, NEW w \in U, F[u] = F[w]
      PROVE  u = w
  <2>1. h[u[1]] = h[w[1]] /\ u[2] = w[2]
    BY <1>6
  <2>2. u[1] = w[1]
    BY <1>1, <2>1
  <2> QED
    BY <1>1, <2>1, <2>2
<1>7. ASSUME NEW v \in V
      PROVE  \E u \in U : F[u] = v
  <2>1. v = <<v[1], v[2]>> /\ v[1] \in T /\ v[2] \in 1 .. g[v[1]]
    BY <1>3
  <2>2. g[v[1]] # 0
    BY <2>1
  <2>3. PICK i \in S : h[i] = v[1]
    BY <2>1, <2>2
  <2>4. <<i, v[2]>> \in U
    BY <1>2, <2>1, <2>3
  <2>5. F[<<i, v[2]>>] = <<h[i], v[2]>>
    BY <2>4
  <2> QED
    BY <2>1, <2>3, <2>4, <2>5
<1> HIDE DEF F
<1>8. F \in Bijection(U, V)
  BY <1>5, <1>6, <1>7, Fun_IsBij
<1>9. IsFiniteSet(U)
  BY UnitsFinite DEF U
<1>10. Cardinality(V) = Cardinality(U)
  BY <1>8, <1>9, FS_Bijection DEF ExistsBijection
<1> QED
  BY <1>10 DEF Sum, U, V

\* The time series of one metric, and the rows that have a field of it.
LEMMA FieldsOfMetric ==
  ASSUME SamplesInv, Done, NEW m \in Metrics
  PROVE  /\ IsFiniteSet(Of(m))
         /\ \A s \in Of(m) : /\ Key(s) \in Keys /\ Latest(s).value \in Nat
                             /\ values[Key(s)][m] = Latest(s).value
         /\ \A s, t \in Of(m) : Key(s) = Key(t) => s = t
         /\ \A k \in Keys : values[k][m] # None => \E s \in Of(m) : Key(s) = k
<1>1. Of(m) \subseteq azure /\ IsFiniteSet(azure) /\ Consistent(azure)
  BY DEF Of, Shown, SamplesInv, TypeInv
<1>2. IsFiniteSet(Of(m))
  BY <1>1, FS_Subset
<1>3. ASSUME NEW s \in Of(m)
      PROVE  Key(s) \in Keys /\ Latest(s).value \in Nat /\ values[Key(s)][m] = Latest(s).value
  <2>1. s \in Shown /\ s.metric = m
    BY DEF Of
  <2>2. s \in Series /\ Kept(s) /\ values[Key(s)][m] = Latest(s).value
    BY <2>1, AllNormalized, RowsComplete DEF NothingIsLost
  <2> QED
    BY <2>2, KeyType
<1>4. \A s, t \in Of(m) : Key(s) = Key(t) => s = t
  BY <1>1 DEF Of, Consistent
<1>5. \A k \in Keys : values[k][m] # None => \E s \in Of(m) : Key(s) = k
  BY RowsComplete DEF NothingIsLost
<1> QED
  BY <1>2, <1>3, <1>4, <1>5

\* A sum over rows that have all fields of a metric is the sum over its series.
LEMMA SumOfField ==
  ASSUME SamplesInv, Done, NEW m \in Metrics, NEW K \in SUBSET Keys,
         \A s \in Of(m) : Key(s) \in K
  PROVE  SumField(K, m) = SumOf(m) /\ SumOf(m) \in Nat
<1> DEFINE f == [s \in Of(m) |-> Latest(s).value]
           g == [k \in K |-> OrZero(values[k][m])]
           h == [s \in Of(m) |-> Key(s)]
<1>1. h \in [Of(m) -> K] /\ IsFiniteSet(Of(m))
  BY FieldsOfMetric
<1>2. None \notin Nat
  BY SamplesAssumption
<1>3. \A s \in Of(m) : f[s] \in Nat /\ g[h[s]] = f[s]
  BY <1>2, FieldsOfMetric DEF OrZero
<1>4. \A s, t \in Of(m) : h[s] = h[t] => s = t
  BY FieldsOfMetric
<1>5. ASSUME NEW k \in K, g[k] # 0
      PROVE  \E s \in Of(m) : h[s] = k
  <2>1. values[k][m] # None
    BY <1>5 DEF OrZero
  <2> QED
    BY <2>1, FieldsOfMetric
<1> HIDE DEF f, g, h
<1>6. Sum(g, K) = Sum(f, Of(m))
  BY <1>1, <1>3, <1>4, <1>5, SumRenamed
<1>7. Sum(f, Of(m)) \in Nat
  BY <1>1, <1>3, UnitsFinite
<1> QED
  BY <1>6, <1>7 DEF SumField, SumOf, f, g

LEMMA InRows ==
  ASSUME NEW k \in Keys, IsRow(k), NEW family, k[1] = family
  PROVE  /\ k[3] = "-" => k \in Rows(family, TRUE)
         /\ k[3] # "-" => k \in Rows(family, FALSE)
  BY Zenon DEF Rows

\* The rows a metric is read from have all its fields.
LEMMA RowsOfMetric ==
  ASSUME SamplesInv, Done
  PROVE  /\ \A m \in {ReadOps, WriteOps} : m \in Metrics /\ \A s \in Of(m) : Key(s) \in Rows("ost", TRUE)
         /\ \A m \in {Clients, Evictions} : m \in Metrics /\ \A s \in Of(m) : Key(s) \in Rows("mdt", TRUE)
         /\ MdtOps \in Metrics /\ \A s \in Of(MdtOps) : Key(s) \in Rows("mdt", FALSE)
<1>1. ASSUME NEW m \in Metrics, NEW s \in Of(m)
      PROVE  /\ Key(s) \in Keys /\ IsRow(Key(s)) /\ s.metric = m /\ s \in Series
             /\ Key(s)[1] = Family(s) /\ Key(s)[3] = Operation(s)
  <2>1. Key(s) \in Keys /\ values[Key(s)][m] \in Nat /\ None \notin Nat
    BY FieldsOfMetric, SamplesAssumption
  <2>2. s \in Shown /\ s.metric = m
    BY DEF Of
  <2> QED
    BY <2>1, <2>2, AllNormalized DEF IsRow, Key
<1>2. ASSUME NEW m \in {ReadOps, WriteOps}
      PROVE  m \in Metrics /\ \A s \in Of(m) : Key(s) \in Rows("ost", TRUE)
  <2>1. m \in OstMetrics /\ m \notin OperationMetrics /\ m \in Metrics
    BY NamesAssumption, MetricSets
  <2>2. ASSUME NEW s \in Of(m)
        PROVE  Key(s) \in Rows("ost", TRUE)
    <3>1. s.metric = m
      BY <1>1, <2>1
    <3>2. Family(s) = "ost" /\ Operation(s) = "-"
      BY <2>1, <3>1 DEF Family, Operation
    <3>3. Key(s) \in Keys /\ IsRow(Key(s)) /\ Key(s)[1] = "ost" /\ Key(s)[3] = "-"
      BY <1>1, <2>1, <3>2
    <3> QED
      BY <3>3, InRows
  <2> QED
    BY <2>1, <2>2
<1>3. ASSUME NEW m \in {Clients, Evictions}
      PROVE  m \in Metrics /\ \A s \in Of(m) : Key(s) \in Rows("mdt", TRUE)
  <2>1. m \notin OstMetrics /\ m \notin OperationMetrics /\ m \in Metrics
    BY NamesAssumption, MetricSets
  <2>2. ASSUME NEW s \in Of(m)
        PROVE  Key(s) \in Rows("mdt", TRUE)
    <3>1. s.metric = m
      BY <1>1, <2>1
    <3>2. Family(s) = "mdt" /\ Operation(s) = "-"
      BY <2>1, <3>1 DEF Family, Operation
    <3>3. Key(s) \in Keys /\ IsRow(Key(s)) /\ Key(s)[1] = "mdt" /\ Key(s)[3] = "-"
      BY <1>1, <2>1, <3>2
    <3> QED
      BY <3>3, InRows
  <2> QED
    BY <2>1, <2>2
<1>4. MdtOps \notin OstMetrics /\ MdtOps \in OperationMetrics /\ MdtOps \in Metrics
  BY NamesAssumption, MetricSets
<1>5. ASSUME NEW s \in Of(MdtOps)
      PROVE  Key(s) \in Rows("mdt", FALSE)
  <2>1. s.metric = MdtOps /\ s \in Series
    BY <1>1, <1>4
  <2>2. s.op # "-"
    BY <2>1, SamplesAssumption
  <2>3. Operation(s) \in {"all", s.op} /\ Family(s) = "mdt"
    BY <1>4, <2>1 DEF Operation, Family
  <2>4. Operation(s) # "-"
    BY <2>2, <2>3
  <2>5. Key(s) \in Keys /\ IsRow(Key(s)) /\ Key(s)[1] = "mdt" /\ Key(s)[3] # "-"
    BY <1>1, <1>4, <2>3, <2>4
  <2> QED
    BY <2>5, InRows
<1> QED
  BY <1>2, <1>3, <1>4, <1>5

LEMMA RowsAreKeys == \A family, simple : Rows(family, simple) \in SUBSET Keys
  BY DEF Rows

LEMMA DatesAreNumbers ==
  ASSUME SamplesInv, Done, NEW k \in Keys, DatesOf(k) # {}
  PROVE  stamps[k] \in Nat
<1>1. Seen(k) = DatesOf(k) /\ DatesOf(k) \subseteq Nat
  BY AllNormalized
<1>2. stamps[k] \in Seen(k)
  BY <1>1 DEF SamplesInv, DatesInv
<1> QED
  BY <1>1, <1>2

\* The age is that of the oldest row.
LEMMA AgeIsOldest ==
  ASSUME SamplesInv, Done
  PROVE  /\ SampleMaxAge = None <=> \A k \in Keys : DatesOf(k) = {}
         /\ \A k \in Keys : DatesOf(k) # {} => Max(DatesOf(k)) + SampleMaxAge >= Now
<1>1. \A k \in Keys : stamps[k] = IF DatesOf(k) = {} THEN None ELSE Max(DatesOf(k))
  BY RowsComplete DEF NothingIsLost
<1>2. \A k \in Keys : stamps[k] \in Nat \cup {None}
  BY DEF SamplesInv, TypeInv
<1>3. None \notin Nat /\ Now \in Nat
  BY SamplesAssumption
<1>4. ASSUME NEW k \in Keys, stamps[k] # None
      PROVE  k \in Dated
  <2>1. PICK t \in Seen(k) : TRUE
    BY <1>4 DEF SamplesInv, DatesInv
  <2>2. PICK s \in Normalized : Kept(s) /\ Key(s) = k
    BY <2>1 DEF Seen
  <2>3. s \in Series /\ values[k][s.metric] = Latest(s).value
    BY <2>2, AllNormalized DEF SamplesInv, TypeInv, FieldsInv
  <2>4. IsRow(k)
    BY <1>3, <2>2, <2>3, KeyType DEF IsRow
  <2> QED
    BY <1>4, <2>4 DEF Dated, AllRows
<1>5. \A k \in Dated : k \in Keys /\ stamps[k] # None
  BY DEF Dated, AllRows
<1> DEFINE T == {stamps[k] : k \in Dated}
<1>6. T \subseteq Nat
  BY <1>2, <1>5
<1>7. CASE Dated = {}
  <2>1. \A k \in Keys : DatesOf(k) = {}
    <3> SUFFICES ASSUME NEW k \in Keys
                 PROVE  DatesOf(k) = {}
      OBVIOUS
    <3>1. stamps[k] = None
      BY <1>4, <1>7
    <3> QED
      BY <1>3, <3>1, DatesAreNumbers
  <2> QED
    BY <1>7, <2>1 DEF SampleMaxAge
<1>8. CASE Dated # {}
  <2>1. T # {}
    BY <1>8
  <2> HIDE DEF T
  <2>2. Min(T) \in Nat /\ \A t \in T : Min(T) <= t
    BY <1>6, <2>1, MinNat
  <2>3. SampleMaxAge = IF Min(T) < Now THEN Now - Min(T) ELSE 0
    BY <1>8 DEF SampleMaxAge, T
  <2>4. SampleMaxAge \in Nat /\ Min(T) + SampleMaxAge >= Now
    BY <1>3, <2>2, <2>3
  <2>5. ASSUME NEW k \in Keys, DatesOf(k) # {}
        PROVE  Max(DatesOf(k)) + SampleMaxAge >= Now
    <3>1. stamps[k] = Max(DatesOf(k)) /\ stamps[k] # None
      BY <1>1, <1>3, <2>5, DatesAreNumbers
    <3>2. stamps[k] \in T /\ stamps[k] \in Nat
      BY <1>2, <1>4, <3>1 DEF T
    <3> QED
      BY <1>3, <2>2, <2>4, <3>1, <3>2
  <2>6. \E k \in Keys : DatesOf(k) # {}
    BY <1>1, <1>5, <1>8
  <2> QED
    BY <1>3, <2>4, <2>5, <2>6
<1> QED
  BY <1>7, <1>8

\* The derived gauges are those of the time series themselves: whatever time
\* series there are, the grouping into rows counts each once, takes no missing
\* value for a zero, and makes no row older than the age says.
THEOREM AggregatesOfSeries == Spec => []AggregatesAreExact
<1>1. ASSUME SamplesInv, Done
      PROVE  AggregatesAreExact
  <2>1. /\ SumField(Rows("ost", TRUE), ReadOps) = SumOf(ReadOps) /\ SumOf(ReadOps) \in Nat
        /\ SumField(Rows("ost", TRUE), WriteOps) = SumOf(WriteOps) /\ SumOf(WriteOps) \in Nat
        /\ SumField(Rows("mdt", TRUE), Evictions) = SumOf(Evictions)
        /\ SumField(Rows("mdt", FALSE), MdtOps) = SumOf(MdtOps)
    BY <1>1, RowsOfMetric, RowsAreKeys, SumOfField
  <2> DEFINE fields(m) == Field(Rows("mdt", TRUE), m)
  <2>2. ASSUME NEW m \in {Clients, Evictions}
        PROVE  fields(m) = {Key(s) : s \in Of(m)}
    <3>1. m \in Metrics /\ None \notin Nat
      BY <1>1, RowsOfMetric, SamplesAssumption
    <3>2. \A k \in Rows("mdt", TRUE) : k \in Keys
      BY RowsAreKeys
    <3>3. \A s \in Of(m) : Key(s) \in Rows("mdt", TRUE) /\ values[Key(s)][m] \in Nat
      BY <1>1, <3>1, RowsOfMetric, FieldsOfMetric
    <3>4. \A k \in fields(m) : \E s \in Of(m) : Key(s) = k
      BY <1>1, <3>1, <3>2, FieldsOfMetric DEF Field
    <3> QED
      BY <3>1, <3>3, <3>4 DEF Field
  <2>3. Aggregate.evictions = IF Of(Evictions) = {} THEN None ELSE SumOf(Evictions)
    BY <2>1, <2>2 DEF Aggregate, SumOptional
  <2>4. Aggregate.clients =
           IF Of(Clients) = {} THEN None ELSE Max({Latest(s).value : s \in Of(Clients)})
    <3>1. \A s \in Of(Clients) : values[Key(s)][Clients] = Latest(s).value
      BY <1>1, RowsOfMetric, FieldsOfMetric
    <3>2. fields(Clients) = {Key(s) : s \in Of(Clients)}
      BY <2>2
    <3>3. {values[k][Clients] : k \in fields(Clients)} = {Latest(s).value : s \in Of(Clients)}
      <4> HIDE DEF fields
      <4> QED
        BY <3>1, <3>2
    <3>4. fields(Clients) = {} <=> Of(Clients) = {}
      <4> HIDE DEF fields
      <4> QED
        BY <3>2
    <3>5. Aggregate.clients = IF fields(Clients) = {} THEN None
                              ELSE Max({values[k][Clients] : k \in fields(Clients)})
      BY DEF Aggregate, MaxOptional
    <3> HIDE DEF fields
    <3> QED
      BY <3>3, <3>4, <3>5, Zenon
  <2>5. /\ Aggregate.ratio[1] = SumOf(MdtOps)
        /\ Aggregate.ratio[2] = IF DataOps > 1 THEN DataOps ELSE 1
    BY <2>1 DEF Aggregate
  <2>6. DataOps = SumOf(ReadOps) + SumOf(WriteOps) /\ DataOps \in Nat
    <3>1. DataOps = SumField(Rows("ost", TRUE), ReadOps) + SumField(Rows("ost", TRUE), WriteOps)
      BY Zenon DEF DataOps
    <3>2. DataOps = SumOf(ReadOps) + SumOf(WriteOps)
      BY <2>1, <3>1, Zenon
    <3> QED
      BY <2>1, <3>2
  <2>7. /\ Aggregate.ratio[2] > 0
        /\ Aggregate.ratio[2] = SumOf(ReadOps) + SumOf(WriteOps) \/ Aggregate.ratio[2] = 1
    BY <2>5, <2>6
  <2>8. Aggregate.maxAge = SampleMaxAge
    BY DEF Aggregate
  <2> QED
    BY <1>1, <2>3, <2>4, <2>5, <2>7, <2>8, AgeIsOldest DEF AggregatesAreExact
<1>2. SamplesInv => AggregatesAreExact
  BY <1>1 DEF AggregatesAreExact
<1> QED
  BY <1>2, SamplesInit, SamplesStep, PTL DEF Spec
=============================================================================
