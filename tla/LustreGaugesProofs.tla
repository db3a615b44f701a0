------------------------- MODULE LustreGaugesProofs -------------------------
(***************************************************************************)
(* What is proved of LustreGauges, for any filesystems, targets and         *)
(* failures.  The invariant says that the active label sets cover what is   *)
(* on display, that a round in flight has samples only of filesystems it    *)
(* discovered, and that a sample goes old everywhere at once.               *)
(***************************************************************************)
EXTENDS LustreGauges, FiniteSetTheorems, TLAPS

\* A round in flight, which is empty before it begins.
RoundOk(w) ==
    /\ \A f \in pending[w] : \E s \in Skus : <<f, s>> \in found[w]
    /\ \A f \in Filesystems, t \in Targets :
          read[w][f][t] # None => \E s \in Skus : <<f, s>> \in found[w]
    /\ ~busy[w] => pending[w] = {} /\ \A f \in Filesystems, t \in Targets : read[w][f][t] = None

RoundInv == \A w \in Workers : RoundOk(w)

\* Whatever is on display is known to be.
BooksInv == gauges \subseteq active

ReadIsHonest ==
    \A w \in Workers, f \in Filesystems, t \in Targets :
       point[f][t] = "old" => read[w][f][t] # "fresh"

LEMMA NoneIsNoAge == None \notin {"fresh", "old", "unstamped"} /\ None \notin Skus
  BY LustreAssumption

----------------------------------------------------------------------------
(* The label sets of a round.                                              *)

\* What Labels(w) holds of a target and of an aggregate.
LEMMA LabelsOf ==
    ASSUME NEW w \in Workers, NEW f \in Filesystems, TypeOK
    PROVE  /\ \A t \in Targets : <<"target", f, t>> \in Labels(w) <=> read[w][f][t] # None
           /\ <<"aggregate", f, None>> \in Labels(w)
                <=> \E t \in Targets : read[w][f][t] # None
           /\ \A s \in Skus : <<f, s>> \in found[w] <=> <<"info", f, s>> \in Labels(w)
  <1>1. ASSUME NEW t \in Targets
        PROVE  <<"target", f, t>> \in Labels(w) <=> read[w][f][t] # None
    BY DEF Labels, Sampled
  <1>2. <<"aggregate", f, None>> \in Labels(w) <=> \E t \in Targets : read[w][f][t] # None
    BY DEF Labels, Sampled, Aggregated
  <1>3. ASSUME NEW s \in Skus
        PROVE  <<f, s>> \in found[w] <=> <<"info", f, s>> \in Labels(w)
    <2>1. \A y \in found[w] : y = <<y[1], y[2]>>
      BY DEF TypeOK
    <2>2. <<"info", f, s>> \in Labels(w) <=> \E y \in found[w] : y[1] = f /\ y[2] = s
      BY DEF Labels
    <2>3. <<f, s>>[1] = f /\ <<f, s>>[2] = s
      OBVIOUS
    <2> QED BY <2>1, <2>2, <2>3
  <1> QED BY <1>1, <1>2, <1>3

\* They are label sets, each of a filesystem that was discovered.
LEMMA LabelsTyped ==
    ASSUME NEW w \in Workers, TypeOK
    PROVE  Labels(w) \subseteq LabelSets
  BY DEF Labels, LabelSets, TypeOK, Sampled, Aggregated

LEMMA LabelsDiscovered ==
    ASSUME NEW w \in Workers, TypeOK, RoundInv,
           NEW f \in Filesystems, NEW x \in Labels(w), x[2] = f
    PROVE  \E s \in Skus : <<"info", f, s>> \in Labels(w)
  <1>1. CASE \E y \in found[w] : x = <<"info", y[1], y[2]>> \/ x = <<"capacity", y[1], None>>
    <2>1. PICK y \in found[w] : y[1] = f
      BY <1>1
    <2>2. y = <<y[1], y[2]>> /\ y[2] \in Skus
      BY DEF TypeOK
    <2> QED BY <2>1, <2>2, LabelsOf
  <1>2. CASE x = <<"aggregate", f, None>>
    <2>1. PICK t \in Targets : read[w][f][t] # None
      BY <1>2, LabelsOf
    <2>2. PICK s \in Skus : <<f, s>> \in found[w]
      BY <2>1 DEF RoundInv, RoundOk
    <2> QED BY <2>2, LabelsOf
  <1>3. CASE \E t \in Targets : x = <<"target", f, t>>
    <2>1. PICK t \in Targets : <<"target", f, t>> \in Labels(w)
      BY <1>3
    <2>2. read[w][f][t] # None
      BY <2>1, LabelsOf
    <2>3. PICK s \in Skus : <<f, s>> \in found[w]
      BY <2>2 DEF RoundInv, RoundOk
    <2> QED BY <2>3, LabelsOf
  <1>4. \/ \E y \in found[w] : x = <<"info", y[1], y[2]>> \/ x = <<"capacity", y[1], None>>
        \/ \E g \in Aggregated(w) : x = <<"aggregate", g, None>>
        \/ \E g \in Filesystems : \E t \in Sampled(w, g) : x = <<"target", g, t>>
    BY DEF Labels
  <1> QED BY <1>1, <1>2, <1>3, <1>4 DEF Sampled

----------------------------------------------------------------------------
(* What an update does to the books.                                       *)

\* After an update the active label sets cover what is on display again; after
\* one without errors there is nothing but the round's label sets.
LEMMA UpdateBooks ==
    ASSUME NEW w \in Workers, TypeOK, BooksInv, Update(w)
    PROVE  /\ BooksInv'
           /\ failed[w] = {} => gauges' = Labels(w)
           /\ failed[w] # {} => gauges' = gauges \cup Labels(w)
           /\ Labels(w) \subseteq gauges'
  BY DEF Update, BooksInv, ActiveAfter, Stale, RemoveStale

\* How a label set on display after an update got there.
LEMMA UpdateShows ==
    ASSUME NEW w \in Workers, TypeOK, BooksInv, Update(w), NEW x \in gauges'
    PROVE  x \in Labels(w) \/ (x \in gauges /\ gauges \subseteq gauges')
  BY UpdateBooks

\* What an update takes from the active label sets was not in the round.
LEMMA StaleIsGone ==
    ASSUME NEW w \in Workers, Update(w), NEW x \in gauges
    PROVE  x \in gauges' \/ x \in Stale(w)
  BY DEF Update

----------------------------------------------------------------------------
(* Types.                                                                  *)

LEMMA InitType == Init => TypeOK
  BY DEF Init, TypeOK, NoSamples, Phases

LEMMA UpdateType ==
    ASSUME NEW w \in Workers, TypeOK, Update(w)
    PROVE  /\ gauges' \subseteq LabelSets /\ active' \subseteq LabelSets
           /\ stamp' \in [Filesystems -> [Targets -> Ages \cup {None}]]
           /\ maxAge' \in [Filesystems -> Ages \cup {None}]
  <1>1. Labels(w) \subseteq LabelSets
    BY LabelsTyped
  <1>2. gauges' \subseteq LabelSets /\ active' \subseteq LabelSets
    BY <1>1 DEF Update, ActiveAfter, TypeOK
  <1>3. ASSUME NEW f \in Filesystems, NEW t \in Targets
        PROVE  StampAfter(w, f, t) \in Ages \cup {None}
    BY DEF StampAfter, TypeOK
  <1>4. ASSUME NEW f \in Filesystems
        PROVE  MaxAgeAfter(w, f) \in Ages \cup {None}
    BY DEF MaxAgeAfter, MaxAge, TypeOK, Ages
  <1> QED BY <1>2, <1>3, <1>4 DEF Update

LEMMA NextType == TypeOK /\ [Next]_vars => TypeOK'
  <1> SUFFICES ASSUME TypeOK, [Next]_vars PROVE TypeOK'
    OBVIOUS
  <1> USE DEF TypeOK, azure, round, shown
  <1>1. ASSUME NEW f \in Filesystems, Provision(f) PROVE TypeOK'
    BY <1>1 DEF Provision
  <1>2. ASSUME NEW f \in Filesystems, Remove(f) PROVE TypeOK'
    BY <1>2 DEF Remove
  <1>3. ASSUME NEW f \in Filesystems, NEW t \in Targets, Sample(f, t) PROVE TypeOK'
    BY <1>3 DEF Sample, Ages
  <1>4. ASSUME NEW f \in Filesystems, NEW t \in Targets, Expire(f, t) PROVE TypeOK'
    BY <1>4 DEF Expire
  <1>5. ASSUME NEW f \in Filesystems, NEW t \in Targets, GrowOld(f, t) PROVE TypeOK'
    BY <1>5 DEF GrowOld, Aged, Ages
  <1>6. ASSUME NEW w \in Workers, Discover(w) PROVE TypeOK'
    BY <1>6 DEF Discover, Phases
  <1>7. ASSUME NEW w \in Workers, NEW f \in Filesystems, QueryReturns(w, f) PROVE TypeOK'
    BY <1>7 DEF QueryReturns
  <1>8. ASSUME NEW w \in Workers, NEW f \in Filesystems, QueryFails(w, f) PROVE TypeOK'
    BY <1>8 DEF QueryFails
  <1>9. ASSUME NEW w \in Workers, Apply(w) PROVE TypeOK'
    <2>1. /\ gauges' \subseteq LabelSets /\ active' \subseteq LabelSets
          /\ stamp' \in [Filesystems -> [Targets -> Ages \cup {None}]]
          /\ maxAge' \in [Filesystems -> Ages \cup {None}]
      BY <1>9, UpdateType DEF Apply
    <2> QED BY <1>9, <2>1 DEF Apply, NoSamples
  <1>10. ASSUME Elect \/ Promoted \/ Demote PROVE TypeOK'
    BY <1>10 DEF Elect, Promoted, Demote, Phases
  <1>11. ASSUME Clear PROVE TypeOK'
    BY <1>11 DEF Clear, NoSamples, Phases
  <1>12. CASE UNCHANGED vars
    BY <1>12 DEF vars
  <1> QED BY <1>1, <1>2, <1>3, <1>4, <1>5, <1>6, <1>7, <1>8, <1>9, <1>10, <1>11, <1>12
        DEF Next, AzureStep, Collect, Query, Leadership

\* Every reachable state is well typed: in particular no timestamp or age gauge
\* is ever set to the missing timestamp of a sample.
THEOREM TypeCorrect == Spec => []TypeOK
  BY InitType, NextType, PTL DEF Spec

----------------------------------------------------------------------------
(* The invariant.                                                          *)

\* The steps that touch the gauges, whoever takes them.
LEMMA GaugeSteps ==
    ASSUME [Next]_vars
    PROVE  \/ UNCHANGED shown
           \/ \E f \in Filesystems, t \in Targets : GrowOld(f, t)
           \/ \E w \in Workers : Apply(w) /\ Update(w)
           \/ Clear
  BY DEF Next, AzureStep, Provision, Remove, Sample, Expire, Collect, Discover, Query,
         QueryReturns, QueryFails, Apply, Leadership, Elect, Promoted, Demote, vars

LEMMA RoundStep == TypeOK /\ RoundInv /\ [Next]_vars => RoundInv'
  <1> SUFFICES ASSUME TypeOK, RoundInv, [Next]_vars PROVE RoundInv'
    OBVIOUS
  <1> USE DEF round
  <1>1. ASSUME NEW f \in Filesystems, NEW t \in Targets, GrowOld(f, t) PROVE RoundInv'
    <2>1. ASSUME NEW w \in Workers, NEW g \in Filesystems, NEW u \in Targets,
                 read[w][g][u] = None
          PROVE  read'[w][g][u] = None
      BY <1>1, <2>1, NoneIsNoAge DEF GrowOld, Aged, TypeOK
    <2> QED BY <1>1, <2>1 DEF GrowOld, RoundInv, RoundOk
  <1>2. ASSUME NEW w \in Workers, Discover(w) PROVE RoundInv'
    <2>1. \A f \in pending'[w] : \E s \in Skus : <<f, s>> \in found'[w]
      BY <1>2 DEF Discover, TypeOK
    <2>2. \A f \in Filesystems, t \in Targets : read[w][f][t] = None
      BY <1>2 DEF Discover, RoundInv, RoundOk
    <2>3. \A v \in Workers \ {w} : /\ pending'[v] = pending[v] /\ found'[v] = found[v]
                                   /\ busy'[v] = busy[v]
      BY <1>2 DEF Discover, TypeOK
    <2>4. busy'[w] = TRUE /\ read' = read
      BY <1>2 DEF Discover, TypeOK
    <2>5. RoundOk(w)'
      BY <2>1, <2>2, <2>4 DEF RoundOk
    <2>6. \A v \in Workers \ {w} : RoundOk(v)'
      BY <2>3, <2>4 DEF RoundInv, RoundOk
    <2> QED BY <2>5, <2>6 DEF RoundInv
  <1>3. ASSUME NEW w \in Workers, NEW f \in Filesystems, QueryReturns(w, f) PROVE RoundInv'
    <2>1. f \in pending[w] /\ found' = found /\ busy' = busy
      BY <1>3 DEF QueryReturns
    <2>2. pending'[w] \subseteq pending[w]
      BY <1>3 DEF QueryReturns, TypeOK
    <2>3. \A v \in Workers \ {w} : pending'[v] = pending[v] /\ read'[v] = read[v]
      BY <1>3 DEF QueryReturns, TypeOK
    <2>4. \A g \in Filesystems \ {f} : read'[w][g] = read[w][g]
      BY <1>3 DEF QueryReturns, TypeOK
    <2>5. busy[w]
      BY <1>3 DEF QueryReturns, RoundInv, RoundOk, TypeOK
    <2> QED BY <2>1, <2>2, <2>3, <2>4, <2>5 DEF RoundInv, RoundOk
  <1>4. ASSUME NEW w \in Workers, NEW f \in Filesystems, QueryFails(w, f) PROVE RoundInv'
    <2>1. \A v \in Workers : pending'[v] \subseteq pending[v]
      BY <1>4 DEF QueryFails, TypeOK
    <2> QED BY <1>4, <2>1 DEF QueryFails, RoundInv, RoundOk
  <1>5. ASSUME NEW w \in Workers, Apply(w) PROVE RoundInv'
    <2>1. \A v \in Workers \ {w} : /\ found'[v] = found[v] /\ read'[v] = read[v]
                                   /\ busy'[v] = busy[v]
      BY <1>5 DEF Apply, TypeOK
    <2>2. pending' = pending /\ pending[w] = {} /\ read'[w] = NoSamples
      BY <1>5 DEF Apply, TypeOK
    <2>3. \A f \in Filesystems, t \in Targets : NoSamples[f][t] = None
      BY DEF NoSamples
    <2> QED BY <2>1, <2>2, <2>3 DEF RoundInv, RoundOk
  <1>6. CASE UNCHANGED round
    BY <1>6 DEF RoundInv, RoundOk
  <1> QED BY <1>1, <1>2, <1>3, <1>4, <1>5, <1>6
        DEF Next, AzureStep, Provision, Remove, Sample, Expire, Collect, Query, Leadership,
            Elect, Promoted, Demote, Clear, vars

LEMMA BooksStep == TypeOK /\ BooksInv /\ [Next]_vars => BooksInv'
  <1> SUFFICES ASSUME TypeOK, BooksInv, [Next]_vars PROVE BooksInv'
    OBVIOUS
  <1>1. CASE UNCHANGED shown
    BY <1>1 DEF shown, BooksInv
  <1>2. ASSUME NEW f \in Filesystems, NEW t \in Targets, GrowOld(f, t) PROVE BooksInv'
    BY <1>2 DEF GrowOld, BooksInv
  <1>3. ASSUME NEW w \in Workers, Update(w) PROVE BooksInv'
    BY <1>3, UpdateBooks
  <1>4. CASE Clear
    BY <1>4 DEF Clear, BooksInv
  <1> QED BY <1>1, <1>2, <1>3, <1>4, GaugeSteps

LEMMA DatesStep == TypeOK /\ NoOrphanedDates /\ [Next]_vars => NoOrphanedDates'
  <1> SUFFICES ASSUME TypeOK, NoOrphanedDates, [Next]_vars PROVE NoOrphanedDates'
    OBVIOUS
  <1>1. CASE UNCHANGED shown
    BY <1>1 DEF shown, NoOrphanedDates
  <1>2. ASSUME NEW f \in Filesystems, NEW t \in Targets, GrowOld(f, t)
        PROVE  NoOrphanedDates'
    <2>1. \A g \in Filesystems, u \in Targets : stamp'[g][u] # None => stamp[g][u] # None
      BY <1>2, NoneIsNoAge DEF GrowOld, Aged, TypeOK
    <2> QED BY <1>2, <2>1 DEF GrowOld, NoOrphanedDates
  <1>3. ASSUME NEW w \in Workers, Update(w) PROVE NoOrphanedDates'
    <2>1. ASSUME NEW f \in Filesystems, maxAge'[f] # None
          PROVE  <<"aggregate", f, None>> \in gauges'
      <3>1. MaxAgeAfter(w, f) # None
        BY <1>3, <2>1 DEF Update
      <3>2. CASE f \in Aggregated(w)
        <4>1. <<"aggregate", f, None>> \in Labels(w)
          BY <3>2 DEF Labels
        <4> QED BY <1>3, <4>1 DEF Update
      <3>3. CASE f \notin Aggregated(w) /\ <<"aggregate", f, None>> \notin Stale(w)
        <4>1. <<"aggregate", f, None>> \in gauges
          BY <3>1, <3>3 DEF MaxAgeAfter, NoOrphanedDates
        <4> QED BY <1>3, <3>3, <4>1, StaleIsGone
      <3> QED BY <3>1, <3>2, <3>3 DEF MaxAgeAfter
    <2>2. ASSUME NEW f \in Filesystems, NEW t \in Targets, stamp'[f][t] # None
          PROVE  <<"target", f, t>> \in gauges'
      <3>1. StampAfter(w, f, t) # None
        BY <1>3, <2>2 DEF Update
      <3>2. CASE read[w][f][t] \in Ages
        <4>1. <<"target", f, t>> \in Labels(w)
          BY <3>2, LabelsOf, NoneIsNoAge DEF Ages
        <4> QED BY <1>3, <4>1 DEF Update
      <3>3. CASE read[w][f][t] \notin Ages /\ <<"target", f, t>> \notin Stale(w)
        <4>1. <<"target", f, t>> \in gauges
          BY <3>1, <3>3 DEF StampAfter, NoOrphanedDates
        <4> QED BY <1>3, <3>3, <4>1, StaleIsGone
      <3> QED BY <3>1, <3>2, <3>3 DEF StampAfter
    <2> QED BY <2>1, <2>2 DEF NoOrphanedDates
  <1>4. CASE Clear
    BY <1>4 DEF Clear, NoSamples, NoOrphanedDates
  <1> QED BY <1>1, <1>2, <1>3, <1>4, GaugeSteps

LEMMA BackedStep ==
    TypeOK /\ RoundInv /\ BooksInv /\ SeriesAreBacked /\ [Next]_vars => SeriesAreBacked'
  <1> SUFFICES ASSUME TypeOK, RoundInv, BooksInv, SeriesAreBacked, [Next]_vars
               PROVE  SeriesAreBacked'
    OBVIOUS
  <1>1. CASE UNCHANGED gauges
    BY <1>1 DEF SeriesAreBacked, Of
  <1>2. ASSUME NEW w \in Workers, Update(w) PROVE SeriesAreBacked'
    <2>1. ASSUME NEW f \in Filesystems, <<"aggregate", f, None>> \in gauges'
          PROVE  \E t \in Targets : <<"target", f, t>> \in gauges'
      <3>1. CASE <<"aggregate", f, None>> \in Labels(w)
        BY <1>2, <3>1, LabelsOf, UpdateBooks
      <3>2. CASE <<"aggregate", f, None>> \in gauges /\ gauges \subseteq gauges'
        BY <3>2 DEF SeriesAreBacked
      <3> QED BY <1>2, <2>1, <3>1, <3>2, UpdateShows
    <2>2. ASSUME NEW f \in Filesystems, NEW x \in Of(f) \cap gauges'
          PROVE  \E s \in Skus : <<"info", f, s>> \in gauges'
      <3>0. x[2] = f
        BY DEF Of
      <3>1. CASE x \in Labels(w)
        BY <1>2, <3>0, <3>1, LabelsDiscovered, UpdateBooks
      <3>2. CASE x \in gauges /\ gauges \subseteq gauges'
        BY <2>2, <3>2 DEF SeriesAreBacked
      <3> QED BY <1>2, <2>2, <3>1, <3>2, UpdateShows
    <2> QED BY <2>1, <2>2 DEF SeriesAreBacked, Of
  <1>3. CASE Clear
    BY <1>3 DEF Clear, SeriesAreBacked
  <1> QED BY <1>1, <1>2, <1>3, GaugeSteps DEF GrowOld, shown

HonestInv == StampIsHonest /\ ReadIsHonest

LEMMA HonestStep == TypeOK /\ HonestInv /\ [Next]_vars => HonestInv'
  <1> SUFFICES ASSUME TypeOK, HonestInv, [Next]_vars PROVE HonestInv'
    OBVIOUS
  <1> USE DEF HonestInv, StampIsHonest, ReadIsHonest, azure, round, shown
  <1>1. ASSUME NEW f \in Filesystems, Provision(f) PROVE HonestInv'
    BY <1>1 DEF Provision
  <1>2. ASSUME NEW f \in Filesystems, Remove(f) PROVE HonestInv'
    BY <1>2, NoneIsNoAge DEF Remove, TypeOK
  <1>3. ASSUME NEW f \in Filesystems, NEW t \in Targets, Sample(f, t) PROVE HonestInv'
    BY <1>3 DEF Sample, TypeOK
  <1>4. ASSUME NEW f \in Filesystems, NEW t \in Targets, Expire(f, t) PROVE HonestInv'
    BY <1>4, NoneIsNoAge DEF Expire, TypeOK
  <1>5. ASSUME NEW f \in Filesystems, NEW t \in Targets, GrowOld(f, t) PROVE HonestInv'
    <2>1. stamp'[f][t] # "fresh" /\ \A w \in Workers : read'[w][f][t] # "fresh"
      BY <1>5 DEF GrowOld, Aged, TypeOK
    <2>2. \A g \in Filesystems, u \in Targets :
             <<g, u>> # <<f, t>> => /\ point'[g][u] = point[g][u]
                                   /\ stamp'[g][u] = stamp[g][u]
                                   /\ \A w \in Workers : read'[w][g][u] = read[w][g][u]
      BY <1>5 DEF GrowOld, TypeOK
    <2> QED BY <2>1, <2>2
  <1>6. ASSUME NEW w \in Workers, NEW f \in Filesystems, QueryReturns(w, f) PROVE HonestInv'
    <2>1. \A t \in Targets : read'[w][f][t] \in {point[f][t], "unstamped"}
      BY <1>6 DEF QueryReturns, TypeOK
    <2>2. \A v \in Workers, g \in Filesystems :
             <<v, g>> # <<w, f>> => read'[v][g] = read[v][g]
      BY <1>6 DEF QueryReturns, TypeOK
    <2> QED BY <1>6, <2>1, <2>2 DEF QueryReturns
  <1>7. ASSUME NEW w \in Workers, Apply(w), Update(w) PROVE HonestInv'
    <2>1. \A f \in Filesystems, t \in Targets :
             stamp'[f][t] \in {read[w][f][t], stamp[f][t], None}
      BY <1>7 DEF Update, StampAfter
    <2>2. \A f \in Filesystems, t \in Targets : point[f][t] = "old" => stamp'[f][t] # "fresh"
      BY <2>1, NoneIsNoAge
    <2>3. \A v \in Workers, f \in Filesystems, t \in Targets :
             read'[v][f][t] \in {read[v][f][t], None}
      BY <1>7 DEF Apply, NoSamples, TypeOK
    <2> QED BY <1>7, <2>2, <2>3, NoneIsNoAge DEF Apply
  <1>8. ASSUME NEW w \in Workers, Apply(w), UNCHANGED shown PROVE HonestInv'
    <2>1. \A v \in Workers, f \in Filesystems, t \in Targets :
             read'[v][f][t] \in {read[v][f][t], None}
      BY <1>8 DEF Apply, NoSamples, TypeOK
    <2> QED BY <1>8, <2>1, NoneIsNoAge DEF Apply
  <1>9. CASE Clear
    BY <1>9, NoneIsNoAge DEF Clear, NoSamples
  <1>10. CASE UNCHANGED <<point, read, stamp>>
    BY <1>10
  <1> QED BY <1>1, <1>2, <1>3, <1>4, <1>5, <1>6, <1>7, <1>8, <1>9, <1>10
        DEF Next, AzureStep, Collect, Query, Discover, QueryFails, Apply, Leadership, Elect,
            Promoted, Demote, vars

Inv == TypeOK /\ RoundInv /\ BooksInv /\ NoOrphanedDates /\ SeriesAreBacked /\ HonestInv

LEMMA Invariance == Spec => []Inv
  <1>1. Init => Inv
    <2> SUFFICES ASSUME Init PROVE Inv
      OBVIOUS
    <2>1. TypeOK
      BY InitType
    <2>2. RoundInv
      BY DEF Init, RoundInv, RoundOk, NoSamples
    <2>3. BooksInv /\ NoOrphanedDates /\ SeriesAreBacked /\ HonestInv
      BY NoneIsNoAge DEF Init, BooksInv, NoOrphanedDates, SeriesAreBacked, HonestInv,
         StampIsHonest, ReadIsHonest, NoSamples
    <2> QED BY <2>1, <2>2, <2>3 DEF Inv
  <1>2. Inv /\ [Next]_vars => Inv'
    BY NextType, RoundStep, BooksStep, DatesStep, BackedStep, HonestStep DEF Inv
  <1> QED BY <1>1, <1>2, PTL DEF Spec

----------------------------------------------------------------------------
(* The theorems.                                                           *)

\* An applied round was this worker's, and wrote the gauges.
LEMMA AppliesUpdates ==
    ASSUME NEW w \in Workers, TypeOK, [Next]_vars, Applies(w)
    PROVE  Update(w)
  <1>1. ASSUME NEW v \in Workers, Discover(v) PROVE FALSE
    BY <1>1 DEF Applies, Discover, TypeOK
  <1>2. ASSUME NEW v \in Workers, Apply(v) PROVE Update(w)
    <2>1. v = w
      BY <1>2 DEF Applies, Apply, TypeOK
    <2> QED BY <1>2, <2>1 DEF Applies, Apply
  <1>3. CASE UNCHANGED busy
    BY <1>3 DEF Applies
  <1> QED BY <1>1, <1>2, <1>3
        DEF Next, AzureStep, Provision, Remove, Sample, Expire, GrowOld, Collect, Query,
            QueryReturns, QueryFails, Leadership, Elect, Promoted, Demote, Clear, round, vars

\* For any filesystems and any history of failures, overlapping rounds and
\* changes of leadership, _update_lustre_metrics leaves exactly the series of a
\* round that had no errors.
THEOREM CleanRounds == Spec => CleanRoundIsExact
  <1>1. Inv /\ [Next]_vars
           => (\A w \in Workers : Applies(w) /\ failed[w] = {} => gauges' = Labels(w))
    BY AppliesUpdates, UpdateBooks DEF Inv
  <1> QED BY <1>1, Invariance, PTL DEF Spec, CleanRoundIsExact

\* A round that failed to query a filesystem takes none of its series.
THEOREM FailuresHideNothing == Spec => FailureHidesNothing
  <1>1. Inv /\ [Next]_vars
           => (\A w \in Workers : \A f \in failed[w] :
                  Applies(w) => gauges \cap Of(f) \subseteq gauges')
    <2> SUFFICES ASSUME Inv, [Next]_vars, NEW w \in Workers, NEW f \in failed[w], Applies(w)
                 PROVE  gauges \cap Of(f) \subseteq gauges'
      OBVIOUS
    <2> QED BY AppliesUpdates, UpdateBooks DEF Inv
  <1> QED BY <1>1, Invariance, PTL DEF Spec, FailureHidesNothing

\* Aggregates are backed by targets and series by an info series, always.
THEOREM Backed == Spec => []SeriesAreBacked
  BY Invariance, PTL DEF Inv

\* No timestamp or age outlives its series.
THEOREM DatesBelong == Spec => []NoOrphanedDates
  BY Invariance, PTL DEF Inv

\* No timestamp gauge calls fresh what Azure's latest sample shows to be old.
THEOREM StampsHonest == Spec => []StampIsHonest
  BY Invariance, PTL DEF Inv, HonestInv

----------------------------------------------------------------------------
(* The rounds of a thread implement FetchRound.                             *)

\* A failure is not pending any more, and forgotten with its round.
FailuresInv ==
    \A w \in Workers : failed[w] \cap pending[w] = {} /\ (~busy[w] => failed[w] = {})

\* How a thread's own steps, and all others, move its round.
Untouched(w) ==
    /\ busy'[w] = busy[w] /\ found'[w] = found[w]
    /\ pending'[w] = pending[w] /\ failed'[w] = failed[w]
    /\ (busy[w] \/ sku' = sku \/ pending[w] = {})

Discovers(w) ==
    /\ ~busy[w] /\ busy'[w] = TRUE /\ sku' = sku
    /\ found'[w] = {<<f, sku[f]>> : f \in {g \in Filesystems : sku[g] # None}}
    /\ pending'[w] = {f \in Filesystems : sku[f] # None}
    /\ failed'[w] = failed[w]

Accounts(w) ==
    /\ busy[w] /\ busy'[w] = TRUE /\ found'[w] = found[w]
    /\ \E f \in pending[w] :
          /\ pending'[w] = pending[w] \ {f}
          /\ failed'[w] = failed[w] \/ failed'[w] = failed[w] \cup {f}

Closes(w) ==
    /\ busy[w] /\ pending[w] = {} /\ ~busy'[w]
    /\ pending'[w] = {} /\ failed'[w] = {}

LEMMA RoundMoves ==
  ASSUME TypeOK, RoundInv, [Next]_vars, NEW w \in Workers
  PROVE  Untouched(w) \/ Discovers(w) \/ Accounts(w) \/ Closes(w)
<1> USE DEF TypeOK
<1>1. ~busy[w] => pending[w] = {}
  BY DEF RoundInv, RoundOk
<1>2. CASE AzureStep \/ Leadership \/ UNCHANGED vars
  BY <1>1, <1>2 DEF AzureStep, Provision, Remove, Sample, Expire, GrowOld, Leadership, Elect,
        Promoted, Demote, Clear, vars, azure, round, Untouched
<1>3. ASSUME NEW v \in Workers, v # w, Collect(v)
      PROVE  Untouched(w)
  BY <1>3 DEF Collect, Discover, Query, QueryReturns, QueryFails, Apply, azure, Untouched
<1>4. CASE Discover(w)
  <2>1. Discovers(w)
    BY <1>4 DEF Discover, Discovers, azure
  <2> QED
    BY <2>1
<1>5. CASE Query(w)
  <2>1. PICK f \in Filesystems : QueryReturns(w, f) \/ QueryFails(w, f)
    BY <1>5 DEF Query
  <2>2. busy[w]
    BY <1>1, <2>1 DEF QueryReturns, QueryFails
  <2>3. f \in pending[w] /\ pending'[w] = pending[w] \ {f} /\ found' = found /\ busy' = busy
    BY <2>1 DEF QueryReturns, QueryFails
  <2>4. failed'[w] = failed[w] \/ failed'[w] = failed[w] \cup {f}
    BY <2>1 DEF QueryReturns, QueryFails
  <2> QED
    BY <2>2, <2>3, <2>4 DEF Accounts
<1>6. CASE Apply(w)
  BY <1>6 DEF Apply, Closes
<1> QED
  BY <1>2, <1>3, <1>4, <1>5, <1>6 DEF Next, Collect

LEMMA FailuresStep ==
  ASSUME TypeOK, RoundInv, FailuresInv, [Next]_vars
  PROVE  FailuresInv'
<1> SUFFICES ASSUME NEW w \in Workers
             PROVE  failed'[w] \cap pending'[w] = {} /\ (~busy'[w] => failed'[w] = {})
  BY DEF FailuresInv
<1>1. failed[w] \cap pending[w] = {} /\ (~busy[w] => failed[w] = {})
  BY DEF FailuresInv
<1> QED
  BY <1>1, RoundMoves DEF Untouched, Discovers, Accounts, Closes

LEMMA FetchStep ==
  ASSUME TypeOK, TypeOK', RoundInv, FailuresInv, [Next]_vars, NEW w \in Workers
  PROVE  [Round(w)!Next]_(Round(w)!vars)
<1> DEFINE there == IF busy[w] THEN Discovered(w) ELSE {f \in Filesystems : sku[f] # None}
           good == IF busy[w] THEN Discovered(w) \ (pending[w] \cup failed[w]) ELSE {}
           bad == Cardinality(failed[w])
<1>1. /\ failed[w] \cap pending[w] = {} /\ (~busy[w] => failed[w] = {} /\ pending[w] = {})
      /\ failed[w] \subseteq Filesystems /\ IsFiniteSet(failed[w])
      /\ Discovered(w) \subseteq Filesystems /\ Discovered(w)' \subseteq Filesystems
      /\ pending[w] \subseteq Discovered(w)
  <2>1. \A f \in pending[w] : \E s \in Skus : <<f, s>> \in found[w]
    BY DEF RoundInv, RoundOk
  <2>2. \A f, s : <<f, s>>[1] = f
    OBVIOUS
  <2>3. pending[w] \subseteq Discovered(w)
    BY <2>1, <2>2 DEF Discovered
  <2> QED
    BY <2>3, LustreAssumption, FS_Subset DEF FailuresInv, RoundInv, RoundOk, TypeOK, Discovered
<1>2. Cardinality({}) = 0
  BY FS_EmptySet
<1>3. CASE Untouched(w)
  <2>1. Discovered(w)' = Discovered(w) /\ bad' = bad
    BY <1>3 DEF Untouched, Discovered
  <2>2. CASE busy[w] \/ sku' = sku
    BY <1>3, <2>1, <2>2 DEF Untouched, Round!vars
  <2>3. CASE ~busy[w]
    <3>1. good' = {} /\ bad' = 0 /\ pending[w] = {} /\ pending'[w] = {} /\ there' \subseteq Filesystems
      BY <1>1, <1>2, <1>3, <2>1, <2>3 DEF Untouched
    <3>2. Round(w)!Begin
      BY <3>1 DEF Round!Begin
    <3> QED
      BY <3>2 DEF Round!Next
  <2> QED
    BY <2>2, <2>3
<1>4. CASE Discovers(w)
  <2>1. Discovered(w)' = pending'[w]
    <3>1. \A f, s : <<f, s>>[1] = f
      OBVIOUS
    <3>2. \A f : f \in Discovered(w)' <=> \E g \in Filesystems : sku[g] # None /\ <<g, sku[g]>>[1] = f
      BY <1>4 DEF Discovers, Discovered
    <3>3. \A f : f \in Discovered(w)' <=> f \in pending'[w]
      BY <1>4, <3>1, <3>2 DEF Discovers
    <3> QED
      BY <3>3
  <2>2. there' = there /\ good = {} /\ good' = {} /\ bad = 0 /\ bad' = 0 /\ pending[w] = {}
        /\ pending'[w] = there
    BY <1>1, <1>2, <1>4, <2>1 DEF Discovers
  <2>3. CASE there = {}
    BY <2>2, <2>3 DEF Round!vars
  <2>4. CASE there # {}
    <3>1. Round(w)!Discover
      BY <2>2, <2>4 DEF Round!Discover
    <3> QED
      BY <3>1 DEF Round!Next
  <2> QED
    BY <2>3, <2>4
<1>5. CASE Accounts(w)
  <2>1. PICK f \in pending[w] :
           /\ pending'[w] = pending[w] \ {f}
           /\ failed'[w] = failed[w] \/ failed'[w] = failed[w] \cup {f}
    BY <1>5 DEF Accounts
  <2>2. there' = there /\ Discovered(w)' = Discovered(w) /\ busy[w] /\ busy'[w]
    BY <1>5 DEF Accounts, Discovered
  <2>3. f \notin failed[w] /\ f \in Discovered(w)
    BY <1>1, <2>1
  <2>4. Round(w)!Deliver(f) \/ Round(w)!Miss(f)
    <3>1. CASE failed'[w] = failed[w]
      <4>1. good' = good \cup {f} /\ bad' = bad
        BY <2>1, <2>2, <2>3, <3>1
      <4> QED
        BY <4>1 DEF Round!Deliver
    <3>2. CASE failed'[w] = failed[w] \cup {f}
      <4>1. good' = good
        BY <2>1, <2>2, <3>2
      <4>2. bad' = bad + 1
        BY <1>1, <2>3, <3>2, FS_AddElement
      <4> QED
        BY <4>1, <4>2 DEF Round!Miss
    <3> QED
      BY <2>1, <3>1, <3>2
  <2>5. Round(w)!Account
    BY <2>1, <2>2, <2>4 DEF Round!Account
  <2> QED
    BY <2>5 DEF Round!Next
<1>6. CASE Closes(w)
  <2>1. good' = {} /\ bad' = 0 /\ pending[w] = {} /\ pending'[w] = {} /\ there' \subseteq Filesystems
    BY <1>2, <1>6 DEF Closes
  <2>2. Round(w)!Begin
    BY <2>1 DEF Round!Begin
  <2> QED
    BY <2>2 DEF Round!Next
<1> QED
  BY <1>3, <1>4, <1>5, <1>6, RoundMoves

\* Each thread's rounds are those FetchRound promises and AzureFetch keeps: LustreGauges
\* leaves them no outcome that a collection cannot have.
THEOREM RoundsImplementFetch ==
  ASSUME NEW w \in Workers
  PROVE  Spec => Round(w)!Spec
<1>1. Init => TypeOK /\ RoundInv /\ FailuresInv
  BY InitType DEF Init, RoundInv, RoundOk, FailuresInv, NoSamples
<1>2. TypeOK /\ RoundInv /\ FailuresInv /\ [Next]_vars
         => (TypeOK /\ RoundInv /\ FailuresInv)' /\ [Round(w)!Next]_(Round(w)!vars)
  BY NextType, RoundStep, FailuresStep, FetchStep
<1>3. Init => Round(w)!Init
  BY FS_EmptySet DEF Init, Round!Init
<1> QED
  BY <1>1, <1>2, <1>3, PTL DEF Spec, Round!Spec
=============================================================================
