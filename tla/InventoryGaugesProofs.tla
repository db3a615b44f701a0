------------------------ MODULE InventoryGaugesProofs ------------------------
(***************************************************************************)
(* Proofs about InventoryGauges, for any finite set of VMs, any profiles and  *)
(* any cap.  Everything rests on one invariant: the gauges always show some   *)
(* inventory in full, and the active label sets are those of that inventory.  *)
(***************************************************************************)
EXTENDS InventoryGauges, FiniteSetTheorems, TLAPS

Displayed(rows) == Shows(rows, info, power, sizes) /\ active = NewLabels(rows)

ShownInv == \E rows \in Rows : Displayed(rows)

----------------------------------------------------------------------------
(* Inventories.                                                            *)

LEMMA NoRowsIsRows == NoRows \in Rows
  BY DEF NoRows, Rows

LEMMA FoundIsFinite ==
  ASSUME NEW rows \in Rows
  PROVE  Found(rows) \subseteq Vms /\ IsFiniteSet(Found(rows)) /\ Cardinality(Found(rows)) \in Nat
<1>1. Found(rows) \subseteq Vms
  BY DEF Found
<1>2. IsFiniteSet(Found(rows))
  BY <1>1, InventoryAssumption, FS_Subset
<1> QED
  BY <1>1, <1>2, FS_CardinalityType

LEMMA ProfileOfFound ==
  ASSUME NEW rows \in Rows, NEW v \in Found(rows)
  PROVE  v \in Vms /\ rows[v] \in Profiles /\ rows[v][1] \in Sizes /\ rows[v][2] \in PowerStates
<1>1. v \in Vms /\ rows[v] \in Profiles
  BY DEF Found, Rows
<1> QED
  BY <1>1, InventoryAssumption DEF Sizes

\* A size is counted if somebody has it.
LEMMA SizeIsCounted ==
  ASSUME NEW rows \in Rows, NEW z \in Sizes
  PROVE  /\ SizeCount(rows, z) \in Nat
         /\ SizeCount(rows, z) = 0 <=> \A v \in Found(rows) : rows[v][1] # z
<1> DEFINE S == {v \in Found(rows) : rows[v][1] = z}
<1>1. IsFiniteSet(S)
  BY FoundIsFinite, FS_Subset
<1>2. Cardinality(S) \in Nat /\ (Cardinality(S) = 0 <=> S = {})
  BY <1>1, FS_CardinalityType, FS_EmptySet
<1> QED
  BY <1>2 DEF SizeCount

LEMMA SuppressedOrShown ==
  ASSUME NEW rows \in Rows
  PROVE  SuppressPerVm(rows) <=> ~PerVmShown(rows)
  BY FoundIsFinite, InventoryAssumption DEF SuppressPerVm, PerVmShown

LEMMA NoneIsFound == Found(NoRows) = {} /\ NewLabels(NoRows) = {}
<1>1. Found(NoRows) = {}
  BY DEF Found, NoRows
<1> QED
  BY <1>1 DEF NewLabels, SizeLabels, PerVmLabels

\* Labels of one family among those of an inventory.
LEMMA SizeLabelOf ==
  ASSUME NEW rows \in Rows, NEW z
  PROVE  <<"size", z, None>> \in NewLabels(rows) <=> \E v \in Found(rows) : rows[v][1] = z
  BY DEF NewLabels, SizeLabels, PerVmLabels

LEMMA PowerLabelOf ==
  ASSUME NEW rows \in Rows, NEW v, NEW s \in PowerStates
  PROVE  <<"power", v, s>> \in NewLabels(rows) <=> ~SuppressPerVm(rows) /\ v \in Found(rows)
  BY DEF NewLabels, SizeLabels, PerVmLabels

LEMMA InfoLabelOf ==
  ASSUME NEW rows \in Rows, NEW v, NEW z
  PROVE  <<"info", v, z>> \in NewLabels(rows)
           <=> ~SuppressPerVm(rows) /\ v \in Found(rows) /\ rows[v][1] = z
  BY DEF NewLabels, SizeLabels, PerVmLabels

----------------------------------------------------------------------------
(* Publishing an inventory over another one.                                *)

LEMMA PublishedSizes ==
  ASSUME NEW old \in Rows, NEW rows \in Rows, Displayed(old), NEW z \in Sizes
  PROVE  SizesAfter(rows, z) = IF SizeCount(rows, z) = 0 THEN None ELSE SizeCount(rows, z)
<1>1. SizeCount(rows, z) \in Nat
  BY SizeIsCounted
<1>2. CASE SizeCount(rows, z) = 0 /\ SizeCount(old, z) = 0
  <2>1. sizes[z] = None
    BY <1>2 DEF Displayed, Shows
  <2> QED
    BY <1>2, <2>1 DEF SizesAfter
<1>3. CASE SizeCount(rows, z) = 0 /\ SizeCount(old, z) # 0
  <2>1. <<"size", z, None>> \in NewLabels(old)
    BY <1>3, SizeIsCounted, SizeLabelOf
  <2>2. <<"size", z, None>> \notin NewLabels(rows)
    BY <1>3, SizeIsCounted, SizeLabelOf
  <2>3. <<"size", z, None>> \in Stale(rows)
    BY <2>1, <2>2 DEF Displayed, Stale
  <2> QED
    BY <1>3, <2>3 DEF SizesAfter
<1>4. CASE SizeCount(rows, z) # 0
  BY <1>1, <1>4 DEF SizesAfter
<1> QED
  BY <1>2, <1>3, <1>4

LEMMA PublishedPower ==
  ASSUME NEW old \in Rows, NEW rows \in Rows, Displayed(old),
         NEW v \in Vms, NEW s \in PowerStates
  PROVE  PowerAfter(rows, v, s) = IF ~PerVmShown(rows) \/ v \notin Found(rows) THEN None
                                  ELSE IF rows[v][2] = s THEN 1 ELSE 0
<1>1. CASE v \in Found(rows) /\ ~SuppressPerVm(rows)
  BY <1>1, SuppressedOrShown DEF PowerAfter
<1>2. CASE ~(v \in Found(rows) /\ ~SuppressPerVm(rows))
  <2>1. <<"power", v, s>> \notin NewLabels(rows)
    BY <1>2, PowerLabelOf
  <2>2. <<"power", v, s>> \notin Stale(rows) => ~(v \in Found(old) /\ ~SuppressPerVm(old))
    BY <2>1, PowerLabelOf DEF Displayed, Stale
  <2>3. <<"power", v, s>> \notin Stale(rows) => power[v][s] = None
    BY <2>2, SuppressedOrShown DEF Displayed, Shows
  <2> QED
    BY <1>2, <2>3, SuppressedOrShown DEF PowerAfter
<1> QED
  BY <1>1, <1>2

LEMMA PublishedInfo ==
  ASSUME NEW old \in Rows, NEW rows \in Rows, Displayed(old)
  PROVE  InfoAfter(rows) = {x \in Vms \X Sizes : /\ PerVmShown(rows)
                                               /\ x[1] \in Found(rows) /\ rows[x[1]][1] = x[2]}
<1> DEFINE gone == {<<x[2], x[3]>> : x \in {y \in Stale(rows) : y[1] = "info"}}
           new == IF SuppressPerVm(rows) THEN {} ELSE {<<v, rows[v][1]>> : v \in Found(rows)}
           want == {x \in Vms \X Sizes : /\ PerVmShown(rows)
                                         /\ x[1] \in Found(rows) /\ rows[x[1]][1] = x[2]}
<1>1. new = want
  <2>1. new \subseteq want
    BY ProfileOfFound, SuppressedOrShown
  <2>2. ASSUME NEW x \in want
        PROVE  x \in new
    <3>1. x = <<x[1], x[2]>> /\ x[1] \in Found(rows) /\ rows[x[1]][1] = x[2] /\ PerVmShown(rows)
      OBVIOUS
    <3>2. ~SuppressPerVm(rows)
      BY <3>1, SuppressedOrShown
    <3> QED
      BY <3>1, <3>2
  <2> QED
    BY <2>1, <2>2
<1>2. ASSUME NEW x \in info \ gone
      PROVE  x \in want
  <2>1. PICK v \in Vms, z \in Sizes : x = <<v, z>>
    BY DEF Displayed, Shows
  <2>2. v \in Found(old) /\ old[v][1] = z /\ PerVmShown(old)
    BY <2>1 DEF Displayed, Shows
  <2>3. <<"info", v, z>> \in active
    BY <2>2, InfoLabelOf, SuppressedOrShown DEF Displayed
  <2>4. <<"info", v, z>> \notin Stale(rows)
    <3> SUFFICES ASSUME <<"info", v, z>> \in Stale(rows)
                 PROVE  FALSE
      OBVIOUS
    <3> DEFINE y == <<"info", v, z>>
    <3>1. y \in Stale(rows) /\ y[1] = "info" /\ <<y[2], y[3]>> = x
      BY <2>1
    <3>2. x \in gone
      BY <3>1
    <3> QED
      BY <3>2
  <2>5. <<"info", v, z>> \in NewLabels(rows)
    BY <2>3, <2>4 DEF Stale
  <2> QED
    BY <2>1, <2>5, InfoLabelOf, SuppressedOrShown
<1>3. InfoAfter(rows) = (info \ gone) \cup new
  BY DEF InfoAfter
<1> QED
  BY <1>1, <1>2, <1>3

\* Whatever inventory is on display, a published one replaces it in full.
LEMMA PublishShows ==
  ASSUME NEW old \in Rows, NEW rows \in Rows, Displayed(old), Publish(rows)
  PROVE  Shows(rows, info', power', sizes') /\ active' = NewLabels(rows)
<1>1. info' = InfoAfter(rows) /\ active' = NewLabels(rows)
  BY DEF Publish
<1>2. \A v \in Vms, s \in PowerStates : power'[v][s] = PowerAfter(rows, v, s)
  BY DEF Publish
<1>3. \A z \in Sizes : sizes'[z] = SizesAfter(rows, z)
  BY DEF Publish
<1> QED
  BY <1>1, <1>2, <1>3, PublishedSizes, PublishedPower, PublishedInfo DEF Shows

LEMMA ClearedShows ==
  ASSUME info' = {}, power' = NoPower, sizes' = NoSizes
  PROVE  Shows(NoRows, info', power', sizes')
<1>1. \A z \in Sizes : SizeCount(NoRows, z) = 0
  BY NoRowsIsRows, NoneIsFound, SizeIsCounted
<1> QED
  BY <1>1, NoneIsFound DEF Shows, NoPower, NoSizes

----------------------------------------------------------------------------
(* The invariant.                                                          *)

Inv == TypeOK /\ ShownInv

LEMMA InvInit == Init => Inv
<1> SUFFICES ASSUME Init
             PROVE  Inv
  OBVIOUS
<1>1. TypeOK
  <2>1. Cardinality(Vms) \in Nat
    BY InventoryAssumption, FS_CardinalityType
  <2> QED
    BY <2>1, NoRowsIsRows DEF Init, TypeOK, NoPower, NoSizes, Threads
<1>2. \A z \in Sizes : SizeCount(NoRows, z) = 0
  BY NoRowsIsRows, NoneIsFound, SizeIsCounted
<1>3. Displayed(NoRows)
  BY <1>2, NoneIsFound DEF Init, Displayed, Shows, NoPower, NoSizes
<1> QED
  BY <1>1, <1>3, NoRowsIsRows DEF Inv, ShownInv

LEMMA CountsAreBounded ==
  ASSUME NEW rows \in Rows
  PROVE  /\ Cardinality(Found(rows)) \in 0 .. Cardinality(Vms)
         /\ \A z \in Sizes : SizeCount(rows, z) \in 0 .. Cardinality(Vms)
<1>1. IsFiniteSet(Vms) /\ Cardinality(Vms) \in Nat
  BY InventoryAssumption, FS_CardinalityType
<1>2. \A S \in SUBSET Vms : Cardinality(S) \in 0 .. Cardinality(Vms)
  BY <1>1, FS_Subset, FS_CardinalityType
<1>3. Found(rows) \in SUBSET Vms
  BY DEF Found
<1>4. \A z : {v \in Found(rows) : rows[v][1] = z} \in SUBSET Vms
  BY <1>3
<1> QED
  BY <1>2, <1>3, <1>4 DEF SizeCount

\* A step that leaves the gauges alone, or only sets the total.
LEMMA ShownUnchanged ==
  ASSUME ShownInv, UNCHANGED <<info, power, sizes, active>>
  PROVE  ShownInv'
  BY DEF ShownInv, Displayed, Shows

LEMMA UpdateInv ==
  ASSUME Inv, NEW t \in Threads, Update(t)
  PROVE  Inv'
<1>1. answer[t] \in Rows
  BY DEF Inv, TypeOK
<1>2. CASE ~CanWrite
  <2>1. TypeOK'
    BY <1>2, NoRowsIsRows DEF Inv, TypeOK, Update, shown
  <2>2. ShownInv'
    BY <1>2, ShownUnchanged DEF Inv, Update, shown
  <2> QED
    BY <2>1, <2>2 DEF Inv
<1>3. CASE CanWrite
  <2> DEFINE rows == answer[t]
  <2>1. Publish(rows) /\ work' = [work EXCEPT ![t] = "updated"] /\ UNCHANGED <<answer, vm, phase>>
    BY <1>3 DEF Update
  <2>2. PICK old \in Rows : Displayed(old)
    BY DEF Inv, ShownInv
  <2>3. Shows(rows, info', power', sizes') /\ active' = NewLabels(rows)
    BY <1>1, <2>1, <2>2, PublishShows
  <2>4. ShownInv'
    BY <1>1, <2>3 DEF ShownInv, Displayed
  <2>5. info' \subseteq Vms \X Sizes
    BY <2>3 DEF Shows
  <2>6. power' \in [Vms -> [PowerStates -> {0, 1, None}]]
    <3>1. \A v \in Vms, s \in PowerStates : PowerAfter(rows, v, s) \in {0, 1, None}
      BY <1>1, <2>2, PublishedPower
    <3> QED
      BY <2>1, <3>1 DEF Publish
  <2>7. sizes' \in [Sizes -> (1 .. Cardinality(Vms)) \cup {None}]
    <3>1. Cardinality(Vms) \in Nat
      BY InventoryAssumption, FS_CardinalityType
    <3>2. \A z \in Sizes : SizesAfter(rows, z) \in (1 .. Cardinality(Vms)) \cup {None}
      BY <1>1, <2>2, <3>1, PublishedSizes, CountsAreBounded
    <3> QED
      BY <2>1, <3>2 DEF Publish
  <2>8. TypeOK'
    BY <2>1, <2>5, <2>6, <2>7 DEF Inv, TypeOK, Publish
  <2> QED
    BY <2>4, <2>8 DEF Inv
<1> QED
  BY <1>2, <1>3

LEMMA ClearInv ==
  ASSUME Inv, Clear
  PROVE  Inv'
<1>1. TypeOK'
  <2>1. Cardinality(Vms) \in Nat
    BY InventoryAssumption, FS_CardinalityType
  <2> QED
    BY <2>1 DEF Inv, TypeOK, Clear, NoPower, NoSizes, round
<1>2. Shows(NoRows, info', power', sizes') /\ active' = NewLabels(NoRows)
  BY ClearedShows, NoneIsFound DEF Clear
<1>3. ShownInv'
  BY <1>2, NoRowsIsRows DEF ShownInv, Displayed
<1> QED
  BY <1>1, <1>3 DEF Inv

LEMMA InvNext == Inv /\ [Next]_vars => Inv'
<1> SUFFICES ASSUME Inv, [Next]_vars
             PROVE  Inv'
  OBVIOUS
<1> USE DEF Inv
<1>1. ASSUME NEW v \in Vms, Change(v)
      PROVE  Inv'
  <2>1. vm' \in Rows /\ UNCHANGED <<phase, work, answer, info, power, sizes, active, total>>
    BY <1>1 DEF Change, TypeOK, Rows, round, shown
  <2> QED
    BY <2>1, ShownUnchanged DEF TypeOK
<1>2. ASSUME NEW t \in Threads, Query(t)
      PROVE  Inv'
  <2>1. UNCHANGED <<vm, info, power, sizes, active, total>>
    BY <1>2 DEF Query, shown
  <2>2. phase' \in {"follower", "promoting", "collecting", "leader", "clearing"}
    BY <1>2 DEF Query, TypeOK
  <2>3. work' \in [Threads -> {"idle", "answered", "updated"}] /\ answer' \in [Threads -> Rows]
    BY <1>2 DEF Query, TypeOK
  <2> QED
    BY <2>1, <2>2, <2>3, ShownUnchanged DEF TypeOK
<1>3. ASSUME NEW t \in Threads, Update(t)
      PROVE  Inv'
  BY <1>3, UpdateInv
<1>4. ASSUME NEW t \in Threads, Summarize(t)
      PROVE  Inv'
  <2>1. answer[t] \in Rows
    BY DEF TypeOK
  <2>2. total' \in 0 .. Cardinality(Vms)
    BY <1>4, <2>1, CountsAreBounded DEF Summarize, TypeOK
  <2>3. TypeOK'
    BY <1>4, <2>2, NoRowsIsRows DEF Summarize, TypeOK
  <2> QED
    BY <1>4, <2>3, ShownUnchanged DEF Summarize
<1>5. CASE Elect \/ Promoted \/ Demote
  <2>1. /\ UNCHANGED <<vm, work, answer, info, power, sizes, active, total>>
        /\ phase' \in {"follower", "promoting", "collecting", "leader", "clearing"}
    BY <1>5 DEF Elect, Promoted, Demote, round, shown
  <2> QED
    BY <2>1, ShownUnchanged DEF TypeOK
<1>6. CASE Clear
  BY <1>6, ClearInv
<1>7. CASE UNCHANGED vars
  BY <1>7, ShownUnchanged DEF vars, round, shown, TypeOK
<1> QED
  BY <1>1, <1>2, <1>3, <1>4, <1>5, <1>6, <1>7 DEF Next, Collect

LEMMA Invariance == Spec => []Inv
  BY InvInit, InvNext, PTL DEF Spec

----------------------------------------------------------------------------

\* Every reachable state is well typed, and counts are within the number of VMs.
\* (_update_standalone_vm_metrics)
THEOREM TypeCorrect == Spec => []TypeOK
<1>1. Inv => TypeOK
  BY DEF Inv
<1> QED
  BY <1>1, Invariance, PTL

\* For any VMs, any cap and any history, an update shows its inventory and nothing
\* of what was on display before.  (_update_standalone_vm_metrics)
THEOREM UpdatesAreExact == Spec => UpdateIsExact
<1>1. ASSUME Inv, [Next]_vars, NEW t \in Threads, work[t] = "answered", work'[t] = "updated"
      PROVE  Shows(answer[t], info', power', sizes')
  <2>1. PICK u \in Threads : Update(u) \/ Query(u) \/ Summarize(u)
    BY <1>1 DEF Next, Collect, Change, Elect, Promoted, Demote, Clear, vars, round
  <2>2. Update(t) /\ CanWrite
    BY <1>1, <2>1 DEF Update, Query, Summarize, Inv, TypeOK
  <2>3. Publish(answer[t]) /\ answer[t] \in Rows
    BY <1>1, <2>2 DEF Update, Inv, TypeOK
  <2>4. PICK old \in Rows : Displayed(old)
    BY <1>1 DEF Inv, ShownInv
  <2> QED
    BY <2>3, <2>4, PublishShows
<1>2. Inv /\ [Next]_vars
        => [\A t \in Threads : work[t] = "answered" /\ work'[t] = "updated"
               => Shows(answer[t], info', power', sizes')]_vars
  BY <1>1
<1> QED
  BY <1>2, Invariance, PTL DEF Spec, UpdateIsExact

\* At any moment the per-VM series are at most as many as the cap and agree with
\* one another.  (_update_standalone_vm_metrics, _clear_resource_gauges)
THEOREM SeriesAgree == Spec => []PerVmSeriesAgree
<1>1. ASSUME Inv
      PROVE  PerVmSeriesAgree
  <2>1. PICK rows \in Rows : Displayed(rows)
    BY <1>1 DEF Inv, ShownInv
  <2>2. \A x \in info : x[1] \in Found(rows) /\ rows[x[1]][1] = x[2] /\ PerVmShown(rows)
    BY <2>1 DEF Displayed, Shows
  <2>3. Cardinality(info) <= MaxInventory
    <3>1. CASE info = {}
      BY <3>1, FS_EmptySet, InventoryAssumption
    <3>2. CASE info # {}
      <4>1. PerVmShown(rows)
        BY <2>2, <3>2
      <4> DEFINE label == [v \in Found(rows) |-> <<v, rows[v][1]>>]
      <4>2. info \subseteq {label[v] : v \in Found(rows)}
        <5> SUFFICES ASSUME NEW x \in info
                     PROVE  \E v \in Found(rows) : x = label[v]
          OBVIOUS
        <5>1. x = <<x[1], x[2]>> /\ x[1] \in Found(rows) /\ rows[x[1]][1] = x[2]
          BY <2>1, <2>2 DEF Displayed, Shows
        <5> QED
          BY <5>1
      <4>3. /\ IsFiniteSet({label[v] : v \in Found(rows)})
            /\ Cardinality({label[v] : v \in Found(rows)}) <= Cardinality(Found(rows))
        <5> HIDE DEF label
        <5> DEFINE T == {label[v] : v \in Found(rows)}
        <5>1. label \in Surjection(Found(rows), T)
          BY DEF Surjection, label
        <5> QED
          BY <5>1, FoundIsFinite, FS_Surjection
      <4>4. Cardinality(info) <= Cardinality({label[v] : v \in Found(rows)})
        BY <4>2, <4>3, FS_Subset
      <4>5. IsFiniteSet(info)
        BY <4>2, <4>3, FS_Subset
      <4> QED
        BY <4>1, <4>3, <4>4, <4>5, FoundIsFinite, FS_CardinalityType, InventoryAssumption
           DEF PerVmShown
    <3> QED
      BY <3>1, <3>2
  <2>4. ASSUME NEW v \in Vms
        PROVE  LET sized == {x \in info : x[1] = v}
                   on == {s \in PowerStates : power[v][s] = 1}
                   off == {s \in PowerStates : power[v][s] = 0}
               IN  /\ Cardinality(sized) <= 1
                   /\ IF sized = {} THEN on \cup off = {}
                      ELSE Cardinality(on) = 1 /\ on \cup off = PowerStates
    <3> DEFINE sized == {x \in info : x[1] = v}
               on == {s \in PowerStates : power[v][s] = 1}
               off == {s \in PowerStates : power[v][s] = 0}
    <3>1. CASE PerVmShown(rows) /\ v \in Found(rows)
      <4>1. rows[v][1] \in Sizes /\ rows[v][2] \in PowerStates
        BY <3>1, ProfileOfFound
      <4>2. sized = {<<v, rows[v][1]>>}
        BY <3>1, <4>1, <2>1 DEF Displayed, Shows
      <4>3. on = {rows[v][2]}
        BY <3>1, <4>1, <2>1 DEF Displayed, Shows
      <4>4. on \cup off = PowerStates
        BY <3>1, <2>1 DEF Displayed, Shows
      <4>5. Cardinality(sized) = 1 /\ Cardinality(on) = 1
        BY <4>2, <4>3, FS_Singleton
      <4>6. sized # {}
        BY <4>2
      <4>7. Cardinality(sized) <= 1
        BY <4>5
      <4> QED
        BY <4>4, <4>5, <4>6, <4>7, Zenon
    <3>2. CASE ~(PerVmShown(rows) /\ v \in Found(rows))
      <4>1. sized = {}
        BY <2>2, <3>2
      <4>2. \A s \in PowerStates : power[v][s] = None
        BY <3>2, <2>1 DEF Displayed, Shows
      <4>3. on \cup off = {}
        BY <4>2, InventoryAssumption
      <4>4. Cardinality(sized) = 0
        BY <4>1, FS_EmptySet
      <4> QED
        BY <4>1, <4>3, <4>4
    <3> QED
      BY <3>1, <3>2
  <2> QED
    BY <2>3, <2>4 DEF PerVmSeriesAgree
<1> QED
  BY <1>1, Invariance, PTL
=============================================================================
