--------------------------- MODULE WorkloadProofs ---------------------------
(***************************************************************************)
(* What is proved of Workload, for any dataset, number of pods, capacity,    *)
(* limits and failures, and of the guards of DatasetPaths, for any           *)
(* filesystem and any links in it.  FillInv ties what a pod has counted to   *)
(* what it has on disk; ReadInv what it has planned and selected to the      *)
(* outputs it leaves.  Sums are cardinalities of sets of units, so that they *)
(* need no induction.                                                      *)
(***************************************************************************)
EXTENDS Workload, DatasetPaths, FiniteSetTheorems, FunctionTheorems, TLAPS

----------------------------------------------------------------------------
(* Sums over finite sets.                                                  *)

LEMMA ColumnSize ==
  ASSUME NEW i, NEW n \in Nat
  PROVE  IsFiniteSet({i} \X (1 .. n)) /\ Cardinality({i} \X (1 .. n)) = n
<1>1. IsFiniteSet(1 .. n) /\ Cardinality(1 .. n) = n
  BY FS_Interval
<1>2. [k \in 1 .. n |-> <<i, k>>] \in Bijection(1 .. n, {i} \X (1 .. n))
  <2> DEFINE F == [k \in 1 .. n |-> <<i, k>>]
  <2>1. F \in [1 .. n -> {i} \X (1 .. n)]
    OBVIOUS
  <2>2. \A a, b \in 1 .. n : F[a] = F[b] => a = b
    OBVIOUS
  <2>3. \A t \in {i} \X (1 .. n) : \E k \in 1 .. n : F[k] = t
    OBVIOUS
  <2> QED
    BY <2>1, <2>2, <2>3, Fun_IsBij
<1> QED
  BY <1>1, <1>2, FS_Bijection DEF ExistsBijection

LEMMA UnitsFinite ==
  ASSUME NEW f, NEW S, IsFiniteSet(S), \A i \in S : f[i] \in Nat
  PROVE  IsFiniteSet(Units(f, S))
<1> DEFINE Column(i) == {i} \X (1 .. f[i])
           Columns == {Column(i) : i \in S}
<1>1. \A i \in S : IsFiniteSet(Column(i))
  BY ColumnSize
<1>2. UNION Columns = Units(f, S)
  BY DEF Units
<1> HIDE DEF Column
<1>3. [i \in S |-> Column(i)] \in Surjection(S, Columns)
  BY DEF Surjection
<1>4. IsFiniteSet(Columns)
  BY <1>3, FS_Surjection
<1> QED
  BY <1>1, <1>2, <1>4, FS_UNION

LEMMA SumType ==
  ASSUME NEW f, NEW S, IsFiniteSet(S), \A i \in S : f[i] \in Nat
  PROVE  Sum(f, S) \in Nat
  BY UnitsFinite, FS_CardinalityType DEF Sum

LEMMA SumEmpty == \A f : Sum(f, {}) = 0
<1>1. \A f : Units(f, {}) = {}
  BY DEF Units
<1> QED
  BY <1>1, FS_EmptySet DEF Sum

\* A sum grows with its terms and with their number.
LEMMA SumMonotone ==
  ASSUME NEW f, NEW g, NEW S, NEW T, IsFiniteSet(T), S \subseteq T,
         \A i \in T : g[i] \in Nat, \A i \in S : f[i] \in Nat /\ f[i] <= g[i]
  PROVE  Sum(f, S) <= Sum(g, T)
<1>1. Units(f, S) \subseteq Units(g, T)
  <2> SUFFICES ASSUME NEW i \in S, NEW k \in 1 .. f[i]
               PROVE  <<i, k>> \in Units(g, T)
    BY DEF Units
  <2>1. i \in T /\ k \in 1 .. g[i]
    OBVIOUS
  <2> QED
    BY <2>1 DEF Units
<1>2. IsFiniteSet(Units(g, T))
  BY UnitsFinite
<1> QED
  BY <1>1, <1>2, FS_Subset DEF Sum

\* The sum over a union.
LEMMA SumUnion ==
  ASSUME NEW f, NEW S, NEW T, IsFiniteSet(S), IsFiniteSet(T),
         \A i \in S \cup T : f[i] \in Nat
  PROVE  /\ Sum(f, S \cup T) <= Sum(f, S) + Sum(f, T)
         /\ S \cap T = {} => Sum(f, S \cup T) = Sum(f, S) + Sum(f, T)
<1> DEFINE U == Units(f, S)
           V == Units(f, T)
<1>1. Units(f, S \cup T) = U \cup V
  BY DEF Units
<1>2. S \cap T = {} => U \cap V = {}
  <2> SUFFICES ASSUME NEW x \in U, x \in V
               PROVE  \E i : i \in S /\ i \in T
    OBVIOUS
  <2>1. PICK i \in S : x \in {i} \X (1 .. f[i])
    BY DEF Units
  <2>2. PICK j \in T : x \in {j} \X (1 .. f[j])
    BY DEF Units
  <2>3. x[1] = i /\ x[1] = j
    BY <2>1, <2>2
  <2> QED
    BY <2>1, <2>2, <2>3
<1>3. IsFiniteSet(U) /\ IsFiniteSet(V)
  BY UnitsFinite
<1> HIDE DEF U, V
<1>4. /\ Cardinality(U) \in Nat /\ Cardinality(V) \in Nat /\ Cardinality(U \cap V) \in Nat
      /\ Cardinality(U \cup V) = Cardinality(U) + Cardinality(V) - Cardinality(U \cap V)
  BY <1>3, FS_Union, FS_CardinalityType, FS_Intersection
<1>5. U \cap V = {} => Cardinality(U \cap V) = 0
  BY FS_EmptySet
<1>6. Sum(f, S) = Cardinality(U) /\ Sum(f, T) = Cardinality(V)
  BY DEF Sum, U, V
<1>7. Sum(f, S \cup T) = Cardinality(U \cup V)
  BY <1>1 DEF Sum
<1> QED
  BY <1>2, <1>4, <1>5, <1>6, <1>7

LEMMA SumSingle ==
  ASSUME NEW f, NEW i, f[i] \in Nat
  PROVE  Sum(f, {i}) = f[i]
<1>1. Units(f, {i}) = {i} \X (1 .. f[i])
  BY DEF Units
<1> QED
  BY <1>1, ColumnSize DEF Sum

\* One term changes, or is new where there was none.
LEMMA SumUpdate ==
  ASSUME NEW f, NEW g, NEW S, NEW i, IsFiniteSet(S),
         \A j \in S \ {i} : f[j] \in Nat /\ g[j] = f[j],
         i \in S => f[i] \in Nat, g[i] \in Nat
  PROVE  Sum(g, S \cup {i}) = Sum(f, S) + g[i] - (IF i \in S THEN f[i] ELSE 0)
<1> DEFINE R == S \ {i}
<1>1. R \cap {i} = {} /\ R \cup {i} = S \cup {i} /\ (i \in S => R \cup {i} = S)
      /\ (i \notin S => R = S)
  OBVIOUS
<1>2. IsFiniteSet(R) /\ IsFiniteSet({i})
  BY FS_RemoveElement, FS_Singleton
<1>3. /\ \A j \in R : f[j] \in Nat /\ g[j] = f[j]
      /\ \A j \in R \cup {i} : g[j] \in Nat
      /\ i \in S => \A j \in R \cup {i} : f[j] \in Nat
  OBVIOUS
<1> HIDE DEF R
<1>4. Units(f, R) = Units(g, R)
  <2>1. \A j \in R : {j} \X (1 .. f[j]) = {j} \X (1 .. g[j])
    BY <1>3
  <2> QED
    BY <2>1 DEF Units
<1>5. Sum(g, R) = Sum(f, R) /\ Sum(f, R) \in Nat
  BY <1>2, <1>3, <1>4, SumType DEF Sum
<1>6. Sum(g, R \cup {i}) = Sum(g, R) + g[i]
  <2>1. Sum(g, R \cup {i}) = Sum(g, R) + Sum(g, {i})
    BY <1>1, <1>2, <1>3, SumUnion
  <2> QED
    BY <2>1, SumSingle
<1>7. ASSUME i \in S
      PROVE  Sum(f, R \cup {i}) = Sum(f, R) + f[i]
  <2>1. Sum(f, R \cup {i}) = Sum(f, R) + Sum(f, {i})
    BY <1>1, <1>2, <1>3, <1>7, SumUnion
  <2> QED
    BY <1>7, <2>1, SumSingle
<1>8. CASE i \in S
  <2>1. /\ Sum(f, S) = Sum(f, R) + f[i] /\ Sum(g, S \cup {i}) = Sum(f, R) + g[i]
        /\ f[i] \in Nat
    BY <1>1, <1>5, <1>6, <1>7, <1>8
  <2> QED
    BY <1>5, <1>8, <2>1
<1>9. CASE i \notin S
  BY <1>1, <1>5, <1>6, <1>9
<1> QED
  BY <1>8, <1>9

Closing == {"close", "enospc", "error"}
Writing == {"open", "write"} \cup Closing
FillPhases == Writing \cup {"top", "ended"}
ReadPhases == {"epoch", "read", "output", "ended"}
States == {"none", "torn", "sidecar", "whole"}

Phases == IF job.mode = "write-only" THEN FillPhases ELSE ReadPhases

ControlTypes ==
    /\ job \in Jobs
    /\ pc \in [Pods -> Phases]
    /\ sigterm \in [Pods -> BOOLEAN]
    /\ failures \in [Pods -> 0 .. MaxFailures]
    /\ exit \in [Pods -> 0 .. 3]

FillTypes ==
    /\ free \in Nat
    /\ disk \in [Pods -> Seq(Nat)]
    /\ index \in [Pods -> Nat] /\ counted \in [Pods -> Nat]
    /\ remaining \in [Pods -> 0 .. FileSize]
    /\ buffered \in [Pods -> 0 .. Buffer]
    /\ written \in [Pods -> 0 .. MaxWritten]
    /\ reason \in [Pods -> {"none", "sigterm", "files_per_pod", "target_bytes", "enospc"}]

ReadTypes ==
    /\ epoch \in [Pods -> Nat] /\ planned \in [Pods -> Nat]
    /\ todo \in [Pods -> SUBSET Dataset]
    /\ current \in [Pods -> Dataset \cup {0}]
    /\ artifact \in [Pods -> [Dataset -> States]]

TypeInv == ControlTypes /\ FillTypes /\ ReadTypes

\* What a pod has on disk: the counted files, and at most the one it is at, of
\* which the buffer has the rest.
FilesInv(p) ==
    /\ counted[p] = index[p]
    /\ Len(disk[p]) \in {index[p], index[p] + 1}
    /\ pc[p] \in {"write"} \cup Closing => Len(disk[p]) = index[p] + 1
    /\ pc[p] \in {"write", "close"} =>
          disk[p][index[p] + 1] + buffered[p] = FileSize - remaining[p]
    /\ pc[p] \notin {"write"} \cup Closing => buffered[p] = 0
    /\ pc[p] = "close" => remaining[p] = 0 \/ sigterm[p] \/ Reached(p)
    /\ \A i \in 1 .. index[p] :
          \/ disk[p][i] = FileSize
          \/ i = index[p] /\ pc[p] \in {"top", "ended"} /\ (sigterm[p] \/ Reached(p))
    /\ job.filesPerPod > 0 =>
          Len(disk[p]) <= job.filesPerPod /\ (pc[p] \in Writing => index[p] < job.filesPerPod)

\* Below its target a pod has no more than it counted, but for the file at the
\* index: a chunk that failed may have left a part there, until it is opened again.
TargetInv(p) ==
    job.target > 0 =>
       /\ Bytes(p) + buffered[p] < job.target + ChunkSize
       /\ pc[p] \in {"open", "write"} => written[p] < job.target
       /\ pc[p] # "ended" /\ written[p] < job.target => Bytes(p) - Present(p) <= written[p]
       /\ pc[p] \in {"write", "close"} /\ written[p] < job.target =>
             Bytes(p) + buffered[p] <= written[p]

Honest(p) ==
    /\ Bytes(p) < written[p] + ChunkSize /\ written[p] <= Bytes(p) + Buffer
    /\ reason[p] # "enospc" => written[p] = Bytes(p)

\* Without errors it has exactly that, and a part of a chunk more once a write
\* has raised with the buffer empty.
CountInv(p) ==
    failures[p] = 0 =>
       /\ pc[p] \in {"top", "open"} => Len(disk[p]) = index[p]
       /\ pc[p] # "ended" =>
             \/ Bytes(p) + buffered[p] = written[p]
             \/ /\ pc[p] \in {"enospc", "error"} /\ buffered[p] = 0
                /\ written[p] <= Bytes(p) /\ Bytes(p) < written[p] + ChunkSize
       /\ Succeeded(p) => Honest(p)

PodInv(p) == FilesInv(p) /\ TargetInv(p) /\ CountInv(p)

\* No byte of the filesystem is lost or counted twice.
SpaceInv == Sum([p \in Pods |-> Bytes(p)], Pods) + free = Capacity - job.used

FillInv == TypeInv /\ SpaceInv /\ \A p \in Pods : PodInv(p)

Touched(p) == {f \in Dataset : artifact[p][f] # "none"}
Due(p) == IF pc[p] = "output" THEN {current[p]} ELSE {}

PlanInv(p) ==
    /\ Due(p) \subseteq Dataset
    /\ Sum(Payload, Touched(p) \cup todo[p] \cup Due(p)) <= planned[p]

ShardInv(p) ==
    pc[p] # "ended" \/ exit[p] = 0 =>
       /\ Touched(p) = Whole(p)
       /\ Unlimited => Whole(p) \cup todo[p] \cup Due(p) \subseteq Shard(p)
       /\ Unlimited /\ pc[p] # "epoch" => Shard(p) \subseteq Whole(p) \cup todo[p] \cup Due(p)
       /\ pc[p] \in {"epoch", "ended"} => todo[p] = {}

VerdictInv ==
    verdict = "failed" =>
       /\ \A p \in Pods : pc[p] = "ended"
       /\ \E p \in Pods, f \in Dataset : artifact[p][f] = "torn"

ReadInv ==
    /\ TypeInv /\ VerdictInv
    /\ \A p \in Pods : PlanInv(p)
    /\ Strict => \A p \in Pods : ShardInv(p)

----------------------------------------------------------------------------
(* Types.                                                                  *)

LEMMA JobType ==
  ASSUME job \in Jobs
  PROVE  /\ job.mode \in {"write-only", "read-write-output"}
         /\ job.failRead \in BOOLEAN /\ job.failWrite \in BOOLEAN
         /\ job.target \in Nat /\ job.filesPerPod \in Nat /\ job.bytesPerPod \in Nat
         /\ job.used \in 0 .. Capacity
         /\ job.target <= MaxWritten
  BY WorkloadAssumption

LEMMA ConstantTypes ==
  /\ FileSize \in Nat \ {0} /\ ChunkSize \in 1 .. FileSize /\ Capacity \in Nat
  /\ PodCount \in Nat \ {0} /\ Buffer \in Nat /\ MaxWritten \in Nat
  /\ Capacity + Buffer <= MaxWritten
  /\ MaxFailures \in Nat \ {0}
  BY WorkloadAssumption

LEMMA PodsFinite == IsFiniteSet(Pods) /\ IsFiniteSet(Dataset)
<1>1. Dataset = 1 .. Len(Sizes) /\ Len(Sizes) \in Nat
  BY WorkloadAssumption DEF Dataset
<1>2. PodCount - 1 \in Int
  BY ConstantTypes
<1> QED
  BY <1>1, <1>2, FS_Interval DEF Pods

LEMMA PayloadType == \A f \in Dataset : Payload[f] \in Nat
<1> SUFFICES ASSUME NEW f \in Dataset
             PROVE  Payload[f] \in Nat
  OBVIOUS
<1>1. Sizes[f] \in Nat /\ Ratio \in Nat /\ MaxOutput \in Nat
  BY WorkloadAssumption DEF Dataset
<1>2. Sizes[f] * Ratio \in Nat
  BY <1>1
<1>3. (Sizes[f] * Ratio) \div 100 \in Nat
  BY <1>2
<1> QED
  BY <1>1, <1>3 DEF Payload

LEMMA PlannedType == \A S \in SUBSET Dataset : IsFiniteSet(S) /\ Sum(Payload, S) \in Nat
<1> SUFFICES ASSUME NEW S \in SUBSET Dataset
             PROVE  IsFiniteSet(S) /\ Sum(Payload, S) \in Nat
  OBVIOUS
<1>1. IsFiniteSet(S)
  BY PodsFinite, FS_Subset
<1> QED
  BY <1>1, PayloadType, SumType

LEMMA SelectionsType == \A p : Selections(p) \subseteq SUBSET Dataset
  BY DEF Selections, Shard

LEMMA WriteSizeType ==
  ASSUME TypeInv, NEW p \in Pods
  PROVE  /\ WriteSize(p) \in 0 .. remaining[p] /\ WriteSize(p) <= ChunkSize
         /\ remaining[p] > 0 => WriteSize(p) > 0
         /\ remaining[p] - WriteSize(p) \in 0 .. FileSize
  BY ConstantTypes DEF TypeInv, FillTypes, WriteSize

\* The file at the index is rewritten with a length; what was before it stays.
LEMMA SetLengthEffect ==
  ASSUME NEW p \in Pods, disk \in [Pods -> Seq(Nat)], index \in [Pods -> Nat],
         NEW n \in Nat, SetLength(p, n)
  PROVE  /\ disk' \in [Pods -> Seq(Nat)]
         /\ \A q \in Pods \ {p} : disk'[q] = disk[q]
         /\ Len(disk'[p]) = IF index[p] < Len(disk[p]) THEN Len(disk[p]) ELSE index[p] + 1
         /\ disk'[p][index[p] + 1] = n
         /\ \A i \in 1 .. index[p] : i <= Len(disk[p]) => disk'[p][i] = disk[p][i]
<1> DEFINE N == IF index[p] < Len(disk[p]) THEN Len(disk[p]) ELSE index[p] + 1
           d == [i \in 1 .. N |-> IF i = index[p] + 1 THEN n
                                  ELSE IF i <= Len(disk[p]) THEN disk[p][i] ELSE 0]
<1>1. disk[p] \in Seq(Nat) /\ Len(disk[p]) \in Nat /\ index[p] \in Nat /\ N \in Nat
  OBVIOUS
<1>2. disk' = [disk EXCEPT ![p] = d]
  BY DEF SetLength
<1>3. \A i \in 1 .. Len(disk[p]) : disk[p][i] \in Nat
  BY <1>1
<1>4. \A i \in 1 .. N : d[i] \in Nat
  BY <1>1, <1>3
<1>5. d \in Seq(Nat) /\ Len(d) = N
  <2> HIDE DEF N
  <2>1. \A i \in 1 .. N : (IF i = index[p] + 1 THEN n
                           ELSE IF i <= Len(disk[p]) THEN disk[p][i] ELSE 0) \in Nat
    BY <1>4
  <2> QED
    BY <1>1, <2>1
<1>6. index[p] + 1 \in 1 .. N /\ \A i \in 1 .. index[p] : i <= Len(disk[p]) => i \in 1 .. N
  BY <1>1
<1>7. d[index[p] + 1] = n /\ \A i \in 1 .. index[p] : i <= Len(disk[p]) => d[i] = disk[p][i]
  BY <1>1, <1>6
<1> HIDE DEF d
<1>8. disk' \in [Pods -> Seq(Nat)] /\ disk'[p] = d /\ \A q \in Pods \ {p} : disk'[q] = disk[q]
  BY <1>2, <1>5
<1> QED
  BY <1>5, <1>7, <1>8

LEMMA PresentType ==
  ASSUME NEW p \in Pods, disk \in [Pods -> Seq(Nat)], index \in [Pods -> Nat]
  PROVE  Present(p) \in Nat
<1>1. disk[p] \in Seq(Nat) /\ index[p] \in Nat /\ Len(disk[p]) \in Nat
  OBVIOUS
<1>2. index[p] < Len(disk[p]) => disk[p][index[p] + 1] \in Nat
  BY <1>1
<1> QED
  BY <1>2 DEF Present

LEMMA CountTypes ==
  ASSUME TypeInv, NEW p \in Pods
  PROVE  /\ CountFailure(p) => /\ failures' \in [Pods -> 0 .. MaxFailures] /\ failures'[p] > 0
                               /\ \A q \in Pods \ {p} : failures'[q] = failures[q]
         /\ \A n \in Nat : CountWritten(p, n) =>
               /\ written' \in [Pods -> 0 .. MaxWritten]
               /\ \A q \in Pods \ {p} : written'[q] = written[q]
               /\ written'[p] = IF written[p] + n < MaxWritten THEN written[p] + n ELSE MaxWritten
<1>1. CountFailure(p) => /\ failures' \in [Pods -> 0 .. MaxFailures] /\ failures'[p] > 0
                         /\ \A q \in Pods \ {p} : failures'[q] = failures[q]
  BY ConstantTypes DEF TypeInv, ControlTypes, CountFailure
<1>2. ASSUME NEW n \in Nat, CountWritten(p, n)
      PROVE  /\ written' \in [Pods -> 0 .. MaxWritten]
             /\ \A q \in Pods \ {p} : written'[q] = written[q]
             /\ written'[p] = IF written[p] + n < MaxWritten THEN written[p] + n ELSE MaxWritten
  BY <1>2, ConstantTypes DEF TypeInv, FillTypes, CountWritten
<1> QED
  BY <1>1, <1>2

LEMMA TypeInit == Init => TypeInv
<1> SUFFICES ASSUME Init
             PROVE  TypeInv
  OBVIOUS
<1>1. FillTypes
  <2>1. <<>> \in Seq(Nat)
    OBVIOUS
  <2> QED
    BY <2>1, JobType, ConstantTypes DEF Init, FillTypes
<1>2. ControlTypes
  BY JobType, ConstantTypes DEF Init, ControlTypes, Phases, FillPhases, ReadPhases, Writing, Closing
<1>3. ReadTypes
  BY DEF Init, ReadTypes, States
<1> QED
  BY <1>1, <1>2, <1>3 DEF TypeInv

LEMMA ControlStep ==
  ASSUME TypeInv, NEW p \in Pods, job' = job,
         sigterm' = sigterm \/ sigterm' = [sigterm EXCEPT ![p] = TRUE],
         NEW l \in Phases, pc' = pc \/ pc' = [pc EXCEPT ![p] = l],
         NEW c \in 0 .. 3, exit' = exit \/ exit' = [exit EXCEPT ![p] = c],
         failures' = failures \/ CountFailure(p)
  PROVE  ControlTypes'
<1>1. Phases' = Phases
  BY DEF Phases
<1>2. pc' \in [Pods -> Phases] /\ exit' \in [Pods -> 0 .. 3] /\ sigterm' \in [Pods -> BOOLEAN]
  BY DEF TypeInv, ControlTypes
<1>3. failures' \in [Pods -> 0 .. MaxFailures]
  BY CountTypes DEF TypeInv, ControlTypes
<1> QED
  BY <1>1, <1>2, <1>3 DEF TypeInv, ControlTypes

\* A pod at a point of one mode is in that mode.
LEMMA PhaseOfMode ==
  ASSUME TypeInv, NEW p \in Pods
  PROVE  /\ pc[p] \in FillPhases \cup ReadPhases
         /\ pc[p] \in Writing \cup {"top"} => Phases = FillPhases /\ job.mode = "write-only"
         /\ pc[p] \in {"epoch", "read", "output"} =>
               Phases = ReadPhases /\ job.mode = "read-write-output"
         /\ "ended" \in Phases
  BY JobType DEF TypeInv, ControlTypes, Phases, FillPhases, ReadPhases, Writing, Closing

LEMMA FillPhase ==
  ASSUME NEW p \in Pods, Top(p) \/ Write(p) \/ WriteFails(p)
  PROVE  pc[p] \in Writing \cup {"top"}
<1> USE DEF Writing, Closing
<1>1. CASE Top(p) \/ Open(p) \/ FullAtOpen(p) \/ Chunk(p) \/ Interrupt(p) \/ OpenError(p)
           \/ MkdirError(p)
  BY <1>1 DEF Top, Open, FullAtOpen, Chunk, Interrupt, OpenError, MkdirError
<1>2. CASE Full(p) \/ WriteError(p)
  BY <1>2 DEF Full, WriteError, Raise
<1>3. CASE Close(p) \/ CloseFull(p) \/ CloseError(p)
  BY <1>3 DEF Close, CloseFull, CloseError, Leave
<1> QED
  BY <1>1, <1>2, <1>3 DEF Write, WriteFails

LEMMA FillControl ==
  ASSUME TypeInv, NEW p \in Pods, Signal(p) \/ Top(p) \/ Write(p) \/ WriteFails(p)
  PROVE  ControlTypes' /\ UNCHANGED reading
<1> DEFINE Control(l, c) ==
             /\ job' = job
             /\ sigterm' = sigterm \/ sigterm' = [sigterm EXCEPT ![p] = TRUE]
             /\ l \in Phases /\ (pc' = pc \/ pc' = [pc EXCEPT ![p] = l])
             /\ c \in 0 .. 3 /\ (exit' = exit \/ exit' = [exit EXCEPT ![p] = c])
             /\ failures' = failures \/ CountFailure(p)
<1>1. ASSUME NEW l, NEW c, Control(l, c)
      PROVE  ControlTypes'
  BY <1>1, ControlStep
<1> HIDE DEF Control
<1>2. CASE Signal(p)
  <2>1. Control("ended", 0) /\ UNCHANGED reading
    BY <1>2, PhaseOfMode DEF Signal, Control
  <2> QED
    BY <1>1, <2>1
<1> USE DEF Goto, Exit, End
<1>3. CASE Top(p)
  <2>1. Phases = FillPhases /\ UNCHANGED reading
    BY <1>3, PhaseOfMode DEF Top
  <2>2. Control("ended", 0) \/ Control("open", 0)
    BY <1>3, <2>1 DEF Top, Control, FillPhases, Writing
  <2> QED
    BY <1>1, <2>1, <2>2
<1>4. CASE Open(p) \/ Chunk(p) \/ Interrupt(p)
  <2>1. Phases = FillPhases /\ UNCHANGED reading
    BY <1>4, PhaseOfMode DEF Open, Chunk, Interrupt, Writing
  <2>2. Control("write", 0) \/ Control("close", 0)
    BY <1>4, <2>1 DEF Open, Chunk, Interrupt, Control, FillPhases, Writing, Closing
  <2> QED
    BY <1>1, <2>1, <2>2
<1>5. CASE FullAtOpen(p)
  <2>1. Phases = FillPhases /\ UNCHANGED reading
    BY <1>5, PhaseOfMode DEF FullAtOpen, Writing
  <2>2. Control("ended", 0)
    BY <1>5, <2>1 DEF FullAtOpen, Control, FillPhases
  <2> QED
    BY <1>1, <2>1, <2>2
<1>6. CASE Full(p) \/ WriteError(p)
  <2>1. PICK why \in {"enospc", "error"} : \E k : Raise(p, why, k)
    BY <1>6 DEF Full, WriteError
  <2>2. Phases = FillPhases /\ UNCHANGED reading
    BY <2>1, PhaseOfMode DEF Raise, Writing
  <2>3. Control(why, 0)
    BY <2>1, <2>2 DEF Raise, Control, FillPhases, Writing, Closing
  <2> QED
    BY <1>1, <2>2, <2>3
<1>7. CASE Close(p) \/ CloseFull(p) \/ CloseError(p) \/ OpenError(p) \/ MkdirError(p)
  <2>1. pc[p] \in Writing /\ job' = job /\ sigterm' = sigterm /\ UNCHANGED reading
    BY <1>7 DEF Close, CloseFull, CloseError, OpenError, MkdirError, Leave, Writing, Closing
  <2>2. Phases = FillPhases
    BY <2>1, PhaseOfMode
  <2>3. Done(p) \/ EndFull(p) \/ Failed(p) \/ MkdirError(p)
    BY <1>7 DEF Close, CloseFull, CloseError, OpenError
  <2>4. Control("top", 0) \/ Control("ended", 0) \/ Control("ended", 1)
    BY <2>1, <2>2, <2>3 DEF Done, EndFull, Failed, MkdirError, Control, FillPhases
  <2> QED
    BY <1>1, <2>1, <2>4
<1> QED
  BY <1>2, <1>3, <1>4, <1>5, <1>6, <1>7 DEF Write, WriteFails

LEMMA PodTypes ==
  ASSUME TypeInv, NEW p \in Pods
  PROVE  /\ free \in Nat /\ index[p] \in Nat /\ counted[p] \in Nat /\ Present(p) \in Nat
         /\ remaining[p] \in 0 .. FileSize /\ buffered[p] \in 0 .. Buffer
         /\ written[p] \in 0 .. MaxWritten
         /\ WriteSize(p) \in 0 .. remaining[p] /\ WriteSize(p) <= ChunkSize
         /\ remaining[p] > 0 => WriteSize(p) > 0
         /\ Held(p) = buffered[p] + WriteSize(p) /\ Held(p) \in Nat
         /\ remaining[p] \in Nat /\ buffered[p] \in Nat /\ buffered[p] <= Buffer
         /\ written[p] \in Nat /\ WriteSize(p) \in Nat
<1>1. FillTypes
  BY DEF TypeInv
<1>2. Present(p) \in Nat
  BY <1>1, PresentType DEF FillTypes
<1>3. /\ free \in Nat /\ index[p] \in Nat /\ counted[p] \in Nat
      /\ remaining[p] \in 0 .. FileSize /\ buffered[p] \in 0 .. Buffer
      /\ written[p] \in 0 .. MaxWritten
  BY <1>1 DEF FillTypes
<1>4. Held(p) = buffered[p] + WriteSize(p) /\ Held(p) \in Nat
  BY <1>3, WriteSizeType, ConstantTypes DEF Held
<1>5. /\ remaining[p] \in Nat /\ buffered[p] \in Nat /\ buffered[p] <= Buffer
      /\ written[p] \in Nat /\ WriteSize(p) \in Nat
  BY <1>3, WriteSizeType, ConstantTypes
<1> QED
  BY <1>2, <1>3, <1>4, <1>5, WriteSizeType

LEMMA PutTypes ==
  ASSUME TypeInv, NEW p \in Pods, NEW k \in Nat, Put(p, k)
  PROVE  disk' \in [Pods -> Seq(Nat)] /\ free' \in Nat
<1>1. Present(p) + k \in Nat /\ free - k \in Nat
  BY PodTypes DEF Put
<1> QED
  BY <1>1, SetLengthEffect DEF Put, TypeInv, FillTypes

LEMMA FillTypesStep ==
  ASSUME TypeInv, NEW p \in Pods, Signal(p) \/ Top(p) \/ Write(p) \/ WriteFails(p)
  PROVE  FillTypes'
<1>1. FillTypes
  BY DEF TypeInv
<1> USE DEF FillTypes
<1>2. CASE Signal(p) \/ Interrupt(p) \/ MkdirError(p) \/ OpenError(p)
  <2>1. UNCHANGED fill
    BY <1>2 DEF Signal, Interrupt, MkdirError, OpenError, Failed, fill
  <2> QED
    BY <1>1, <2>1 DEF fill
<1>3. CASE Top(p) \/ FullAtOpen(p)
  <2>1. UNCHANGED <<free, disk, index, remaining, buffered, written, counted>>
    BY <1>3 DEF Top, FullAtOpen
  <2>2. reason' \in [Pods -> {"none", "sigterm", "files_per_pod", "target_bytes", "enospc"}]
    BY <1>1, <1>3 DEF Top, FullAtOpen, End
  <2> QED
    BY <1>1, <2>1, <2>2
<1>4. CASE Open(p)
  <2>1. UNCHANGED <<index, buffered, written, counted, reason>> /\ free' = free + Present(p)
        /\ remaining' = [remaining EXCEPT ![p] = FileSize] /\ SetLength(p, 0)
    BY <1>4 DEF Open
  <2>2. disk' \in [Pods -> Seq(Nat)]
    BY <1>1, <2>1, SetLengthEffect
  <2>3. free' \in Nat /\ remaining' \in [Pods -> 0 .. FileSize]
    BY <1>1, <2>1, PodTypes, ConstantTypes
  <2> QED
    BY <1>1, <2>1, <2>2, <2>3
<1>5. CASE Chunk(p)
  <2>1. PICK k \in 0 .. Held(p) : /\ Held(p) - k <= Buffer /\ Put(p, k)
                                  /\ buffered' = [buffered EXCEPT ![p] = Held(p) - k]
    BY <1>5 DEF Chunk
  <2>2. /\ UNCHANGED <<index, counted, reason>> /\ CountWritten(p, WriteSize(p))
        /\ remaining' = [remaining EXCEPT ![p] = @ - WriteSize(p)]
    BY <1>5 DEF Chunk
  <2>3. k \in Nat /\ Held(p) - k \in 0 .. Buffer /\ WriteSize(p) \in Nat
        /\ remaining[p] - WriteSize(p) \in 0 .. FileSize
    BY <2>1, PodTypes, ConstantTypes
  <2>4. disk' \in [Pods -> Seq(Nat)] /\ free' \in Nat
    BY <2>1, <2>3, PutTypes
  <2>5. written' \in [Pods -> 0 .. MaxWritten]
    BY <2>2, <2>3, CountTypes
  <2>6. buffered' \in [Pods -> 0 .. Buffer] /\ remaining' \in [Pods -> 0 .. FileSize]
    BY <1>1, <2>1, <2>2, <2>3
  <2> QED
    BY <1>1, <2>2, <2>4, <2>5, <2>6
<1>6. CASE Full(p) \/ WriteError(p)
  <2>1. PICK k \in Nat, why \in {"enospc", "error"} : Raise(p, why, k)
    BY <1>1, <1>6 DEF Full, WriteError
  <2>2. /\ UNCHANGED <<index, remaining, written, counted, reason>> /\ Put(p, k)
        /\ buffered' = [buffered EXCEPT ![p] = IF k < @ THEN @ - k ELSE 0]
    BY <2>1 DEF Raise
  <2>3. buffered' \in [Pods -> 0 .. Buffer]
    BY <1>1, <2>2, ConstantTypes
  <2> QED
    BY <1>1, <2>2, <2>3, PutTypes
<1>7. CASE Close(p) \/ CloseFull(p) \/ CloseError(p)
  <2>1. PICK k \in Nat : Leave(p, k)
    BY <1>7, PodTypes DEF Close, CloseFull, CloseError
  <2>2. /\ UNCHANGED <<remaining, written>> /\ Put(p, k)
        /\ buffered' = [buffered EXCEPT ![p] = 0]
    BY <2>1 DEF Leave
  <2>3. Done(p) \/ EndFull(p) \/ Failed(p)
    BY <1>7 DEF Close, CloseFull, CloseError
  <2>4. /\ index' \in [Pods -> Nat] /\ counted' \in [Pods -> Nat]
        /\ reason' \in [Pods -> {"none", "sigterm", "files_per_pod", "target_bytes", "enospc"}]
    <3>1. CASE Done(p)
      BY <1>1, <3>1 DEF Done
    <3>2. CASE EndFull(p) \/ Failed(p)
      BY <1>1, <3>2 DEF EndFull, Failed, End
    <3> QED
      BY <2>3, <3>1, <3>2
  <2>5. buffered' \in [Pods -> 0 .. Buffer]
    BY <1>1, <2>2, ConstantTypes
  <2> QED
    BY <1>1, <2>2, <2>4, <2>5, PutTypes
<1> QED
  BY <1>2, <1>3, <1>4, <1>5, <1>6, <1>7 DEF Write, WriteFails

LEMMA ReadControl ==
  ASSUME TypeInv, NEW p \in Pods, ReadStep(p)
  PROVE  /\ ControlTypes' /\ UNCHANGED <<job, sigterm, fill>>
         /\ pc[p] \in {"epoch", "read", "output"} /\ pc'[p] \in ReadPhases
         /\ \A q \in Pods \ {p} : pc'[q] = pc[q] /\ exit'[q] = exit[q] /\ failures'[q] = failures[q]
         /\ failures' = failures \/ CountFailure(p)
<1> DEFINE Control(l, c) ==
             /\ UNCHANGED <<job, sigterm, fill>>
             /\ pc[p] \in {"epoch", "read", "output"}
             /\ l \in ReadPhases /\ (pc' = pc \/ pc' = [pc EXCEPT ![p] = l])
             /\ c \in 0 .. 3 /\ (exit' = exit \/ exit' = [exit EXCEPT ![p] = c])
             /\ failures' = failures \/ CountFailure(p)
<1>1. ASSUME NEW l, NEW c, Control(l, c)
      PROVE  /\ ControlTypes' /\ UNCHANGED <<job, sigterm, fill>>
             /\ pc[p] \in {"epoch", "read", "output"} /\ pc'[p] \in ReadPhases
             /\ \A q \in Pods \ {p} : /\ pc'[q] = pc[q] /\ exit'[q] = exit[q]
                                      /\ failures'[q] = failures[q]
             /\ failures' = failures \/ CountFailure(p)
  <2>1. Phases = ReadPhases
    BY <1>1, PhaseOfMode
  <2>2. ControlTypes'
    BY <1>1, <2>1, ControlStep
  <2>3. pc \in [Pods -> ReadPhases] /\ exit \in [Pods -> 0 .. 3]
    BY <2>1 DEF TypeInv, ControlTypes
  <2>4. \A q \in Pods \ {p} : failures'[q] = failures[q]
    BY <1>1, CountTypes
  <2> QED
    BY <1>1, <2>2, <2>3, <2>4
<1> HIDE DEF Control
<1> USE DEF Goto, Exit
<1>2. CASE EpochBegins(p)
  <2>1. Control("read", 0)
    BY <1>2 DEF EpochBegins, Control, ReadPhases
  <2> QED
    BY <1>1, <2>1
<1>3. ASSUME NEW f \in Dataset, Read(p, f) \/ ReadHot(p, f)
      PROVE  Control("output", 0) \/ Control("ended", 2)
  BY <1>3 DEF Read, ReadHot, Control, ReadPhases
<1>4. ASSUME NEW f \in Dataset, Output(p, f)
      PROVE  Control("read", 0) \/ Control("ended", 3)
  BY <1>4 DEF Output, Control, ReadPhases
<1>5. CASE EpochEnds(p)
  <2>1. Control("epoch", 0) \/ Control("ended", 0) \/ Control("ended", 1)
    BY <1>5 DEF EpochEnds, ExitCode, Control, ReadPhases
  <2> QED
    BY <1>1, <2>1
<1> QED
  BY <1>1, <1>2, <1>3, <1>4, <1>5 DEF ReadStep

LEMMA ReadTypesStep ==
  ASSUME TypeInv, NEW p \in Pods, ReadStep(p)
  PROVE  ReadTypes'
<1> USE DEF ReadTypes
<1>1. ReadTypes
  BY DEF TypeInv
<1>2. CASE EpochBegins(p)
  <2>1. PICK files \in Selections(p) : Plan(p, files) /\ todo' = [todo EXCEPT ![p] = files]
    BY <1>2 DEF EpochBegins
  <2>2. files \in SUBSET Dataset /\ Sum(Payload, files) \in Nat
    BY SelectionsType, PlannedType
  <2>3. planned' \in [Pods -> Nat] /\ todo' \in [Pods -> SUBSET Dataset]
    BY <1>1, <2>1, <2>2 DEF Plan
  <2> QED
    BY <1>1, <1>2, <2>3 DEF EpochBegins
<1>3. ASSUME NEW f \in Dataset, Read(p, f) \/ ReadHot(p, f)
      PROVE  ReadTypes'
  BY <1>1, <1>3 DEF Read, ReadHot
<1>4. ASSUME NEW f \in Dataset, Output(p, f)
      PROVE  ReadTypes'
  <2>1. PICK state \in States : SetArtifact(p, f, state)
    <3>1. \A s \in {artifact[p][f], "torn", "sidecar", "whole"} : s \in States
      BY <1>1 DEF States
    <3> QED
      BY <1>4, <3>1 DEF Output
  <2>2. artifact' \in [Pods -> [Dataset -> States]]
    BY <1>1, <2>1 DEF SetArtifact
  <2> QED
    BY <1>1, <1>4, <2>2 DEF Output
<1>5. CASE EpochEnds(p)
  BY <1>1, <1>5 DEF EpochEnds
<1> QED
  BY <1>2, <1>3, <1>4, <1>5 DEF ReadStep

LEMMA TypeStep ==
  ASSUME TypeInv, [Next]_vars
  PROVE  TypeInv'
<1>1. ASSUME NEW p \in Pods, Signal(p) \/ Top(p) \/ Write(p) \/ WriteFails(p)
      PROVE  TypeInv'
  <2>1. ReadTypes'
    BY <1>1, FillControl DEF TypeInv, ReadTypes, reading
  <2> QED
    BY <1>1, <2>1, FillControl, FillTypesStep DEF TypeInv
<1>2. ASSUME NEW p \in Pods, ReadStep(p)
      PROVE  TypeInv'
  <2>1. FillTypes'
    BY <1>2, ReadControl DEF TypeInv, FillTypes, fill
  <2> QED
    BY <1>2, <2>1, ReadControl, ReadTypesStep DEF TypeInv
<1>3. CASE Verify \/ UNCHANGED vars
  BY <1>3 DEF Verify, vars, fill, reading, TypeInv, ControlTypes, Phases, FillTypes, ReadTypes
<1> QED
  BY <1>1, <1>2, <1>3 DEF Next

----------------------------------------------------------------------------
(* Filling.                                                                *)

LEMMA BytesType ==
  ASSUME FillTypes, NEW p \in Pods
  PROVE  /\ disk[p] \in Seq(Nat) /\ Len(disk[p]) \in Nat /\ index[p] \in Nat
         /\ IsFiniteSet(DOMAIN disk[p]) /\ DOMAIN disk[p] = 1 .. Len(disk[p])
         /\ \A i \in 1 .. Len(disk[p]) : disk[p][i] \in Nat
         /\ Bytes(p) \in Nat
<1>1. disk[p] \in Seq(Nat) /\ index[p] \in Nat
  BY DEF FillTypes
<1>2. Len(disk[p]) \in Nat /\ DOMAIN disk[p] = 1 .. Len(disk[p])
      /\ \A i \in 1 .. Len(disk[p]) : disk[p][i] \in Nat
  BY <1>1
<1>3. IsFiniteSet(DOMAIN disk[p])
  BY <1>2, FS_Interval
<1>4. Bytes(p) \in Nat
  BY <1>2, <1>3, SumType DEF Bytes
<1> QED
  BY <1>1, <1>2, <1>3, <1>4

\* What rewriting the file at the index does to the pod's bytes.
LEMMA RewriteEffect ==
  ASSUME FillTypes, NEW p \in Pods, Len(disk[p]) \in {index[p], index[p] + 1},
         NEW n \in Nat, SetLength(p, n)
  PROVE  /\ Len(disk'[p]) = index[p] + 1 /\ disk'[p][index[p] + 1] = n
         /\ \A i \in 1 .. index[p] : disk'[p][i] = disk[p][i]
         /\ \A q \in Pods \ {p} : disk'[q] = disk[q] /\ Bytes(q)' = Bytes(q)
         /\ Present(p) \in Nat /\ Present(p) <= Bytes(p)
         /\ Bytes(p)' = Bytes(p) - Present(p) + n
<1> DEFINE d == disk[p]
           e == disk'[p]
           k == index[p] + 1
<1>1. d \in Seq(Nat) /\ Len(d) \in Nat /\ k \in Nat /\ Bytes(p) \in Nat
      /\ IsFiniteSet(DOMAIN d) /\ DOMAIN d = 1 .. Len(d) /\ \A i \in 1 .. Len(d) : d[i] \in Nat
  BY BytesType
<1>2. /\ e \in Seq(Nat) /\ e[k] = n /\ \A i \in 1 .. index[p] : i <= Len(d) => e[i] = d[i]
      /\ Len(e) = IF index[p] < Len(d) THEN Len(d) ELSE k
      /\ \A q \in Pods \ {p} : disk'[q] = disk[q]
  <2>1. disk' \in [Pods -> Seq(Nat)]
    BY SetLengthEffect DEF FillTypes
  <2> QED
    BY <2>1, SetLengthEffect DEF FillTypes
<1>3. index[p] \in Nat /\ k = index[p] + 1 /\ Len(d) \in {index[p], k}
  BY BytesType
<1> HIDE DEF d, e, k
<1>4. Len(e) = k /\ DOMAIN e = 1 .. k /\ \A i \in 1 .. index[p] : e[i] = d[i]
  <2>1. Len(e) = k
    BY <1>1, <1>2, <1>3
  <2>2. DOMAIN e = 1 .. k
    BY <1>2, <2>1
  <2>3. \A i \in 1 .. index[p] : i <= Len(d)
    BY <1>1, <1>3
  <2> QED
    BY <1>2, <2>1, <2>2, <2>3
<1>5. DOMAIN e = DOMAIN d \cup {k}
  BY <1>1, <1>3, <1>4
<1>6. \A j \in DOMAIN d \ {k} : d[j] \in Nat /\ e[j] = d[j]
  BY <1>1, <1>3, <1>4
<1>7. k \in DOMAIN d <=> index[p] < Len(d)
  BY <1>1, <1>3
<1>8. Present(p) = (IF k \in DOMAIN d THEN d[k] ELSE 0) /\ Present(p) \in Nat
  BY <1>1, <1>3, <1>7 DEF Present, d
<1>9. Present(p) <= Bytes(p)
  <2>1. CASE k \in DOMAIN d
    <3>1. d[k] \in Nat
      BY <1>1, <2>1
    <3>2. Sum(d, {k}) = d[k]
      BY <3>1, SumSingle
    <3>3. Sum(d, {k}) <= Sum(d, DOMAIN d)
      <4>1. {k} \subseteq DOMAIN d /\ \A i \in {k} : d[i] \in Nat /\ d[i] <= d[i]
        BY <2>1, <3>1
      <4> QED
        BY <1>1, <4>1, SumMonotone
    <3> QED
      BY <1>8, <2>1, <3>2, <3>3 DEF Bytes, d
  <2> QED
    BY <1>1, <1>8, <2>1
<1>10. Bytes(p)' = Bytes(p) - Present(p) + n
  <2>1. k \in DOMAIN d => d[k] \in Nat
    BY <1>1
  <2>2. e[k] \in Nat
    BY <1>2
  <2>3. Sum(e, DOMAIN d \cup {k}) = Sum(d, DOMAIN d) + e[k] - (IF k \in DOMAIN d THEN d[k] ELSE 0)
    <3> DEFINE S == DOMAIN d
    <3>1. IsFiniteSet(S) /\ (\A j \in S \ {k} : d[j] \in Nat /\ e[j] = d[j])
          /\ (k \in S => d[k] \in Nat)
      BY <1>1, <1>6, <2>1
    <3> HIDE DEF S
    <3>2. Sum(e, S \cup {k}) = Sum(d, S) + e[k] - (IF k \in S THEN d[k] ELSE 0)
      BY <2>2, <3>1, SumUpdate
    <3> QED
      BY <3>2 DEF S
  <2>4. Bytes(p)' = Sum(e, DOMAIN e) /\ Bytes(p) = Sum(d, DOMAIN d)
    BY DEF Bytes, d, e
  <2> QED
    BY <1>1, <1>2, <1>5, <1>8, <2>3, <2>4
<1>11. \A q \in Pods \ {p} : Bytes(q)' = Bytes(q)
  BY <1>2 DEF Bytes
<1> QED
  BY <1>2, <1>3, <1>4, <1>8, <1>9, <1>10, <1>11 DEF d, e

LEMMA OnDisk ==
  ASSUME FillTypes
  PROVE  /\ Sum([p \in Pods |-> Bytes(p)], Pods) \in Nat
         /\ \A p \in Pods : Bytes(p) <= Sum([q \in Pods |-> Bytes(q)], Pods)
<1> DEFINE b == [p \in Pods |-> Bytes(p)]
<1>1. \A p \in Pods : b[p] \in Nat /\ b[p] = Bytes(p)
  BY BytesType
<1> HIDE DEF b
<1>2. Sum(b, Pods) \in Nat
  BY <1>1, PodsFinite, SumType
<1>3. ASSUME NEW p \in Pods
      PROVE  Bytes(p) <= Sum(b, Pods)
  <2>1. Sum(b, {p}) <= Sum(b, Pods)
    <3>1. {p} \subseteq Pods /\ \A i \in {p} : b[i] \in Nat /\ b[i] <= b[i]
      BY <1>1
    <3> QED
      BY <1>1, <3>1, PodsFinite, SumMonotone
  <2>2. Sum(b, {p}) = b[p]
    BY <1>1, SumSingle
  <2> QED
    BY <1>1, <2>1, <2>2
<1> QED
  BY <1>2, <1>3 DEF b

\* What one pod gives back or takes is what the filesystem gains or loses.
LEMMA SpaceStep ==
  ASSUME FillTypes, FillTypes', SpaceInv, NEW p \in Pods, job' = job,
         \A q \in Pods \ {p} : Bytes(q)' = Bytes(q),
         Bytes(p)' + free' = Bytes(p) + free
  PROVE  SpaceInv'
<1> DEFINE b == [q \in Pods |-> Bytes(q)]
           c == [q \in Pods |-> Bytes(q)']
<1>1. \A q \in Pods : b[q] \in Nat /\ b[q] = Bytes(q) /\ c[q] = Bytes(q)'
  BY BytesType
<1>2. Bytes(p)' \in Nat
  <2>1. disk'[p] \in Seq(Nat)
    BY DEF FillTypes
  <2>2. DOMAIN disk'[p] = 1 .. Len(disk'[p]) /\ Len(disk'[p]) \in Nat
        /\ \A i \in 1 .. Len(disk'[p]) : disk'[p][i] \in Nat
    BY <2>1
  <2>3. IsFiniteSet(DOMAIN disk'[p])
    BY <2>2, FS_Interval
  <2> QED
    BY <2>2, <2>3, SumType DEF Bytes
<1>3. Sum(b, Pods) \in Nat
  BY OnDisk
<1>4. SpaceInv' <=> Sum(c, Pods) + free' = Capacity - job.used
  BY DEF SpaceInv
<1>5. SpaceInv <=> Sum(b, Pods) + free = Capacity - job.used
  BY DEF SpaceInv
<1> HIDE DEF b, c
<1>6. Sum(c, Pods \cup {p}) = Sum(b, Pods) + c[p] - (IF p \in Pods THEN b[p] ELSE 0)
  <2>1. \A q \in Pods \ {p} : b[q] \in Nat /\ c[q] = b[q]
    BY <1>1
  <2>2. c[p] \in Nat /\ b[p] \in Nat
    BY <1>1, <1>2
  <2> QED
    BY <2>1, <2>2, PodsFinite, SumUpdate
<1>7. Pods \cup {p} = Pods
  OBVIOUS
<1>8. Sum(c, Pods) = Sum(b, Pods) + Bytes(p)' - Bytes(p)
  BY <1>1, <1>6, <1>7
<1>9. free \in Nat /\ free' \in Nat /\ Bytes(p) \in Nat
  BY BytesType DEF FillTypes
<1> QED
  BY <1>2, <1>3, <1>4, <1>5, <1>8, <1>9

\* Bytes of the buffer, or of a chunk, reach the file at the index.
LEMMA PutEffect ==
  ASSUME TypeInv, NEW p \in Pods, FilesInv(p), Len(disk[p]) = index[p] + 1, NEW k \in Nat, Put(p, k)
  PROVE  /\ Len(disk'[p]) = index[p] + 1 /\ disk'[p][index[p] + 1] = disk[p][index[p] + 1] + k
         /\ \A i \in 1 .. index[p] : disk'[p][i] = disk[p][i]
         /\ \A q \in Pods \ {p} : disk'[q] = disk[q] /\ Bytes(q)' = Bytes(q)
         /\ Bytes(p) \in Nat /\ Bytes(p)' = Bytes(p) + k
         /\ k <= free /\ free' = free - k /\ Bytes(p)' + free' = Bytes(p) + free
         /\ Present(p) = disk[p][index[p] + 1] /\ Present(p) \in Nat /\ Present(p) <= Bytes(p)
         /\ index' = index => Present(p)' = Present(p) + k
         /\ index'[p] = index[p] + 1 => Present(p)' = 0
<1>1. /\ index[p] \in Nat /\ free \in Nat /\ Bytes(p) \in Nat /\ Present(p) \in Nat /\ FillTypes
      /\ SetLength(p, Present(p) + k) /\ k <= free /\ free' = free - k
  BY PodTypes, BytesType DEF TypeInv, Put
<1>2. Present(p) + k \in Nat /\ Len(disk[p]) \in {index[p], index[p] + 1}
  BY <1>1
<1>3. Present(p) = disk[p][index[p] + 1]
  BY <1>1 DEF Present
<1>4. /\ Len(disk'[p]) = index[p] + 1 /\ disk'[p][index[p] + 1] = Present(p) + k
      /\ \A i \in 1 .. index[p] : disk'[p][i] = disk[p][i]
      /\ \A q \in Pods \ {p} : disk'[q] = disk[q] /\ Bytes(q)' = Bytes(q)
      /\ Present(p) <= Bytes(p) /\ Bytes(p)' = Bytes(p) - Present(p) + (Present(p) + k)
  BY <1>1, <1>2, RewriteEffect
<1>5. Bytes(p)' = Bytes(p) + k /\ Bytes(p)' + free' = Bytes(p) + free
  BY <1>1, <1>4
<1>6. index' = index => Present(p)' = Present(p) + k
  BY <1>1, <1>4 DEF Present
<1>7. index'[p] = index[p] + 1 => Present(p)' = 0
  BY <1>1, <1>4 DEF Present
<1> QED
  BY <1>1, <1>3, <1>4, <1>5, <1>6, <1>7

\* Nothing about a pod changes when neither its files nor its counters do.
LEMMA OthersKeep ==
  ASSUME NEW q \in Pods, job' = job, PodInv(q),
         pc'[q] = pc[q], sigterm'[q] = sigterm[q], disk'[q] = disk[q], index'[q] = index[q],
         remaining'[q] = remaining[q], buffered'[q] = buffered[q], written'[q] = written[q],
         counted'[q] = counted[q], failures'[q] = failures[q], exit'[q] = exit[q],
         reason'[q] = reason[q]
  PROVE  PodInv(q)'
<1>1. Reached(q)' <=> Reached(q)
  BY DEF Reached
<1>2. Bytes(q)' = Bytes(q) /\ Present(q)' = Present(q)
  BY DEF Bytes, Present
<1>3. FilesInv(q)'
  BY <1>1 DEF FilesInv, PodInv
<1>4. TargetInv(q)'
  BY <1>2 DEF TargetInv, PodInv
<1>5. CountInv(q)'
  BY <1>2 DEF CountInv, Succeeded, Honest, PodInv
<1> QED
  BY <1>3, <1>4, <1>5 DEF PodInv

\* The invariants of a pod that moves without writing: to a point that asks no
\* more than the one it leaves, or to an end.
LEMMA MoveKeeps ==
  ASSUME TypeInv, NEW p \in Pods, job' = job, PodInv(p),
         pc[p] \in {"top", "open"} \cup (ReadPhases \ {"ended"}),
         UNCHANGED <<sigterm, disk, index, remaining, buffered, written, counted>>,
         \/ pc'[p] = "ended"
         \/ pc'[p] \in ReadPhases /\ pc[p] \in ReadPhases
         \/ pc'[p] = "top" /\ failures'[p] > 0,
         failures' = failures \/ CountFailure(p)
  PROVE  PodInv(p)'
<1> USE DEF ReadPhases, Writing, Closing
<1>1. (Reached(p)' <=> Reached(p)) /\ Bytes(p)' = Bytes(p) /\ Present(p)' = Present(p)
  BY DEF Reached, Bytes, Present
<1>2. failures'[p] = 0 => failures[p] = 0
  BY CountTypes
<1>3. FilesInv(p)'
  BY <1>1 DEF FilesInv, PodInv
<1>4. TargetInv(p)'
  BY <1>1 DEF TargetInv, PodInv
<1>5. CountInv(p)'
  <2> SUFFICES ASSUME failures'[p] = 0, failures[p] = 0
               PROVE  /\ pc'[p] # "top" /\ pc'[p] # "open"
                      /\ Bytes(p) + buffered[p] = written[p]
                      /\ Bytes(p) < written[p] + ChunkSize /\ written[p] <= Bytes(p) + Buffer
                      /\ written[p] = Bytes(p)
    BY <1>1, <1>2 DEF CountInv, Honest
  <2>1. Bytes(p) \in Nat /\ ChunkSize \in Nat /\ ChunkSize > 0 /\ Buffer \in Nat
    BY BytesType, ConstantTypes DEF TypeInv
  <2>2. Bytes(p) + buffered[p] = written[p] /\ buffered[p] = 0
    BY DEF CountInv, FilesInv, PodInv
  <2> QED
    BY <2>1, <2>2
<1> QED
  BY <1>3, <1>4, <1>5 DEF PodInv

LEMMA TopKeeps ==
  ASSUME TypeInv, NEW p \in Pods, PodInv(p), Top(p)
  PROVE  PodInv(p)'
<1>1. /\ UNCHANGED <<job, sigterm, free, disk, index, remaining, buffered, written, counted, failures>>
      /\ pc[p] = "top" /\ pc \in [Pods -> Phases]
  BY DEF Top, TypeInv, ControlTypes
<1>2. CASE pc'[p] = "ended"
  BY <1>1, <1>2, MoveKeeps
<1>3. CASE pc'[p] # "ended"
  <2>1. /\ ~sigterm[p] /\ ~Reached(p) /\ pc'[p] = "open"
        /\ ~(job.filesPerPod > 0 /\ counted[p] >= job.filesPerPod)
    BY <1>1, <1>3 DEF Top, End, Exit, Goto
  <2>2. (Reached(p)' <=> Reached(p)) /\ Bytes(p)' = Bytes(p) /\ Present(p)' = Present(p)
    BY <1>1 DEF Reached, Bytes, Present
  <2>3. job.target \in Nat /\ job.filesPerPod \in Nat /\ written[p] \in Nat /\ counted[p] \in Nat
    BY JobType, PodTypes, ConstantTypes DEF TypeInv, ControlTypes
  <2>4. FilesInv(p)'
    BY <1>1, <2>1, <2>2, <2>3 DEF FilesInv, PodInv, Writing, Closing
  <2>5. TargetInv(p)'
    BY <1>1, <2>1, <2>2, <2>3 DEF TargetInv, PodInv, Reached
  <2>6. CountInv(p)'
    BY <1>1, <2>1, <2>2 DEF CountInv, PodInv, Succeeded
  <2> QED
    BY <2>4, <2>5, <2>6 DEF PodInv
<1> QED
  BY <1>2, <1>3

LEMMA OpenKeeps ==
  ASSUME TypeInv, NEW p \in Pods, PodInv(p), Open(p)
  PROVE  /\ PodInv(p)' /\ Bytes(p)' + free' = Bytes(p) + free
         /\ \A q \in Pods \ {p} : disk'[q] = disk[q] /\ Bytes(q)' = Bytes(q)
<1> USE DEF PodInv
<1>1. /\ UNCHANGED <<job, sigterm, index, buffered, written, counted, failures, exit, reason>>
      /\ pc[p] = "open" /\ pc'[p] = "write" /\ remaining'[p] = FileSize
      /\ SetLength(p, 0) /\ free' = free + Present(p)
  BY DEF Open, Goto, TypeInv, ControlTypes, FillTypes
<1>2. FillTypes /\ Len(disk[p]) \in {index[p], index[p] + 1}
  BY DEF TypeInv, FilesInv
<1>3. /\ Len(disk'[p]) = index[p] + 1 /\ disk'[p][index[p] + 1] = 0
      /\ \A i \in 1 .. index[p] : disk'[p][i] = disk[p][i]
      /\ \A q \in Pods \ {p} : disk'[q] = disk[q] /\ Bytes(q)' = Bytes(q)
      /\ Present(p) \in Nat /\ Present(p) <= Bytes(p)
      /\ Bytes(p)' = Bytes(p) - Present(p) + 0
  BY <1>1, <1>2, RewriteEffect
<1>4. /\ index[p] \in Nat /\ Len(disk[p]) \in Nat /\ free \in Nat /\ Bytes(p) \in Nat
      /\ written[p] \in Nat /\ job.target \in Nat /\ job.filesPerPod \in Nat
  BY <1>2, BytesType, PodTypes, JobType, ConstantTypes DEF TypeInv, ControlTypes
<1>5. Present(p)' = 0 /\ buffered[p] = 0
  BY <1>1, <1>3, <1>4 DEF Present, FilesInv, Closing
<1>6. FilesInv(p)'
  <2>1. \A i \in 1 .. index[p] : disk[p][i] = FileSize
    BY <1>1 DEF FilesInv
  <2>2. /\ counted[p] = index[p]
        /\ job.filesPerPod > 0 => Len(disk[p]) <= job.filesPerPod /\ index[p] < job.filesPerPod
    BY <1>1 DEF FilesInv, Writing
  <2>3. disk'[p][index[p] + 1] + buffered'[p] = FileSize - remaining'[p]
    BY <1>1, <1>3, <1>5, ConstantTypes
  <2>4. job.filesPerPod > 0 => Len(disk'[p]) <= job.filesPerPod
    BY <1>3, <1>4, <2>2
  <2> QED
    BY <1>1, <1>3, <2>1, <2>2, <2>3, <2>4 DEF FilesInv, Writing, Closing
<1>7. TargetInv(p)'
  BY <1>1, <1>3, <1>4, <1>5, ConstantTypes DEF TargetInv
<1>8. CountInv(p)'
  <2>1. failures[p] = 0 => Present(p) = 0
    BY <1>1, <1>4 DEF CountInv, Present
  <2> QED
    BY <1>1, <1>3, <1>4, <1>5, <2>1 DEF CountInv, Succeeded
<1> QED
  BY <1>1, <1>3, <1>4, <1>6, <1>7, <1>8

LEMMA ChunkKeeps ==
  ASSUME TypeInv, TypeInv', SpaceInv, NEW p \in Pods, PodInv(p), Chunk(p)
  PROVE  /\ PodInv(p)' /\ Bytes(p)' + free' = Bytes(p) + free
         /\ \A q \in Pods \ {p} : disk'[q] = disk[q] /\ Bytes(q)' = Bytes(q)
<1> USE DEF PodInv
<1> DEFINE w == WriteSize(p)
<1>0. PICK k \in 0 .. Held(p) :
         Put(p, k) /\ buffered' = [buffered EXCEPT ![p] = Held(p) - k]
  BY DEF Chunk
<1>1. /\ UNCHANGED <<job, sigterm, index, counted, failures, exit>>
      /\ pc[p] = "write" /\ remaining[p] > 0 /\ remaining'[p] = remaining[p] - w
      /\ pc'[p] = IF remaining'[p] = 0 \/ Reached(p)' THEN "close" ELSE "write"
      /\ CountWritten(p, w) /\ Held(p) = buffered[p] + w /\ buffered'[p] = Held(p) - k
  BY <1>0 DEF Chunk, Goto, Reached, Held, TypeInv, ControlTypes, FillTypes
<1>2. FillTypes /\ FillTypes' /\ Len(disk[p]) = index[p] + 1
  BY <1>1 DEF TypeInv, FilesInv
<1>3. /\ index[p] \in Nat /\ Len(disk[p]) \in Nat /\ free \in Nat /\ Bytes(p) \in Nat
      /\ remaining[p] \in 0 .. FileSize /\ written[p] \in 0 .. MaxWritten /\ k \in Nat
      /\ buffered[p] \in Nat /\ buffered'[p] \in Nat /\ buffered'[p] <= Buffer
      /\ job.target \in Nat /\ job.target <= MaxWritten /\ job.filesPerPod \in Nat
      /\ job.used \in 0 .. Capacity
  <2>1. buffered'[p] \in 0 .. Buffer /\ buffered[p] \in 0 .. Buffer
    BY <1>2 DEF FillTypes
  <2>2. k \in Nat
    BY <1>0, PodTypes
  <2>3. job.target \in Nat /\ job.target <= MaxWritten /\ job.filesPerPod \in Nat
        /\ job.used \in 0 .. Capacity
    BY JobType DEF TypeInv, ControlTypes
  <2>4. index[p] \in Nat /\ Len(disk[p]) \in Nat /\ Bytes(p) \in Nat
    BY <1>2, BytesType
  <2>5. free \in Nat /\ remaining[p] \in 0 .. FileSize /\ written[p] \in 0 .. MaxWritten
        /\ buffered[p] \in Nat
    BY PodTypes
  <2>6. buffered'[p] \in Nat /\ buffered'[p] <= Buffer
    BY <2>1, ConstantTypes
  <2> QED
    BY <2>2, <2>3, <2>4, <2>5, <2>6
<1>4. w \in 1 .. ChunkSize /\ w <= remaining[p]
  BY <1>1, <1>3, WriteSizeType, ConstantTypes
<1>6. written'[p] = IF written[p] + w < MaxWritten THEN written[p] + w ELSE MaxWritten
  BY <1>1, <1>4, CountTypes, ConstantTypes
<1> HIDE DEF w
<1>7. /\ Len(disk'[p]) = index[p] + 1 /\ disk'[p][index[p] + 1] = disk[p][index[p] + 1] + k
      /\ \A i \in 1 .. index[p] : disk'[p][i] = disk[p][i]
      /\ \A q \in Pods \ {p} : disk'[q] = disk[q] /\ Bytes(q)' = Bytes(q)
      /\ Bytes(p)' = Bytes(p) + k /\ k <= free
      /\ Bytes(p)' + free' = Bytes(p) + free
      /\ Present(p) \in Nat /\ Present(p) <= Bytes(p) /\ Present(p)' = Present(p) + k
      /\ Present(p) = disk[p][index[p] + 1]
  BY <1>0, <1>1, <1>2, <1>3, PutEffect
<1>a. /\ ChunkSize \in Nat /\ w \in Nat /\ w > 0 /\ w <= ChunkSize /\ w <= remaining[p]
      /\ remaining[p] \in Nat /\ FileSize \in Nat /\ remaining[p] <= FileSize
      /\ written[p] \in Nat /\ MaxWritten \in Nat /\ Capacity \in Nat /\ Buffer \in Nat
      /\ Capacity + Buffer <= MaxWritten
  BY <1>3, <1>4, ConstantTypes
<1>b. /\ Bytes(p)' + buffered'[p] = Bytes(p) + buffered[p] + w
      /\ disk'[p][index[p] + 1] + buffered'[p] = Present(p) + buffered[p] + w
      /\ Bytes(p)' \in Nat /\ Bytes(p)' - Present(p)' <= Bytes(p)' + buffered'[p]
  <2>1. buffered'[p] = Held(p) - k /\ Held(p) = buffered[p] + w
    BY <1>1
  <2>2. /\ Bytes(p)' = Bytes(p) + k /\ Present(p) \in Nat
        /\ Present(p)' = Present(p) + k /\ disk'[p][index[p] + 1] = Present(p) + k
    BY <1>7
  <2>3. k \in Nat /\ Bytes(p) \in Nat /\ buffered[p] \in Nat /\ buffered'[p] \in Nat
    BY <1>3
  <2> QED
    BY <1>a, <2>1, <2>2, <2>3
<1>8. FilesInv(p)'
  <2>1. \A i \in 1 .. index[p] : disk[p][i] = FileSize
    BY <1>1 DEF FilesInv
  <2>2. disk'[p][index[p] + 1] + buffered'[p] = FileSize - remaining'[p]
    <3>1. Present(p) + buffered[p] = FileSize - remaining[p]
      BY <1>1, <1>7 DEF FilesInv
    <3>2. remaining'[p] = remaining[p] - w /\ Present(p) \in Nat /\ buffered[p] \in Nat
      BY <1>1, <1>3, <1>7
    <3> QED
      BY <1>a, <1>b, <3>1, <3>2
  <2>3. counted[p] = index[p]
        /\ (job.filesPerPod > 0 => Len(disk[p]) <= job.filesPerPod /\ index[p] < job.filesPerPod)
    BY <1>1 DEF FilesInv, Writing
  <2>4. pc'[p] \in {"write", "close"} /\ (pc'[p] = "close" => remaining'[p] = 0 \/ Reached(p)')
    BY <1>1
  <2> QED
    BY <1>1, <1>2, <1>3, <1>7, <2>1, <2>2, <2>3, <2>4 DEF FilesInv, Writing, Closing
<1>9. TargetInv(p)'
  <2> SUFFICES ASSUME job.target > 0
               PROVE  /\ Bytes(p)' + buffered'[p] < job.target + ChunkSize
                      /\ pc'[p] \in {"open", "write"} => written'[p] < job.target
                      /\ written'[p] < job.target =>
                            /\ Bytes(p)' - Present(p)' <= written'[p]
                            /\ Bytes(p)' + buffered'[p] <= written'[p]
    BY <1>1 DEF TargetInv
  <2>1. written[p] < job.target /\ Bytes(p) + buffered[p] <= written[p]
    BY <1>1 DEF TargetInv
  <2>2. pc'[p] \in {"open", "write"} => ~(written'[p] >= job.target)
    BY <1>1 DEF Reached
  <2>3. written'[p] = IF written[p] + w < MaxWritten THEN written[p] + w ELSE MaxWritten
    BY <1>6
  <2>4. job.target \in Nat /\ job.target <= MaxWritten /\ Bytes(p) \in Nat /\ buffered[p] \in Nat
    BY <1>3
  <2>5. Bytes(p)' + buffered'[p] < job.target + ChunkSize
    BY <1>a, <1>b, <2>1, <2>4
  <2>6. written'[p] \in Nat
        /\ (written'[p] < job.target => Bytes(p)' + buffered'[p] <= written'[p])
    BY <1>a, <1>b, <2>1, <2>3, <2>4
  <2>7. Bytes(p)' - Present(p)' <= Bytes(p)' + buffered'[p]
        /\ Bytes(p)' - Present(p)' \in Int /\ Bytes(p)' + buffered'[p] \in Int
    <3>1. Bytes(p)' \in Nat /\ buffered'[p] \in Nat
      BY <1>3, <1>b
    <3>2. Present(p)' = Present(p) + k /\ Present(p) \in Nat /\ k \in Nat
      BY <1>3, <1>7
    <3> QED
      BY <1>b, <3>1, <3>2
  <2> QED
    BY <2>2, <2>4, <2>5, <2>6, <2>7
<1>10. CountInv(p)'
  <2> SUFFICES ASSUME failures[p] = 0
               PROVE  Bytes(p)' + buffered'[p] = written'[p]
    BY <1>1 DEF CountInv, Succeeded
  <2>1. written[p] = Bytes(p) + buffered[p]
    BY <1>1 DEF CountInv
  <2>2. Bytes(p) + free <= Capacity
    <3>1. Sum([q \in Pods |-> Bytes(q)], Pods) \in Nat
          /\ Bytes(p) <= Sum([q \in Pods |-> Bytes(q)], Pods)
      BY <1>2, OnDisk
    <3> QED
      BY <1>3, <3>1, ConstantTypes DEF SpaceInv
  <2>3. Bytes(p)' <= Bytes(p) + free /\ free \in Nat /\ Bytes(p) \in Nat /\ buffered[p] \in Nat
        /\ buffered'[p] \in Nat /\ buffered'[p] <= Buffer
    BY <1>3, <1>7
  <2>4. Bytes(p)' + buffered'[p] <= MaxWritten
    BY <1>a, <1>b, <2>2, <2>3
  <2> QED
    BY <1>6, <1>a, <1>b, <2>1, <2>3, <2>4
<1> QED
  BY <1>7, <1>8, <1>9, <1>10

LEMMA RaiseKeeps ==
  ASSUME TypeInv, NEW p \in Pods, PodInv(p), NEW why \in {"enospc", "error"},
         NEW k \in Nat, k < Held(p), Raise(p, why, k)
  PROVE  /\ PodInv(p)' /\ Bytes(p)' + free' = Bytes(p) + free
         /\ \A q \in Pods \ {p} : disk'[q] = disk[q] /\ Bytes(q)' = Bytes(q)
<1> USE DEF PodInv
<1>1. /\ UNCHANGED <<job, sigterm, index, remaining, written, counted, failures, exit>>
      /\ pc[p] = "write" /\ pc'[p] = why /\ remaining[p] > 0 /\ Put(p, k)
      /\ buffered'[p] = IF k < buffered[p] THEN buffered[p] - k ELSE 0
  BY DEF Raise, Goto, TypeInv, ControlTypes, FillTypes
<1>2. FillTypes /\ Len(disk[p]) = index[p] + 1
  BY <1>1 DEF TypeInv, FilesInv
<1>3. /\ index[p] \in Nat /\ Len(disk[p]) \in Nat /\ free \in Nat /\ Bytes(p) \in Nat
      /\ buffered[p] \in Nat /\ written[p] \in Nat /\ job.target \in Nat /\ job.filesPerPod \in Nat
      /\ ChunkSize \in Nat
  <2>1. job.target \in Nat /\ job.filesPerPod \in Nat
    BY JobType DEF TypeInv, ControlTypes
  <2>2. index[p] \in Nat /\ Len(disk[p]) \in Nat /\ Bytes(p) \in Nat
    BY <1>2, BytesType
  <2>3. free \in Nat /\ buffered[p] \in Nat /\ written[p] \in Nat
    BY PodTypes
  <2>4. ChunkSize \in Nat
    BY ConstantTypes
  <2> QED
    BY <2>1, <2>2, <2>3, <2>4
<1>4. k < buffered[p] + ChunkSize
  <2>1. Held(p) = buffered[p] + WriteSize(p) /\ WriteSize(p) \in Nat /\ WriteSize(p) <= ChunkSize
    BY PodTypes, ConstantTypes
  <2> QED
    BY <1>3, <2>1
<1>5. /\ Len(disk'[p]) = index[p] + 1
      /\ \A i \in 1 .. index[p] : disk'[p][i] = disk[p][i]
      /\ \A q \in Pods \ {p} : disk'[q] = disk[q] /\ Bytes(q)' = Bytes(q)
      /\ Bytes(p)' = Bytes(p) + k /\ Bytes(p)' + free' = Bytes(p) + free
      /\ Present(p) \in Nat /\ Present(p) <= Bytes(p) /\ Present(p)' = Present(p) + k
  BY <1>1, <1>2, PutEffect
<1>6. FilesInv(p)'
  <2>1. \A i \in 1 .. index[p] : disk[p][i] = FileSize
    BY <1>1 DEF FilesInv
  <2> QED
    BY <1>1, <1>2, <1>5, <2>1 DEF FilesInv, Writing, Closing
<1>a. /\ Bytes(p)' + buffered'[p] < Bytes(p) + buffered[p] + ChunkSize
      /\ Bytes(p)' - Present(p)' = Bytes(p) - Present(p) /\ Bytes(p) - Present(p) <= Bytes(p)
      /\ \/ Bytes(p)' + buffered'[p] = Bytes(p) + buffered[p]
         \/ buffered'[p] = 0 /\ Bytes(p)' >= Bytes(p) + buffered[p]
      /\ Bytes(p)' \in Nat /\ buffered'[p] \in Nat
  <2>1. /\ Bytes(p)' = Bytes(p) + k /\ Present(p)' = Present(p) + k
        /\ Present(p) \in Nat /\ Present(p) <= Bytes(p)
    BY <1>5
  <2>2. buffered'[p] = IF k < buffered[p] THEN buffered[p] - k ELSE 0
    BY <1>1
  <2>3. Bytes(p) \in Nat /\ buffered[p] \in Nat /\ ChunkSize \in Nat
    BY <1>3
  <2>4. ChunkSize > 0
    BY ConstantTypes
  <2> QED
    BY <1>4, <2>1, <2>2, <2>3, <2>4
<1>b. Bytes(p) \in Nat /\ buffered[p] \in Nat /\ ChunkSize \in Nat /\ written[p] \in Nat
      /\ job.target \in Nat /\ Present(p) \in Nat /\ Bytes(p) - Present(p) \in Int
  <2>1. Bytes(p) \in Nat /\ buffered[p] \in Nat /\ ChunkSize \in Nat /\ written[p] \in Nat
      /\ job.target \in Nat
    BY <1>3
  <2>2. Present(p) \in Nat
    BY <1>5
  <2> QED
    BY <2>1, <2>2
<1>7. TargetInv(p)'
  <2> SUFFICES ASSUME job.target > 0
               PROVE  /\ Bytes(p)' + buffered'[p] < job.target + ChunkSize
                      /\ written[p] < job.target => Bytes(p)' - Present(p)' <= written[p]
    BY <1>1 DEF TargetInv
  <2>1. written[p] < job.target /\ Bytes(p) + buffered[p] <= written[p]
    BY <1>1 DEF TargetInv
  <2> QED
    BY <1>a, <1>b, <2>1
<1>8. CountInv(p)'
  <2> SUFFICES ASSUME failures[p] = 0
               PROVE  \/ Bytes(p)' + buffered'[p] = written[p]
                      \/ /\ buffered'[p] = 0
                         /\ written[p] <= Bytes(p)' /\ Bytes(p)' < written[p] + ChunkSize
    BY <1>1 DEF CountInv, Succeeded
  <2>1. Bytes(p) + buffered[p] = written[p]
    BY <1>1 DEF CountInv
  <2> QED
    BY <1>a, <1>b, <2>1
<1> QED
  BY <1>5, <1>6, <1>7, <1>8

LEMMA InterruptKeeps ==
  ASSUME TypeInv, NEW p \in Pods, PodInv(p), Interrupt(p)
  PROVE  PodInv(p)'
<1>1. UNCHANGED <<job, sigterm, disk, index, remaining, buffered, written, counted, failures,
                  exit, reason>>
      /\ pc[p] = "write" /\ sigterm[p] /\ pc'[p] = "close"
  BY DEF Interrupt, fill, Goto, TypeInv, ControlTypes
<1>2. (Reached(p)' <=> Reached(p)) /\ Bytes(p)' = Bytes(p) /\ Present(p)' = Present(p)
  BY <1>1 DEF Reached, Bytes, Present
<1> QED
  BY <1>1, <1>2 DEF PodInv, FilesInv, TargetInv, CountInv, Succeeded, Honest, Writing, Closing

LEMMA SignalKeeps ==
  ASSUME TypeInv, NEW p \in Pods, PodInv(p), Signal(p)
  PROVE  PodInv(p)'
<1>1. UNCHANGED <<job, pc, disk, index, remaining, buffered, written, counted, failures, exit,
                  reason>>
      /\ sigterm'[p]
  BY DEF Signal, fill, TypeInv, ControlTypes
<1>2. (Reached(p)' <=> Reached(p)) /\ Bytes(p)' = Bytes(p) /\ Present(p)' = Present(p)
  BY <1>1 DEF Reached, Bytes, Present
<1> QED
  BY <1>1, <1>2 DEF PodInv, FilesInv, TargetInv, CountInv, Succeeded, Honest

\* A file that is left keeps the bytes of the buffer that reached it.
LEMMA LeaveEffect ==
  ASSUME TypeInv, NEW p \in Pods, PodInv(p), NEW k \in 0 .. buffered[p], Leave(p, k)
  PROVE  /\ UNCHANGED <<job, sigterm, remaining, written>> /\ buffered'[p] = 0
         /\ pc[p] \in Closing /\ Len(disk[p]) = index[p] + 1 /\ Len(disk'[p]) = index[p] + 1
         /\ disk'[p][index[p] + 1] = disk[p][index[p] + 1] + k /\ disk[p][index[p] + 1] \in Nat
         /\ \A i \in 1 .. index[p] : disk'[p][i] = FileSize
         /\ \A q \in Pods \ {p} : disk'[q] = disk[q] /\ Bytes(q)' = Bytes(q)
         /\ Bytes(p)' = Bytes(p) + k /\ Bytes(p)' + free' = Bytes(p) + free
         /\ Present(p) \in Nat /\ Present(p) <= Bytes(p)
         /\ index' = index => Present(p)' = Present(p) + k
         /\ index'[p] = index[p] + 1 => Present(p)' = 0
         /\ index[p] \in Nat /\ counted[p] \in Nat /\ Bytes(p) \in Nat /\ written[p] \in Nat
         /\ buffered[p] \in 0 .. Buffer /\ k \in Nat /\ job.target \in Nat
         /\ job.filesPerPod \in Nat /\ (Reached(p)' <=> Reached(p))
<1>1. /\ UNCHANGED <<job, sigterm, remaining, written>> /\ buffered'[p] = 0
      /\ pc[p] \in Closing /\ Put(p, k)
  BY DEF Leave, Closing, TypeInv, FillTypes
<1>2. FilesInv(p) /\ Len(disk[p]) = index[p] + 1
  BY <1>1 DEF PodInv, FilesInv
<1>3. /\ index[p] \in Nat /\ counted[p] \in Nat /\ Bytes(p) \in Nat /\ written[p] \in Nat
      /\ buffered[p] \in 0 .. Buffer /\ k \in Nat /\ job.target \in Nat /\ job.filesPerPod \in Nat
  <2>1. job.target \in Nat /\ job.filesPerPod \in Nat
    BY JobType DEF TypeInv, ControlTypes
  <2> QED
    BY <2>1, PodTypes, BytesType, ConstantTypes DEF TypeInv
<1>4. \A i \in 1 .. index[p] : disk[p][i] = FileSize
  BY <1>1, <1>2 DEF FilesInv, Closing
<1>5. Reached(p)' <=> Reached(p)
  BY <1>1 DEF Reached
<1>6. /\ Len(disk'[p]) = index[p] + 1 /\ disk'[p][index[p] + 1] = disk[p][index[p] + 1] + k
      /\ \A i \in 1 .. index[p] : disk'[p][i] = disk[p][i]
      /\ \A q \in Pods \ {p} : disk'[q] = disk[q] /\ Bytes(q)' = Bytes(q)
      /\ Bytes(p)' = Bytes(p) + k /\ Bytes(p)' + free' = Bytes(p) + free
      /\ Present(p) = disk[p][index[p] + 1] /\ Present(p) \in Nat /\ Present(p) <= Bytes(p)
      /\ index' = index => Present(p)' = Present(p) + k
      /\ index'[p] = index[p] + 1 => Present(p)' = 0
  BY <1>1, <1>2, <1>3, PutEffect
<1> QED
  BY <1>1, <1>2, <1>3, <1>4, <1>5, <1>6

\* The file is whole, or the last one.
LEMMA DoneKeeps ==
  ASSUME TypeInv, NEW p \in Pods, PodInv(p), pc[p] = "close", Leave(p, buffered[p]), Done(p)
  PROVE  PodInv(p)'
<1>1. /\ UNCHANGED <<failures, exit, reason>> /\ pc'[p] = "top"
      /\ counted'[p] = counted[p] + 1 /\ index'[p] = index[p] + 1
  BY DEF Done, Goto, TypeInv, ControlTypes, FillTypes
<1>2. buffered[p] \in 0 .. buffered[p]
  BY PodTypes, ConstantTypes
<1> HIDE DEF PodInv
<1>3. /\ UNCHANGED <<job, sigterm, remaining, written>> /\ buffered'[p] = 0
      /\ Len(disk[p]) = index[p] + 1 /\ Len(disk'[p]) = index[p] + 1
      /\ disk'[p][index[p] + 1] = disk[p][index[p] + 1] + buffered[p]
      /\ \A i \in 1 .. index[p] : disk'[p][i] = FileSize
      /\ Bytes(p)' = Bytes(p) + buffered[p] /\ Present(p)' = 0
      /\ index[p] \in Nat /\ Bytes(p) \in Nat /\ written[p] \in Nat /\ buffered[p] \in 0 .. Buffer
      /\ job.target \in Nat /\ job.filesPerPod \in Nat /\ (Reached(p)' <=> Reached(p))
  BY <1>1, <1>2, LeaveEffect
<1> USE DEF PodInv
<1>4. FilesInv(p)'
  <2>1. /\ disk[p][index[p] + 1] + buffered[p] = FileSize - remaining[p]
        /\ remaining[p] = 0 \/ sigterm[p] \/ Reached(p)
        /\ counted[p] = index[p]
        /\ job.filesPerPod > 0 => Len(disk[p]) <= job.filesPerPod
    BY DEF FilesInv
  <2>2. \A i \in 1 .. index[p] + 1 : i \in 1 .. index[p] \/ i = index[p] + 1
    BY <1>3
  <2>3. \A i \in 1 .. index'[p] :
           \/ disk'[p][i] = FileSize
           \/ i = index'[p] /\ (sigterm'[p] \/ Reached(p)')
    BY <1>1, <1>3, <2>1, <2>2, ConstantTypes
  <2> QED
    BY <1>1, <1>3, <2>1, <2>3 DEF FilesInv, Writing, Closing
<1>5. TargetInv(p)'
  BY <1>1, <1>3, ConstantTypes DEF TargetInv
<1>6. CountInv(p)'
  BY <1>1, <1>3, ConstantTypes DEF CountInv, Succeeded
<1> QED
  BY <1>4, <1>5, <1>6

\* The fill is over, with what the buffer still held lost if it did not fit.
LEMMA EndFullKeeps ==
  ASSUME TypeInv, NEW p \in Pods, PodInv(p), NEW k \in 0 .. buffered[p], Leave(p, k), EndFull(p),
         k < buffered[p] \/ (k = buffered[p] /\ pc[p] = "enospc")
  PROVE  PodInv(p)'
<1>1. /\ UNCHANGED <<index, counted, failures>> /\ pc'[p] = "ended" /\ reason'[p] = "enospc"
  BY DEF EndFull, End, Exit, Goto, TypeInv, ControlTypes, FillTypes
<1>2. /\ UNCHANGED <<job, sigterm, remaining, written>> /\ buffered'[p] = 0
      /\ pc[p] \in Closing /\ Len(disk[p]) = index[p] + 1 /\ Len(disk'[p]) = index[p] + 1
      /\ \A i \in 1 .. index[p] : disk'[p][i] = FileSize
      /\ Bytes(p)' = Bytes(p) + k
      /\ index[p] \in Nat /\ Bytes(p) \in Nat /\ written[p] \in Nat
      /\ buffered[p] \in 0 .. Buffer /\ k \in Nat /\ job.target \in Nat /\ job.filesPerPod \in Nat
  BY LeaveEffect
<1> USE DEF PodInv
<1>3. FilesInv(p)'
  BY <1>1, <1>2 DEF FilesInv, Writing, Closing
<1>4. TargetInv(p)'
  BY <1>1, <1>2, ConstantTypes DEF TargetInv
<1>5. CountInv(p)'
  <2> SUFFICES ASSUME failures[p] = 0
               PROVE  Bytes(p)' < written[p] + ChunkSize /\ written[p] <= Bytes(p)' + Buffer
    BY <1>1, <1>2 DEF CountInv, Honest
  <2>1. \/ Bytes(p) + buffered[p] = written[p]
        \/ /\ buffered[p] = 0
           /\ written[p] <= Bytes(p) /\ Bytes(p) < written[p] + ChunkSize
    BY <1>2 DEF CountInv, Closing
  <2>2. /\ Bytes(p)' = Bytes(p) + k /\ k \in Nat /\ Bytes(p) \in Nat /\ written[p] \in Nat
        /\ buffered[p] \in 0 .. Buffer
    BY <1>2
  <2>3. Buffer \in Nat /\ ChunkSize \in Nat /\ ChunkSize > 0
    BY ConstantTypes
  <2>4. buffered[p] \in Nat /\ buffered[p] <= Buffer /\ k <= buffered[p]
    BY <2>2, <2>3
  <2> QED
    BY <2>1, <2>2, <2>3, <2>4
<1> QED
  BY <1>3, <1>4, <1>5

\* The file is to be tried again, or the pod has ended.
LEMMA FailedKeeps ==
  ASSUME TypeInv, NEW p \in Pods, PodInv(p), NEW k \in 0 .. buffered[p], Leave(p, k), Failed(p)
  PROVE  PodInv(p)'
<1>1. /\ UNCHANGED <<index, counted, reason>> /\ pc'[p] \in {"top", "ended"} /\ failures'[p] > 0
  <2>1. CountFailure(p) /\ pc'[p] \in {"top", "ended"} /\ UNCHANGED <<index, counted, reason>>
    BY DEF Failed, Exit, Goto, TypeInv, ControlTypes
  <2> QED
    BY <2>1, CountTypes
<1>2. /\ UNCHANGED <<job, sigterm, remaining, written>> /\ buffered'[p] = 0
      /\ pc[p] \in Closing /\ Len(disk[p]) = index[p] + 1 /\ Len(disk'[p]) = index[p] + 1
      /\ \A i \in 1 .. index[p] : disk'[p][i] = FileSize
      /\ Bytes(p)' = Bytes(p) + k
      /\ Present(p) \in Nat /\ Present(p) <= Bytes(p) /\ Present(p)' = Present(p) + k
      /\ index[p] \in Nat /\ Bytes(p) \in Nat /\ written[p] \in Nat
      /\ buffered[p] \in 0 .. Buffer /\ k \in Nat /\ job.target \in Nat /\ job.filesPerPod \in Nat
  BY <1>1, LeaveEffect
<1> USE DEF PodInv
<1>3. FilesInv(p)'
  BY <1>1, <1>2 DEF FilesInv, Writing, Closing
<1>4. TargetInv(p)'
  <2> SUFFICES ASSUME job.target > 0
               PROVE  /\ Bytes(p)' < job.target + ChunkSize
                      /\ written[p] < job.target => Bytes(p)' - Present(p)' <= written[p]
    <3>1. Bytes(p)' + buffered'[p] = Bytes(p)'
      BY <1>2
    <3> QED
      BY <1>1, <1>2, <3>1 DEF TargetInv
  <2>1. /\ Bytes(p)' = Bytes(p) + k /\ Present(p)' = Present(p) + k
        /\ Present(p) \in Nat /\ k \in Nat /\ Bytes(p) \in Nat /\ written[p] \in Nat
        /\ job.target \in Nat
    BY <1>2
  <2>2. buffered[p] \in Nat /\ k <= buffered[p]
    BY PodTypes
  <2>3. /\ Bytes(p) + buffered[p] < job.target + ChunkSize
        /\ written[p] < job.target => Bytes(p) - Present(p) <= written[p]
    BY <1>2 DEF TargetInv, Closing
  <2>4. Bytes(p)' - Present(p)' = Bytes(p) - Present(p) /\ Bytes(p)' <= Bytes(p) + buffered[p]
    BY <2>1, <2>2
  <2>5. Bytes(p)' \in Nat /\ ChunkSize \in Nat
    BY <2>1, ConstantTypes
  <2> QED
    BY <2>1, <2>2, <2>3, <2>4, <2>5
<1>5. CountInv(p)'
  BY <1>1 DEF CountInv
<1> QED
  BY <1>3, <1>4, <1>5

LEMMA FillInit == Init => FillInv
<1> SUFFICES ASSUME Init
             PROVE  FillInv
  OBVIOUS
<1>1. TypeInv
  BY TypeInit
<1>2. \A p \in Pods : disk[p] = <<>> /\ Bytes(p) = 0
  BY SumEmpty DEF Init, Bytes
<1>3. ASSUME NEW p \in Pods
      PROVE  PodInv(p)
  <2>1. Present(p) = 0
    BY <1>2 DEF Init, Present
  <2> QED
    BY <1>1, <1>2, <2>1, JobType, ConstantTypes
       DEF Init, PodInv, FilesInv, TargetInv, CountInv, Succeeded, Writing, Closing
<1>4. SpaceInv
  <2> DEFINE b == [p \in Pods |-> Bytes(p)]
  <2>1. \A p \in Pods : b[p] = 0
    BY <1>2
  <2>2. Units(b, Pods) = {}
    BY <2>1 DEF Units
  <2>3. Sum(b, Pods) = 0
    BY <2>2, FS_EmptySet DEF Sum
  <2> QED
    BY <2>3, JobType, ConstantTypes DEF Init, SpaceInv
<1> QED
  BY <1>1, <1>3, <1>4 DEF FillInv

\* A step of one pod leaves the counters of the others.
LEMMA OthersUntouched ==
  ASSUME TypeInv, NEW p \in Pods, Signal(p) \/ Top(p) \/ Write(p) \/ WriteFails(p)
  PROVE  /\ job' = job
         /\ \A q \in Pods \ {p} : /\ pc'[q] = pc[q] /\ sigterm'[q] = sigterm[q]
                                  /\ index'[q] = index[q] /\ remaining'[q] = remaining[q]
                                  /\ counted'[q] = counted[q] /\ exit'[q] = exit[q]
                                  /\ buffered'[q] = buffered[q] /\ reason'[q] = reason[q]
                                  /\ written'[q] = written[q] /\ failures'[q] = failures[q]
<1> USE DEF Goto, Exit, End
<1>1. /\ CountFailure(p) => \A q \in Pods \ {p} : failures'[q] = failures[q]
      /\ CountWritten(p, WriteSize(p)) => \A q \in Pods \ {p} : written'[q] = written[q]
  BY PodTypes, CountTypes, ConstantTypes
<1>2. CASE Signal(p) \/ Top(p) \/ Interrupt(p) \/ FullAtOpen(p) \/ MkdirError(p)
  BY <1>2 DEF Signal, Top, Interrupt, FullAtOpen, MkdirError, fill, TypeInv, ControlTypes, FillTypes
<1>3. CASE Open(p) \/ Chunk(p)
  BY <1>1, <1>3 DEF Open, Chunk, TypeInv, ControlTypes, FillTypes
<1>4. CASE Full(p) \/ WriteError(p)
  <2>1. PICK k, why : Raise(p, why, k)
    BY <1>4 DEF Full, WriteError
  <2> QED
    BY <2>1 DEF Raise, TypeInv, ControlTypes, FillTypes
<1>5. CASE OpenError(p)
  BY <1>1, <1>5 DEF OpenError, Failed, TypeInv, ControlTypes, FillTypes
<1>6. CASE Close(p) \/ CloseFull(p) \/ CloseError(p)
  <2>1. PICK k : Leave(p, k)
    BY <1>6 DEF Close, CloseFull, CloseError
  <2>2. CASE Done(p) \/ EndFull(p)
    BY <2>1, <2>2 DEF Leave, Done, EndFull, TypeInv, ControlTypes, FillTypes
  <2>3. CASE Failed(p)
    BY <1>1, <2>1, <2>3 DEF Leave, Failed, TypeInv, ControlTypes, FillTypes
  <2> QED
    BY <1>6, <2>2, <2>3 DEF Close, CloseFull, CloseError
<1> QED
  BY <1>2, <1>3, <1>4, <1>5, <1>6 DEF Write, WriteFails

LEMMA FillStep ==
  ASSUME FillInv, [Next]_vars
  PROVE  FillInv'
<1>1. TypeInv /\ FillTypes /\ SpaceInv /\ (\A p \in Pods : PodInv(p)) /\ TypeInv' /\ FillTypes'
  BY TypeStep DEF FillInv, TypeInv
<1>2. ASSUME NEW p \in Pods, Signal(p) \/ Top(p) \/ Write(p) \/ WriteFails(p)
      PROVE  FillInv'
  <2>1. /\ job' = job
        /\ \A q \in Pods \ {p} : /\ pc'[q] = pc[q] /\ sigterm'[q] = sigterm[q]
                                 /\ index'[q] = index[q] /\ remaining'[q] = remaining[q]
                                 /\ counted'[q] = counted[q] /\ exit'[q] = exit[q]
                                 /\ buffered'[q] = buffered[q] /\ reason'[q] = reason[q]
    BY <1>1, <1>2, OthersUntouched
  <2>2. \A q \in Pods \ {p} : written'[q] = written[q] /\ failures'[q] = failures[q]
    BY <1>1, <1>2, OthersUntouched
  <2>3. /\ PodInv(p)' /\ Bytes(p)' + free' = Bytes(p) + free
        /\ \A q \in Pods \ {p} : disk'[q] = disk[q] /\ Bytes(q)' = Bytes(q)
    <3>1. CASE Open(p)
      BY <1>1, <3>1, OpenKeeps
    <3>2. CASE Chunk(p)
      BY <1>1, <3>2, ChunkKeeps
    <3>3. CASE Full(p) \/ WriteError(p)
      <4>1. PICK why \in {"enospc", "error"}, k \in Nat : k < Held(p) /\ Raise(p, why, k)
        BY <1>1, <3>3, PodTypes DEF Full, WriteError
      <4> QED
        BY <1>1, <4>1, RaiseKeeps
    <3>4. CASE Signal(p) \/ Top(p) \/ Interrupt(p) \/ FullAtOpen(p) \/ OpenError(p) \/ MkdirError(p)
      <4>1. disk' = disk /\ free' = free
        BY <3>4 DEF Signal, Top, Interrupt, FullAtOpen, OpenError, MkdirError, fill
      <4>2. \A q \in Pods : Bytes(q)' = Bytes(q)
        BY <4>1 DEF Bytes
      <4>3. CASE Signal(p) \/ Top(p) \/ Interrupt(p)
        BY <1>1, <4>1, <4>2, <4>3, SignalKeeps, TopKeeps, InterruptKeeps
      <4>4. CASE FullAtOpen(p) \/ OpenError(p) \/ MkdirError(p)
        <5>1. /\ UNCHANGED <<job, sigterm, disk, index, remaining, buffered, written, counted>>
              /\ pc[p] = "open" /\ (failures' = failures \/ CountFailure(p))
              /\ pc'[p] = "ended" \/ (pc'[p] = "top" /\ CountFailure(p))
          BY <1>1, <4>4 DEF FullAtOpen, OpenError, MkdirError, Failed, End, Exit, Goto, fill,
             TypeInv, ControlTypes
        <5>2. CountFailure(p) => failures'[p] > 0
          BY <1>1, CountTypes
        <5> QED
          BY <1>1, <4>1, <4>2, <5>1, <5>2, MoveKeeps
      <4> QED
        BY <3>4, <4>3, <4>4
    <3>5. CASE Close(p) \/ CloseFull(p) \/ CloseError(p)
      <4>1. buffered[p] \in Nat /\ free \in Nat
        BY <1>1, PodTypes, ConstantTypes
      <4>2. PICK k \in 0 .. buffered[p] :
               /\ Leave(p, k)
               /\ \/ k = buffered[p] /\ pc[p] = "close" /\ Done(p)
                  \/ k = buffered[p] /\ pc[p] = "enospc" /\ EndFull(p)
                  \/ k < buffered[p] /\ EndFull(p)
                  \/ Failed(p)
        BY <3>5, <4>1 DEF Close, CloseFull, CloseError
      <4>3. PodInv(p)'
        BY <1>1, <4>2, DoneKeeps, EndFullKeeps, FailedKeeps
      <4> QED
        BY <1>1, <4>2, <4>3, LeaveEffect
    <3> QED
      BY <1>2, <3>1, <3>2, <3>3, <3>4, <3>5 DEF Write, WriteFails
  <2>4. \A q \in Pods \ {p} : PodInv(q)'
    BY <1>1, <2>1, <2>2, <2>3, OthersKeep
  <2>5. SpaceInv'
    BY <1>1, <2>1, <2>3, SpaceStep
  <2> QED
    BY <1>1, <2>3, <2>4, <2>5 DEF FillInv
<1>3. ASSUME NEW p \in Pods, ReadStep(p)
      PROVE  FillInv'
  <2>1. /\ UNCHANGED <<job, sigterm, fill>>
        /\ pc[p] \in {"epoch", "read", "output"} /\ pc'[p] \in ReadPhases
        /\ \A q \in Pods \ {p} : pc'[q] = pc[q] /\ exit'[q] = exit[q] /\ failures'[q] = failures[q]
        /\ failures' = failures \/ CountFailure(p)
    BY <1>1, <1>3, ReadControl
  <2>2. PodInv(p)'
    <3>1. UNCHANGED <<job, sigterm, disk, index, remaining, buffered, written, counted>>
      BY <2>1 DEF fill
    <3>2. pc[p] \in ReadPhases /\ pc[p] # "ended"
      BY <2>1 DEF ReadPhases
    <3> QED
      BY <1>1, <2>1, <3>1, <3>2, MoveKeeps
  <2>3. \A q \in Pods \ {p} : PodInv(q)'
    BY <1>1, <2>1, OthersKeep DEF fill
  <2>4. SpaceInv'
    BY <1>1, <2>1 DEF fill, SpaceInv, Bytes
  <2> QED
    BY <1>1, <2>2, <2>3, <2>4 DEF FillInv
<1>4. CASE Verify \/ UNCHANGED vars
  <2>1. UNCHANGED <<job, pc, sigterm, fill, failures, exit>>
    BY <1>4 DEF Verify, vars, reading
  <2>2. \A q \in Pods : PodInv(q)'
    BY <1>1, <2>1, OthersKeep DEF fill
  <2>3. SpaceInv'
    BY <1>1, <2>1 DEF fill, SpaceInv, Bytes
  <2> QED
    BY <1>1, <2>2, <2>3 DEF FillInv
<1> QED
  BY <1>2, <1>3, <1>4 DEF Next

\* No pod of a fill takes more than its target and a part of a chunk, or more
\* files than its limit: for any sizes, any number of pods on the same filesystem,
\* and any errors, signals and ENOSPC.
THEOREM FillsKeepTheirLimits == Spec => []FillIsBounded
<1>1. FillInv => FillIsBounded
  <2> SUFFICES ASSUME FillInv, NEW p \in Pods
               PROVE  /\ job.target > 0 => Bytes(p) < job.target + ChunkSize
                      /\ job.filesPerPod > 0 => Len(disk[p]) <= job.filesPerPod
    BY DEF FillIsBounded
  <2>1. /\ FilesInv(p) /\ TargetInv(p) /\ Bytes(p) \in Nat /\ buffered[p] \in Nat
        /\ job.target \in Nat
    BY BytesType, PodTypes, JobType, ConstantTypes DEF FillInv, PodInv, TypeInv, ControlTypes
  <2> QED
    BY <2>1, ConstantTypes DEF FilesInv, TargetInv
<1> QED
  BY <1>1, FillInit, FillStep, PTL DEF Spec

\* The summary of a fill that exits 0 is true of the filesystem.
THEOREM SummariesAreHonest == Spec => []SummaryIsHonest
<1>1. FillInv => SummaryIsHonest
  <2> SUFFICES ASSUME FillInv, NEW p \in Pods, Succeeded(p)
               PROVE  /\ \A i \in 1 .. Len(disk[p]) : i < counted[p] => disk[p][i] = FileSize
                      /\ failures[p] = 0 =>
                            /\ Bytes(p) < written[p] + ChunkSize /\ written[p] <= Bytes(p) + Buffer
                            /\ reason[p] # "enospc" => written[p] = Bytes(p)
    BY DEF SummaryIsHonest
  <2>1. FilesInv(p) /\ CountInv(p) /\ index[p] \in Nat /\ Len(disk[p]) \in Nat
    BY BytesType DEF FillInv, PodInv, TypeInv
  <2>2. \A i \in 1 .. Len(disk[p]) : i < counted[p] => disk[p][i] = FileSize
    BY <2>1 DEF FilesInv
  <2> QED
    BY <2>1, <2>2 DEF CountInv, Honest
<1> QED
  BY <1>1, FillInit, FillStep, PTL DEF Spec

----------------------------------------------------------------------------
(* Reading, with its outputs and the verification.                          *)

LEMMA OutputTypes ==
  ASSUME TypeInv, NEW p \in Pods
  PROVE  /\ Touched(p) \in SUBSET Dataset /\ todo[p] \in SUBSET Dataset
         /\ planned[p] \in Nat /\ Whole(p) \subseteq Touched(p)
         /\ \A f \in Dataset : artifact[p][f] \in States
  BY DEF TypeInv, ReadTypes, Touched, Whole, States

\* What a pod still has to do or has done of a plan can only become less.
LEMMA PlanShrinks ==
  ASSUME NEW S \in SUBSET Dataset, NEW T \in SUBSET Dataset, S \subseteq T, NEW n \in Nat,
         Sum(Payload, T) <= n
  PROVE  Sum(Payload, S) <= n
<1>1. Sum(Payload, S) <= Sum(Payload, T)
  <2>1. IsFiniteSet(T) /\ \A f \in T : Payload[f] \in Nat /\ Payload[f] <= Payload[f]
    BY PlannedType, PayloadType
  <2> QED
    BY <2>1, SumMonotone
<1>2. Sum(Payload, S) \in Nat /\ Sum(Payload, T) \in Nat
  BY PlannedType
<1> QED
  BY <1>1, <1>2

\* The point of view of one pod, as its step leaves it.
LEMMA PlanKept ==
  ASSUME TypeInv, TypeInv', NEW p \in Pods, PlanInv(p), planned'[p] = planned[p],
         Touched(p)' \cup todo'[p] \cup Due(p)' \subseteq Touched(p) \cup todo[p] \cup Due(p)
  PROVE  PlanInv(p)'
<1> DEFINE S == Touched(p)' \cup todo'[p] \cup Due(p)'
           T == Touched(p) \cup todo[p] \cup Due(p)
<1>1. T \in SUBSET Dataset /\ planned[p] \in Nat /\ Sum(Payload, T) <= planned[p]
  BY OutputTypes DEF PlanInv
<1>2. S \in SUBSET Dataset /\ S \subseteq T
  BY <1>1
<1>3. Sum(Payload, S) <= planned[p]
  <2> HIDE DEF S, T
  <2> QED
    BY <1>1, <1>2, PlanShrinks
<1> QED
  BY <1>2, <1>3 DEF PlanInv

\* Without limits every file of the shard is selected.
LEMMA AllSelected ==
  ASSUME Unlimited, NEW p \in Pods, NEW files \in Selections(p)
  PROVE  files = Shard(p)
<1>1. PICK order \in Bijection(1 .. Cardinality(Shard(p)), Shard(p)) :
         \A i \in DOMAIN order :
            order[i] \in files <=> Fits(files \cap {order[k] : k \in 1 .. i - 1}, order[i])
  BY DEF Selections
<1>2. \A before, f : Fits(before, f)
  BY DEF Unlimited, Fits
<1>3. files \subseteq Shard(p)
  BY DEF Selections
<1>4. ASSUME NEW f \in Shard(p)
      PROVE  f \in files
  <2>1. PICK i \in 1 .. Cardinality(Shard(p)) : order[i] = f
    BY <1>1 DEF Bijection, Surjection
  <2>2. DOMAIN order = 1 .. Cardinality(Shard(p))
    BY <1>1 DEF Bijection, Surjection
  <2> QED
    BY <1>1, <1>2, <2>1, <2>2
<1> QED
  BY <1>3, <1>4

\* Every file of the dataset is in the shard of one pod.
LEMMA ShardsPartition ==
  ASSUME NEW f \in Dataset
  PROVE  \E p \in Pods : \A q \in Pods : f \in Shard(q) <=> q = p
<1>1. f - 1 \in Int /\ PodCount \in Nat \ {0}
  BY ConstantTypes, WorkloadAssumption DEF Dataset
<1>2. (f - 1) % PodCount \in Pods
  BY <1>1 DEF Pods
<1> QED
  BY <1>2 DEF Shard

LEMMA OtherPodsRead ==
  ASSUME NEW q \in Pods, job' = job, pc'[q] = pc[q], exit'[q] = exit[q], todo'[q] = todo[q],
         current'[q] = current[q], planned'[q] = planned[q], artifact'[q] = artifact[q]
  PROVE  /\ PlanInv(q) => PlanInv(q)'
         /\ ShardInv(q) => ShardInv(q)'
<1>1. Touched(q)' = Touched(q) /\ Due(q)' = Due(q) /\ Whole(q)' = Whole(q)
  BY DEF Touched, Due, Whole
<1> QED
  BY <1>1 DEF PlanInv, ShardInv, Unlimited

LEMMA EpochBeginsKeeps ==
  ASSUME TypeInv, TypeInv', NEW p \in Pods, PlanInv(p), EpochBegins(p)
  PROVE  PlanInv(p)' /\ (ShardInv(p) => ShardInv(p)')
<1>1. PICK files \in Selections(p) : Plan(p, files) /\ todo' = [todo EXCEPT ![p] = files]
  BY DEF EpochBegins
<1>2. /\ pc[p] = "epoch" /\ pc'[p] = "read" /\ UNCHANGED <<job, artifact, current, exit>>
      /\ planned'[p] = planned[p] + Sum(Payload, files) /\ todo'[p] = files
  BY <1>1 DEF EpochBegins, Goto, Plan, TypeInv, ControlTypes, ReadTypes
<1>3. Touched(p)' = Touched(p) /\ Whole(p)' = Whole(p) /\ Due(p) = {} /\ Due(p)' = {}
  BY <1>2 DEF Touched, Whole, Due
<1>4. files \in SUBSET Dataset /\ files \subseteq Shard(p)
  BY SelectionsType DEF Selections
<1>5. PlanInv(p)'
  <2>1. Sum(Payload, Touched(p)) <= planned[p]
    <3>1. Touched(p) \subseteq Touched(p) \cup todo[p] \cup Due(p)
          /\ Touched(p) \cup todo[p] \cup Due(p) \in SUBSET Dataset
      BY <1>3, OutputTypes
    <3> QED
      BY <3>1, PlanShrinks, OutputTypes DEF PlanInv
  <2>2. Sum(Payload, Touched(p) \cup files) <= Sum(Payload, Touched(p)) + Sum(Payload, files)
    <3>1. /\ IsFiniteSet(Touched(p)) /\ IsFiniteSet(files)
          /\ \A f \in Touched(p) \cup files : Payload[f] \in Nat
      BY <1>4, OutputTypes, PlannedType, PayloadType
    <3> QED
      BY <3>1, SumUnion
  <2>3. /\ Sum(Payload, Touched(p)) \in Nat /\ Sum(Payload, files) \in Nat
        /\ Sum(Payload, Touched(p) \cup files) \in Nat
    <3>1. Touched(p) \in SUBSET Dataset /\ Touched(p) \cup files \in SUBSET Dataset
      BY <1>4, OutputTypes
    <3> QED
      BY <1>4, <3>1, PlannedType
  <2>4. Sum(Payload, Touched(p) \cup files) <= planned'[p]
    BY <1>2, <2>1, <2>2, <2>3, OutputTypes
  <2>5. Touched(p)' \cup todo'[p] \cup Due(p)' = Touched(p) \cup files
    BY <1>2, <1>3
  <2> QED
    BY <1>3, <2>4, <2>5 DEF PlanInv
<1>6. ASSUME ShardInv(p)
      PROVE  ShardInv(p)'
  <2>1. Unlimited => files = Shard(p)
    BY AllSelected
  <2> QED
    BY <1>2, <1>3, <1>6, <2>1 DEF ShardInv, Unlimited
<1> QED
  BY <1>5, <1>6

LEMMA ReadKeeps ==
  ASSUME TypeInv, TypeInv', NEW p \in Pods, PlanInv(p), NEW f \in Dataset, Read(p, f)
  PROVE  PlanInv(p)' /\ (Strict /\ ShardInv(p) => ShardInv(p)')
<1>1. /\ pc[p] = "read" /\ f \in todo[p] /\ todo'[p] = todo[p] \ {f}
      /\ UNCHANGED <<job, artifact, planned>>
      /\ \/ current'[p] = f /\ pc'[p] = "output" /\ exit' = exit
         \/ job.failRead /\ pc'[p] = "ended" /\ exit'[p] = 2
         \/ ~job.failRead /\ pc' = pc /\ exit' = exit
  <2>1. pc \in [Pods -> Phases] /\ exit \in [Pods -> 0 .. 3]
    BY DEF TypeInv, ControlTypes
  <2>2. todo \in [Pods -> SUBSET Dataset] /\ current \in [Pods -> Dataset \cup {0}]
    BY DEF TypeInv, ReadTypes
  <2> QED
    BY <2>1, <2>2 DEF Read, Goto, Exit
<1>2. /\ Touched(p)' = Touched(p) /\ Whole(p)' = Whole(p) /\ Due(p) = {}
      /\ Due(p)' = IF pc'[p] = "output" THEN {f} ELSE {}
  <2>1. current'[p] = f \/ pc'[p] # "output"
    BY <1>1
  <2> QED
    BY <1>1, <2>1 DEF Touched, Whole, Due
<1>3. PlanInv(p)'
  <2>1. planned'[p] = planned[p]
    BY <1>1
  <2>2. Touched(p)' \cup todo'[p] \cup Due(p)' \subseteq Touched(p) \cup todo[p] \cup Due(p)
    BY <1>1, <1>2
  <2> QED
    BY <2>1, <2>2, PlanKept
<1>4. ASSUME Strict, ShardInv(p)
      PROVE  ShardInv(p)'
  <2>1. CASE pc'[p] = "ended"
    <3>1. exit'[p] # 0
      BY <1>1, <2>1
    <3> QED
      BY <2>1, <3>1 DEF ShardInv
  <2>2. CASE pc'[p] # "ended"
    <3>1. pc'[p] = "output"
      BY <1>1, <1>4, <2>2 DEF Strict
    <3> QED
      BY <1>1, <1>2, <1>4, <3>1 DEF ShardInv, Unlimited
  <2> QED
    BY <2>1, <2>2
<1> QED
  BY <1>3, <1>4

LEMMA OutputKeeps ==
  ASSUME TypeInv, TypeInv', NEW p \in Pods, PlanInv(p), NEW f \in Dataset, Output(p, f)
  PROVE  PlanInv(p)' /\ (Strict /\ ShardInv(p) => ShardInv(p)')
<1>1. PICK state : SetArtifact(p, f, state)
  BY DEF Output
<1>2. /\ artifact'[p][f] = state /\ \A g \in Dataset \ {f} : artifact'[p][g] = artifact[p][g]
  BY <1>1 DEF SetArtifact, TypeInv, ReadTypes
<1>3. /\ pc[p] = "output" /\ f = current[p] /\ UNCHANGED <<job, planned, todo>>
      /\ \/ pc'[p] = "read" /\ exit' = exit /\ artifact'[p][f] = "whole"
         \/ job.failWrite /\ pc'[p] = "ended" /\ exit'[p] = 3
         \/ ~job.failWrite /\ pc'[p] = "read"
  BY DEF Output, SetArtifact, Goto, Exit, TypeInv, ControlTypes, ReadTypes
<1>4. Due(p) = {f} /\ Due(p)' = {} /\ Touched(p)' \subseteq Touched(p) \cup {f}
  BY <1>2, <1>3 DEF Due, Touched
<1>5. PlanInv(p)'
  <2>1. planned'[p] = planned[p] /\ todo'[p] = todo[p]
    BY <1>3
  <2>2. Touched(p)' \cup todo'[p] \cup Due(p)' \subseteq Touched(p) \cup todo[p] \cup Due(p)
    BY <1>4, <2>1
  <2> QED
    BY <2>1, <2>2, PlanKept
<1>6. ASSUME Strict, ShardInv(p)
      PROVE  ShardInv(p)'
  <2>1. CASE pc'[p] = "ended"
    <3>1. exit'[p] # 0
      BY <1>3, <2>1
    <3> QED
      BY <2>1, <3>1 DEF ShardInv
  <2>2. CASE pc'[p] # "ended"
    <3>1. pc'[p] = "read" /\ artifact'[p][f] = "whole"
      BY <1>3, <1>6, <2>2 DEF Strict
    <3>2. Whole(p)' = Whole(p) \cup {f} /\ Touched(p)' = Touched(p) \cup {f}
      BY <1>2, <3>1 DEF Whole, Touched
    <3> QED
      BY <1>3, <1>4, <1>6, <3>1, <3>2 DEF ShardInv, Unlimited
  <2> QED
    BY <2>1, <2>2
<1> QED
  BY <1>5, <1>6

LEMMA ReadHotKeeps ==
  ASSUME TypeInv, TypeInv', NEW p \in Pods, PlanInv(p), NEW f \in Dataset, ReadHot(p, f)
  PROVE  PlanInv(p)' /\ (Strict /\ ShardInv(p) => ShardInv(p)')
<1>1. /\ pc[p] = "read" /\ UNCHANGED <<job, artifact, planned, todo, current>>
      /\ \/ pc' = pc /\ exit' = exit
         \/ pc'[p] = "ended" /\ exit'[p] = 2
  BY DEF ReadHot, Exit, Goto, TypeInv, ControlTypes
<1>2. /\ Touched(p)' = Touched(p) /\ Whole(p)' = Whole(p) /\ Due(p) = {} /\ Due(p)' = {}
  BY <1>1 DEF Touched, Whole, Due
<1>3. PlanInv(p)'
  BY <1>1, <1>2, PlanKept
<1>4. ASSUME ShardInv(p)
      PROVE  ShardInv(p)'
  BY <1>1, <1>2, <1>4 DEF ShardInv, Unlimited
<1> QED
  BY <1>3, <1>4

LEMMA EpochEndsKeeps ==
  ASSUME TypeInv, TypeInv', NEW p \in Pods, PlanInv(p), EpochEnds(p)
  PROVE  PlanInv(p)' /\ (ShardInv(p) => ShardInv(p)')
<1>1. /\ pc[p] = "read" /\ todo[p] = {} /\ UNCHANGED <<job, artifact, planned, todo, current>>
      /\ pc'[p] \in {"epoch", "ended"}
  BY DEF EpochEnds, Exit, Goto, TypeInv, ControlTypes
<1>2. /\ Touched(p)' = Touched(p) /\ Whole(p)' = Whole(p) /\ Due(p) = {} /\ Due(p)' = {}
  BY <1>1 DEF Touched, Whole, Due
<1>3. PlanInv(p)'
  BY <1>1, <1>2, PlanKept
<1>4. ASSUME ShardInv(p)
      PROVE  ShardInv(p)'
  BY <1>1, <1>2, <1>4 DEF ShardInv, Unlimited
<1> QED
  BY <1>3, <1>4

\* A fill has no shards: it changes neither outputs nor plans.
LEMMA FillHasNoOutputs ==
  ASSUME TypeInv, NEW p \in Pods, Signal(p) \/ Top(p) \/ Write(p) \/ WriteFails(p)
  PROVE  ~Strict /\ UNCHANGED <<job, reading>> /\ Due(p) = {} /\ Due(p)' = {}
         /\ \A q \in Pods \ {p} : pc'[q] = pc[q] /\ exit'[q] = exit[q]
<1>1. UNCHANGED <<job, reading>>
  BY FillControl, OthersUntouched
<1>2. job.mode = "write-only"
  BY FillPhase, PhaseOfMode DEF Signal
<1>3. Phases = FillPhases /\ Phases' = FillPhases
  BY <1>1, <1>2 DEF Phases
<1>4. pc[p] # "output" /\ pc'[p] # "output"
  BY <1>3, FillControl DEF TypeInv, ControlTypes, FillPhases, Writing, Closing
<1>5. \A q \in Pods \ {p} : pc'[q] = pc[q] /\ exit'[q] = exit[q]
  BY OthersUntouched
<1> QED
  BY <1>1, <1>2, <1>4, <1>5 DEF Strict, Due

LEMMA ReadInit == Init => ReadInv
<1> SUFFICES ASSUME Init
             PROVE  ReadInv
  OBVIOUS
<1>1. \A p \in Pods : Touched(p) = {} /\ Whole(p) = {} /\ todo[p] = {} /\ Due(p) = {}
  BY DEF Init, Touched, Whole, Due
<1>2. \A p \in Pods : planned[p] = 0 /\ Sum(Payload, {}) = 0
  BY SumEmpty DEF Init
<1>3. \A p \in Pods : PlanInv(p)
  <2> SUFFICES ASSUME NEW p \in Pods
               PROVE  PlanInv(p)
    OBVIOUS
  <2> DEFINE S == Touched(p) \cup todo[p] \cup Due(p)
  <2>1. Due(p) = {} /\ S = {}
    BY <1>1
  <2>2. Sum(Payload, S) = 0 /\ planned[p] = 0
    <3> HIDE DEF S
    <3> QED
      BY <1>2, <2>1
  <2>3. Sum(Payload, S) <= planned[p]
    BY <2>2
  <2> QED
    BY <2>1, <2>3 DEF PlanInv
<1>4. Strict => \A p \in Pods : pc[p] = "epoch"
  BY DEF Init, Strict
<1>5. Strict => \A p \in Pods : ShardInv(p)
  BY <1>1, <1>4 DEF ShardInv
<1> QED
  BY <1>3, <1>5, TypeInit DEF Init, ReadInv, VerdictInv

LEMMA ReadStepKeeps ==
  ASSUME ReadInv, [Next]_vars
  PROVE  ReadInv'
<1>1. TypeInv /\ TypeInv' /\ (\A p \in Pods : PlanInv(p))
  BY TypeStep DEF ReadInv
<1>2. job' = job /\ (Strict' <=> Strict)
  <2>1. job' = job
    BY FillHasNoOutputs, ReadControl, <1>1 DEF Next, Verify, vars
  <2> QED
    BY <2>1 DEF Strict
<1>3. ASSUME NEW p \in Pods, Signal(p) \/ Top(p) \/ Write(p) \/ WriteFails(p)
      PROVE  ReadInv'
  <2>1. ~Strict /\ UNCHANGED <<job, reading>> /\ Due(p) = {} /\ Due(p)' = {}
        /\ \A q \in Pods \ {p} : pc'[q] = pc[q] /\ exit'[q] = exit[q]
    BY <1>1, <1>3, FillHasNoOutputs
  <2>2. \A q \in Pods \ {p} : PlanInv(q)'
    BY <1>1, <2>1, OtherPodsRead DEF reading
  <2>3. PlanInv(p)'
    <3>1. Touched(p)' = Touched(p) /\ todo'[p] = todo[p] /\ planned'[p] = planned[p]
      BY <2>1 DEF reading, Touched
    <3> QED
      BY <1>1, <2>1, <3>1, PlanKept
  <2>4. VerdictInv'
    <3>1. verdict' = verdict /\ artifact' = artifact
      BY <2>1 DEF reading
    <3>2. verdict = "failed" => \A q \in Pods : pc[q] = "ended"
      BY DEF ReadInv, VerdictInv
    <3>3. pc[p] # "ended"
      BY <1>3, FillPhase DEF Signal, Writing, Closing
    <3> QED
      BY <3>1, <3>2, <3>3 DEF VerdictInv
  <2> QED
    BY <1>1, <1>2, <2>1, <2>2, <2>3, <2>4 DEF ReadInv
<1>4. ASSUME NEW p \in Pods, ReadStep(p)
      PROVE  ReadInv'
  <2>1. /\ pc[p] \in {"epoch", "read", "output"} /\ verdict' = verdict
        /\ \A q \in Pods \ {p} : pc'[q] = pc[q] /\ exit'[q] = exit[q]
    BY <1>1, <1>4, ReadControl DEF ReadStep, EpochBegins, Read, Output, ReadHot, EpochEnds
  <2>2. \A q \in Pods \ {p} : /\ todo'[q] = todo[q] /\ current'[q] = current[q]
                              /\ planned'[q] = planned[q] /\ artifact'[q] = artifact[q]
    <3>1. /\ todo \in [Pods -> SUBSET Dataset] /\ current \in [Pods -> Dataset \cup {0}]
          /\ planned \in [Pods -> Nat] /\ artifact \in [Pods -> [Dataset -> States]]
      BY <1>1 DEF TypeInv, ReadTypes
    <3>2. CASE EpochBegins(p)
      BY <3>1, <3>2 DEF EpochBegins, Plan
    <3>3. ASSUME NEW f \in Dataset, Read(p, f)
          PROVE  \A q \in Pods \ {p} : todo'[q] = todo[q] /\ current'[q] = current[q]
                 /\ planned' = planned /\ artifact' = artifact
      BY <3>1, <3>3 DEF Read
    <3>4. ASSUME NEW f \in Dataset, Output(p, f)
          PROVE  \A q \in Pods \ {p} : artifact'[q] = artifact[q]
                 /\ UNCHANGED <<todo, current, planned>>
      <4>1. PICK state : SetArtifact(p, f, state)
        BY <3>4 DEF Output
      <4> QED
        BY <3>1, <3>4, <4>1 DEF Output, SetArtifact
    <3>5. CASE EpochEnds(p) \/ \E f \in Dataset : ReadHot(p, f)
      BY <3>5 DEF EpochEnds, ReadHot
    <3> QED
      BY <1>4, <3>2, <3>3, <3>4, <3>5 DEF ReadStep
  <2>3. \A q \in Pods \ {p} : PlanInv(q)' /\ (ShardInv(q) => ShardInv(q)')
    BY <1>1, <1>2, <2>1, <2>2, OtherPodsRead
  <2>4. PlanInv(p)' /\ (Strict /\ ShardInv(p) => ShardInv(p)')
    BY <1>1, <1>4, EpochBeginsKeeps, ReadKeeps, OutputKeeps, ReadHotKeeps, EpochEndsKeeps
       DEF ReadStep
  <2>5. VerdictInv'
    BY <2>1 DEF ReadInv, VerdictInv
  <2> QED
    BY <1>1, <1>2, <2>3, <2>4, <2>5 DEF ReadInv
<1>5. CASE Verify \/ UNCHANGED vars
  <2>1. UNCHANGED <<job, pc, exit, todo, current, planned, artifact>>
    BY <1>5 DEF Verify, vars, reading
  <2>2. \A q \in Pods : PlanInv(q)' /\ (ShardInv(q) => ShardInv(q)')
    BY <1>1, <2>1, OtherPodsRead
  <2>3. VerdictInv'
    BY <1>5 DEF ReadInv, VerdictInv, Verify, vars, reading
  <2> QED
    BY <1>1, <1>2, <2>2, <2>3 DEF ReadInv
<1> QED
  BY <1>3, <1>4, <1>5 DEF Next

\* With both error flags set an exit code of 0 means the whole shard, zeros of all
\* pods the whole dataset without overlap, and that verification passes: for any
\* dataset, any number of pods and epochs, and any failures.
THEOREM ExitZeroMeansDone == Spec => []ExitZeroIsEarned
<1>1. ReadInv => ExitZeroIsEarned
  <2> SUFFICES ASSUME ReadInv, Strict
               PROVE  /\ Unlimited => \A p \in Pods : Succeeded(p) => Whole(p) = Shard(p)
                      /\ (\A p \in Pods : Succeeded(p)) =>
                            /\ Unlimited => \A f \in Dataset : \E p \in Pods :
                                              \A q \in Pods : f \in Whole(q) <=> q = p
                            /\ verdict # "failed"
    BY DEF ExitZeroIsEarned
  <2>1. \A p \in Pods : Succeeded(p) => ShardInv(p) /\ pc[p] = "ended" /\ exit[p] = 0
    BY DEF ReadInv, Succeeded
  <2>2. ASSUME Unlimited, NEW p \in Pods, Succeeded(p)
        PROVE  Whole(p) = Shard(p)
    <3>1. Due(p) = {} /\ todo[p] = {}
      BY <2>1, <2>2 DEF Due, ShardInv
    <3> QED
      BY <2>1, <2>2, <3>1 DEF ShardInv
  <2>3. ASSUME \A p \in Pods : Succeeded(p), Unlimited, NEW f \in Dataset
        PROVE  \E p \in Pods : \A q \in Pods : f \in Whole(q) <=> q = p
    <3>1. \A q \in Pods : Whole(q) = Shard(q)
      BY <2>2, <2>3
    <3> QED
      BY <3>1, ShardsPartition
  <2>4. ASSUME \A p \in Pods : Succeeded(p), verdict = "failed"
        PROVE  FALSE
    <3>1. PICK p \in Pods, f \in Dataset : artifact[p][f] = "torn"
      BY <2>4 DEF ReadInv, VerdictInv
    <3>2. f \in Touched(p) /\ f \notin Whole(p)
      BY <3>1 DEF Touched, Whole
    <3> QED
      BY <2>1, <2>4, <3>2 DEF ShardInv
  <2> QED
    BY <2>2, <2>3, <2>4
<1> QED
  BY <1>1, ReadInit, ReadStepKeeps, PTL DEF Spec

\* The payloads of a plan that was allowed keep the filesystem within the
\* percentage and the reserve, for any ratio, dataset, selection and failures.
THEOREM AllowedPlansFit == Spec => []BudgetProtects
<1>1. ReadInv => BudgetProtects
  <2> SUFFICES ASSUME ReadInv, Allowed(Sum(planned, Pods))
               PROVE  job.used + Sum([p \in Pods |-> Payloads(p)], Pods) + Reserve <= MaxAllowedUsed
    BY DEF BudgetProtects
  <2> DEFINE left == [p \in Pods |-> Payloads(p)]
  <2>1. \A p \in Pods : left[p] \in Nat /\ planned[p] \in Nat /\ left[p] <= planned[p]
    <3> SUFFICES ASSUME NEW p \in Pods
                 PROVE  Payloads(p) \in Nat /\ planned[p] \in Nat /\ Payloads(p) <= planned[p]
      OBVIOUS
    <3>1. Payloads(p) = Sum(Payload, Touched(p))
      BY DEF Payloads, Touched
    <3>2. /\ Touched(p) \in SUBSET Dataset /\ planned[p] \in Nat
          /\ Touched(p) \cup todo[p] \cup Due(p) \in SUBSET Dataset
          /\ Sum(Payload, Touched(p) \cup todo[p] \cup Due(p)) <= planned[p]
      BY OutputTypes DEF ReadInv, PlanInv
    <3>3. Sum(Payload, Touched(p)) <= planned[p]
      BY <3>2, PlanShrinks
    <3> QED
      BY <3>1, <3>2, <3>3, PlannedType
  <2> HIDE DEF left
  <2>2. Sum(left, Pods) <= Sum(planned, Pods)
    BY <2>1, PodsFinite, SumMonotone
  <2>3. Sum(left, Pods) \in Nat /\ Sum(planned, Pods) \in Nat
    BY <2>1, PodsFinite, SumType
  <2>4. MaxAllowedUsed \in Int /\ Reserve \in Nat /\ job.used \in Nat
    <3>1. Capacity * MaxUsed \in Int
      BY WorkloadAssumption
    <3> QED
      BY <3>1, JobType, ConstantTypes, WorkloadAssumption
         DEF MaxAllowedUsed, ReadInv, TypeInv, ControlTypes
  <2>5. Sum(planned, Pods) <= MaxAllowedUsed - job.used - Reserve
    BY DEF Allowed, Budget
  <2>6. job.used + Sum(left, Pods) + Reserve <= MaxAllowedUsed
    BY <2>2, <2>3, <2>4, <2>5
  <2> QED
    BY <2>6 DEF left
<1> QED
  BY <1>1, ReadInit, ReadStepKeeps, PTL DEF Spec

----------------------------------------------------------------------------
(* The guards of DatasetPaths.                                              *)

LEMMA RealIsPath == \A p \in Paths : Real[p] \in Paths /\ Real[p] \in Seq(Names)
  BY PathAssumption

\* Two directories with a path inside both are nested.
LEMMA NestedOrApart ==
  ASSUME NEW a \in Seq(Names), NEW b \in Seq(Names), NEW c \in Seq(Names),
         IsInside(c, a), IsInside(c, b)
  PROVE  IsInside(a, b) \/ IsInside(b, a)
<1>1. Len(a) \in Nat /\ Len(b) \in Nat
  OBVIOUS
<1>2. CASE Len(a) <= Len(b)
  <2>1. \A i \in 1 .. Len(a) : i \in 1 .. Len(b)
    BY <1>1, <1>2
  <2>2. \A i \in 1 .. Len(a) : b[i] = a[i]
    BY <2>1 DEF IsInside
  <2> QED
    BY <1>2, <2>2 DEF IsInside
<1>3. CASE Len(b) <= Len(a)
  <2>1. \A i \in 1 .. Len(b) : i \in 1 .. Len(a)
    BY <1>1, <1>3
  <2>2. \A i \in 1 .. Len(b) : a[i] = b[i]
    BY <2>1 DEF IsInside
  <2> QED
    BY <1>3, <2>2 DEF IsInside
<1> QED
  BY <1>1, <1>2, <1>3

LEMMA InsideIsTransitive ==
  ASSUME NEW a \in Seq(Names), NEW b \in Seq(Names), NEW c \in Seq(Names),
         IsInside(a, b), IsInside(b, c)
  PROVE  IsInside(a, c)
<1>1. Len(a) \in Nat /\ Len(b) \in Nat /\ Len(c) \in Nat
  OBVIOUS
<1>2. Len(c) <= Len(a)
  BY <1>1 DEF IsInside
<1>3. \A i \in 1 .. Len(c) : i \in 1 .. Len(b)
  BY <1>1 DEF IsInside
<1>4. \A i \in 1 .. Len(c) : a[i] = c[i]
  BY <1>3 DEF IsInside
<1> QED
  BY <1>2, <1>4 DEF IsInside

\* What a pod may open for writing lies below the result root, links resolved.
LEMMA WritesStayInResult ==
  ASSUME NEW result \in Paths, NEW run, NEW pod, NEW c \in Writes(result, run, pod)
  PROVE  c \in Paths /\ IsInside(Real[c], Real[result])
<1>1. c \in Paths /\ \E dir \in Paths : PodDir(result, run, pod, dir) /\ EnsureWithin(dir, c)
  BY DEF Writes
<1>2. PICK dir \in Paths : PodDir(result, run, pod, dir) /\ EnsureWithin(dir, c)
  BY <1>1
<1>3. PICK runDir \in Paths :
         /\ RunDir(result, run, runDir) /\ Append(runDir, pod) \in Paths
         /\ dir = Real[Append(runDir, pod)] /\ IsInside(dir, runDir)
  BY <1>2 DEF PodDir
<1>4. Real[dir] = dir
  BY <1>3, PathAssumption
<1>5. IsInside(Real[c], dir)
  BY <1>2, <1>4 DEF EnsureWithin
<1>6. IsInside(runDir, Real[result])
  BY <1>3 DEF RunDir
<1>7. /\ Real[c] \in Seq(Names) /\ dir \in Seq(Names)
      /\ runDir \in Seq(Names) /\ Real[result] \in Seq(Names)
  BY <1>1, RealIsPath, PathAssumption
<1>8. IsInside(dir, Real[result])
  BY <1>3, <1>6, <1>7, InsideIsTransitive
<1> QED
  BY <1>1, <1>5, <1>7, <1>8, InsideIsTransitive

LEMMA ReadsStayInDataset ==
  ASSUME NEW dataset \in Paths, NEW result \in Paths, NEW subpath, NEW split,
         NEW writes \in BOOLEAN, NEW f \in Reads(dataset, result, subpath, split, writes)
  PROVE  f \in Paths /\ Real[f] = f /\ IsInside(f, Real[dataset])
<1>1. PICK walk \in Paths :
         /\ WalkRoot(dataset, subpath, walk)
         /\ f \in Enumerated(walk, split, IF writes THEN {result} ELSE {})
  BY DEF Reads
<1>2. f \in Paths /\ Real[f] = f /\ IsInside(f, walk)
  BY <1>1 DEF Enumerated
<1>3. f \in Seq(Names) /\ walk \in Seq(Names) /\ Real[dataset] \in Seq(Names)
  BY <1>2, RealIsPath, PathAssumption
<1>4. CASE walk = Real[dataset]
  BY <1>2, <1>4
<1>5. CASE IsInside(walk, Real[dataset])
  BY <1>2, <1>3, <1>5, InsideIsTransitive
<1> QED
  BY <1>1, <1>4, <1>5 DEF WalkRoot

----------------------------------------------------------------------------

\* No path a pod opens for writing, in the filling mode too, which has no check of
\* its own against the dataset, resolves into the dataset, however the roots, the
\* run and the pod directory are linked: "prevents the simulator from writing into
\* the source dataset".  (assert_disjoint_roots, ensure_within)
THEOREM WritesMissDataset ==
  ASSUME NEW dataset \in Paths, NEW result \in Paths, DisjointRoots(dataset, result),
         NEW run, NEW pod, NEW c \in Writes(result, run, pod)
  PROVE  ~IsInside(Real[c], Real[dataset])
<1> SUFFICES ASSUME IsInside(Real[c], Real[dataset])
             PROVE  FALSE
  OBVIOUS
<1>1. IsInside(Real[c], Real[result])
  BY WritesStayInResult
<1>2. c \in Paths
  BY WritesStayInResult
<1>3. Real[c] \in Seq(Names) /\ Real[dataset] \in Seq(Names) /\ Real[result] \in Seq(Names)
  BY <1>2, RealIsPath
<1> QED
  BY <1>1, <1>3, NestedOrApart DEF DisjointRoots

\* No file a pod reads is one that any pod of any run may write, also in the mode
\* that reads only and excludes nothing: what is measured is the dataset, and
\* not the outputs of an earlier or a concurrent Job.  (enumerate_dataset)
THEOREM ReadsMissOutputs ==
  ASSUME NEW dataset \in Paths, NEW result \in Paths, DisjointRoots(dataset, result),
         NEW subpath, NEW split, NEW writes \in BOOLEAN, NEW run, NEW pod,
         NEW f \in Reads(dataset, result, subpath, split, writes),
         NEW c \in Writes(result, run, pod)
  PROVE  f # Real[c]
<1>1. IsInside(f, Real[dataset])
  BY ReadsStayInDataset
<1>2. ~IsInside(Real[c], Real[dataset])
  BY WritesMissDataset
<1> QED
  BY <1>1, <1>2
=============================================================================
