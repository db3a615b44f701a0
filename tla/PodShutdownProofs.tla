-------------------------- MODULE PodShutdownProofs --------------------------
(* Proofs about PodShutdown, for any faults and any release deadline.      *)
EXTENDS PodShutdown, TLAPS

USE DEF RecordUnchanged

\* A resourceVersion of the rival's Lease is never current in this pod's hands,
\* nor in a replace that is still on its way.
RivalUnseen == lease = "rival" => late = {} /\ \A t \in Threads : ~seen[t]

\* A thread that is about to write holds _api_lock, and while it does, its own
\* Lease has not been written since it was read, but by a late replace.
WriterHoldsLock == \A t \in Threads : Running /\ Writing(t) => lock = t
HolderIsCurrent == \A t \in Threads : lock = t /\ lease = "self" => seen[t] \/ overtaken

LockInv ==
    /\ seen \in [Threads -> BOOLEAN]
    /\ RivalUnseen
    /\ WriterHoldsLock
    /\ HolderIsCurrent

LEMMA LockInit == Init => LockInv
  BY DEF Init, LockInv, RivalUnseen, WriterHoldsLock, HolderIsCurrent, Threads, Writing,
         Election, Main

\* The three calls a thread makes, as far as the Lease and the lock go.
LEMMA ReadKeeps ==
    ASSUME NEW t \in Threads, LockInv, ReadHolding(t), lease # "rival",
           \A u \in Threads \ {t} : Running' /\ Writing(u)' => Running /\ Writing(u)
    PROVE  LockInv'
  BY DEF LockInv, RivalUnseen, WriterHoldsLock, HolderIsCurrent, ReadHolding, Threads,
         Election, Main

LEMMA QuietKeeps ==
    ASSUME LockInv, RecordUnchanged, UNCHANGED <<seen, lock>>,
           \A u \in Threads : Running' /\ Writing(u)' => Running /\ Writing(u)
    PROVE  LockInv'
  BY DEF LockInv, RivalUnseen, WriterHoldsLock, HolderIsCurrent

LEMMA WriteKeeps ==
    ASSUME NEW t \in Threads, LockInv,
           (\E v \in {"self", "empty"} : Written(t, v) \/ NotWritten(t, v)),
           ~Writing(t)',
           \A u \in Threads \ {t} : Running' /\ Writing(u)' => Running /\ Writing(u)
    PROVE  LockInv' /\ (lease = "rival" => lease' = "rival")
  BY DEF LockInv, RivalUnseen, WriterHoldsLock, HolderIsCurrent, Written, NotWritten,
         Conflicts, Fails, Publish, Threads,
         Election, Main

LEMMA ElectionKeeps ==
    ASSUME LockInv, ElectionStep
    PROVE  LockInv' /\ (lease = "rival" => lease' = "rival")
  <1>. DEFINE Same(u) == Running' /\ Writing(u)' => Running /\ Writing(u)
  <1>0. Same(Main)
    BY DEF ElectionStep, Writing, Running, Election, Main, EGo, ELocal, Loop, AcquireFails,
           Acquire, AcquireWrite, BecomeLeader, StartedSetLeader, StartedCollect,
           StartedLabel, RenewLoop, RenewFails, Renew, RenewWrite, RenewWait, Wait, StepDown,
           StopLeading, StoppedLabel, StoppedClear, Finally, EReleaseRead, EReleaseWrite,
           FinStep
  <1>. DEFINE Quiet == RecordUnchanged /\ UNCHANGED <<seen, lock>> /\ Same(Election)
  <1>1. CASE Loop \/ AcquireFails \/ BecomeLeader \/ StartedSetLeader \/ StartedCollect
             \/ StartedLabel \/ RenewLoop \/ RenewFails \/ RenewWait \/ Wait
    <2>. Quiet
      BY <1>1 DEF Loop, AcquireFails, BecomeLeader, StartedSetLeader, StartedCollect,
              StartedLabel, RenewLoop, RenewFails, RenewWait, Wait, AfterFailure, ReadOnly,
              LeaseUnchanged, EGo, Writing, Running
    <2>. QED
      BY <1>0, QuietKeeps DEF Threads
  <1>2. CASE StepDown \/ StoppedLabel \/ StoppedClear \/ Finally \/ FinStep
    <2>. Quiet
      BY <1>2 DEF StepDown, FinStep, StopLeading, StoppedLabel, StoppedClear, Finally,
              LeaseUnchanged, EGo, Writing, Running
    <2>. QED
      BY <1>0, QuietKeeps DEF Threads
  <1>3. CASE Acquire \/ Renew
    BY <1>3, <1>0, ReadKeeps DEF Acquire, Renew, Threads, ReadHolding
  <1>4. CASE AcquireWrite \/ RenewWrite
    BY <1>4, <1>0, WriteKeeps
    DEF AcquireWrite, RenewWrite, AfterFailure, EGo, Threads, Writing
  <1>5. CASE EReleaseRead
    <2>1. CASE EGo("release", "releaseWrite") /\ ReleaseOwn(Election)
      BY <2>1, <1>0, ReadKeeps DEF ReleaseOwn, Threads, ReadHolding
    <2>2. CASE EGo("release", "finStep") /\ ReleaseSkips(Election)
      BY <2>2, <1>0, QuietKeeps
      DEF ReleaseSkips, ReadOnly, LeaseUnchanged, EGo, Writing, Threads, Running
    <2>. QED
      BY <1>5, <2>1, <2>2 DEF EReleaseRead
  <1>6. CASE EReleaseWrite
    BY <1>6, <1>0, WriteKeeps DEF EReleaseWrite, ReleaseFails, EGo, Threads, Writing
  <1>. QED
    BY <1>1, <1>2, <1>3, <1>4, <1>5, <1>6 DEF ElectionStep

LEMMA MainKeeps ==
    ASSUME LockInv, Sigterm \/ Shutdown
    PROVE  LockInv' /\ (lease = "rival" => lease' = "rival")
  <1>. DEFINE Same(u) == Running' /\ Writing(u)' => Running /\ Writing(u)
  <1>0. Same(Election)
    BY DEF Sigterm, Shutdown, Writing, Running, Election, Main, MGo, MLocal, SetStop,
           CheckLeading, MReleaseRead, MReleaseWrite, ReleaseFails, QuietStep, ExporterStop
  <1>1. CASE Sigterm \/ SetStop \/ CheckLeading \/ QuietStep \/ ExporterStop
    BY <1>1, <1>0, QuietKeeps
    DEF Sigterm, SetStop, CheckLeading, QuietStep, ExporterStop, LeaseUnchanged, MGo, Writing,
        Threads, Running, Main, Election
  <1>2. CASE MReleaseRead
    <2>1. CASE MGo("release", "releaseWrite") /\ ReleaseOwn(Main)
      BY <2>1, <1>0, ReadKeeps DEF ReleaseOwn, Threads, ReadHolding
    <2>2. CASE MGo("release", "quietStep") /\ ReleaseSkips(Main)
      BY <2>2, <1>0, QuietKeeps
      DEF ReleaseSkips, ReadOnly, LeaseUnchanged, MGo, Writing, Threads, Main, Election
    <2>. QED
      BY <1>2, <2>1, <2>2 DEF MReleaseRead
  <1>3. CASE MReleaseWrite
    BY <1>3, <1>0, WriteKeeps
    DEF MReleaseWrite, ReleaseFails, MGo, Threads, Writing, Main, Election
  <1>. QED
    BY <1>1, <1>2, <1>3 DEF Shutdown

LEMMA OthersKeep ==
    ASSUME LockInv, Rival \/ LateWrite \/ Poll \/ UNCHANGED vars
    PROVE  LockInv'
  <1>. USE DEF LockInv, RivalUnseen, WriterHoldsLock, HolderIsCurrent, Threads, Writing, Running
  <1>1. CASE Rival
    BY <1>1 DEF Rival, RivalAcquires, RivalLeaves, RivalWrite, Publish
  <1>2. CASE LateWrite
    BY <1>2 DEF LateWrite, Publish
  <1>3. CASE Poll \/ UNCHANGED vars
    BY <1>3 DEF Poll, LeaseUnchanged, vars
  <1>. QED
    BY <1>1, <1>2, <1>3

LEMMA LockInvariant == Spec => []LockInv
  <1>1. LockInv /\ [Next]_vars => LockInv'
    BY ElectionKeeps, MainKeeps, OthersKeep DEF Next
  <1>. QED
    BY LockInit, <1>1, PTL DEF Spec

\* While the Lease is this pod's, a replace of one of its two threads is refused only
\* because an earlier replace, given up as failed, was committed in between, whatever
\* the threads are in the middle of at shutdown and whatever was lost on the way.
THEOREM OwnWritesAgree == Spec => []OwnWritesDoNotConflict
  <1>1. LockInv => OwnWritesDoNotConflict
    BY DEF LockInv, WriterHoldsLock, HolderIsCurrent, OwnWritesDoNotConflict
  <1>. QED
    BY LockInvariant, <1>1, PTL

\* Acquiring, renewing and releasing, on either thread, on time or late, and under
\* any fault, never overwrite the rival's Lease.
THEOREM RivalIsSafe == Spec => RivalLeaseUntouched
  <1>1. LockInv /\ [Next]_vars
          => [lease = "rival" => lease' = "rival" \/ RivalLeaves]_vars
    <2>. SUFFICES ASSUME LockInv, Next, lease = "rival"
                  PROVE  lease' = "rival" \/ RivalLeaves
      OBVIOUS
    <2>1. CASE ElectionStep \/ Sigterm \/ Shutdown
      BY <2>1, ElectionKeeps, MainKeeps
    <2>2. CASE Poll \/ Rival
      BY <2>2, Zenon DEF Poll, LeaseUnchanged, Rival, RivalAcquires, RivalWrite, Publish
    <2>3. CASE LateWrite
      BY <2>3 DEF LateWrite, LockInv, RivalUnseen
    <2>. QED
      BY <2>1, <2>2, <2>3 DEF Next
  <1>. QED
    BY LockInvariant, <1>1, PTL DEF Spec, RivalLeaseUntouched

----------------------------------------------------------------------------
(* What the exporter shows.                                                *)

Followers == {"loop", "acquire", "acquireWrite", "become", "wait"}
Leaders == {"setLeader", "collect", "labelOn", "renewLoop", "renew", "renewWrite",
            "renewWait", "stepDown"}
Demoting == {"labelOff", "clear"}

\* How far a promotion or a demotion has come tells what is published.
ServingInv ==
    mpc = "serving" =>
       /\ ~stopSet /\ epc \in Followers \cup Leaders \cup Demoting
       /\ epc \in Leaders => leader
       /\ epc \in Followers \cup {"setLeader"} => ~event /\ ~data

\* The label goes on after the data, and comes off before it.
LabelInv ==
    /\ LabelledPodHasData
    /\ epc = "labelOn" => data \/ excused
    /\ epc \in {"clear", "finClear"} => (label => excused)

PublishInv == ServingInv /\ LabelInv

LEMMA PublishInit == Init => PublishInv
  BY DEF Init, PublishInv, ServingInv, LabelInv, LabelledPodHasData, Followers, Leaders

\* The election thread publishes and withdraws in the order LabelInv needs.
LEMMA ElectionPublishes ==
    ASSUME PublishInv, ElectionStep
    PROVE  PublishInv'
  <1>. USE DEF PublishInv, ServingInv, LabelInv, LabelledPodHasData, Followers, Leaders, Demoting,
               EGo, ELocal, ExporterUnchanged
  <1>1. CASE Loop \/ AcquireFails \/ Acquire \/ AcquireWrite \/ BecomeLeader
    BY <1>1 DEF Loop, AcquireFails, Acquire, AcquireWrite, BecomeLeader
  <1>2. CASE StartedSetLeader \/ StartedCollect \/ StartedLabel
    BY <1>2 DEF StartedSetLeader, StartedCollect, StartedLabel
  <1>3. CASE RenewLoop \/ RenewFails \/ Renew \/ RenewWrite \/ RenewWait
    BY <1>3 DEF RenewLoop, RenewFails, Renew, RenewWrite, RenewWait, AfterFailure
  <1>4. CASE Wait \/ Finally \/ EReleaseRead \/ EReleaseWrite
    BY <1>4 DEF Wait, Finally, EReleaseRead, EReleaseWrite, ReleaseFails
  <1>5. CASE StepDown \/ FinStep
    BY <1>5 DEF StepDown, FinStep, StopLeading
  <1>6. CASE StoppedLabel \/ StoppedClear
    BY <1>6 DEF StoppedLabel, StoppedClear
  <1>. QED
    BY <1>1, <1>2, <1>3, <1>4, <1>5, <1>6 DEF ElectionStep

LEMMA OthersPublish ==
    ASSUME PublishInv, Sigterm \/ Shutdown \/ Poll \/ Rival \/ LateWrite \/ UNCHANGED vars
    PROVE  PublishInv'
  <1>. USE DEF PublishInv, ServingInv, LabelInv, LabelledPodHasData, Followers, Leaders, Demoting
  <1>1. CASE Sigterm \/ Shutdown
    BY <1>1 DEF Sigterm, Shutdown, SetStop, CheckLeading, MReleaseRead, MReleaseWrite,
                ReleaseFails, QuietStep, ExporterStop, MGo, MLocal, ExporterUnchanged
  <1>2. CASE Poll
    BY <1>2 DEF Poll
  <1>3. CASE Rival \/ LateWrite
    <2>1. UNCHANGED <<mpc, stopSet, leader, epc, event, data, label, excused>>
      BY <1>3, Zenon DEF Rival, RivalAcquires, RivalLeaves, RivalWrite, LateWrite
    <2>. QED
      BY <2>1
  <1>4. CASE UNCHANGED vars
    BY <1>4 DEF vars
  <1>. QED
    BY <1>1, <1>2, <1>3, <1>4

LEMMA PublishInvariant == Spec => []PublishInv
  <1>1. PublishInv /\ [Next]_vars => PublishInv'
    BY ElectionPublishes, OthersPublish DEF Next
  <1>. QED
    BY PublishInit, <1>1, PTL DEF Spec

\* A demotion of a serving pod is undone before the next election, under any faults:
\* no leader event and no series.
THEOREM FollowersAreClean == Spec => []FollowerIsClean
  <1>1. PublishInv => FollowerIsClean
    BY DEF PublishInv, ServingInv, FollowerIsClean, Followers
  <1>. QED
    BY PublishInvariant, <1>1, PTL

\* Through promotion, demotion and shutdown, a pod in the Service has series, or a
\* failure was suppressed before.
THEOREM LabelledPodsHaveData == Spec => []LabelledPodHasData
  <1>1. PublishInv => LabelledPodHasData
    BY DEF PublishInv, LabelInv
  <1>. QED
    BY PublishInvariant, <1>1, PTL

----------------------------------------------------------------------------
(* Types.                                                                  *)

RecordTyped ==
    /\ lease \in {"self", "rival", "empty"}
    /\ seen \in [Threads -> BOOLEAN]
    /\ late \in SUBSET {"self", "empty"}
    /\ overtaken \in BOOLEAN

LEMMA CallsAreTyped ==
    ASSUME TypeOK, NEW t \in Threads
    PROVE  /\ ReadHolding(t) => RecordTyped' /\ lock' \in Threads /\ tries' = tries
           /\ \A v \in {"self", "empty"} :
                 /\ NotWritten(t, v) => RecordTyped' /\ lock' = "free"
                 /\ Written(t, v) => RecordTyped' /\ lock' = "free" /\ tries' = tries
  BY DEF TypeOK, RecordTyped, ReadHolding, NotWritten, Conflicts, Fails, Written, Publish

LEMMA ReleasesAreTyped ==
    ASSUME TypeOK, NEW t \in Threads, NEW A, NEW B, ReleaseFails(t, A, B)
    PROVE  /\ RecordTyped' /\ lock' = "free"
           /\ tries' \in [Threads -> 0..(MaxTries - 1)]
           /\ A \/ B
  <1>1. tries[t] \in 0..(MaxTries - 1) /\ MaxTries \in Nat
    BY ShutdownAssumption DEF TypeOK
  <1>2. tries' = tries \/ (tries[t] + 1 < MaxTries /\ tries' = [tries EXCEPT ![t] = @ + 1])
    BY DEF ReleaseFails
  <1>3. tries' \in [Threads -> 0..(MaxTries - 1)]
    BY <1>1, <1>2 DEF TypeOK
  <1>. QED
    BY <1>3, CallsAreTyped DEF ReleaseFails, NotWritten

LEMMA FlagsAreTyped ==
    ASSUME TypeOK, LeaseUnchanged, epc' \in ElectionPhases, mpc' \in MainPhases,
           stopSet' \in BOOLEAN, leader' \in BOOLEAN, event' \in BOOLEAN, data' \in BOOLEAN,
           label' \in BOOLEAN, excused' \in BOOLEAN
    PROVE  TypeOK'
  BY DEF TypeOK, LeaseUnchanged

\* Every reachable state is well typed; neither thread makes more than MaxTries
\* attempts to release.
THEOREM TypeCorrect == Spec => []TypeOK
  <1>1. Init => TypeOK
    <2>1. 0 \in 0..(MaxTries - 1)
      BY ShutdownAssumption
    <2>2. [t \in Threads |-> 0] \in [Threads -> 0..(MaxTries - 1)]
      BY <2>1
    <2>3. [t \in Threads |-> FALSE] \in [Threads -> BOOLEAN]
      BY Zenon
    <2>. QED
      BY <2>2, <2>3, Zenon DEF Init, TypeOK, ElectionPhases, MainPhases
  <1>2. ASSUME TypeOK, [Next]_vars
        PROVE  TypeOK'
    <2>10. TypeOK
      BY <1>2
    <2>. USE <2>10 DEF TypeOK, ElectionPhases, MainPhases, EGo, ELocal, MGo, MLocal,
                      ExporterUnchanged
    <2>11. LeaseUnchanged => RecordTyped' /\ lock' = lock /\ tries' = tries
      BY DEF LeaseUnchanged, RecordTyped
    <2>0. Election \in Threads /\ Main \in Threads
      BY DEF Threads
    <2>1. CASE Loop \/ AcquireFails \/ BecomeLeader \/ StartedSetLeader \/ StartedCollect
               \/ StartedLabel \/ RenewLoop \/ RenewFails \/ RenewWait \/ Wait
      <3>1. CASE Loop
        BY <3>1, <2>11, Zenon DEF RecordTyped, Loop
      <3>2. CASE AcquireFails
        BY <3>2, <2>11, Zenon DEF RecordTyped, AcquireFails, ReadOnly
      <3>3. CASE BecomeLeader
        BY <3>3, <2>11, Zenon DEF RecordTyped, BecomeLeader
      <3>4. CASE StartedSetLeader
        BY <3>4, <2>11, Zenon DEF RecordTyped, StartedSetLeader
      <3>5. CASE StartedCollect
        BY <3>5, <2>11, Zenon DEF RecordTyped, StartedCollect
      <3>6. CASE StartedLabel
        <4>1. LeaseUnchanged /\ epc' \in ElectionPhases /\ mpc' \in MainPhases
          BY <3>6 DEF StartedLabel
        <4>2. /\ stopSet' \in BOOLEAN /\ leader' \in BOOLEAN /\ event' \in BOOLEAN
              /\ data' \in BOOLEAN /\ label' \in BOOLEAN /\ excused' \in BOOLEAN
          BY <3>6, Zenon DEF StartedLabel
        <4>. QED
          BY <4>1, <4>2, FlagsAreTyped
      <3>7. CASE RenewLoop
        BY <3>7, <2>11, Zenon DEF RecordTyped, RenewLoop
      <3>8. CASE RenewFails
        BY <3>8, <2>11 DEF RecordTyped, RenewFails, AfterFailure, ReadOnly
      <3>9. CASE RenewWait
        BY <3>9, <2>11, Zenon DEF RecordTyped, RenewWait
      <3>10. CASE Wait
        BY <3>10, <2>11, Zenon DEF RecordTyped, Wait
      <3>. QED
        BY <2>1, <3>1, <3>2, <3>3, <3>4, <3>5, <3>6, <3>7, <3>8, <3>9, <3>10
    <2>2. CASE StepDown \/ FinStep \/ StoppedLabel \/ StoppedClear \/ Finally
      <3>1. CASE StepDown
        BY <3>1, <2>11, Zenon DEF RecordTyped, StepDown, StopLeading
      <3>2. CASE FinStep
        BY <3>2, <2>11, Zenon DEF RecordTyped, FinStep, StopLeading
      <3>3. CASE StoppedLabel
        <4>1. LeaseUnchanged /\ epc' \in ElectionPhases /\ mpc' \in MainPhases
          BY <3>3 DEF StoppedLabel
        <4>2. /\ stopSet' \in BOOLEAN /\ leader' \in BOOLEAN /\ event' \in BOOLEAN
              /\ data' \in BOOLEAN /\ label' \in BOOLEAN /\ excused' \in BOOLEAN
          BY <3>3, Zenon DEF StoppedLabel
        <4>. QED
          BY <4>1, <4>2, FlagsAreTyped
      <3>4. CASE StoppedClear
        <4>1. LeaseUnchanged /\ epc' \in ElectionPhases /\ mpc' \in MainPhases
          BY <3>4 DEF StoppedClear
        <4>2. /\ stopSet' \in BOOLEAN /\ leader' \in BOOLEAN /\ event' \in BOOLEAN
              /\ data' \in BOOLEAN /\ label' \in BOOLEAN /\ excused' \in BOOLEAN
          BY <3>4, Zenon DEF StoppedClear
        <4>. QED
          BY <4>1, <4>2, FlagsAreTyped
      <3>5. CASE Finally
        BY <3>5, <2>11, Zenon DEF RecordTyped, Finally
      <3>. QED
        BY <2>2, <3>1, <3>2, <3>3, <3>4, <3>5
    <2>3. CASE Acquire \/ Renew
      BY <2>0, <2>3, CallsAreTyped DEF Acquire, Renew, RecordTyped
    <2>4. CASE AcquireWrite \/ RenewWrite
      BY <2>0, <2>4, CallsAreTyped DEF AcquireWrite, RenewWrite, AfterFailure, RecordTyped
    <2>5. CASE EReleaseRead \/ MReleaseRead
      BY <2>0, <2>5, <2>11, CallsAreTyped
         DEF EReleaseRead, MReleaseRead, ReleaseOwn, ReleaseSkips, ReadOnly, RecordTyped
    <2>6. CASE EReleaseWrite
      <3>1. UNCHANGED <<mpc, stopSet, leader, event, data, label, excused>> /\ epc' \in ElectionPhases
        BY <2>6, Zenon DEF EReleaseWrite, ReleaseFails
      <3>2. RecordTyped' /\ lock' = "free" /\ tries' \in [Threads -> 0..(MaxTries - 1)]
        <4>1. CASE Written(Election, "empty")
          BY <2>0, <4>1, CallsAreTyped, Zenon
        <4>2. CASE ReleaseFails(Election, EGo("releaseWrite", "release"),
                                    EGo("releaseWrite", "finStep"))
          BY <2>0, <4>2, ReleasesAreTyped, Zenon
        <4>. QED
          BY <2>6, <4>1, <4>2, Zenon DEF EReleaseWrite
      <3>. QED
        BY <3>1, <3>2, Zenon DEF RecordTyped
    <2>7. CASE MReleaseWrite
      <3>1. UNCHANGED <<epc, stopSet, leader, event, data, label, excused>> /\ mpc' \in MainPhases
        BY <2>7, Zenon DEF MReleaseWrite, ReleaseFails
      <3>2. RecordTyped' /\ lock' = "free" /\ tries' \in [Threads -> 0..(MaxTries - 1)]
        <4>1. CASE Written(Main, "empty")
          BY <2>0, <4>1, CallsAreTyped, Zenon
        <4>2. CASE ReleaseFails(Main, MGo("releaseWrite", "release"),
                                    MGo("releaseWrite", "quietStep"))
          BY <2>0, <4>2, ReleasesAreTyped, Zenon
        <4>. QED
          BY <2>7, <4>1, <4>2, Zenon DEF MReleaseWrite
      <3>. QED
        BY <3>1, <3>2, Zenon DEF RecordTyped
    <2>8. CASE Sigterm \/ SetStop \/ CheckLeading \/ QuietStep \/ ExporterStop
      <3>1. CASE Sigterm
        BY <3>1, <2>11 DEF RecordTyped, Sigterm
      <3>2. CASE SetStop
        BY <3>2, <2>11 DEF RecordTyped, SetStop
      <3>3. CASE CheckLeading
        BY <3>3, <2>11 DEF RecordTyped, CheckLeading
      <3>4. CASE QuietStep
        <4>1. LeaseUnchanged /\ epc' \in ElectionPhases /\ mpc' \in MainPhases
          BY <3>4 DEF QuietStep
        <4>2. /\ stopSet' \in BOOLEAN /\ leader' \in BOOLEAN /\ event' \in BOOLEAN
              /\ data' \in BOOLEAN /\ label' \in BOOLEAN /\ excused' \in BOOLEAN
          BY <3>4, Zenon DEF QuietStep
        <4>. QED
          BY <4>1, <4>2, FlagsAreTyped
      <3>5. CASE ExporterStop
        BY <3>5, <2>11 DEF RecordTyped, ExporterStop
      <3>. QED
        BY <2>8, <3>1, <3>2, <3>3, <3>4, <3>5
    <2>9. CASE Poll \/ Rival \/ LateWrite \/ UNCHANGED vars
      <3>1. CASE Poll
        BY <3>1, <2>11 DEF RecordTyped, Poll
      <3>2. CASE Rival
        <4>1. PICK v \in {"rival", "empty"} : RivalWrite(v)
          BY <3>2 DEF Rival, RivalAcquires, RivalLeaves
        <4>2. RecordTyped'
          BY <4>1 DEF RivalWrite, Publish, RecordTyped
        <4>. QED
          BY <4>1, <4>2 DEF RivalWrite, RecordTyped
      <3>3. CASE UNCHANGED vars
        BY <3>3 DEF vars
      <3>4. CASE LateWrite
        <4>1. RecordTyped'
          BY <3>4 DEF LateWrite, Publish, RecordTyped
        <4>. QED
          BY <3>4, <4>1 DEF LateWrite, RecordTyped
      <3>. QED
        BY <2>9, <3>1, <3>2, <3>3, <3>4
    <2>. QED
      BY <1>2, <2>1, <2>2, <2>3, <2>4, <2>5, <2>6, <2>7, <2>8, <2>9
         DEF Next, ElectionStep, Shutdown
  <1>. QED
    BY <1>1, <1>2, PTL DEF Spec
=============================================================================
