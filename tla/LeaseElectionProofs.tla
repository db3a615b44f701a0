------------------------ MODULE LeaseElectionProofs ------------------------
(***************************************************************************)
(* Proofs about LeaseElection, for any number of pods, any valid           *)
(* configuration and any disturbances: type correctness and NoPrematureSteal. *)
(* Under SafeMargin, and while nobody deletes the Lease: LeaderHoldsLease,  *)
(* AtMostOneLeader, ReleaseNeverUnseatsLeader, and the implementation of     *)
(* LeaderSpec.  A released Lease is taken by the next attempt.              *)
(***************************************************************************)
EXTENDS LeaseElection, TLAPS

USE DEF Attempt, Releasing, Phases, Cap, LeaseUnchanged, ObservationUnchanged

\* What the proofs use of the configuration.
LEMMA ConfigFacts ==
    /\ LeaseDuration \in Nat /\ RenewDeadline \in Nat /\ RetryPeriod \in Nat
    /\ CallTime \in Nat /\ CallbackTime \in Nat /\ RequestTime \in Nat
    /\ CallTime <= RequestTimeout
    /\ ValidConfig
    /\ Env \subseteq Disturbances
    /\ Missing \notin Pods /\ Nobody \notin Pods /\ Missing # Nobody
<1>1. RequestTimeout \in Nat
  BY ConfigAssumption DEF RequestTimeout
<1>2. CallTime \in Nat /\ CallTime <= RequestTimeout
  BY <1>1, ConfigAssumption
<1>3. RequestTime \in Nat
  BY <1>2 DEF RequestTime
<1> QED
  BY <1>2, <1>3, ConfigAssumption

LEMMA OlderType == \A age \in 0..Cap : Older(age) \in 0..Cap
  BY ConfigFacts DEF Older

----------------------------------------------------------------------------
(* What the shared steps do to the pod that takes them, and to the others.  *)

LEMMA GotoEffect ==
  ASSUME TypeOK, NEW p \in Pods, NEW phase \in Phases, Goto(p, phase)
  PROVE  /\ pc' \in [Pods -> Phases] /\ timer' \in [Pods -> Nat]
         /\ pc'[p] = phase /\ timer'[p] = 0
         /\ \A q \in Pods : q # p => pc'[q] = pc[q] /\ timer'[q] = timer[q]
  BY DEF Goto, TypeOK

LEMMA DemoteEffect ==
  ASSUME TypeOK, NEW p \in Pods, Demote(p)
  PROVE  /\ isLeader' \in [Pods -> BOOLEAN] /\ deadlineAge' \in [Pods -> Nat]
         /\ isLeader'[p] = FALSE
         /\ \A q \in Pods : q # p => isLeader'[q] = isLeader[q] /\ deadlineAge'[q] = deadlineAge[q]
  BY DEF Demote, TypeOK

LEMMA GiveUpEffect ==
  ASSUME TypeOK, NEW p \in Pods, GiveUp(p)
  PROVE  /\ pc' \in [Pods -> Phases] /\ timer' \in [Pods -> Nat]
         /\ isLeader' \in [Pods -> BOOLEAN] /\ deadlineAge' \in [Pods -> Nat]
         /\ stopping' = stopping
         /\ pc'[p] = "wait" /\ timer'[p] = 0
         /\ isLeader'[p] => /\ isLeader[p]
                            /\ deadlineAge[p] < RenewDeadline
                            /\ deadlineAge'[p] = deadlineAge[p]
         /\ \A q \in Pods : q # p => /\ pc'[q] = pc[q] /\ timer'[q] = timer[q]
                                     /\ isLeader'[q] = isLeader[q]
                                     /\ deadlineAge'[q] = deadlineAge[q]
<1>1. Goto(p, "wait") /\ stopping' = stopping
  BY DEF GiveUp
<1>2. CASE deadlineAge[p] >= RenewDeadline
  BY <1>1, <1>2, GotoEffect, DemoteEffect DEF GiveUp
<1>3. CASE ~(deadlineAge[p] >= RenewDeadline)
  <2>1. isLeader' = isLeader /\ deadlineAge' = deadlineAge
    BY <1>3 DEF GiveUp
  <2>2. deadlineAge[p] < RenewDeadline
    BY <1>3, ConfigFacts DEF TypeOK
  <2> QED
    BY <1>1, <2>1, <2>2, GotoEffect DEF TypeOK
<1> QED
  BY <1>2, <1>3

LEMMA LeaveEffect ==
  ASSUME TypeOK, NEW p \in Pods, Leave(p)
  PROVE  /\ pc' \in [Pods -> Phases] /\ timer' \in [Pods -> Nat]
         /\ isLeader' \in [Pods -> BOOLEAN] /\ deadlineAge' \in [Pods -> Nat]
         /\ current' \in [Pods -> BOOLEAN]
         /\ stopping' \in [Pods -> BOOLEAN] /\ obsAge' = obsAge
         /\ pc'[p] = "down" /\ timer'[p] = 0 /\ isLeader'[p] = FALSE /\ current'[p] = FALSE
         /\ \A q \in Pods : q # p => /\ pc'[q] = pc[q] /\ timer'[q] = timer[q]
                                     /\ isLeader'[q] = isLeader[q]
                                     /\ deadlineAge'[q] = deadlineAge[q]
                                     /\ current'[q] = current[q]
<1>1. Goto(p, "down") /\ Demote(p)
  BY DEF Leave
<1>2. /\ current' = [current EXCEPT ![p] = FALSE]
      /\ stopping' = [stopping EXCEPT ![p] = FALSE] /\ obsAge' = obsAge
  BY DEF Leave
<1> QED
  BY <1>1, <1>2, GotoEffect, DemoteEffect DEF TypeOK

----------------------------------------------------------------------------

LEMMA TimedInit == Init => Timed
  BY ConfigFacts DEF Init, Timed, TypeOK, InTime

\* Timed, split into what belongs to the threads and what they share.
ThreadsTimed ==
  /\ pc \in [Pods -> Phases] /\ timer \in [Pods -> Nat]
  /\ isLeader \in [Pods -> BOOLEAN] /\ deadlineAge \in [Pods -> Nat]
  /\ stopping \in [Pods -> BOOLEAN]
  /\ \A p \in Pods : InTime(p)

SharedTyped ==
  /\ holder \in Pods \cup {Nobody, Missing}
  /\ leaseAge \in 0..LeaseDuration
  /\ late \in SUBSET (Pods \cup {Nobody})
  /\ current \in [Pods -> BOOLEAN]
  /\ obsAge \in [Pods -> 0..Cap]

LEMMA GiveUpTimed ==
  ASSUME Timed, NEW p \in Pods, GiveUp(p)
  PROVE  ThreadsTimed'
<1>1. InTime(p)'
  BY GiveUpEffect, ConfigFacts DEF InTime, Timed
<1>2. ASSUME NEW q \in Pods, q # p PROVE InTime(q)'
  BY <1>2, GiveUpEffect DEF InTime, Timed
<1> QED
  BY <1>1, <1>2, GiveUpEffect DEF ThreadsTimed, Timed, TypeOK

LEMMA LeaveTimed ==
  ASSUME Timed, NEW p \in Pods, Leave(p)
  PROVE  ThreadsTimed'
<1>1. InTime(p)'
  BY LeaveEffect, ConfigFacts DEF InTime, Timed
<1>2. ASSUME NEW q \in Pods, q # p PROVE InTime(q)'
  BY <1>2, LeaveEffect DEF InTime, Timed
<1> QED
  BY <1>1, <1>2, LeaveEffect DEF ThreadsTimed, Timed, TypeOK

LEMMA GotoTimed ==
  ASSUME Timed, NEW p \in Pods, NEW phase \in Phases, Goto(p, phase),
         isLeader' \in [Pods -> BOOLEAN], deadlineAge' \in [Pods -> Nat],
         stopping' \in [Pods -> BOOLEAN],
         \A q \in Pods : q # p => isLeader'[q] = isLeader[q],
         phase \in {"down", "backoff"} => ~isLeader'[p]
  PROVE  ThreadsTimed'
<1>1. InTime(p)'
  BY GotoEffect, ConfigFacts DEF InTime, Timed
<1>2. ASSUME NEW q \in Pods, q # p PROVE InTime(q)'
  BY <1>2, GotoEffect DEF InTime, Timed
<1> QED
  BY <1>1, <1>2, GotoEffect DEF ThreadsTimed, Timed, TypeOK

\* The reply to a write is awaited on the write's own time.
LEMMA PhaseTimed ==
  ASSUME Timed, NEW p \in Pods, NEW phase \in Attempt \cup Releasing,
         pc[p] \in Attempt \cup Releasing,
         pc' = [pc EXCEPT ![p] = phase], UNCHANGED <<timer, isLeader, stopping, deadlineAge>>
  PROVE  ThreadsTimed'
  BY DEF Timed, TypeOK, InTime, ThreadsTimed

LEMMA ThreadsStep ==
  ASSUME Timed, NEW p \in Pods, Start(p) \/ Progress(p) \/ Fault(p)
  PROVE  ThreadsTimed'
<1> DEFINE DeadlineSet == deadlineAge' = [deadlineAge EXCEPT ![p] = 0]
<1>d. deadlineAge \in [Pods -> Nat] /\ DeadlineSet => deadlineAge' \in [Pods -> Nat]
  OBVIOUS
<1>1. CASE \/ ReadFailed(p) \/ WriteConflict(p) \/ WriteFailed(p) \/ AckLost(p)
  BY <1>1, GiveUpTimed DEF ReadFailed, WriteConflict, WriteFailed, AckLost
<1>2. CASE StopIdle(p) \/ ReleaseSkipped(p) \/ ReleaseDone(p) \/ Crash(p)
  BY <1>2, LeaveTimed DEF StopIdle, ReleaseSkipped, ReleaseDone, Crash
<1>3. CASE ReadMissing(p)
  <2>1. CASE isLeader[p]
    BY <1>3, <2>1, GiveUpTimed DEF ReadMissing
  <2>2. CASE ~isLeader[p]
    BY <1>3, <2>2, GotoTimed DEF ReadMissing, Timed, TypeOK
  <2> QED
    BY <2>1, <2>2
<1>4. CASE ReleaseConflict(p) \/ ReleaseFailed(p)
  <2>1. CASE Leave(p)
    BY <2>1, LeaveTimed
  <2>2. CASE ~Leave(p)
    <3>1. Goto(p, "relRead") /\ UNCHANGED <<isLeader, stopping, deadlineAge>>
      BY <1>4, <2>2 DEF ReleaseConflict, ReleaseFailed, ReleaseAgain
    <3> QED
      BY <3>1, GotoTimed DEF Timed, TypeOK
  <2> QED
    BY <2>1, <2>2
<1>5. CASE Start(p)
  <2>1. stopping' \in [Pods -> BOOLEAN]
    BY <1>5 DEF Start, Timed, TypeOK
  <2> QED
    BY <1>5, <2>1, GotoTimed DEF Start, Timed, TypeOK
<1>6. CASE BeginAttempt(p) \/ Restart(p) \/ ReleaseRead(p)
  BY <1>6, GotoTimed DEF BeginAttempt, Restart, ReleaseRead, Timed, TypeOK
<1>7. CASE BeginRelease(p)
  BY <1>7, <1>d, GotoTimed DEF BeginRelease, Timed, TypeOK
<1>8. CASE CallbackDone(p)
  <2>1. PICK phase \in {"wait", "read"} : Goto(p, phase)
    BY <1>8 DEF CallbackDone
  <2> QED
    BY <1>8, <1>d, <2>1, GotoTimed DEF CallbackDone, Timed, TypeOK
<1>9. CASE AckDelivered(p)
  <2>1. PICK phase \in {"wait", "promote"} : Goto(p, phase)
    BY <1>9 DEF AckDelivered
  <2>2. isLeader' \in [Pods -> BOOLEAN] /\ \A q \in Pods : q # p => isLeader'[q] = isLeader[q]
    BY <1>9 DEF AckDelivered, Timed, TypeOK
  <2> QED
    BY <1>9, <1>d, <2>1, <2>2, GotoTimed DEF AckDelivered, Timed, TypeOK
<1>10. CASE AcquireRead(p)
  <2>1. CASE HeldByOther(p) /\ ~ObservedExpired(p)
    BY <1>10, <2>1, GotoTimed DEF AcquireRead, Timed, TypeOK
  <2>2. CASE ~(HeldByOther(p) /\ ~ObservedExpired(p))
    BY <1>10, <2>2, GotoTimed DEF AcquireRead, ToReplace, Timed, TypeOK
  <2> QED
    BY <2>1, <2>2
<1>11. CASE RenewRead(p)
  <2>1. CASE HeldByOther(p)
    <3>1. Goto(p, "wait") /\ Demote(p) /\ stopping' = stopping
      BY <1>11, <2>1 DEF RenewRead
    <3> QED
      BY <3>1, DemoteEffect, GotoTimed DEF Timed, TypeOK
  <2>2. CASE ~HeldByOther(p)
    BY <1>11, <2>2, GotoTimed DEF RenewRead, ToReplace, Timed, TypeOK
  <2> QED
    BY <2>1, <2>2
<1>12. CASE ReadUnauthorized(p)
  <2>1. CASE stopping[p] /\ isLeader[p]
    BY <1>12, <1>d, <2>1, GotoTimed DEF ReadUnauthorized, Timed, TypeOK
  <2>2. CASE ~(stopping[p] /\ isLeader[p])
    <3>1. Goto(p, "backoff") /\ Demote(p) /\ stopping' = stopping
      BY <1>12, <2>2 DEF ReadUnauthorized
    <3> QED
      BY <3>1, DemoteEffect, GotoTimed DEF Timed, TypeOK
  <2> QED
    BY <2>1, <2>2
<1>13. CASE WriteApplied(p) \/ ReleaseWrite(p)
  BY <1>13, PhaseTimed DEF WriteApplied, ReleaseWrite
<1>14. CASE RequestStop(p)
  BY <1>14 DEF RequestStop, Timed, TypeOK, InTime, ThreadsTimed
<1> QED
  BY <1>1, <1>2, <1>3, <1>4, <1>5, <1>6, <1>7, <1>8, <1>9, <1>10, <1>11, <1>12, <1>13, <1>14
     DEF Progress, Fault

LEMMA SharedStep ==
  ASSUME Timed, NEW p \in Pods, Start(p) \/ Progress(p) \/ Fault(p)
  PROVE  SharedTyped'
<1> USE ConfigFacts DEF Timed, TypeOK, SharedTyped
<1>1. CASE LeaseUnchanged /\ current' = current /\ obsAge' = obsAge
  BY <1>1
<1>2. CASE LeaseUnchanged /\ obsAge' = obsAge /\ current' = [current EXCEPT ![p] = FALSE]
  BY <1>2
<1>3. CASE \/ Start(p) \/ BeginAttempt(p) \/ Restart(p) \/ ReadMissing(p)
           \/ WriteConflict(p) \/ CallbackDone(p) \/ BeginRelease(p)
           \/ ReadFailed(p) \/ RequestStop(p)
  BY <1>1, <1>3
     DEF Start, BeginAttempt, Restart, ReadMissing, WriteConflict, CallbackDone,
         BeginRelease, ReadFailed, RequestStop
<1>4. CASE \/ StopIdle(p) \/ ReleaseSkipped(p) \/ ReleaseDone(p)
           \/ ReadUnauthorized(p) \/ AckLost(p)
  BY <1>2, <1>4
     DEF StopIdle, ReleaseSkipped, ReleaseDone, ReadUnauthorized, AckLost, Leave
<1>5. CASE AcquireRead(p) \/ RenewRead(p) \/ ReleaseRead(p)
  <2>1. ObservedAge(p) \in 0..Cap
    BY <1>5 DEF AcquireRead, RenewRead, ReleaseRead, ObservedAge, InTime
  <2>2. /\ LeaseUnchanged
        /\ current' = [current EXCEPT ![p] = TRUE]
        /\ obsAge' = [obsAge EXCEPT ![p] = ObservedAge(p)]
    BY <1>5 DEF AcquireRead, RenewRead, ReleaseRead, Observe
  <2> QED
    BY <2>1, <2>2
<1>6. CASE WriteApplied(p) \/ ReleaseWrite(p)
  <2>1. PICK value \in {p, Nobody} : Publish(value, {p})
    BY <1>6 DEF WriteApplied, ReleaseWrite
  <2> QED
    BY <2>1 DEF Publish
<1>7. CASE AckDelivered(p)
  BY <1>7 DEF AckDelivered
<1>8. CASE WriteFailed(p)
  BY <1>8 DEF WriteFailed, Abandon
<1>9. CASE ReleaseConflict(p)
  BY <1>1, <1>2, <1>9 DEF ReleaseConflict, ReleaseAgain, Leave
<1>10. CASE ReleaseFailed(p)
  <2>1. late' \in SUBSET (Pods \cup {Nobody}) /\ UNCHANGED <<holder, leaseAge>>
    BY <1>10 DEF ReleaseFailed, Abandon
  <2>2. obsAge' = obsAge /\ current' \in [Pods -> BOOLEAN]
    BY <1>10 DEF ReleaseFailed, ReleaseAgain, Leave
  <2> QED
    BY <2>1, <2>2
<1>11. CASE Crash(p)
  <2>1. late' \in SUBSET (Pods \cup {Nobody}) /\ UNCHANGED <<holder, leaseAge>>
    BY <1>11 DEF Crash, InFlight
  <2> QED
    BY <1>11, <2>1 DEF Crash, Leave
<1> QED
  BY <1>3, <1>4, <1>5, <1>6, <1>7, <1>8, <1>9, <1>10, <1>11 DEF Progress, Fault

LEMMA TimedStep == Timed /\ [Next]_vars => Timed'
<1> SUFFICES ASSUME Timed, [Next]_vars PROVE Timed'
  OBVIOUS
<1>1. ASSUME NEW p \in Pods, Start(p) \/ Progress(p) \/ Fault(p)
      PROVE  Timed'
  <2>1. ThreadsTimed' /\ SharedTyped'
    BY <1>1, ThreadsStep, SharedStep
  <2> QED
    BY <2>1 DEF Timed, TypeOK, ThreadsTimed, SharedTyped
<1>2. ASSUME NEW value \in Pods \cup {Nobody}, LateWrite(value)
      PROVE  Timed'
  BY <1>2, ConfigFacts DEF LateWrite, Publish, Timed, TypeOK, InTime
<1>3. CASE DeleteLease
  BY <1>3, ConfigFacts DEF DeleteLease, Publish, Timed, TypeOK, InTime
<1>4. CASE Tick
  BY <1>4, ConfigFacts, OlderType DEF Tick, Untimed, Limit, Timed, TypeOK, InTime
<1>5. CASE UNCHANGED vars
  BY <1>5 DEF vars, Timed, TypeOK, InTime
<1> QED
  BY <1>1, <1>2, <1>3, <1>4, <1>5 DEF Next

\* Every reachable state is well typed, and no thread outlasts its phase.
THEOREM TypeCorrect == Spec => [](TypeOK /\ Timed)
<1>1. Timed => TypeOK
  BY DEF Timed
<1> QED
  BY TimedInit, TimedStep, <1>1, PTL DEF Spec

----------------------------------------------------------------------------
(* Observation: a candidate dates a record at most one request too early.   *)

LEMMA ObservedStep ==
  ASSUME Timed, \A p \in Pods : ObservedInTime(p), [Next]_vars
  PROVE  \A p \in Pods : ObservedInTime(p)'
<1> USE ConfigFacts DEF Timed, TypeOK, ObservedInTime
<1>1. ASSUME NEW p \in Pods, Start(p) \/ Progress(p) \/ Fault(p)
      PROVE  \A q \in Pods : ObservedInTime(q)'
  <2>1. CASE ObservationUnchanged /\ leaseAge' = leaseAge
    BY <2>1
  <2>2. CASE /\ leaseAge' = leaseAge /\ obsAge' = obsAge
             /\ current' = [current EXCEPT ![p] = FALSE]
    BY <2>2
  <2>3. CASE AcquireRead(p) \/ RenewRead(p) \/ ReleaseRead(p)
    <3>1. timer[p] <= RequestTime
      BY <2>3 DEF AcquireRead, RenewRead, ReleaseRead, InTime
    <3>2. /\ leaseAge' = leaseAge
          /\ current' = [current EXCEPT ![p] = TRUE]
          /\ obsAge' = [obsAge EXCEPT ![p] = ObservedAge(p)]
      BY <2>3 DEF AcquireRead, RenewRead, ReleaseRead, Observe
    <3> QED
      BY <3>1, <3>2 DEF ObservedAge
  <2>4. CASE WriteApplied(p) \/ ReleaseWrite(p)
    BY <2>4 DEF WriteApplied, ReleaseWrite, Publish
  <2>5. CASE AckDelivered(p)
    BY <2>5 DEF AckDelivered
  <2>6. CASE \/ Start(p) \/ BeginAttempt(p) \/ Restart(p) \/ ReadMissing(p)
             \/ WriteConflict(p) \/ CallbackDone(p) \/ BeginRelease(p)
             \/ ReadFailed(p) \/ WriteFailed(p) \/ RequestStop(p)
    BY <2>1, <2>6
       DEF Start, BeginAttempt, Restart, ReadMissing, WriteConflict, CallbackDone,
           BeginRelease, ReadFailed, WriteFailed, RequestStop
  <2>7. CASE \/ StopIdle(p) \/ ReleaseSkipped(p) \/ ReleaseDone(p)
             \/ ReadUnauthorized(p) \/ AckLost(p) \/ Crash(p)
    BY <2>2, <2>7
       DEF StopIdle, ReleaseSkipped, ReleaseDone, ReadUnauthorized, AckLost, Crash, Leave
  <2>8. CASE ReleaseConflict(p) \/ ReleaseFailed(p)
    BY <2>1, <2>2, <2>8 DEF ReleaseConflict, ReleaseFailed, ReleaseAgain, Leave
  <2> QED
    BY <1>1, <2>3, <2>4, <2>5, <2>6, <2>7, <2>8 DEF Progress, Fault
<1>2. ASSUME NEW value \in Pods \cup {Nobody}, LateWrite(value)
      PROVE  \A q \in Pods : ObservedInTime(q)'
  BY <1>2 DEF LateWrite, Publish
<1>3. CASE DeleteLease
  BY <1>3 DEF DeleteLease, Publish
<1>4. CASE Tick
  BY <1>4 DEF Tick, Older, Cap
<1>5. CASE UNCHANGED vars
  BY <1>5 DEF vars
<1> QED
  BY <1>1, <1>2, <1>3, <1>4, <1>5 DEF Next

----------------------------------------------------------------------------
(* Writes in flight.  Most steps touch neither the Lease nor the writes.    *)

InFlightSound == LateSound /\ \A p \in Pods : WriteSound(p)

LEMMA QuietStep ==
  ASSUME TypeOK, InFlightSound, NEW p \in Pods,
         UNCHANGED <<holder, leaseAge, late>>,
         pc'[p] \notin {"replace", "relWrite"},
         Owns(p)' => Owns(p),
         \A q \in Pods : q # p => /\ pc'[q] = pc[q]
                                 /\ isLeader'[q] = isLeader[q]
                                 /\ current'[q] = current[q]
  PROVE  InFlightSound'
<1> USE DEF InFlightSound, WriteSound, LateSound, HeldByOther, Abandoned
<1>1. \A q \in Pods : WriteSound(q)'
  OBVIOUS
<1>2. \A q \in Pods : Owns(q)' => Owns(q)
  BY DEF Owns, Leading
<1>3. LateSound'
  BY <1>2 DEF Owns, Leading
<1> QED
  BY <1>1, <1>3

LEMMA PublishStep ==
  ASSUME ConfigFacts, NEW value, NEW writer \in SUBSET Pods, Publish(value, writer),
         \A q \in writer : pc'[q] \notin {"replace", "relWrite"}
  PROVE  InFlightSound'
  BY DEF InFlightSound, WriteSound, LateSound, Publish

LEMMA InFlightStep ==
  ASSUME Timed, \A p \in Pods : ObservedInTime(p), InFlightSound, [Next]_vars
  PROVE  InFlightSound'
<1> USE ConfigFacts DEF Timed
<1>1. ASSUME NEW p \in Pods, Start(p) \/ Progress(p) \/ Fault(p)
      PROVE  InFlightSound'
  <2> DEFINE Quiet ==
        /\ UNCHANGED <<holder, leaseAge, late>>
        /\ pc'[p] \notin {"replace", "relWrite"}
        /\ Owns(p)' => Owns(p)
        /\ \A q \in Pods : q # p => /\ pc'[q] = pc[q]
                                   /\ isLeader'[q] = isLeader[q]
                                   /\ current'[q] = current[q]
  <2>q. Quiet => InFlightSound'
    BY QuietStep
  <2> HIDE DEF Quiet
  <2>1. ASSUME LeaseUnchanged, GiveUp(p), UNCHANGED current \/ current' = [current EXCEPT ![p] = FALSE],
               pc[p] \in Attempt
        PROVE  Quiet
    BY <2>1, GiveUpEffect DEF Quiet, Owns, Leading, TypeOK
  <2>2. ASSUME LeaseUnchanged, Leave(p)
        PROVE  Quiet
    BY <2>2, LeaveEffect DEF Quiet, Owns, Leading
  <2>3. CASE Start(p)
    <3> Quiet
      BY <2>3 DEF Start, Goto, Quiet, Owns, Leading, TypeOK
    <3> QED
      BY <2>q
  <2>4. CASE BeginAttempt(p)
    <3> Quiet
      BY <2>4 DEF BeginAttempt, Goto, Quiet, Owns, Leading, TypeOK
    <3> QED
      BY <2>q
  <2>5. CASE Restart(p)
    <3> Quiet
      BY <2>5 DEF Restart, Goto, Quiet, Owns, Leading, TypeOK
    <3> QED
      BY <2>q
  <2>6. CASE AckDelivered(p)
    <3> Quiet
      BY <2>6 DEF AckDelivered, Goto, Quiet, Owns, Leading, TypeOK
    <3> QED
      BY <2>q
  <2>7. CASE CallbackDone(p)
    <3> Quiet
      BY <2>7 DEF CallbackDone, Goto, Quiet, Owns, Leading, TypeOK
    <3> QED
      BY <2>q
  <2>8. CASE StopIdle(p)
    BY <2>8, <2>2, <2>q DEF StopIdle
  <2>9. CASE BeginRelease(p)
    <3> Quiet
      BY <2>9 DEF BeginRelease, Goto, Quiet, Owns, Leading, TypeOK
    <3> QED
      BY <2>q
  <2>10. CASE ReadMissing(p)
    <3>1. CASE GiveUp(p)
      BY <2>10, <3>1, <2>1, <2>q DEF ReadMissing
    <3>2. CASE ~GiveUp(p)
      <4> Quiet
        BY <2>10, <3>2 DEF ReadMissing, Goto, Quiet, Owns, Leading, TypeOK
      <4> QED
        BY <2>q
    <3> QED
      BY <3>1, <3>2
  <2>11. CASE ReadFailed(p) \/ WriteConflict(p) \/ AckLost(p)
    BY <2>11, <2>1, <2>q DEF ReadFailed, WriteConflict, AckLost
  <2>12. CASE ReleaseSkipped(p) \/ ReleaseDone(p)
    BY <2>12, <2>2, <2>q DEF ReleaseSkipped, ReleaseDone
  <2>13. CASE ReleaseConflict(p)
    <3>1. CASE Leave(p)
      BY <2>13, <3>1, <2>2, <2>q DEF ReleaseConflict
    <3>2. CASE ~Leave(p)
      <4> Quiet
        BY <2>13, <3>2 DEF ReleaseConflict, ReleaseAgain, Goto, Quiet, Owns, Leading, TypeOK
      <4> QED
        BY <2>q
    <3> QED
      BY <3>1, <3>2
  <2>14. CASE ReadUnauthorized(p)
    <3> Quiet
      BY <2>14 DEF ReadUnauthorized, Goto, Demote, Quiet, Owns, Leading, TypeOK
    <3> QED
      BY <2>q
  <2>15. CASE RequestStop(p)
    BY <2>15
       DEF RequestStop, InFlightSound, WriteSound, LateSound, HeldByOther, Abandoned, Owns, Leading
  <2>16. CASE AcquireRead(p)
    <3>1. CASE HeldByOther(p) /\ ~ObservedExpired(p)
      <4> Quiet
        BY <2>16, <3>1 DEF AcquireRead, Observe, Goto, Quiet, Owns, Leading, TypeOK
      <4> QED
        BY <2>q
    <3>2. CASE ~(HeldByOther(p) /\ ~ObservedExpired(p))
      <4>1. HeldByOther(p) => Abandoned
        <5>1. timer[p] <= RequestTime
          BY <2>16 DEF AcquireRead, InTime
        <5> QED
          BY <3>2, <5>1
             DEF ObservedExpired, ObservedAge, ObservedInTime, Abandoned, TypeOK
      <4> QED
        BY <2>16, <3>2, <4>1
           DEF AcquireRead, Observe, ToReplace, Goto, InFlightSound, WriteSound, LateSound,
               HeldByOther, Abandoned, Owns, Leading, TypeOK
    <3> QED
      BY <3>1, <3>2
  <2>17. CASE RenewRead(p)
    <3>1. CASE HeldByOther(p)
      <4> Quiet
        BY <2>17, <3>1 DEF RenewRead, Observe, Goto, Demote, Quiet, Owns, Leading, TypeOK
      <4> QED
        BY <2>q
    <3>2. CASE ~HeldByOther(p)
      BY <2>17, <3>2
         DEF RenewRead, Observe, ToReplace, Goto, InFlightSound, WriteSound, LateSound,
             HeldByOther, Abandoned, Owns, Leading, TypeOK
    <3> QED
      BY <3>1, <3>2
  <2>18. CASE ReleaseRead(p)
    BY <2>18
       DEF ReleaseRead, Observe, Goto, InFlightSound, WriteSound, LateSound, HeldByOther, Abandoned,
           Owns, Leading, TypeOK
  <2>19. CASE WriteApplied(p) \/ ReleaseWrite(p)
    BY <2>19, PublishStep DEF WriteApplied, ReleaseWrite, TypeOK
  <2>20. CASE WriteFailed(p)
    <3>1. /\ GiveUp(p) /\ UNCHANGED <<holder, leaseAge, current>>
          /\ late' \subseteq late \cup {p}
          /\ HeldByOther(p) => Abandoned
      BY <2>20
         DEF WriteFailed, Abandon, InFlightSound, WriteSound, HeldByOther, TypeOK
    <3>2. /\ \A q \in Pods : Owns(q)' => Owns(q)
          /\ \A q \in Pods : WriteSound(q)'
      BY <2>20, <3>1, GiveUpEffect
         DEF WriteFailed, Owns, Leading, InFlightSound, WriteSound, HeldByOther, Abandoned
    <3> QED
      BY <3>1, <3>2
         DEF InFlightSound, LateSound, HeldByOther, Abandoned
  <2>21. CASE ReleaseFailed(p)
    <3>1. holder = p
      BY <2>21 DEF ReleaseFailed, InFlightSound, WriteSound
    <3>2. CASE Leave(p)
      <4>1. UNCHANGED <<holder, leaseAge>> /\ late' \subseteq late \cup {Nobody}
        BY <2>21 DEF ReleaseFailed, Abandon
      <4>2. /\ ~Owns(p)'
            /\ \A q \in Pods : Owns(q)' => Owns(q)
            /\ \A q \in Pods : WriteSound(q)'
        BY <3>2, <4>1, LeaveEffect
           DEF Owns, Leading, InFlightSound, WriteSound, HeldByOther, Abandoned
      <4> QED
        BY <3>1, <4>1, <4>2
           DEF InFlightSound, LateSound, HeldByOther, Abandoned
    <3>3. CASE ~Leave(p)
      BY <2>21, <3>1, <3>3
         DEF ReleaseFailed, Abandon, ReleaseAgain, Goto, InFlightSound, WriteSound, LateSound,
             HeldByOther, Abandoned, Owns, Leading, TypeOK
    <3> QED
      BY <3>2, <3>3
  <2>22. CASE Crash(p)
    <3>1. holder' = holder /\ leaseAge' = leaseAge
      BY <2>22 DEF Crash
    <3>2. late' \subseteq late \cup InFlight(p)
      BY <2>22 DEF Crash
    <3>3. \A v \in InFlight(p) \cap Pods : HeldByOther(v) => Abandoned
      BY DEF InFlight, InFlightSound, WriteSound, HeldByOther, TypeOK
    <3>4. Nobody \in InFlight(p) => holder = p
      BY DEF InFlight, InFlightSound, WriteSound
    <3>5. /\ ~Owns(p)'
          /\ \A q \in Pods : Owns(q)' => Owns(q)
          /\ \A q \in Pods : WriteSound(q)'
      BY <2>22, <3>1, LeaveEffect
         DEF Crash, Owns, Leading, InFlightSound, WriteSound, HeldByOther, Abandoned
    <3> QED
      BY <3>1, <3>2, <3>3, <3>4, <3>5
         DEF InFlightSound, LateSound, HeldByOther, Abandoned
  <2> QED
    BY <1>1, <2>3, <2>4, <2>5, <2>6, <2>7, <2>8, <2>9, <2>10, <2>11, <2>12, <2>13, <2>14, <2>15, <2>16, <2>17, <2>18, <2>19, <2>20, <2>21, <2>22 DEF Progress, Fault
<1>2. ASSUME NEW value \in Pods \cup {Nobody}, LateWrite(value)
      PROVE  InFlightSound'
  BY <1>2, PublishStep DEF LateWrite
<1>3. CASE DeleteLease
  BY <1>3, PublishStep DEF DeleteLease
<1>4. CASE Tick
  BY <1>4
     DEF Tick, Older, Cap, InFlightSound, WriteSound, LateSound, HeldByOther, Abandoned,
         Owns, Leading, TypeOK
<1>5. CASE UNCHANGED vars
  BY <1>5
     DEF vars, InFlightSound, WriteSound, LateSound, HeldByOther, Abandoned, Owns, Leading
<1> QED
  BY <1>1, <1>2, <1>3, <1>4, <1>5 DEF Next

LEMMA StealInvInit == Init => StealInv
  BY TimedInit DEF Init, StealInv, ObservedInTime, WriteSound, LateSound

LEMMA StealInvStep == StealInv /\ [Next]_vars => StealInv'
  BY TimedStep, ObservedStep, InFlightStep DEF StealInv, InFlightSound

\* Only four steps change the holder.
LEMMA HolderStep ==
  ASSUME [Next]_vars, holder' # holder
  PROVE  \/ \E p \in Pods : WriteApplied(p) \/ ReleaseWrite(p)
         \/ \E value \in Pods \cup {Nobody} : LateWrite(value)
         \/ DeleteLease
<1> USE DEF LeaseUnchanged
<1>1. CASE \E p \in Pods : Start(p) \/ Progress(p) \/ Fault(p)
  BY <1>1 DEF Start, Progress, BeginAttempt, Restart, ReadMissing, AcquireRead, RenewRead,
      WriteConflict, AckDelivered, CallbackDone, StopIdle, BeginRelease, ReleaseRead,
      ReleaseSkipped, ReleaseConflict, ReleaseDone, Fault, ReadFailed, ReadUnauthorized,
      WriteFailed, AckLost, RequestStop, ReleaseFailed, Crash
<1>2. CASE Tick \/ UNCHANGED vars
  BY <1>2 DEF Tick, vars
<1> QED
  BY <1>1, <1>2 DEF Next

\* Whatever goes wrong and however the timing is configured, no pod takes the
\* Lease from another before it was left unwritten for a lease duration, less
\* the time of one request.
THEOREM StealsAreLate == Spec => NoPrematureSteal
<1>1. ASSUME StealInv, [Next]_vars, holder \in Pods, holder' \in Pods, holder' # holder
      PROVE  leaseAge >= LeaseDuration - RequestTime
  <2> USE <1>1 DEF StealInv
  <2>1. CASE \E p \in Pods : WriteApplied(p)
    BY <2>1, ConfigFacts DEF WriteApplied, Publish, WriteSound, HeldByOther, Abandoned
  <2>2. CASE \E value \in Pods \cup {Nobody} : LateWrite(value)
    BY <2>2, ConfigFacts DEF LateWrite, Publish, LateSound, HeldByOther, Abandoned
  <2>3. CASE \E p \in Pods : ReleaseWrite(p)
    BY <2>3, ConfigFacts DEF ReleaseWrite, Publish
  <2>4. CASE DeleteLease
    BY <2>4, ConfigFacts DEF DeleteLease, Publish
  <2> QED
    BY <2>1, <2>2, <2>3, <2>4, HolderStep
<1>2. StealInv /\ [Next]_vars
        => [(holder \in Pods /\ holder' \in Pods /\ holder' # holder)
               => leaseAge >= LeaseDuration - RequestTime]_vars
  BY <1>1
<1> QED
  BY StealInvInit, StealInvStep, <1>2, PTL DEF Spec, NoPrematureSteal

----------------------------------------------------------------------------
(* Leadership under SafeMargin.                                            *)

LeadBounds == \A p \in Pods : LeaseAgeBound(p) /\ (Owns(p) => holder = p)

LEMMA LeadInvInit == Init => LeadInv
  BY StealInvInit DEF Init, LeadInv, LeaseAgeBound, Owns, Leading

\* The margin: the lease of a pod that leads cannot have been abandoned.
LEMMA LeadersLeaseIsFresh ==
  ASSUME SafeMargin, LeadInv, NEW p \in Pods, Owns(p)
  PROVE  ~Abandoned
<1> USE ConfigFacts DEF LeadInv, StealInv, Timed, TypeOK, LeaseAgeBound, InTime, SafeMargin,
        ValidConfig, Timing!ValidTiming, Timing!OutlastsRetry
<1>1. CASE pc[p] = "ack"
  BY <1>1 DEF Abandoned
<1>2. CASE isLeader[p] /\ pc[p] = "promote"
  BY <1>2 DEF Abandoned
<1>3. CASE isLeader[p] /\ pc[p] = "wait"
  BY <1>3 DEF Abandoned
<1>4. CASE isLeader[p] /\ pc[p] \in {"read", "create", "replace"}
  BY <1>4 DEF Abandoned
<1> QED
  BY <1>1, <1>2, <1>3, <1>4 DEF Owns, Leading

\* Only a committed write makes an owner.
LEMMA OwnsStep ==
  ASSUME Timed, [Next]_vars, NEW q \in Pods, Owns(q)', ~Owns(q)
  PROVE  WriteApplied(q)
<1> USE DEF Timed
<1>1. ASSUME NEW p \in Pods, Start(p) \/ Progress(p) \/ Fault(p)
      PROVE  WriteApplied(q)
  <2> USE DEF Owns, Leading, TypeOK
  <2>1. ~(pc' = pc /\ isLeader' = isLeader)
    OBVIOUS
  <2>2. pc[p] \in Attempt => ~GiveUp(p)
    BY GiveUpEffect
  <2>3. ~Leave(p)
    BY LeaveEffect
  <2>4. CASE \/ ReadFailed(p) \/ WriteConflict(p) \/ WriteFailed(p) \/ AckLost(p)
             \/ StopIdle(p) \/ ReleaseSkipped(p) \/ ReleaseDone(p) \/ Crash(p)
    BY <2>2, <2>3, <2>4
       DEF ReadFailed, WriteConflict, WriteFailed, AckLost, StopIdle, ReleaseSkipped,
           ReleaseDone, Crash
  <2>5. CASE Start(p) \/ BeginAttempt(p) \/ Restart(p) \/ AckDelivered(p) \/ CallbackDone(p)
    BY <2>5 DEF Start, BeginAttempt, Restart, AckDelivered, CallbackDone, Goto
  <2>6. CASE BeginRelease(p) \/ RequestStop(p)
    BY <2>1, <2>6 DEF BeginRelease, RequestStop, Goto
  <2>11. CASE ReadUnauthorized(p)
    BY <2>11 DEF ReadUnauthorized, Goto, Demote
  <2>7. CASE ReadMissing(p)
    BY <2>2, <2>7 DEF ReadMissing, Goto
  <2>12. CASE AcquireRead(p)
    BY <2>12 DEF AcquireRead, ToReplace, Goto
  <2>13. CASE RenewRead(p)
    BY <2>13 DEF RenewRead, ToReplace, Goto, Demote
  <2>8. CASE ReleaseRead(p) \/ ReleaseWrite(p)
    BY <2>8 DEF ReleaseRead, ReleaseWrite, Goto
  <2>9. CASE ReleaseConflict(p) \/ ReleaseFailed(p)
    BY <2>3, <2>9 DEF ReleaseConflict, ReleaseFailed, ReleaseAgain, Goto
  <2>10. CASE WriteApplied(p)
    BY <2>10 DEF WriteApplied
  <2> QED
    BY <1>1, <2>4, <2>5, <2>6, <2>7, <2>8, <2>9, <2>10, <2>11, <2>12, <2>13
       DEF Progress, Fault
<1>2. ~(pc' = pc /\ isLeader' = isLeader)
  BY DEF Owns, Leading
<1>3. CASE (\E value \in Pods \cup {Nobody} : LateWrite(value)) \/ DeleteLease \/ Tick \/ UNCHANGED vars
  BY <1>2, <1>3 DEF LateWrite, DeleteLease, Tick, vars
<1> QED
  BY <1>1, <1>3 DEF Next

LEMMA OwnersHold ==
  ASSUME SafeMargin, "delete" \notin Env, LeadInv, [Next]_vars, NEW q \in Pods, Owns(q)'
  PROVE  holder' = q
<1> USE ConfigFacts DEF LeadInv, StealInv, LeadBounds
<1>1. CASE WriteApplied(q)
  BY <1>1 DEF WriteApplied, Publish
<1>2. CASE ~WriteApplied(q)
  <2>1. Owns(q) /\ holder = q /\ ~Abandoned
    BY <1>2, OwnsStep, LeadersLeaseIsFresh
  <2>2. CASE holder' = holder
    BY <2>1, <2>2
  <2>3. ASSUME NEW p \in Pods, WriteApplied(p) PROVE FALSE
    BY <1>2, <2>1, <2>3 DEF WriteApplied, WriteSound, HeldByOther
  <2>4. ASSUME NEW p \in Pods, ReleaseWrite(p) PROVE FALSE
    BY <2>1, <2>4 DEF ReleaseWrite, WriteSound, Owns, Leading
  <2>5. ASSUME NEW value \in Pods \cup {Nobody}, LateWrite(value) PROVE holder' = q
    BY <2>1, <2>5 DEF LateWrite, Publish, LateSound, HeldByOther
  <2>6. ~DeleteLease
    BY DEF DeleteLease
  <2> QED
    BY <2>2, <2>3, <2>4, <2>5, <2>6, HolderStep
<1> QED
  BY <1>1, <1>2

----------------------------------------------------------------------------

\* A pod that does not move keeps its bound when the lease gets no older.
LEMMA BoundKept ==
  ASSUME Timed, leaseAge' \in Nat, leaseAge' <= leaseAge, NEW q \in Pods, LeaseAgeBound(q),
         pc'[q] = pc[q], timer'[q] = timer[q], isLeader'[q] = isLeader[q],
         deadlineAge'[q] = deadlineAge[q]
  PROVE  LeaseAgeBound(q)'
  BY ConfigFacts DEF LeaseAgeBound, Timed, TypeOK

\* Nor does a pod whose failed attempt leaves it leading.
LEMMA BoundAfterGiveUp ==
  ASSUME Timed, NEW p \in Pods, LeaseAgeBound(p), pc[p] \in Attempt, GiveUp(p),
         leaseAge' = leaseAge
  PROVE  LeaseAgeBound(p)'
<1>1. CASE isLeader'[p]
  <2>1. /\ isLeader[p] /\ deadlineAge[p] < RenewDeadline /\ deadlineAge'[p] = deadlineAge[p]
        /\ pc'[p] = "wait" /\ timer'[p] = 0
    BY <1>1, GiveUpEffect DEF Timed
  <2>2. leaseAge <= RequestTime + CallbackTime + deadlineAge[p]
    BY <2>1, ConfigFacts DEF LeaseAgeBound, Timed, TypeOK, InTime
  <2> QED
    BY <2>1, <2>2, ConfigFacts DEF LeaseAgeBound, Timed, TypeOK
<1>2. CASE ~isLeader'[p]
  BY <1>2, GiveUpEffect DEF LeaseAgeBound, Timed
<1> QED
  BY <1>1, <1>2

LEMMA BoundStep ==
  ASSUME Timed, NEW p \in Pods, LeaseAgeBound(p), Start(p) \/ Progress(p) \/ Fault(p)
  PROVE  LeaseAgeBound(p)'
<1> USE ConfigFacts DEF Timed
<1>1. CASE \/ ReadFailed(p) \/ WriteConflict(p) \/ WriteFailed(p) \/ AckLost(p)
  BY <1>1, BoundAfterGiveUp DEF ReadFailed, WriteConflict, WriteFailed, AckLost
<1>2. CASE ReadMissing(p)
  <2>1. CASE isLeader[p]
    BY <1>2, <2>1, BoundAfterGiveUp DEF ReadMissing
  <2>2. CASE ~isLeader[p]
    BY <1>2, <2>2 DEF ReadMissing, Goto, LeaseAgeBound, TypeOK
  <2> QED
    BY <2>1, <2>2
<1>3. CASE Leave(p)
  BY <1>3, LeaveEffect DEF LeaseAgeBound
<1>4. CASE StopIdle(p) \/ ReleaseSkipped(p) \/ ReleaseDone(p) \/ Crash(p)
  BY <1>3, <1>4 DEF StopIdle, ReleaseSkipped, ReleaseDone, Crash
<1>5. CASE ReleaseConflict(p) \/ ReleaseFailed(p)
  BY <1>3, <1>5
     DEF ReleaseConflict, ReleaseFailed, ReleaseAgain, Goto, LeaseAgeBound, TypeOK
<1>6. CASE Start(p) \/ Restart(p) \/ BeginRelease(p) \/ ReadUnauthorized(p)
  BY <1>6 DEF Start, Restart, BeginRelease, ReadUnauthorized, Goto, Demote,
      LeaseAgeBound, TypeOK, InTime
<1>7. CASE BeginAttempt(p)
  BY <1>7 DEF BeginAttempt, Goto, LeaseAgeBound, TypeOK
<1>8. CASE AcquireRead(p)
  BY <1>8 DEF AcquireRead, Goto, ToReplace, LeaseAgeBound, TypeOK
<1>9. CASE RenewRead(p)
  BY <1>9 DEF RenewRead, Goto, Demote, ToReplace, LeaseAgeBound, TypeOK, InTime
<1>10. CASE WriteApplied(p)
  BY <1>10 DEF WriteApplied, Publish, LeaseAgeBound, TypeOK
<1>11. CASE AckDelivered(p)
  BY <1>11 DEF AckDelivered, Goto, LeaseAgeBound, TypeOK, InTime, ValidConfig,
               Timing!ValidTiming, Timing!OutlastsRetry
<1>12. CASE CallbackDone(p)
  BY <1>12 DEF CallbackDone, Goto, LeaseAgeBound, TypeOK, InTime, ValidConfig,
               Timing!ValidTiming, Timing!OutlastsRetry
<1>13. CASE RequestStop(p)
  BY <1>13 DEF RequestStop, LeaseAgeBound
<1>14. CASE ReleaseRead(p) \/ ReleaseWrite(p)
  BY <1>14 DEF ReleaseRead, ReleaseWrite, Goto, LeaseAgeBound, TypeOK
<1> QED
  BY <1>1, <1>2, <1>4, <1>5, <1>6, <1>7, <1>8, <1>9, <1>10, <1>11, <1>12, <1>13, <1>14
     DEF Progress, Fault

\* A pod's step leaves the other pods where they are, and ages no lease.
LEMMA FrameStep ==
  ASSUME TypeOK, NEW p \in Pods, Start(p) \/ Progress(p) \/ Fault(p)
  PROVE  /\ leaseAge' \in Nat /\ leaseAge' <= leaseAge
         /\ \A q \in Pods : q # p => /\ pc'[q] = pc[q] /\ timer'[q] = timer[q]
                                     /\ isLeader'[q] = isLeader[q]
                                     /\ deadlineAge'[q] = deadlineAge[q]
<1> DEFINE Frame == \A q \in Pods : q # p => /\ pc'[q] = pc[q] /\ timer'[q] = timer[q]
                                          /\ isLeader'[q] = isLeader[q]
                                          /\ deadlineAge'[q] = deadlineAge[q]
<1>1. leaseAge' \in Nat /\ leaseAge' <= leaseAge
  <2>1. leaseAge' = leaseAge \/ leaseAge' = 0
    BY DEF Start, Progress, BeginAttempt, Restart, ReadMissing, AcquireRead, RenewRead,
      WriteApplied, WriteConflict, AckDelivered, CallbackDone, StopIdle, BeginRelease,
      ReleaseRead, ReleaseSkipped, ReleaseWrite, ReleaseConflict, ReleaseDone, Fault,
      ReadFailed, ReadUnauthorized, WriteFailed, AckLost, RequestStop, ReleaseFailed, Crash,
      Publish
  <2> QED
    BY <2>1, ConfigFacts DEF TypeOK
<1>2. GiveUp(p) => Frame
  BY GiveUpEffect
<1>3. Leave(p) => Frame
  BY LeaveEffect
<1> HIDE DEF Frame
<1>4. CASE \/ ReadFailed(p) \/ WriteConflict(p) \/ WriteFailed(p) \/ AckLost(p)
           \/ StopIdle(p) \/ ReleaseSkipped(p) \/ ReleaseDone(p) \/ Crash(p)
  <2> Frame
    BY <1>2, <1>3, <1>4
       DEF ReadFailed, WriteConflict, WriteFailed, AckLost, StopIdle, ReleaseSkipped,
           ReleaseDone, Crash
  <2> QED
    BY <1>1 DEF Frame
<1>5. CASE ReadMissing(p) \/ ReleaseConflict(p) \/ ReleaseFailed(p)
  <2>1. CASE GiveUp(p) \/ Leave(p)
    BY <1>1, <1>2, <1>3, <2>1 DEF Frame
  <2>2. CASE ~(GiveUp(p) \/ Leave(p))
    BY <1>1, <1>5, <2>2
       DEF ReadMissing, ReleaseConflict, ReleaseFailed, ReleaseAgain, Goto, TypeOK
  <2> QED
    BY <2>1, <2>2
<1>6. CASE Start(p) \/ BeginAttempt(p) \/ Restart(p) \/ RequestStop(p)
  BY <1>1, <1>6 DEF Start, BeginAttempt, Restart, RequestStop, Goto, TypeOK
<1>7. CASE BeginRelease(p) \/ AckDelivered(p) \/ CallbackDone(p)
  BY <1>1, <1>7 DEF BeginRelease, AckDelivered, CallbackDone, Goto, TypeOK
<1>8. CASE WriteApplied(p) \/ ReleaseRead(p) \/ ReleaseWrite(p)
  BY <1>1, <1>8 DEF WriteApplied, ReleaseRead, ReleaseWrite, Goto, TypeOK
<1>9. CASE AcquireRead(p)
  BY <1>1, <1>9 DEF AcquireRead, ToReplace, Goto, TypeOK
<1>10. CASE RenewRead(p)
  BY <1>1, <1>10 DEF RenewRead, ToReplace, Goto, Demote, TypeOK
<1>11. CASE ReadUnauthorized(p)
  BY <1>1, <1>11 DEF ReadUnauthorized, Goto, Demote, TypeOK
<1> QED
  BY <1>4, <1>5, <1>6, <1>7, <1>8, <1>9, <1>10, <1>11 DEF Progress, Fault

LEMMA BoundTick ==
  ASSUME Timed, Tick, NEW q \in Pods, LeaseAgeBound(q)
  PROVE  LeaseAgeBound(q)'
  BY ConfigFacts
     DEF Tick, Older, Cap, Untimed, Limit, LeaseAgeBound, Timed, TypeOK

LEMMA BoundsStep ==
  ASSUME Timed, [Next]_vars, NEW q \in Pods, LeaseAgeBound(q)
  PROVE  LeaseAgeBound(q)'
<1> USE DEF Timed
<1>1. ASSUME NEW p \in Pods, Start(p) \/ Progress(p) \/ Fault(p)
      PROVE  LeaseAgeBound(q)'
  <2>1. CASE q = p
    BY <1>1, <2>1, BoundStep
  <2>2. CASE q # p
    BY <1>1, <2>2, FrameStep, BoundKept
  <2> QED
    BY <2>1, <2>2
<1>2. ASSUME NEW value \in Pods \cup {Nobody}, LateWrite(value) PROVE LeaseAgeBound(q)'
  BY <1>2, BoundKept, ConfigFacts DEF LateWrite, Publish, TypeOK
<1>3. CASE DeleteLease
  BY <1>3, BoundKept, ConfigFacts DEF DeleteLease, Publish, TypeOK
<1>4. CASE Tick
  BY <1>4, BoundTick
<1>5. CASE UNCHANGED vars
  BY <1>5, BoundKept, ConfigFacts DEF vars, TypeOK
<1> QED
  BY <1>1, <1>2, <1>3, <1>4, <1>5 DEF Next

LEMMA LeadInvStep ==
  ASSUME SafeMargin, "delete" \notin Env, LeadInv, [Next]_vars
  PROVE  LeadInv'
<1>1. StealInv'
  BY StealInvStep DEF LeadInv
<1>2. \A q \in Pods : Owns(q)' => holder' = q
  BY OwnersHold
<1>3. ASSUME NEW q \in Pods PROVE LeaseAgeBound(q)'
  BY BoundsStep DEF LeadInv, StealInv
<1> QED
  BY <1>1, <1>2, <1>3 DEF LeadInv

\* A leader that writes nothing gives up, whatever the settings and whatever
\* fails: no later than two requests after its last wait, which began before the
\* renew deadline.  The deadline itself does not bound it: it is looked at between
\* attempts only, and the timeouts do not add up to it. (_renew_loop)
THEOREM LeadersGiveUp ==
  Spec => [](\A p \in Pods : isLeader[p] /\ pc[p] \in {"wait"} \cup Attempt
                => deadlineAge[p] < RenewDeadline + RetryPeriod + 2 * RequestTime)
<1> DEFINE Bounded == Timed /\ \A p \in Pods : LeaseAgeBound(p)
           Gone == \A p \in Pods : isLeader[p] /\ pc[p] \in {"wait"} \cup Attempt
                      => deadlineAge[p] < RenewDeadline + RetryPeriod + 2 * RequestTime
<1>1. Init => Bounded
  BY TimedInit DEF Init, LeaseAgeBound
<1>2. Bounded /\ [Next]_vars => Bounded'
  BY TimedStep, BoundsStep
<1>3. Bounded => Gone
  BY ConfigFacts DEF Timed, TypeOK, InTime, LeaseAgeBound
<1> QED
  BY <1>1, <1>2, <1>3, PTL DEF Spec

\* With the margin, and while nobody deletes the Lease, a leading pod is the
\* holder written in the Lease.
THEOREM LeadersHold ==
  ASSUME SafeMargin, "delete" \notin Env
  PROVE  Spec => []LeaderHoldsLease
<1>1. LeadInv => LeaderHoldsLease
  BY DEF LeadInv, LeaderHoldsLease, Owns
<1>2. LeadInv /\ [Next]_vars => LeadInv'
  BY LeadInvStep
<1> QED
  BY LeadInvInit, <1>1, <1>2, PTL DEF Spec

\* Hence no two pods lead at once.
THEOREM MutualExclusion ==
  ASSUME SafeMargin, "delete" \notin Env
  PROVE  Spec => []AtMostOneLeader
<1>1. LeaderHoldsLease => AtMostOneLeader
  BY DEF LeaderHoldsLease, AtMostOneLeader
<1> QED
  BY <1>1, LeadersHold, PTL

\* Settings with which the code's own timeouts keep the margin: with them, nothing
\* is asked of the API server.  (The shipped 8/5/1 and 15/10/2 are not among them:
\* they need an API server that answers in a fraction of the time a call is given.)
THEOREM TimeoutsSuffice ==
  ASSUME CallbackTime + RenewDeadline + RetryPeriod
            + 4 * (IF "unauthorized" \in Env THEN 2 ELSE 1) * RequestTimeout <= LeaseDuration,
         "delete" \notin Env
  PROVE  Spec => []AtMostOneLeader
<1>1. RequestTimeout \in Nat
  BY ConfigAssumption DEF RequestTimeout
<1>2. SafeMargin
  BY <1>1, ConfigFacts DEF SafeMargin, RequestTime
<1> QED
  BY <1>2, MutualExclusion

\* No release, on time or late, takes the Lease from a pod that leads: its own
\* kind of write only ever empties a record of the pod that sent it.  This
\* needs neither the margin nor the Lease to stay in place.
THEOREM ReleasesAreSafe == Spec => ReleaseNeverUnseatsLeader
<1>1. ASSUME StealInv, [Next]_vars, holder' = Nobody, holder \in Pods
      PROVE  ~Leading(holder)
  <2> USE <1>1, ConfigFacts DEF StealInv
  <2>1. CASE \E p \in Pods : WriteApplied(p)
    BY <2>1 DEF WriteApplied, Publish
  <2>2. CASE \E p \in Pods : ReleaseWrite(p)
    BY <2>2 DEF ReleaseWrite, WriteSound, Leading
  <2>3. CASE \E value \in Pods \cup {Nobody} : LateWrite(value)
    BY <2>3 DEF LateWrite, Publish, LateSound, Owns
  <2>4. CASE DeleteLease
    BY <2>4 DEF DeleteLease, Publish
  <2> QED
    BY <2>1, <2>2, <2>3, <2>4, HolderStep
<1>2. StealInv /\ [Next]_vars
        => [(holder' = Nobody /\ holder \in Pods) => ~Leading(holder)]_vars
  BY <1>1
<1> QED
  BY StealInvInit, StealInvStep, <1>2, PTL DEF Spec, ReleaseNeverUnseatsLeader

----------------------------------------------------------------------------
(* Where the configuration comes from.                                     *)

\* Settings that load never crash the start later, when the election is built
\* from them ("crashing the exporter during startup instead of failing fast"),
\* and within the ranges nothing is refused that the election would take: the two
\* checks agree, but for a lock name set to nothing.  (_load_leader_election_settings)
THEOREM LoadedSettingsConstruct ==
  ASSUME NEW env \in Timing!Environments, env.lockName # "empty"
  PROVE  Timing!Loads(env)
           <=> (\A d \in Timing!Durations : Timing!Readable(env.durations[d], d))
               /\ Timing!Constructs(env)
<1>1. ASSUME \A d \in Timing!Durations : Timing!Readable(env.durations[d], d)
      PROVE  Timing!GetInt(env, "lease") >= 5 /\ Timing!GetInt(env, "retry") >= 1
  <2>1. \A d \in Timing!Durations : Timing!GetInt(env, d) \in Timing!Minimum[d] .. Timing!Maximum[d]
    <3> SUFFICES ASSUME NEW d \in Timing!Durations
                 PROVE  Timing!GetInt(env, d) \in Timing!Minimum[d] .. Timing!Maximum[d]
      OBVIOUS
    <3>1. Timing!Default[d] \in Timing!Minimum[d] .. Timing!Maximum[d]
      BY DEF Timing!Durations, Timing!Default, Timing!Minimum, Timing!Maximum
    <3> QED
      BY <1>1, <3>1 DEF Timing!Readable, Timing!GetInt
  <2> QED
    BY <2>1 DEF Timing!Durations, Timing!Minimum, Timing!Maximum
<1>2. CASE \A d \in Timing!Durations : Timing!Readable(env.durations[d], d)
  BY <1>1, <1>2 DEF Timing!Loads, Timing!Constructs, Timing!ValidTiming
<1>3. CASE ~(\A d \in Timing!Durations : Timing!Readable(env.durations[d], d))
  BY <1>3 DEF Timing!Loads
<1> QED
  BY <1>2, <1>3

----------------------------------------------------------------------------
(* The lock of LeaderSpec, and the handoff.                                 *)

Leaders == {p \in Pods : Leading(p)}

LEMMA LeadersAreHolders == LeadInv => \A p \in Leaders : holder = p
  BY DEF LeadInv, Owns, Leaders

LEMMA LockInit == Init => Leader!Init
  BY DEF Init, Leading, Leader!Init

\* The steps that write the Lease change no pod's leadership.
LEMMA WritersDoNotMove ==
  ASSUME TypeOK, [Next]_vars, holder' # holder
  PROVE  Leaders' = Leaders
<1> USE DEF Leaders, Leading, TypeOK
<1>1. ASSUME NEW p \in Pods, WriteApplied(p) PROVE Leaders' = Leaders
  <2>1. isLeader' = isLeader /\ pc[p] \notin Releasing /\ pc' = [pc EXCEPT ![p] = "ack"]
    BY <1>1 DEF WriteApplied
  <2> QED
    BY <2>1
<1>2. ASSUME NEW p \in Pods, ReleaseWrite(p) PROVE Leaders' = Leaders
  <2>1. isLeader' = isLeader /\ pc[p] \in Releasing /\ pc' = [pc EXCEPT ![p] = "relAck"]
    BY <1>2 DEF ReleaseWrite
  <2> QED
    BY <2>1
<1>3. CASE (\E value \in Pods \cup {Nobody} : LateWrite(value)) \/ DeleteLease
  BY <1>3 DEF LateWrite, DeleteLease
<1> QED
  BY <1>1, <1>2, <1>3, HolderStep

\* A step moves at most one pod.
LEMMA OnePodMoves ==
  ASSUME TypeOK, [Next]_vars
  PROVE  \/ Leaders' = Leaders
         \/ \E p \in Pods : \A q \in Pods \ {p} : q \in Leaders' <=> q \in Leaders
<1> USE DEF Leaders, Leading
<1>1. ASSUME NEW p \in Pods, Start(p) \/ Progress(p) \/ Fault(p)
      PROVE  \A q \in Pods \ {p} : q \in Leaders' <=> q \in Leaders
  BY <1>1, FrameStep
<1>2. CASE (\E value \in Pods \cup {Nobody} : LateWrite(value)) \/ DeleteLease \/ Tick
           \/ UNCHANGED vars
  BY <1>2 DEF LateWrite, DeleteLease, Tick, vars
<1> QED
  BY <1>1, <1>2 DEF Next

LEMMA LockStep ==
  ASSUME SafeMargin, "delete" \notin Env, LeadInv, [Next]_vars
  PROVE  [Leader!Next]_<<holder, Leaders>>
<1> USE ConfigFacts
<1>1. LeadInv' /\ TypeOK
  BY LeadInvStep DEF LeadInv, StealInv, Timed
<1>2. \A p \in Leaders : holder = p
  BY LeadersAreHolders
<1>3. \A p \in Leaders' : holder' = p
  BY <1>1, LeadersAreHolders DEF LeadInv, Owns, Leaders
<1>4. CASE holder' # holder
  <2>1. Leaders' = Leaders
    BY <1>1, <1>4, WritersDoNotMove
  <2>2. Leaders = {}
    BY <1>2, <1>3, <1>4, <2>1
  <2>3. holder' \in Pods \cup {Nobody}
    BY <1>4, HolderStep DEF WriteApplied, ReleaseWrite, LateWrite, DeleteLease, Publish
  <2>4. CASE holder' = Nobody
    BY <2>1, <2>2, <2>4 DEF Leader!Next, Leader!Free, Leaders
  <2>5. CASE holder' \in Pods
    BY <2>1, <2>2, <2>5 DEF Leader!Next, Leader!Grant, Leaders
  <2> QED
    BY <2>3, <2>4, <2>5
<1>5. CASE holder' = holder
  <2>1. CASE Leaders' = Leaders
    BY <1>5, <2>1
  <2>2. CASE Leaders' # Leaders
    <3>1. PICK p \in Pods : \A q \in Pods \ {p} : q \in Leaders' <=> q \in Leaders
      BY <1>1, <2>2, OnePodMoves
    <3>2. Leaders \subseteq Pods /\ Leaders' \subseteq Pods
      BY DEF Leaders
    <3>3. CASE p \in Leaders
      <4>1. p \notin Leaders'
        BY <2>2, <3>1, <3>2, <3>3
      <4>2. Leaders' = Leaders \ {p}
        BY <3>1, <3>2, <4>1
      <4> QED
        BY <1>5, <3>3, <4>2 DEF Leader!Next, Leader!Yield, Leaders
    <3>4. CASE p \notin Leaders
      <4>1. p \in Leaders'
        BY <2>2, <3>1, <3>2, <3>4
      <4>2. holder = p /\ Leaders = {}
        BY <1>2, <1>3, <1>5, <3>1, <3>2, <3>4, <4>1
      <4>3. Leaders' = {p}
        BY <3>1, <3>2, <4>1, <4>2
      <4> QED
        BY <1>5, <4>2, <4>3 DEF Leader!Next, Leader!Lead, Leaders
    <3> QED
      BY <3>3, <3>4
  <2> QED
    BY <2>1, <2>2
<1> QED
  BY <1>4, <1>5

\* The election implements the lock: with the margin, and while nobody deletes
\* the Lease, it changes hands only while nobody leads.
THEOREM Implementation ==
  ASSUME SafeMargin, "delete" \notin Env
  PROVE  Spec => ImplementsLock
<1>1. LeadInv /\ [Next]_vars => LeadInv'
  BY LeadInvStep
<1>2. LeadInv /\ [Next]_vars => [Leader!Next]_<<holder, {p \in Pods : Leading(p)}>>
  BY LockStep DEF Leaders
<1> QED
  BY LeadInvInit, LockInit, <1>1, <1>2, PTL DEF Spec, ImplementsLock, Leader!Spec
----------------------------------------------------------------------------
(* Handoff: a candidate whose attempt fails on a released Lease was overtaken  *)
(* by a write made after its last call began.                                *)

\* A conflict, or the reply to a write, tells of a write since this call began.
Overtaken(p) ==
    \/ pc[p] = "ack"
    \/ pc[p] = "create" /\ holder # Missing
    \/ pc[p] = "replace" /\ ~current[p]

Recent(p) == Overtaken(p) => leaseAge <= timer[p]

HandoffInv == Timed /\ \A p \in Pods : Recent(p)

LEMMA HandoffInit == Init => HandoffInv
  BY TimedInit DEF Init, HandoffInv, Recent, Overtaken

\* A step that commits no write lets the mover meet no later write.
LEMMA MoverIsRecent ==
  ASSUME Timed, NEW p \in Pods, Recent(p), Start(p) \/ Progress(p) \/ Fault(p),
         ~WriteApplied(p), ~ReleaseWrite(p)
  PROVE  Recent(p)'
<1> USE DEF Timed, TypeOK
<1>1. leaseAge' = leaseAge /\ holder' = holder
  BY DEF Start, Progress, BeginAttempt, Restart, ReadMissing, AcquireRead, RenewRead,
      WriteConflict, AckDelivered, CallbackDone, StopIdle, BeginRelease, ReleaseRead,
      ReleaseSkipped, ReleaseConflict, ReleaseDone, Fault, ReadFailed, ReadUnauthorized,
      WriteFailed, AckLost, RequestStop, ReleaseFailed, Crash
<1>2. CASE GiveUp(p) \/ Leave(p)
  BY <1>2, GiveUpEffect, LeaveEffect DEF Recent, Overtaken
<1>3. CASE ~GiveUp(p) /\ ~Leave(p)
  <2>1. \/ Start(p) \/ BeginAttempt(p) \/ Restart(p) \/ BeginRelease(p)
        \/ RequestStop(p) \/ AckDelivered(p) \/ CallbackDone(p) \/ ReleaseRead(p)
        \/ ReadMissing(p) \/ AcquireRead(p) \/ RenewRead(p) \/ ReadUnauthorized(p)
        \/ ReleaseConflict(p) \/ ReleaseFailed(p)
    BY <1>3 DEF Progress, Fault, ReadFailed, WriteConflict, WriteFailed, AckLost,
       StopIdle, ReleaseSkipped, ReleaseDone, Crash
  <2>2. CASE Start(p) \/ BeginAttempt(p) \/ Restart(p) \/ BeginRelease(p)
    BY <2>2 DEF Start, BeginAttempt, Restart, BeginRelease, Goto, Recent, Overtaken
  <2>3. CASE RequestStop(p) \/ ReleaseRead(p)
    BY <1>1, <2>3 DEF RequestStop, ReleaseRead, Goto, Recent, Overtaken
  <2>4. CASE AckDelivered(p) \/ CallbackDone(p)
    BY <2>4 DEF AckDelivered, CallbackDone, Goto, Recent, Overtaken
  <2>5. CASE ReadMissing(p)
    BY <1>1, <1>3, <2>5 DEF ReadMissing, Goto, Recent, Overtaken
  <2>6. CASE AcquireRead(p)
    BY <2>6 DEF AcquireRead, Observe, ToReplace, Goto, Recent, Overtaken
  <2>7. CASE RenewRead(p)
    BY <2>7 DEF RenewRead, Observe, ToReplace, Goto, Recent, Overtaken
  <2>8. CASE ReadUnauthorized(p)
    BY <2>8 DEF ReadUnauthorized, Goto, Recent, Overtaken
  <2>9. CASE ReleaseConflict(p) \/ ReleaseFailed(p)
    BY <1>3, <2>9 DEF ReleaseConflict, ReleaseFailed, ReleaseAgain, Goto, Recent, Overtaken
  <2> QED
    BY <2>1, <2>2, <2>3, <2>4, <2>5, <2>6, <2>7, <2>8, <2>9
<1> QED
  BY <1>2, <1>3

\* Nor the pods that do not move.
LEMMA OthersCurrent ==
  ASSUME Timed, NEW p \in Pods, Start(p) \/ Progress(p) \/ Fault(p),
         ~WriteApplied(p), ~ReleaseWrite(p), NEW q \in Pods, q # p
  PROVE  current'[q] = current[q] /\ holder' = holder /\ leaseAge' = leaseAge
<1> USE DEF Timed, TypeOK
<1>1. Leave(p) => current'[q] = current[q]
  BY LeaveEffect
<1> QED
  BY <1>1
     DEF Start, Progress, BeginAttempt, Restart, ReadMissing, AcquireRead, RenewRead, Observe,
      WriteConflict, AckDelivered, CallbackDone, StopIdle, BeginRelease, ReleaseRead,
      ReleaseSkipped, ReleaseConflict, ReleaseDone, Fault, ReadFailed, ReadUnauthorized,
      WriteFailed, AckLost, RequestStop, ReleaseFailed, ReleaseAgain, Crash

LEMMA HandoffStep == HandoffInv /\ [Next]_vars => HandoffInv'
<1> SUFFICES ASSUME HandoffInv, [Next]_vars PROVE HandoffInv'
  OBVIOUS
<1> USE DEF HandoffInv
<1>1. Timed'
  BY TimedStep
<1>2. ASSUME leaseAge' = 0 PROVE HandoffInv'
  BY <1>1, <1>2 DEF Recent, Timed, TypeOK
<1>3. ASSUME NEW p \in Pods, Start(p) \/ Progress(p) \/ Fault(p), leaseAge' # 0,
             NEW q \in Pods
      PROVE  Recent(q)'
  <2>1. ~WriteApplied(p) /\ ~ReleaseWrite(p)
    BY <1>3 DEF WriteApplied, ReleaseWrite, Publish
  <2>2. CASE q = p
    BY <1>3, <2>1, <2>2, MoverIsRecent
  <2>3. CASE q # p
    BY <1>3, <2>1, <2>3, FrameStep, OthersCurrent DEF Recent, Overtaken, Timed
  <2> QED
    BY <2>2, <2>3
<1>4. CASE (\E value \in Pods \cup {Nobody} : LateWrite(value)) \/ DeleteLease
  BY <1>2, <1>4 DEF LateWrite, DeleteLease, Publish
<1>5. ASSUME Tick, NEW q \in Pods PROVE Recent(q)'
  BY <1>5, ConfigFacts DEF Tick, Older, Untimed, Recent, Overtaken, Timed, TypeOK
<1>6. CASE UNCHANGED vars
  BY <1>1, <1>6 DEF vars, Recent, Overtaken
<1> QED
  BY <1>1, <1>2, <1>3, <1>4, <1>5, <1>6 DEF Next

\* Whatever the timing and the disturbances: no attempt gives a released Lease
\* up unless a call failed or a write overtook its last call.
THEOREM HandoffIsPrompt == Spec => ReleasedLeaseIsTaken
<1> DEFINE Taken(p) == (pc[p] \in Attempt /\ pc'[p] = "wait" /\ holder = Nobody /\ holder' = Nobody)
                           => timer[p] >= leaseAge \/ Fault(p)
<1>1. ASSUME HandoffInv, [Next]_vars, NEW p \in Pods PROVE Taken(p)
  <2> SUFFICES ASSUME pc[p] \in Attempt, pc'[p] = "wait", holder = Nobody, ~Fault(p)
               PROVE  timer[p] >= leaseAge
    OBVIOUS
  <2> USE DEF HandoffInv, Timed, TypeOK
  <2>1. pc'[p] # pc[p]
    OBVIOUS
  <2>2. Start(p) \/ Progress(p)
    BY <1>1, <2>1, FrameStep DEF Next, LateWrite, DeleteLease, Tick, vars
  <2>3. ReadMissing(p) \/ AcquireRead(p) \/ RenewRead(p) \/ WriteApplied(p)
        \/ WriteConflict(p) \/ AckDelivered(p)
    BY <2>2 DEF Start, Progress, BeginAttempt, Restart, CallbackDone, StopIdle, BeginRelease,
       ReleaseRead, ReleaseSkipped, ReleaseWrite, ReleaseConflict, ReleaseDone
  <2>4. ~ReadMissing(p)
    BY ConfigFacts DEF ReadMissing
  <2>5. ~HeldByOther(p)
    BY ConfigFacts DEF HeldByOther
  <2>6. ~AcquireRead(p) /\ ~RenewRead(p)
    BY <1>1, <2>5 DEF AcquireRead, RenewRead, ToReplace, Goto
  <2>7. ~WriteApplied(p)
    BY <1>1 DEF WriteApplied
  <2>8. Overtaken(p)
    BY <2>3, <2>4, <2>6, <2>7 DEF WriteConflict, AckDelivered, Overtaken
  <2> QED
    BY <1>1, <2>8, ConfigFacts DEF Recent
<1>2. HandoffInv /\ [Next]_vars => [\A p \in Pods : Taken(p)]_vars
  BY <1>1
<1> HIDE DEF Taken
<1>3. [][\A p \in Pods : Taken(p)]_vars => ReleasedLeaseIsTaken
  BY PTL DEF ReleasedLeaseIsTaken, Taken
<1> QED
  BY HandoffInit, HandoffStep, <1>2, <1>3, PTL DEF Spec
============================================================================
