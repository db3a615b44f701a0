--------------------------- MODULE LeaseElection ---------------------------
(***************************************************************************)
(* The Lease election of leader_election.py: every pod runs one election   *)
(* thread (_LeaseElection.run under LeaderElectionRunner.run_forever)       *)
(* against one coordination.k8s.io Lease object.                           *)
(*                                                                         *)
(* Time is discrete and relative: no variable holds an absolute instant.   *)
(* Tick lets one unit pass for everybody; every clock of the model is an    *)
(* age.  The API server is linearizable, so a read and the reply that       *)
(* carries it are one step; a write commits in one step and is acknowledged *)
(* in a later one, or never.                                               *)
(***************************************************************************)
EXTENDS Integers, FiniteSets

CONSTANTS
    Pods,           \* candidate identities (pod names)
    Missing,        \* the Lease object does not exist
    Nobody,         \* the Lease exists with an empty holderIdentity
    LeaseDuration,  \* lease_duration_seconds
    RenewDeadline,  \* renew_deadline_seconds
    RetryPeriod,    \* retry_period_seconds
    CallTime,       \* the longest one call to the API server takes
    CallbackTime,   \* the longest on_started_leading can take
    Env             \* the disturbances this instance admits

Disturbances == {"crash", "stop", "error", "unauthorized", "late", "delete"}

Timing == INSTANCE Settings

\* LeaderElectionConfig.__post_init__
ValidConfig == Timing!ValidTiming(LeaseDuration, RenewDeadline, RetryPeriod)

\* _api_request_timeout gives every call max(1, renew_deadline_seconds / 2) to
\* connect and as much to read: the whole renew deadline, or 2 s.
RequestTimeout == IF RenewDeadline > 2 THEN RenewDeadline ELSE 2

ASSUME ConfigAssumption ==
    /\ LeaseDuration \in Nat /\ RenewDeadline \in Nat /\ RetryPeriod \in Nat
    /\ ValidConfig
    /\ CallTime \in 0 .. RequestTimeout /\ CallbackTime \in Nat
    /\ Env \subseteq Disturbances
    /\ Missing \notin Pods /\ Nobody \notin Pods /\ Missing # Nobody

\* How long a read, a create or a replace may take: _read_lease, _create_lease
\* and _replace_lease call once more, with the same timeout, after a 401.
RequestTime == IF "unauthorized" \in Env THEN 2 * CallTime ELSE CallTime

\* The margin under which two pods never lead at once.  A leader's last write may
\* be acknowledged one request late, its next attempt begins before the renew
\* deadline and a retry period have passed and takes two requests; and a
\* candidate measures a lease as up to one request older than it is.
SafeMargin ==
    CallbackTime + RenewDeadline + RetryPeriod + 4 * RequestTime <= LeaseDuration

VARIABLES
    holder,       \* spec.holderIdentity of the Lease, Nobody or Missing
    leaseAge,     \* time since the last committed write of the Lease
    pc,           \* where each election thread stands
    isLeader,     \* _is_leader
    stopping,     \* _stop_event
    timer,        \* time since the wait, the request or the callback began
    current,      \* the last record this pod saw is still the Lease's record
    obsAge,       \* time since _observed_time_monotonic, while current
    deadlineAge,  \* time since the renew (or release) deadline was last set
    late          \* what writes given up by their client would still commit

vars == <<holder, leaseAge, pc, isLeader, stopping, timer, current, obsAge,
          deadlineAge, late>>

\* "wait" is _stop_event.wait(retry); "read", "create", "replace" and "ack" are
\* the calls of one attempt ("ack": committed, reply on its way); "promote" is
\* on_started_leading; "backoff" is the supervisor's wait; "rel*" is release().
Attempt    == {"read", "create", "replace", "ack"}
Releasing  == {"relRead", "relWrite", "relAck"}
Phases     == {"down", "wait", "promote", "backoff"} \cup Attempt \cup Releasing

\* Ages saturate: that of the Lease at LeaseDuration, and what a pod measures at
\* Cap, for _observed_lease_valid compares ages up to LeaseDuration as of the
\* start of an attempt, at most the time of its read ago.
Cap == LeaseDuration + RequestTime
OlderUncapped(age) == age + 1   \* mutant: no saturation
Older(age) == IF age < Cap THEN age + 1 ELSE Cap

TypeOK ==
    /\ holder \in Pods \cup {Nobody, Missing}
    /\ leaseAge \in 0..LeaseDuration
    /\ pc \in [Pods -> Phases]
    /\ isLeader \in [Pods -> BOOLEAN]
    /\ stopping \in [Pods -> BOOLEAN]
    /\ timer \in [Pods -> Nat]
    /\ current \in [Pods -> BOOLEAN]
    /\ obsAge \in [Pods -> 0..Cap]
    /\ deadlineAge \in [Pods -> Nat]
    /\ late \in SUBSET (Pods \cup {Nobody})

Init ==
    /\ holder = Missing
    /\ leaseAge = 0
    /\ pc = [p \in Pods |-> "down"]
    /\ isLeader = [p \in Pods |-> FALSE]
    /\ stopping = [p \in Pods |-> FALSE]
    /\ timer = [p \in Pods |-> 0]
    /\ current = [p \in Pods |-> FALSE]
    /\ obsAge = [p \in Pods |-> 0]
    /\ deadlineAge = [p \in Pods |-> 0]
    /\ late = {}

----------------------------------------------------------------------------
(* Steps shared by several handlers.                                       *)

\* The server commits a write: a new record with a new resourceVersion, which
\* only its writer (a set of at most one pod) has seen, and which every other
\* write in flight now conflicts with.
Publish(value, writer) ==
    /\ holder' = value
    /\ leaseAge' = 0
    /\ late' = {}
    /\ current' = [q \in Pods |-> q \in writer]
    /\ obsAge' = [q \in Pods |-> 0]

LeaseUnchanged == UNCHANGED <<holder, leaseAge, late>>
ObservationUnchanged == UNCHANGED <<current, obsAge>>

Goto(p, phase) ==
    /\ pc' = [pc EXCEPT ![p] = phase]
    /\ timer' = [timer EXCEPT ![p] = 0]

\* _stop_leading, notified or not.
Demote(p) ==
    /\ isLeader' = [isLeader EXCEPT ![p] = FALSE]
    /\ deadlineAge' = [deadlineAge EXCEPT ![p] = 0]

\* A failed attempt: a candidate waits for its next one; a leader does too, or
\* steps down when the renew deadline has passed (_renew_loop).
GiveUp(p) ==
    /\ Goto(p, "wait")
    /\ IF deadlineAge[p] >= RenewDeadline
          THEN Demote(p)
          ELSE UNCHANGED <<isLeader, deadlineAge>>
    /\ UNCHANGED stopping

----------------------------------------------------------------------------
(* The election thread: attempts to acquire and to renew.                  *)

\* The container starts and run_forever makes its first election.
Start(p) ==
    /\ pc[p] = "down"
    /\ Goto(p, "read")
    /\ LeaseUnchanged /\ ObservationUnchanged
    /\ UNCHANGED <<isLeader, stopping, deadlineAge>>

BeginAttempt(p) ==
    /\ pc[p] = "wait" /\ ~stopping[p] /\ timer[p] = RetryPeriod
    /\ Goto(p, "read")
    /\ LeaseUnchanged /\ ObservationUnchanged
    /\ UNCHANGED <<isLeader, stopping, deadlineAge>>

\* 404: a candidate creates the Lease, a leader counts a transient failure.
ReadMissing(p) ==
    /\ pc[p] = "read" /\ holder = Missing
    /\ IF isLeader[p]
          THEN GiveUp(p)
          ELSE /\ Goto(p, "create")
               /\ UNCHANGED <<isLeader, stopping, deadlineAge>>
    /\ LeaseUnchanged /\ ObservationUnchanged

\* Mutants: a new record keeps the date of no observation; every read dates the
\* record anew.
ObservedAgeUndated(p) == IF current[p] THEN obsAge[p] ELSE LeaseDuration + timer[p]
ObservedAgeRedated(p) == timer[p]

\* _observe_lease: a record not seen before is dated to the attempt's start.
ObservedAge(p) == IF current[p] THEN obsAge[p] ELSE timer[p]

\* not _observed_lease_valid: the age is taken at the start of the attempt.
ObservedExpired(p) == ObservedAge(p) >= LeaseDuration + timer[p]

Observe(p) ==
    /\ current' = [current EXCEPT ![p] = TRUE]
    /\ obsAge' = [obsAge EXCEPT ![p] = ObservedAge(p)]

ToReplace(p) ==
    /\ Goto(p, "replace")
    /\ UNCHANGED <<isLeader, stopping, deadlineAge>>

\* Mutant: an empty holder counts as a holder.
HeldByAnyone(p) == holder \in (Pods \cup {Nobody}) \ {p}

HeldByOther(p) == holder \in Pods \ {p}

\* _try_acquire_once: wait while another holder's lease is valid, else replace.
AcquireRead(p) ==
    /\ pc[p] = "read" /\ ~isLeader[p] /\ holder # Missing
    /\ Observe(p)
    /\ IF HeldByOther(p) /\ ~ObservedExpired(p)
          THEN /\ Goto(p, "wait")
               /\ UNCHANGED <<isLeader, stopping, deadlineAge>>
          ELSE ToReplace(p)
    /\ LeaseUnchanged

\* _renew_once: another holder means leadership is lost, else replace.
RenewRead(p) ==
    /\ pc[p] = "read" /\ isLeader[p] /\ holder # Missing
    /\ Observe(p)
    /\ IF HeldByOther(p)
          THEN /\ Goto(p, "wait") /\ Demote(p) /\ UNCHANGED stopping
          ELSE ToReplace(p)
    /\ LeaseUnchanged

\* A read that fails with anything but 404 and 401.
ReadFailed(p) ==
    /\ "error" \in Env
    /\ pc[p] = "read"
    /\ GiveUp(p)
    /\ LeaseUnchanged /\ ObservationUnchanged

\* 401 again after the credentials were reloaded: the exception leaves run(),
\* whose finally clause steps down, or releases if a stop was requested, and
\* the supervisor backs off.
ReadUnauthorized(p) ==
    /\ "unauthorized" \in Env
    /\ pc[p] = "read"
    /\ IF stopping[p] /\ isLeader[p]
          THEN /\ Goto(p, "relRead")
               /\ deadlineAge' = [deadlineAge EXCEPT ![p] = 0]
               /\ UNCHANGED isLeader
          ELSE Goto(p, "backoff") /\ Demote(p)
    /\ current' = [current EXCEPT ![p] = FALSE]
    /\ LeaseUnchanged /\ UNCHANGED <<stopping, obsAge>>

\* The supervisor's backoff ends: a new election with nothing observed.
Restart(p) ==
    /\ pc[p] = "backoff" /\ ~stopping[p]
    /\ Goto(p, "read")
    /\ LeaseUnchanged /\ ObservationUnchanged
    /\ UNCHANGED <<isLeader, stopping, deadlineAge>>

\* The server accepts the write: create needs the Lease missing, replace needs
\* the resourceVersion that was read.
WriteApplied(p) ==
    /\ \/ pc[p] = "create" /\ holder = Missing
       \/ pc[p] = "replace" /\ current[p]
    /\ Publish(p, {p})
    /\ pc' = [pc EXCEPT ![p] = "ack"]
    /\ UNCHANGED <<timer, isLeader, stopping, deadlineAge>>

\* 409 (or 404 for a deleted Lease): _create_lease and _replace_lease say False.
WriteConflict(p) ==
    /\ \/ pc[p] = "create" /\ holder # Missing
       \/ pc[p] = "replace" /\ ~current[p]
    /\ GiveUp(p)
    /\ LeaseUnchanged /\ ObservationUnchanged

\* The write fails without being committed.  When the client only timed out,
\* the request may still be on its way.
Abandon(value) ==
    \/ UNCHANGED late
    \/ "late" \in Env /\ late' = late \cup {value}

WriteFailed(p) ==
    /\ "error" \in Env
    /\ \/ pc[p] = "create" /\ holder = Missing
       \/ pc[p] = "replace" /\ current[p]
    /\ Abandon(p)
    /\ GiveUp(p)
    /\ ObservationUnchanged /\ UNCHANGED <<holder, leaseAge>>

\* The reply arrives and is observed.  A leader has renewed; a candidate is
\* elected and runs on_started_leading before it renews for the first time.
AckDelivered(p) ==
    /\ pc[p] = "ack"
    /\ obsAge' = [obsAge EXCEPT ![p] = 0]
    /\ deadlineAge' = [deadlineAge EXCEPT ![p] = 0]
    /\ isLeader' = [isLeader EXCEPT ![p] = TRUE]
    /\ Goto(p, IF isLeader[p] THEN "wait" ELSE "promote")
    /\ LeaseUnchanged /\ UNCHANGED <<stopping, current>>

\* The write was committed but the client sees an error.
AckLost(p) ==
    /\ "error" \in Env
    /\ pc[p] = "ack"
    /\ GiveUp(p)
    /\ current' = [current EXCEPT ![p] = FALSE]
    /\ LeaseUnchanged /\ UNCHANGED obsAge

\* on_started_leading returns; _renew_loop sets its deadline and renews at once,
\* or returns because a stop was requested.
CallbackDone(p) ==
    /\ pc[p] = "promote"
    /\ Goto(p, IF stopping[p] THEN "wait" ELSE "read")
    /\ deadlineAge' = [deadlineAge EXCEPT ![p] = 0]
    /\ LeaseUnchanged /\ ObservationUnchanged /\ UNCHANGED <<isLeader, stopping>>

----------------------------------------------------------------------------
(* Stopping: run() leaves its loop and releases the Lease if it leads.     *)

\* The election thread is over, and with the process all it knew: _stop_leading
\* and the end of run(), or a crash.
Leave(p) ==
    /\ Goto(p, "down")
    /\ Demote(p)
    /\ stopping' = [stopping EXCEPT ![p] = FALSE]
    /\ current' = [current EXCEPT ![p] = FALSE]
    /\ UNCHANGED obsAge

RequestStop(p) ==
    /\ "stop" \in Env
    /\ pc[p] \notin Releasing \cup {"down"} /\ ~stopping[p]
    /\ stopping' = [stopping EXCEPT ![p] = TRUE]
    /\ LeaseUnchanged /\ ObservationUnchanged
    /\ UNCHANGED <<pc, isLeader, timer, deadlineAge>>

StopIdle(p) ==
    /\ pc[p] \in {"wait", "backoff"} /\ stopping[p] /\ ~isLeader[p]
    /\ Leave(p)
    /\ LeaseUnchanged

BeginRelease(p) ==
    /\ pc[p] = "wait" /\ stopping[p] /\ isLeader[p]
    /\ Goto(p, "relRead")
    /\ deadlineAge' = [deadlineAge EXCEPT ![p] = 0]
    /\ LeaseUnchanged /\ ObservationUnchanged /\ UNCHANGED <<isLeader, stopping>>

\* Mutant: release without looking at who holds the Lease.
ReleaseReadAnyHolder(p) ==
    /\ pc[p] = "relRead" /\ holder # Missing
    /\ Goto(p, "relWrite")
    /\ Observe(p)
    /\ LeaseUnchanged /\ UNCHANGED <<isLeader, stopping, deadlineAge>>

\* The Lease is still ours: release it.  (This read is not observed, but a
\* stopping pod measures no lease again.)
ReleaseRead(p) ==
    /\ pc[p] = "relRead" /\ holder = p
    /\ Goto(p, "relWrite")
    /\ Observe(p)
    /\ LeaseUnchanged /\ UNCHANGED <<isLeader, stopping, deadlineAge>>

\* The Lease is not ours, missing or unreadable: leave it alone.
ReleaseSkipped(p) ==
    /\ pc[p] = "relRead" /\ (holder # p \/ "error" \in Env)
    /\ Leave(p)
    /\ LeaseUnchanged

\* Mutant: release without the resourceVersion that was read.
ReleaseWriteBlind(p) ==
    /\ pc[p] = "relWrite"
    /\ Publish(Nobody, {p})
    /\ pc' = [pc EXCEPT ![p] = "relAck"]
    /\ UNCHANGED <<isLeader, stopping, timer, deadlineAge>>

ReleaseWrite(p) ==
    /\ pc[p] = "relWrite" /\ current[p]
    /\ Publish(Nobody, {p})
    /\ pc' = [pc EXCEPT ![p] = "relAck"]
    /\ UNCHANGED <<isLeader, stopping, timer, deadlineAge>>

\* A failed write is tried again, from the read, until the release deadline.
ReleaseAgain(p) ==
    IF deadlineAge[p] >= RenewDeadline
       THEN Leave(p)
       ELSE /\ Goto(p, "relRead")
            /\ ObservationUnchanged /\ UNCHANGED <<isLeader, stopping, deadlineAge>>

ReleaseConflict(p) ==
    /\ pc[p] = "relWrite" /\ ~current[p]
    /\ ReleaseAgain(p)
    /\ LeaseUnchanged

ReleaseFailed(p) ==
    /\ "error" \in Env
    /\ pc[p] = "relWrite" /\ current[p]
    /\ Abandon(Nobody)
    /\ ReleaseAgain(p)
    /\ UNCHANGED <<holder, leaseAge>>

ReleaseDone(p) ==
    /\ pc[p] = "relAck"
    /\ Leave(p)
    /\ LeaseUnchanged

----------------------------------------------------------------------------
(* The environment.                                                        *)

\* The value a write in flight would set, and whether it could still commit.
InFlight(p) ==
    CASE pc[p] = "create" /\ holder = Missing -> {p}
      [] pc[p] = "replace" /\ current[p] -> {p}
      [] pc[p] = "relWrite" /\ current[p] -> {Nobody}
      [] OTHER -> {}

\* SIGKILL or a lost node; a write in flight may still arrive.
Crash(p) ==
    /\ "crash" \in Env
    /\ pc[p] # "down"
    /\ Leave(p)
    /\ late' \in {late, late \cup (IF "late" \in Env THEN InFlight(p) ELSE {})}
    /\ UNCHANGED <<holder, leaseAge>>

LateWrite(value) ==
    /\ value \in late
    /\ Publish(value, {})
    /\ UNCHANGED <<pc, isLeader, stopping, timer, deadlineAge>>

\* Somebody deletes the Lease object.
DeleteLease ==
    /\ "delete" \in Env
    /\ holder # Missing
    /\ Publish(Missing, {})
    /\ UNCHANGED <<pc, isLeader, stopping, timer, deadlineAge>>

\* How long a phase may last.
Limit(p) ==
    CASE pc[p] = "wait" -> RetryPeriod
      [] pc[p] = "promote" -> CallbackTime
      [] OTHER -> RequestTime

Untimed(p) == pc[p] \in {"down", "backoff"}

\* One unit of time passes: no thread overstays its phase.
Tick ==
    /\ \A p \in Pods : Untimed(p) \/ timer[p] < Limit(p)
    /\ leaseAge' = IF leaseAge < LeaseDuration THEN leaseAge + 1 ELSE LeaseDuration
    /\ timer' = [p \in Pods |-> IF Untimed(p) THEN 0 ELSE timer[p] + 1]
    /\ obsAge' = [p \in Pods |-> IF current[p] THEN Older(obsAge[p]) ELSE 0]
    /\ deadlineAge' = [p \in Pods |->
          IF isLeader[p] /\ pc[p] # "promote" THEN deadlineAge[p] + 1 ELSE 0]
    /\ UNCHANGED <<holder, pc, isLeader, stopping, current, late>>

----------------------------------------------------------------------------

\* What the election thread and the API server do when nothing goes wrong.
Progress(p) ==
    \/ BeginAttempt(p) \/ Restart(p)
    \/ ReadMissing(p) \/ AcquireRead(p) \/ RenewRead(p)
    \/ WriteApplied(p) \/ WriteConflict(p) \/ AckDelivered(p) \/ CallbackDone(p)
    \/ StopIdle(p) \/ BeginRelease(p)
    \/ ReleaseRead(p) \/ ReleaseSkipped(p) \/ ReleaseWrite(p) \/ ReleaseConflict(p)
    \/ ReleaseDone(p)

Fault(p) ==
    \/ ReadFailed(p) \/ ReadUnauthorized(p) \/ WriteFailed(p) \/ AckLost(p)
    \/ RequestStop(p) \/ ReleaseFailed(p) \/ Crash(p)

Next ==
    \/ \E p \in Pods : Start(p) \/ Progress(p) \/ Fault(p)
    \/ \E value \in Pods \cup {Nobody} : LateWrite(value)
    \/ DeleteLease
    \/ Tick

Spec == Init /\ [][Next]_vars

\* Threads are scheduled, the server answers, and time passes.  No pod has to
\* start: one that crashed may be gone for good.
FairSpec == Spec /\ WF_vars(Tick) /\ \A p \in Pods : WF_vars(Progress(p))

----------------------------------------------------------------------------
(* What must hold.                                                         *)

\* Elected and not shutting down: between the election and the release, this
\* pod collects from Azure and publishes its series.
Leading(p) == isLeader[p] /\ pc[p] \notin Releasing

\* At most one pod leads ("only one replica must actively collect"): leadership
\* is decided by three clocks in different processes and no fencing, so it
\* rests on _renew_loop giving up before a candidate's _observed_lease_valid
\* does.
AtMostOneLeader ==
    \A p, q \in Pods : Leading(p) /\ Leading(q) => p = q

\* A leading pod is the holder written in the Lease, whatever was delayed, lost
\* or committed late in between: nobody took, released or re-created the Lease
\* while _renew_loop still believed in it.
LeaderHoldsLease == \A p \in Pods : Leading(p) => holder = p

\* The election implements a lock: whatever the clocks, crashes and late writes do,
\* the Lease changes hands only while nobody leads, and who leads was granted it.
Leader == INSTANCE LeaderSpec
            WITH Candidates <- Pods, leaders <- {p \in Pods : Leading(p)}
ImplementsLock == Leader!Spec

\* A holder is replaced by another one only after its lease has been left
\* unwritten for a lease duration, less the time of one request: observation
\* times, CAS conflicts and late writes never let a candidate in sooner.
\* (_try_acquire_once, _observe_lease, _observed_lease_valid)
NoPrematureSteal ==
    [][(holder \in Pods /\ holder' \in Pods /\ holder' # holder)
          => leaseAge >= LeaseDuration - RequestTime]_vars

\* The empty holder a terminating pod writes, on time or late, never erases the
\* lease of a pod that leads: not a successor's, and not its own after a
\* restart under the same name. (_release_lease_best_effort)
ReleaseNeverUnseatsLeader ==
    [][(holder' = Nobody /\ holder \in Pods) => ~Leading(holder)]_vars

\* Graceful handoff takes one retry, not a lease duration: an attempt whose last
\* call began while the lease was released does not go back to waiting with the
\* lease still released, unless a call fails.
ReleasedLeaseIsTaken ==
    [][\A p \in Pods :
          (pc[p] \in Attempt /\ pc'[p] = "wait" /\ holder = Nobody /\ holder' = Nobody)
             => timer[p] >= leaseAge \/ Fault(p)]_vars

\* Once no fault strikes any more, the pods are led again and again, unless
\* every pod is down for good: no leftover of past faults (a late write, a stale
\* observation, a lease nobody will renew) keeps every candidate out for ever.
Undisturbed == ~DeleteLease /\ \A p \in Pods : ~Fault(p)
Recovery ==
    <>[][Undisturbed]_vars
       => \/ []<>(\E p \in Pods : Leading(p))
          \/ <>[](\A p \in Pods : pc[p] = "down")

----------------------------------------------------------------------------
(* The inductive invariant behind NoPrematureSteal and LeaderHoldsLease.   *)

\* Elected, or about to learn it.
Owns(p) == Leading(p) \/ pc[p] = "ack"

InTime(p) ==
    /\ pc[p] \in Attempt \cup Releasing => timer[p] <= RequestTime
    /\ pc[p] = "wait" => timer[p] <= RetryPeriod
    /\ pc[p] = "promote" => timer[p] <= CallbackTime
    /\ pc[p] \in {"down", "backoff"} => ~isLeader[p]

\* A candidate may take a lease for at most one request older than it is.
ObservedInTime(p) ==
    current[p] /\ leaseAge < LeaseDuration => obsAge[p] <= leaseAge + RequestTime

Abandoned == leaseAge >= LeaseDuration - RequestTime

\* A write in flight that would take the Lease from its holder found it
\* abandoned; a release in flight is its holder's own.
WriteSound(p) ==
    /\ pc[p] = "replace" /\ current[p] /\ HeldByOther(p) => Abandoned
    /\ pc[p] = "relWrite" /\ current[p] => holder = p

\* The same of the writes their clients gave up.
LateSound ==
    /\ \A v \in late \cap Pods : HeldByOther(v) => Abandoned
    /\ Nobody \in late /\ holder \in Pods => ~Owns(holder)

\* How old the lease of a leader can be, by what it is doing.
LeaseAgeBound(p) ==
    /\ pc[p] = "ack" => leaseAge <= timer[p]
    /\ pc[p] = "promote" => leaseAge <= RequestTime + timer[p]
    /\ isLeader[p] /\ pc[p] \in {"wait", "read", "create", "replace"}
          => leaseAge <= RequestTime + CallbackTime + deadlineAge[p]
    /\ isLeader[p] /\ pc[p] = "wait" => deadlineAge[p] < RenewDeadline + timer[p]
    /\ isLeader[p] /\ pc[p] = "read" => deadlineAge[p] < RenewDeadline + RetryPeriod + timer[p]
    /\ isLeader[p] /\ pc[p] \in {"create", "replace", "ack"}
          => deadlineAge[p] < RenewDeadline + RetryPeriod + RequestTime + timer[p]

Timed == TypeOK /\ \A p \in Pods : InTime(p)

\* Any disturbance, any timing.
StealInv ==
    /\ Timed
    /\ \A p \in Pods : ObservedInTime(p) /\ WriteSound(p)
    /\ LateSound

\* Under SafeMargin, as long as nobody deletes the Lease.
LeadInv ==
    /\ StealInv
    /\ \A p \in Pods : LeaseAgeBound(p) /\ (Owns(p) => holder = p)
============================================================================
