---------------------------- MODULE PodShutdown ----------------------------
(***************************************************************************)
(* One pod's life and graceful shutdown (main.py, leader_election.py): the  *)
(* election thread, running _LeaseElection.run and its callbacks, and the   *)
(* main thread, which at SIGTERM releases the Lease, drains and stops the   *)
(* exporter.  The two share _stop_event, _is_leader and _api_lock.  A rival *)
(* pod competes for the Lease.  There is no clock: waits end at any moment, *)
(* and a deadline passes whenever the code lets it.                        *)
(***************************************************************************)
EXTENDS Integers

CONSTANTS
    Faults,    \* what may go wrong: "api", "collect", "patch", "steal"
    MaxTries   \* release attempts that fit before the release deadline

ASSUME ShutdownAssumption ==
    /\ Faults \subseteq {"api", "collect", "patch", "steal"}
    /\ MaxTries \in Nat \ {0}

VARIABLES
    lease,     \* who holds the Lease: "self", "rival" or "empty"
    seen,      \* seen[t]: the resourceVersion thread t read is current
    late,      \* what given-up replaces of this pod would still commit
    lock,      \* the holder of _api_lock
    stopSet,   \* _stop_event
    leader,    \* _is_leader
    epc,       \* the election thread
    mpc,       \* the main thread
    tries,     \* tries[t]: failed release attempts of thread t
    event,     \* the exporter's _is_leader_event
    data,      \* the resource gauges hold series
    label,     \* the pod carries the leader label of the Service selector
    excused,   \* history: a suppressed failure may have left a label without data
    overtaken  \* history: the record in the Lease is a late write of this pod

vars == <<lease, seen, late, lock, stopSet, leader, epc, mpc, tries, event, data, label,
          excused, overtaken>>

Election == "election"
Main == "main"
Threads == {Election, Main}

ElectionPhases ==
    {"loop", "acquire", "acquireWrite", "become", "setLeader", "collect", "labelOn",
     "renewLoop", "renew", "renewWrite", "renewWait", "stepDown", "labelOff", "clear",
     "wait", "finally", "release", "releaseWrite", "finStep", "finLabelOff", "finClear",
     "done"}
MainPhases == {"serving", "stopping", "check", "release", "releaseWrite", "quietStep",
               "drain", "exited"}

TypeOK ==
    /\ lease \in {"self", "rival", "empty"}
    /\ seen \in [Threads -> BOOLEAN]
    /\ late \in SUBSET {"self", "empty"}
    /\ lock \in Threads \cup {"free"}
    /\ stopSet \in BOOLEAN /\ leader \in BOOLEAN
    /\ epc \in ElectionPhases /\ mpc \in MainPhases
    /\ tries \in [Threads -> 0..(MaxTries - 1)]
    /\ event \in BOOLEAN /\ data \in BOOLEAN /\ label \in BOOLEAN
    /\ excused \in BOOLEAN /\ overtaken \in BOOLEAN

Init ==
    /\ lease = "empty" /\ seen = [t \in Threads |-> FALSE] /\ late = {} /\ lock = "free"
    /\ stopSet = FALSE /\ leader = FALSE
    /\ epc = "loop" /\ mpc = "serving" /\ tries = [t \in Threads |-> 0]
    /\ event = FALSE /\ data = FALSE /\ label = FALSE
    /\ excused = FALSE /\ overtaken = FALSE

----------------------------------------------------------------------------
(* Lease calls, made by either thread under _api_lock.                     *)

Running == mpc # "exited"     \* the election thread is a daemon thread

ExporterUnchanged == UNCHANGED <<event, data, label, excused>>
RecordUnchanged == UNCHANGED <<lease, late, overtaken>>
LeaseUnchanged == RecordUnchanged /\ UNCHANGED <<seen, lock, tries>>

\* Mutant: no _api_lock.
ReadUnlocked(t) ==
    /\ lock' = t
    /\ seen' = [seen EXCEPT ![t] = TRUE]
    /\ RecordUnchanged /\ UNCHANGED tries

\* with self._api_lock: read the Lease and go on to the write.
ReadHolding(t) ==
    /\ lock = "free"
    /\ lock' = t
    /\ seen' = [seen EXCEPT ![t] = TRUE]
    /\ RecordUnchanged /\ UNCHANGED tries

\* The read decides against a write, or fails: the lock is taken and given back.
ReadOnly == lock = "free" /\ LeaseUnchanged

\* A write commits: the record carries a resourceVersion nobody has read, and
\* every replace still on its way conflicts.
Publish(value, belated) ==
    /\ lease' = value
    /\ seen' = [u \in Threads |-> FALSE]
    /\ late' = {}
    /\ overtaken' = belated

\* The replace succeeds.
Written(t, value) ==
    /\ lock = t /\ seen[t]
    /\ Publish(value, FALSE)
    /\ lock' = "free"
    /\ UNCHANGED tries

\* The replace conflicts.
Conflicts(t) == ~seen[t] /\ RecordUnchanged /\ UNCHANGED seen

\* The replace fails otherwise: it never arrives, it will arrive later, or it was
\* committed and only its reply is lost.
Fails(t, value) ==
    /\ "api" \in Faults /\ seen[t]
    /\ \/ RecordUnchanged /\ UNCHANGED seen
       \/ late' = late \cup {value} /\ UNCHANGED <<lease, seen, overtaken>>
       \/ Publish(value, FALSE)

\* _replace_lease says False, and the lock is given back.
NotWritten(t, value) ==
    /\ lock = t
    /\ lock' = "free"
    /\ Conflicts(t) \/ Fails(t, value)

----------------------------------------------------------------------------
(* The election thread.                                                    *)

EGo(from, to) == Running /\ epc = from /\ epc' = to
ELocal == UNCHANGED <<mpc, stopSet>>

\* while not _stop_event.is_set(), at the top of run()
Loop ==
    /\ EGo("loop", IF stopSet THEN "finally" ELSE "acquire")
    /\ LeaseUnchanged /\ ExporterUnchanged /\ ELocal /\ UNCHANGED leader

\* _try_acquire_once: the rival's lease is valid, or the read fails.
AcquireFails ==
    /\ EGo("acquire", "wait")
    /\ lease = "rival" \/ "api" \in Faults
    /\ ReadOnly /\ ExporterUnchanged /\ ELocal /\ UNCHANGED leader

Acquire ==
    /\ EGo("acquire", "acquireWrite")
    /\ lease # "rival"
    /\ ReadHolding(Election) /\ ExporterUnchanged /\ ELocal /\ UNCHANGED leader

AcquireWrite ==
    /\ \/ EGo("acquireWrite", "become") /\ Written(Election, "self")
       \/ EGo("acquireWrite", "wait") /\ NotWritten(Election, "self") /\ UNCHANGED tries
    /\ ExporterUnchanged /\ ELocal /\ UNCHANGED leader

BecomeLeader ==
    /\ EGo("become", "setLeader")
    /\ leader' = TRUE
    /\ LeaseUnchanged /\ ExporterUnchanged /\ ELocal

\* Mutant: the label before the first collection.
StartedWithoutCollect ==
    /\ EGo("setLeader", "labelOn")
    /\ event' = TRUE
    /\ LeaseUnchanged /\ ELocal /\ UNCHANGED <<data, label, leader, excused>>

\* _on_started_leading: three steps, the failures of the last two suppressed.
StartedSetLeader ==
    /\ EGo("setLeader", "collect")
    /\ event' = TRUE
    /\ LeaseUnchanged /\ ELocal /\ UNCHANGED <<data, label, leader, excused>>

StartedCollect ==
    /\ EGo("collect", "labelOn")
    /\ \/ data' = TRUE /\ UNCHANGED excused
       \/ "collect" \in Faults /\ excused' = TRUE /\ UNCHANGED data
    /\ LeaseUnchanged /\ ELocal /\ UNCHANGED <<event, label, leader>>

StartedLabel ==
    /\ EGo("labelOn", "renewLoop")
    /\ \/ label' = TRUE
       \/ "patch" \in Faults /\ UNCHANGED label
    /\ LeaseUnchanged /\ ELocal /\ UNCHANGED <<event, data, leader, excused>>

RenewLoop ==
    /\ EGo("renewLoop", IF stopSet THEN "wait" ELSE "renew")
    /\ LeaseUnchanged /\ ExporterUnchanged /\ ELocal /\ UNCHANGED leader

\* After a failed renewal the leader waits, or steps down past the deadline.
AfterFailure(from) == EGo(from, "renewWait") \/ EGo(from, "stepDown")

\* _renew_once reads a rival's lease (LOST), or the read fails (TRANSIENT).
RenewFails ==
    /\ \/ lease = "rival" /\ EGo("renew", "stepDown")
       \/ "api" \in Faults /\ AfterFailure("renew")
    /\ ReadOnly /\ ExporterUnchanged /\ ELocal /\ UNCHANGED leader

\* An empty holder is written over as our own is.
Renew ==
    /\ EGo("renew", "renewWrite")
    /\ lease # "rival"
    /\ ReadHolding(Election) /\ ExporterUnchanged /\ ELocal /\ UNCHANGED leader

RenewWrite ==
    /\ \/ EGo("renewWrite", "renewWait") /\ Written(Election, "self")
       \/ AfterFailure("renewWrite") /\ NotWritten(Election, "self") /\ UNCHANGED tries
    /\ ExporterUnchanged /\ ELocal /\ UNCHANGED leader

\* _stop_event.wait(retry_period): between renewals, and in run().
RenewWait ==
    /\ EGo("renewWait", IF stopSet THEN "wait" ELSE "renewLoop")
    /\ LeaseUnchanged /\ ExporterUnchanged /\ ELocal /\ UNCHANGED leader

Wait ==
    /\ EGo("wait", IF stopSet THEN "finally" ELSE "loop")
    /\ LeaseUnchanged /\ ExporterUnchanged /\ ELocal /\ UNCHANGED leader

\* _stop_leading(): whoever clears _is_leader first calls the callback, or not.
StopLeading(from, callback, after) ==
    /\ EGo(from, IF leader THEN callback ELSE after)
    /\ leader' = FALSE
    /\ LeaseUnchanged /\ ExporterUnchanged /\ ELocal

StepDown == StopLeading("stepDown", "labelOff", "wait")
FinStep == StopLeading("finStep", "finLabelOff", "done")

\* _on_stopped_leading: the label first, then set_leader(False).
StoppedLabel ==
    /\ EGo("labelOff", "clear") \/ EGo("finLabelOff", "finClear")
    /\ \/ label' = FALSE /\ excused' = FALSE
       \/ "patch" \in Faults /\ excused' = TRUE /\ UNCHANGED label
    /\ LeaseUnchanged /\ ELocal /\ UNCHANGED <<event, data, leader>>

\* Mutant: the gauges are kept.
StoppedKeep ==
    /\ EGo("clear", "wait") \/ EGo("finClear", "done")
    /\ event' = FALSE
    /\ LeaseUnchanged /\ ELocal /\ UNCHANGED <<data, label, leader, excused>>

StoppedClear ==
    /\ EGo("clear", "wait") \/ EGo("finClear", "done")
    /\ event' = FALSE /\ data' = FALSE
    /\ LeaseUnchanged /\ ELocal /\ UNCHANGED <<label, leader, excused>>

\* run()'s finally clause, the stop event being set: release().
Finally ==
    /\ EGo("finally", IF leader THEN "release" ELSE "finStep")
    /\ LeaseUnchanged /\ ExporterUnchanged /\ ELocal /\ UNCHANGED leader

----------------------------------------------------------------------------
(* _release_lease_best_effort, by thread t going on at the given phases.   *)

\* Not our Lease, or unreadable: done.
ReleaseSkips(t) == (lease # "self" \/ "api" \in Faults) /\ ReadOnly

\* Mutant: release whoever holds the Lease.
ReleaseAnyone(t) == ReadHolding(t)

ReleaseOwn(t) == lease = "self" /\ ReadHolding(t)

\* Mutant: no deadline.
ReleaseFailsForEver(t, again, giveUp) == NotWritten(t, "empty") /\ again /\ UNCHANGED tries

\* The write failed: again, until the deadline.
ReleaseFails(t, again, giveUp) ==
    /\ NotWritten(t, "empty")
    /\ IF tries[t] + 1 < MaxTries
          THEN again /\ tries' = [tries EXCEPT ![t] = @ + 1]
          ELSE giveUp /\ UNCHANGED tries

EReleaseRead ==
    /\ \/ EGo("release", "releaseWrite") /\ ReleaseOwn(Election)
       \/ EGo("release", "finStep") /\ ReleaseSkips(Election)
    /\ ExporterUnchanged /\ ELocal /\ UNCHANGED leader

EReleaseWrite ==
    /\ \/ EGo("releaseWrite", "finStep") /\ Written(Election, "empty")
       \/ ReleaseFails(Election, EGo("releaseWrite", "release"),
                                 EGo("releaseWrite", "finStep"))
    /\ ExporterUnchanged /\ ELocal /\ UNCHANGED leader

----------------------------------------------------------------------------
(* The main thread: the finally clause of main().                          *)

MGo(from, to) == mpc = from /\ mpc' = to
MLocal == ExporterUnchanged /\ UNCHANGED epc

Sigterm ==
    /\ MGo("serving", "stopping")
    /\ LeaseUnchanged /\ MLocal /\ UNCHANGED <<stopSet, leader>>

\* runner.release(notify_stopped=False) sets the shared event first of all.
SetStop ==
    /\ MGo("stopping", "check")
    /\ stopSet' = TRUE
    /\ LeaseUnchanged /\ MLocal /\ UNCHANGED leader

CheckLeading ==
    /\ MGo("check", IF leader THEN "release" ELSE "quietStep")
    /\ LeaseUnchanged /\ MLocal /\ UNCHANGED <<stopSet, leader>>

MReleaseRead ==
    /\ \/ MGo("release", "releaseWrite") /\ ReleaseOwn(Main)
       \/ MGo("release", "quietStep") /\ ReleaseSkips(Main)
    /\ MLocal /\ UNCHANGED <<stopSet, leader>>

MReleaseWrite ==
    /\ \/ MGo("releaseWrite", "quietStep") /\ Written(Main, "empty")
       \/ ReleaseFails(Main, MGo("releaseWrite", "release"),
                             MGo("releaseWrite", "quietStep"))
    /\ MLocal /\ UNCHANGED <<stopSet, leader>>

\* _stop_leading(notify=False)
QuietStep ==
    /\ MGo("quietStep", "drain")
    /\ leader' = FALSE
    /\ LeaseUnchanged /\ MLocal /\ UNCHANGED stopSet

\* The drain ends; exporter.stop() sets _is_leader_event, and the process exits.
ExporterStop ==
    /\ MGo("drain", "exited")
    /\ event' = TRUE
    /\ LeaseUnchanged /\ UNCHANGED <<epc, stopSet, leader, data, label, excused>>

----------------------------------------------------------------------------
(* The rival pod: it takes an empty Lease, or one that expired, and gives   *)
(* its own up.                                                             *)

RivalWrite(value) ==
    /\ Publish(value, FALSE)
    /\ UNCHANGED <<lock, stopSet, leader, epc, mpc, tries, event, data, label, excused>>

\* A Lease left behind by an exited pod expires.
RivalAcquires ==
    /\ \/ lease = "empty"
       \/ lease = "self" /\ ("steal" \in Faults \/ ~Running)
    /\ RivalWrite("rival")

RivalLeaves == lease = "rival" /\ RivalWrite("empty")
Rival == RivalAcquires \/ RivalLeaves

\* A replace this pod gave up commits after all, the process exited or not.
LateWrite ==
    /\ \E value \in late : Publish(value, TRUE)
    /\ UNCHANGED <<lock, stopSet, leader, epc, mpc, tries, event, data, label, excused>>

\* A poller publishes: the write is gated by _is_leader_event.
Poll ==
    /\ Running /\ event /\ ~data
    /\ data' = TRUE
    /\ LeaseUnchanged /\ UNCHANGED <<stopSet, leader, epc, mpc, event, label, excused>>

ElectionStep ==
    \/ Loop \/ AcquireFails \/ Acquire \/ AcquireWrite \/ BecomeLeader
    \/ StartedSetLeader \/ StartedCollect \/ StartedLabel
    \/ RenewLoop \/ RenewFails \/ Renew \/ RenewWrite \/ RenewWait
    \/ Wait \/ StepDown \/ StoppedLabel \/ StoppedClear
    \/ Finally \/ EReleaseRead \/ EReleaseWrite \/ FinStep

Shutdown ==
    SetStop \/ CheckLeading \/ MReleaseRead \/ MReleaseWrite \/ QuietStep \/ ExporterStop

Next == ElectionStep \/ Sigterm \/ Shutdown \/ Poll \/ Rival \/ LateWrite

Spec == Init /\ [][Next]_vars

\* Both threads are scheduled, and their API calls return: each has a request
\* timeout, and a failed label patch is suppressed.
FairSpec == Spec /\ WF_vars(ElectionStep) /\ WF_vars(Shutdown)

----------------------------------------------------------------------------
(* What must hold.                                                         *)

Writing(t) ==
    IF t = Election THEN epc \in {"acquireWrite", "renewWrite", "releaseWrite"}
                    ELSE mpc = "releaseWrite"

\* The pod's two threads never make each other's writes fail: while the Lease is
\* this pod's, a replace on either thread conflicts only with one that the pod
\* had given up before and that commits between the read and the write.  One
\* that was committed with its reply lost makes nothing conflict. (_api_lock)
OwnWritesDoNotConflict ==
    \A t \in Threads : Running /\ Writing(t) /\ lease = "self" => seen[t] \/ overtaken

\* Whatever the two threads are in the middle of, and however late their writes
\* arrive, the rival's Lease is not overwritten: it goes only when the rival leaves.  (The rival's lease does
\* not expire here.)
RivalLeaseUntouched == [][lease = "rival" => lease' = "rival" \/ RivalLeaves]_vars

\* An organic demotion is undone before the next election: a serving follower
\* neither polls nor exposes series, whatever failed while it led.
FollowerIsClean ==
    (mpc = "serving" /\ ~leader /\ epc \in {"loop", "acquire", "acquireWrite", "become", "wait"})
       => ~event /\ ~data

\* "This ordering prevents a newly elected pod from entering Service endpoints
\* before it has data", nor does a demoted one stay in them without: through
\* promotion, demotion and shutdown a labelled pod has series to serve, unless
\* a suppressed failure of a first collection or of a label patch preceded.
LabelledPodHasData == label => data \/ excused

\* A shutdown ends: neither _api_lock, nor the release loop, nor a callback in
\* progress holds the main thread for ever.
ShutdownCompletes == mpc = "stopping" ~> mpc = "exited"

\* "Safe shutdown - release the Lease without clearing the terminating pod's
\* metrics while it can still be scraped."
DrainKeepsMetrics == [][mpc # "serving" /\ data => data']_vars

============================================================================
