--------------------------- MODULE ExporterPolling ---------------------------
(***************************************************************************)
(* VmssMetricsExporter (collector.py) under its four threads: the VMSS and  *)
(* the Lustre poller, the election thread that runs set_leader and the      *)
(* promotion's collect_once, and the main thread that shuts down.  They     *)
(* share three events and the gauges.  Steps that hold _metric_lock are     *)
(* atomic; everything else interleaves.  An Azure call lasts as long as it  *)
(* likes, and a timed wait may end at any moment.                           *)
(***************************************************************************)
EXTENDS Naturals, Sequences

CONSTANTS
    LeaderElection,   \* leader_election_enabled
    Optional,         \* the optional collections that are configured
    Env,              \* what this instance admits: "azure", "shutdown"
    MaxStrays         \* where the count of strays ends

ASSUME PollingAssumption ==
    /\ LeaderElection \in BOOLEAN
    /\ Optional \subseteq {"lustre", "vm"}    \* "vm": the standalone inventory
    /\ Env \subseteq {"azure", "shutdown"}
    /\ MaxStrays \in Nat

VARIABLES
    stopEvent,   \* _stop_event
    event,       \* _is_leader_event
    wake,        \* _wake_event, shared by the pollers
    pc,          \* pc[t]: where each poller stands
    epc,         \* the election thread
    mpc,         \* the main thread
    todo,        \* todo[t]: what is left of the collection thread t is in
    series,      \* series[r]: the gauges of resource r hold label sets
    summary,     \* summary[r]: its total and last-success gauges are set
    held,        \* this pod holds the Lease (or needs none)
    strays,      \* history, until SIGTERM: rounds t has begun since held was lost
    owed         \* history, until SIGTERM: pollers signalled while collecting

vars == <<stopEvent, event, wake, pc, epc, mpc, todo, series, summary,
          held, strays, owed>>

Resources == {"vmss"} \cup Optional
Pollers == Resources \ {"vm"}
Election == "election"
Threads == Pollers \cup {Election}

Nothing == [r \in Resources |-> FALSE]
Idle == << >>

PollerPhases == {"top", "check", "begin", "collect", "wait", "sleep", "standby", "ended"}
ElectionPhases == {"follower", "waking", "collect", "leader", "clearing"}
MainPhases == {"serving", "draining", "stopping", "unblocking", "stopped"}

\* One collection: the Azure call, the locked update, the locked summary.
Collect(r) ==
    IF r \in Resources THEN << <<"call", r>>, <<"update", r>>, <<"summary", r>> >> ELSE Idle

\* _poll_vmss_forever, _poll_lustre_forever and collect_once.
Round(t) ==
    CASE t = "vmss" -> Collect("vmss") \o Collect("vm")
      [] t = "lustre" -> Collect("lustre")
      [] t = Election -> << <<"call", "vmss">>, <<"update", "vmss">> >>
                         \o Collect("lustre") \o Collect("vm")
                         \o << <<"summary", "vmss">> >>

\* Mutant: collect_once goes on after its VMSS part has failed.
RestContinues(t, r, n) == SelectSeq(todo[t], LAMBDA op : op[2] # r)

\* What remains when the collection of r returns early or raises with n of its
\* steps to go: collect_once ends with its VMSS part, every other collection is on
\* its own.
Rest(t, r, n) ==
    IF t = Election /\ r = "vmss" THEN Idle ELSE SubSeq(todo[t], n + 1, Len(todo[t]))

Suffixes(s) == {SubSeq(s, n, Len(s)) : n \in 1 .. Len(s) + 1}

TypeOK ==
    /\ stopEvent \in BOOLEAN /\ event \in BOOLEAN /\ wake \in BOOLEAN
    /\ pc \in [Pollers -> PollerPhases]
    /\ epc \in ElectionPhases /\ mpc \in MainPhases
    /\ DOMAIN todo = Threads /\ \A t \in Threads : todo[t] \in Suffixes(Round(t))
    /\ series \in [Resources -> BOOLEAN]
    /\ summary \in [Resources -> BOOLEAN]
    /\ held \in BOOLEAN
    /\ strays \in [Pollers -> 0..MaxStrays]
    /\ owed \subseteq Pollers

\* Without leader election the event is set for good.
Init ==
    /\ stopEvent = FALSE /\ wake = FALSE /\ event = ~LeaderElection
    /\ pc = [t \in Pollers |-> "top"] /\ epc = "follower" /\ mpc = "serving"
    /\ todo = [t \in Threads |-> Idle]
    /\ series = Nothing /\ summary = Nothing
    /\ held = ~LeaderElection
    /\ strays = [t \in Pollers |-> 0] /\ owed = {}

EventsUnchanged == UNCHANGED <<stopEvent, event, wake>>
GaugesUnchanged == UNCHANGED <<series, summary>>
LedgerUnchanged == UNCHANGED <<held, strays, owed>>

----------------------------------------------------------------------------
(* Collections, on whichever thread they run.                              *)

Head2(t, op, r) == todo[t] # Idle /\ Head(todo[t]) = <<op, r>>
Advance(t) == todo' = [todo EXCEPT ![t] = Tail(@)]
Skip(t, r, n) == todo' = [todo EXCEPT ![t] = Rest(t, r, n)]

CallReturns(t, r) ==
    /\ Head2(t, "call", r)
    /\ Advance(t)
    /\ GaugesUnchanged

\* The call raises.  (Its duration is recorded, a process metric here.)
CallFails(t, r) ==
    /\ "azure" \in Env
    /\ Head2(t, "call", r)
    /\ Skip(t, r, 3)
    /\ GaugesUnchanged

\* Mutant: leadership is not looked at again once the call has returned.
CanWriteAlways == TRUE

\* _can_write_metrics_locked
CanWrite == ~LeaderElection \/ event

Update(t, r) ==
    /\ Head2(t, "update", r)
    /\ IF CanWrite
          THEN Advance(t) /\ series' = [series EXCEPT ![r] = TRUE]
          ELSE Skip(t, r, 2) /\ UNCHANGED series
    /\ UNCHANGED summary

Summarize(t, r) ==
    /\ Head2(t, "summary", r)
    /\ Advance(t)
    /\ summary' = IF CanWrite THEN [summary EXCEPT ![r] = TRUE] ELSE summary
    /\ UNCHANGED series

CollectStep(t) ==
    /\ \E r \in Resources :
          CallReturns(t, r) \/ CallFails(t, r) \/ Update(t, r) \/ Summarize(t, r)
    /\ EventsUnchanged /\ LedgerUnchanged /\ UNCHANGED <<pc, epc, mpc>>

----------------------------------------------------------------------------
(* The pollers.                                                            *)

PGo(t, from, to) == pc[t] = from /\ pc' = [pc EXCEPT ![t] = to]
PLocal == GaugesUnchanged /\ UNCHANGED <<stopEvent, event, epc, mpc, held>>

\* while not self._stop_event.is_set()
Top(t) ==
    /\ PGo(t, "top", IF stopEvent THEN "ended" ELSE "check")
    /\ PLocal /\ UNCHANGED <<wake, todo, strays, owed>>

\* Mutant: a follower is not sent to standby.
CheckNothing(t) ==
    /\ PGo(t, "check", "begin")
    /\ PLocal /\ UNCHANGED <<wake, todo, strays, owed>>

CheckLeader(t) ==
    /\ PGo(t, "check", IF event THEN "begin" ELSE "standby")
    /\ PLocal /\ UNCHANGED <<wake, todo, strays, owed>>

\* Mutant: wait for leadership alone.
StandbyForLeadership(t) ==
    /\ event
    /\ PGo(t, "standby", "top")
    /\ PLocal /\ UNCHANGED <<wake, todo, strays, owed>>

\* _wait_for_leadership_or_stop, which looks at the stop event every second
Standby(t) ==
    /\ event \/ stopEvent
    /\ PGo(t, "standby", "top")
    /\ PLocal /\ UNCHANGED <<wake, todo, strays, owed>>

\* The wake event is cleared and the first call goes out.
Begin(t) ==
    /\ PGo(t, "begin", "collect")
    /\ wake' = FALSE
    /\ todo' = [todo EXCEPT ![t] = Round(t)]
    /\ strays' = [strays EXCEPT ![t] =
                     IF held \/ mpc # "serving" \/ @ = MaxStrays THEN @ ELSE @ + 1]
    /\ PLocal /\ UNCHANGED owed

CollectEnds(t) ==
    /\ todo[t] = Idle
    /\ PGo(t, "collect", "wait")
    /\ PLocal /\ UNCHANGED <<wake, todo, strays, owed>>

\* _wake_event.wait(interval): the event is set already, or the poller blocks.
Wait(t) ==
    /\ PGo(t, "wait", IF wake THEN "top" ELSE "sleep")
    /\ owed' = IF wake THEN owed \ {t} ELSE owed
    /\ PLocal /\ UNCHANGED <<wake, todo, strays>>

\* Mutant: the wait has no timeout.
IntervalNever(t) == FALSE

IntervalElapses(t) ==
    /\ PGo(t, "sleep", "top")
    /\ owed' = owed \ {t}
    /\ PLocal /\ UNCHANGED <<wake, todo, strays>>

\* _wake_event.set(): whoever sleeps returns, whoever collects will not sleep.
SetWake ==
    /\ wake' = TRUE
    /\ pc' = [t \in Pollers |-> IF pc[t] = "sleep" THEN "top" ELSE pc[t]]
    /\ owed' = IF mpc = "serving"
                  THEN {t \in Pollers : pc[t] = "collect"} \cup {t \in owed : pc[t] = "wait"}
                  ELSE {}

----------------------------------------------------------------------------
(* The election thread: set_leader and _on_started_leading.                *)

EGo(from, to) == epc = from /\ epc' = to
ELocal == UNCHANGED <<stopEvent, pc, mpc>>

\* set_leader(True), first half: the beacon and _is_leader_event
Elect ==
    /\ LeaderElection
    /\ EGo("follower", "waking")
    /\ event' = TRUE /\ held' = TRUE
    /\ strays' = [t \in Pollers |-> 0]
    /\ ELocal /\ GaugesUnchanged /\ UNCHANGED <<wake, todo, owed>>

\* set_leader(True), second half; then collect_once
WakePollers ==
    /\ EGo("waking", "collect")
    /\ SetWake
    /\ todo' = [todo EXCEPT ![Election] = Round(Election)]
    /\ GaugesUnchanged /\ UNCHANGED <<stopEvent, event, mpc, held, strays>>

Promoted ==
    /\ todo[Election] = Idle
    /\ EGo("collect", "leader")
    /\ ELocal /\ GaugesUnchanged /\ LedgerUnchanged /\ UNCHANGED <<event, wake, todo>>

\* set_leader(False): the event first, the gauges under the lock afterwards
Demote ==
    /\ EGo("leader", "clearing")
    /\ event' = FALSE /\ held' = FALSE
    /\ ELocal /\ GaugesUnchanged /\ UNCHANGED <<wake, todo, strays, owed>>

\* Mutant: the summary scalars are left as they were.
ClearSeriesOnly ==
    /\ EGo("clearing", "follower")
    /\ series' = Nothing
    /\ EventsUnchanged /\ LedgerUnchanged
    /\ UNCHANGED <<pc, mpc, todo, summary>>

ClearGauges ==
    /\ EGo("clearing", "follower")
    /\ series' = Nothing /\ summary' = Nothing
    /\ EventsUnchanged /\ LedgerUnchanged /\ UNCHANGED <<pc, mpc, todo>>

----------------------------------------------------------------------------
(* The main thread, from SIGTERM on: release(notify_stopped=False), the     *)
(* drain, and stop() in the order of its assignments.  The election thread  *)
(* may still be promoting, leading or demoting meanwhile.                   *)

MGo(from, to) == mpc = from /\ mpc' = to
MLocal == GaugesUnchanged /\ UNCHANGED <<epc, todo>>

Release ==
    /\ "shutdown" \in Env
    /\ MGo("serving", "draining")
    /\ held' = ~LeaderElection
    /\ strays' = [t \in Pollers |-> 0] /\ owed' = {}
    /\ MLocal /\ EventsUnchanged /\ UNCHANGED pc

SetStop ==
    /\ MGo("draining", "stopping")
    /\ stopEvent' = TRUE
    /\ MLocal /\ LedgerUnchanged /\ UNCHANGED <<pc, event, wake>>

SetEvent ==
    /\ MGo("stopping", "unblocking")
    /\ event' = TRUE
    /\ MLocal /\ LedgerUnchanged /\ UNCHANGED <<pc, stopEvent, wake>>

\* stop() sets the wake event and joins the pollers.
StopWakes ==
    /\ MGo("unblocking", "stopped")
    /\ SetWake
    /\ MLocal /\ UNCHANGED <<stopEvent, event, held, strays>>

----------------------------------------------------------------------------

Poll(t) ==
    \/ Top(t) \/ CheckLeader(t) \/ Standby(t) \/ Begin(t) \/ CollectStep(t)
    \/ CollectEnds(t) \/ Wait(t) \/ IntervalElapses(t)

Promotion == WakePollers \/ CollectStep(Election) \/ Promoted
Leadership == Elect \/ Promotion \/ Demote \/ ClearGauges
Shutdown == SetStop \/ SetEvent \/ StopWakes

Next == (\E t \in Pollers : Poll(t)) \/ Leadership \/ Release \/ Shutdown

Spec == Init /\ [][Next]_vars

\* Threads are scheduled, Azure calls return or raise, and timed waits end.
\* Elections, demotions and SIGTERM come when they come.
FairSpec ==
    /\ Spec
    /\ \A t \in Pollers : WF_vars(Poll(t))
    /\ WF_vars(Promotion) /\ WF_vars(ClearGauges) /\ WF_vars(Shutdown)

----------------------------------------------------------------------------
(* What must hold.                                                         *)

\* A demoted pod exposes no resource series and no stale totals, whatever
\* collections were in flight when it was demoted: the event is cleared before
\* the gauges, and every write looks at it again under _metric_lock.
FollowerHasNoSeries ==
    LeaderElection /\ epc = "follower" /\ ~stopEvent
       => series = Nothing /\ summary = Nothing

\* Standby pods "skip collection until they win the lease": after a demotion a
\* poller begins at most the one collection it had already decided on.
StandbySkipsCollection ==
    mpc = "serving" => \A t \in Pollers : strays[t] <= 1

\* However often leadership bounced before, and whatever wake-ups were lost on
\* the way, a pod that stays leader and reaches Azure ends up with every gauge
\* filled.
Filled == \A r \in Resources : series[r] /\ summary[r]
AzureFails == \E t \in Threads, r \in Resources : CallFails(t, r)
LeaderRefills ==
    (<>[](epc = "leader" /\ mpc = "serving") /\ <>[][~AzureFails]_vars) => <>[]Filled

\* stop() ends both pollers, also when a demotion clears the event that stop()
\* set to unblock them.
StopEndsPollers == stopEvent ~> \A t \in Pollers : pc[t] = "ended"

\* A wake signal "raised during the collection is not lost: the post-collect
\* wait will then return immediately".
WakeNotLost == \A t \in owed : pc[t] # "sleep"
=============================================================================
