--------------------------- MODULE InventoryGauges ---------------------------
(***************************************************************************)
(* The gauges of the standalone VMs: one inventory query on the VMSS poller   *)
(* and one in the collect_once of a promotion, each published in two locked  *)
(* sections, the series and then the total.  Between the query and either of  *)
(* them the other thread, a demotion and Azure itself go on.                *)
(*                                                                         *)
(* A query that raises publishes nothing and is a round that is not begun.   *)
(* ExporterPolling has the schedule of the rounds and the shutdown.          *)
(***************************************************************************)
EXTENDS Naturals, FiniteSets

CONSTANTS
    Vms,          \* subscription, resource group and name: the identity labels
    Profiles,     \* what a VM may be: <<size, power state>>
    PowerStates,  \* STANDALONE_VM_POWER_STATES
    MaxInventory, \* standalone_vm_max_inventory
    None          \* no VM, no series

ASSUME InventoryAssumption ==
    /\ IsFiniteSet(Vms)
    /\ \A p \in Profiles : p[2] \in PowerStates
    /\ MaxInventory \in Nat
    /\ None \notin Profiles /\ None \notin Nat

VARIABLES
    vm,       \* Azure: vm[v], the profile of v, or None
    phase,    \* leadership, and where the election thread is with it
    work,     \* work[t]: what thread t has done of its round
    answer,   \* answer[t]: the rows of its query, by VM
    info,     \* azure_vm_info: its label sets, VM and size
    power,    \* azure_vm_power_state: power[v][s] is 0, 1, or None without series
    sizes,    \* azure_vm_count_by_size: sizes[z], or None without series
    active,   \* the three _active_standalone_vm_*_labelsets, tagged
    total     \* azure_vm_exporter_vm_total

round == <<work, answer>>
shown == <<info, power, sizes, active, total>>
vars == <<vm, phase, round, shown>>

Threads == {"poller", "election"}
Sizes == {p[1] : p \in Profiles}
Rows == [Vms -> Profiles \cup {None}]
NoRows == [v \in Vms |-> None]
NoPower == [v \in Vms |-> [s \in PowerStates |-> None]]
NoSizes == [z \in Sizes |-> None]

Init ==
    /\ vm = NoRows
    /\ phase = "follower"
    /\ work = [t \in Threads |-> "idle"] /\ answer = [t \in Threads |-> NoRows]
    /\ info = {} /\ power = NoPower /\ sizes = NoSizes
    /\ active = {} /\ total = 0

\* Azure: a VM is created, resized, started, stopped or deleted.
Change(v) ==
    /\ \E p \in (Profiles \cup {None}) \ {vm[v]} : vm' = [vm EXCEPT ![v] = p]
    /\ UNCHANGED <<phase, round, shown>>

----------------------------------------------------------------------------
(* collect_standalone_vms_once.                                            *)

CanWrite == phase \in {"promoting", "collecting", "leader"}

\* The query is answered, with what Azure had at some time of the call.
Query(t) ==
    /\ work[t] = "idle"
    /\ CASE t = "election" -> phase = "promoting" /\ phase' = "collecting"
         [] OTHER -> CanWrite /\ UNCHANGED phase
    /\ work' = [work EXCEPT ![t] = "answered"]
    /\ answer' = [answer EXCEPT ![t] = vm]
    /\ UNCHANGED <<vm, shown>>

Found(rows) == {v \in Vms : rows[v] # None}
SizeCount(rows, z) == Cardinality({v \in Found(rows) : rows[v][1] = z})

SuppressPerVm(rows) == Cardinality(Found(rows)) > MaxInventory

\* new_info_labelsets, new_power_state_labelsets, new_size_labelsets
PerVmLabels(rows) ==
    {<<"info", v, rows[v][1]>> : v \in Found(rows)}
    \cup ({"power"} \X Found(rows) \X PowerStates)
SizeLabels(rows) == {<<"size", rows[v][1], None>> : v \in Found(rows)}

NewLabels(rows) ==
    SizeLabels(rows) \cup (IF SuppressPerVm(rows) THEN {} ELSE PerVmLabels(rows))

\* Mutant: a suppressed inventory leaves the label sets of the VMs alone.
StaleUnlessSuppressed(rows) ==
    IF SuppressPerVm(rows)
       THEN {x \in active : x[1] = "size"} \ SizeLabels(rows)
       ELSE active \ NewLabels(rows)

Stale(rows) == active \ NewLabels(rows)

\* Mutant: only the series of the present power state is written.
PowerOfState(rows, v, s) ==
    IF v \in Found(rows) /\ ~SuppressPerVm(rows) /\ s = rows[v][2] THEN 1
    ELSE IF <<"power", v, s>> \in Stale(rows) THEN None ELSE power[v][s]

PowerAfter(rows, v, s) ==
    IF v \in Found(rows) /\ ~SuppressPerVm(rows)
       THEN IF s = rows[v][2] THEN 1 ELSE 0
       ELSE IF <<"power", v, s>> \in Stale(rows) THEN None ELSE power[v][s]

SizesAfter(rows, z) ==
    IF SizeCount(rows, z) > 0 THEN SizeCount(rows, z)
    ELSE IF <<"size", z, None>> \in Stale(rows) THEN None ELSE sizes[z]

InfoAfter(rows) ==
    (info \ {<<x[2], x[3]>> : x \in {y \in Stale(rows) : y[1] = "info"}})
    \cup (IF SuppressPerVm(rows) THEN {} ELSE {<<v, rows[v][1]>> : v \in Found(rows)})

Publish(rows) ==
    /\ info' = InfoAfter(rows)
    /\ power' = [v \in Vms |-> [s \in PowerStates |-> PowerAfter(rows, v, s)]]
    /\ sizes' = [z \in Sizes |-> SizesAfter(rows, z)]
    /\ active' = NewLabels(rows)
    /\ UNCHANGED total

\* _update_standalone_vm_metrics, under _metric_lock
Update(t) ==
    /\ work[t] = "answered"
    /\ IF CanWrite
          THEN Publish(answer[t]) /\ work' = [work EXCEPT ![t] = "updated"] /\ UNCHANGED answer
          ELSE /\ work' = [work EXCEPT ![t] = "idle"]
               /\ answer' = [answer EXCEPT ![t] = NoRows]
               /\ UNCHANGED shown
    /\ UNCHANGED <<vm, phase>>

\* The total, in a locked section of its own.
Summarize(t) ==
    /\ work[t] = "updated"
    /\ total' = IF CanWrite THEN Cardinality(Found(answer[t])) ELSE total
    /\ work' = [work EXCEPT ![t] = "idle"]
    /\ answer' = [answer EXCEPT ![t] = NoRows]
    /\ UNCHANGED <<vm, phase, info, power, sizes, active>>

----------------------------------------------------------------------------
(* The election thread: set_leader, with the promotion's collect_once.     *)

Elect ==
    /\ phase = "follower"
    /\ phase' = "promoting"
    /\ UNCHANGED <<vm, round, shown>>

\* collect_once is over; it may have failed before it came to the VMs.
Promoted ==
    /\ phase \in {"promoting", "collecting"} /\ work["election"] = "idle"
    /\ phase' = "leader"
    /\ UNCHANGED <<vm, round, shown>>

Demote ==
    /\ phase = "leader"
    /\ phase' = "clearing"
    /\ UNCHANGED <<vm, round, shown>>

\* Mutant: the clearing forgets a gauge.
ClearExceptSizes ==
    /\ phase = "clearing"
    /\ phase' = "follower"
    /\ info' = {} /\ power' = NoPower /\ active' = {} /\ total' = 0
    /\ UNCHANGED <<vm, round, sizes>>

\* _clear_resource_gauges, under _metric_lock
Clear ==
    /\ phase = "clearing"
    /\ phase' = "follower"
    /\ info' = {} /\ power' = NoPower /\ sizes' = NoSizes
    /\ active' = {} /\ total' = 0
    /\ UNCHANGED <<vm, round>>

----------------------------------------------------------------------------

Collect(t) == Query(t) \/ Update(t) \/ Summarize(t)

Next ==
    \/ \E v \in Vms : Change(v)
    \/ \E t \in Threads : Collect(t)
    \/ Elect \/ Promoted \/ Demote \/ Clear

Spec == Init /\ [][Next]_vars

\* Threads are scheduled and queries end; the poller goes round again and again.
FairSpec ==
    /\ Spec
    /\ \A t \in Threads : WF_vars(Collect(t))
    /\ WF_vars(Promoted) /\ WF_vars(Clear)

----------------------------------------------------------------------------

TypeOK ==
    /\ vm \in Rows
    /\ phase \in {"follower", "promoting", "collecting", "leader", "clearing"}
    /\ work \in [Threads -> {"idle", "answered", "updated"}]
    /\ answer \in [Threads -> Rows]
    /\ info \subseteq Vms \X Sizes
    /\ power \in [Vms -> [PowerStates -> {0, 1, None}]]
    /\ sizes \in [Sizes -> (1 .. Cardinality(Vms)) \cup {None}]
    /\ total \in 0 .. Cardinality(Vms)

\* What the gauges should show of an inventory, said without what they showed before.
PerVmShown(rows) == Cardinality(Found(rows)) <= MaxInventory
Shows(rows, i, p, z) ==
    /\ i = {x \in Vms \X Sizes : PerVmShown(rows) /\ x[1] \in Found(rows) /\ rows[x[1]][1] = x[2]}
    /\ \A v \in Vms, s \in PowerStates :
          p[v][s] = IF ~PerVmShown(rows) \/ v \notin Found(rows) THEN None
                    ELSE IF rows[v][2] = s THEN 1 ELSE 0
    /\ \A x \in Sizes :
          z[x] = IF SizeCount(rows, x) = 0 THEN None ELSE SizeCount(rows, x)

\* A published inventory replaces everything an earlier one left, whatever was
\* published in between: after a resize, a deletion, a crossing of the cap in
\* either direction, a demotion or a re-election nothing of the old series stays.
UpdateIsExact ==
    [][\A t \in Threads : work[t] = "answered" /\ work'[t] = "updated"
          => Shows(answer[t], info', power', sizes')]_vars

\* Per-VM series are bounded by the cap, and every VM on display has one info
\* series and exactly one power state that is set, between rounds and across
\* demotions too: "a fixed, predictable number of series" per VM.
PerVmSeriesAgree ==
    /\ Cardinality(info) <= MaxInventory
    /\ \A v \in Vms :
          LET sized == {x \in info : x[1] = v}
              on == {s \in PowerStates : power[v][s] = 1}
              off == {s \in PowerStates : power[v][s] = 0}
          IN  /\ Cardinality(sized) <= 1
              /\ IF sized = {} THEN on \cup off = {}
                 ELSE Cardinality(on) = 1 /\ on \cup off = PowerStates

\* With a leader that stays and VMs that stay as they are, the gauges end up with
\* exactly these VMs and their number: a slow query that publishes an old answer
\* over a newer one, or an old total beside newer series, is repaired.
InventoryConverges ==
    (<>[](phase = "leader") /\ <>[][UNCHANGED vm]_vars)
       => <>[](Shows(vm, info, power, sizes) /\ total = Cardinality(Found(vm)))
=============================================================================
