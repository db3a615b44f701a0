---------------------------- MODULE LustreGauges ----------------------------
(***************************************************************************)
(* What the exporter shows of Azure Managed Lustre: rounds of               *)
(* AzureManagedLustreCollector.collect, each with its failures, and what    *)
(* VmssMetricsExporter._update_lustre_metrics keeps, replaces and removes    *)
(* afterwards.  Rounds of the Lustre poller and of a promotion overlap,     *)
(* leadership comes and goes, and Azure changes under them.                 *)
(*                                                                         *)
(* A time is only "fresh" or "old", on either side of the staleness alerts' *)
(* 300 seconds.  When a poller begins a round, and the shutdown, are left to *)
(* ExporterPolling.                                                         *)
(***************************************************************************)
EXTENDS Naturals, FiniteSets

CONSTANTS
    Filesystems,  \* subscription, resource group, name and location
    Skus,         \* sku_tier, a label of the info gauges alone
    Targets,      \* OSTs and MDTs, with or without an operation
    None,         \* no filesystem, no sample, no gauge value
    Env           \* what this instance admits: "errors", "unstamped", "absence"

ASSUME LustreAssumption ==
    /\ IsFiniteSet(Filesystems)
    /\ None \notin Skus \cup {"fresh", "old", "unstamped"}
    /\ Env \subseteq {"errors", "unstamped", "absence"}

VARIABLES
    sku,       \* Azure: sku[f] of the filesystems that exist, or None
    point,     \* Azure: point[f][t], the age of the latest sample, or None
    phase,     \* the election thread: leadership and its promotion
    busy,      \* busy[w]: thread w is in collect()
    found,     \* found[w]: the filesystems its round discovered, with their skus
    pending,   \* pending[w]: filesystems still to be queried
    failed,    \* failed[w]: filesystems whose queries raised
    read,      \* read[w][f][t]: the sample its round has of a target
    gauges,    \* the label sets on display, in at least one of their gauges
    active,    \* the label sets in the _active_lustre_*_labelsets
    stamp,     \* stamp[f][t]: the sample timestamp gauge, by its age
    maxAge     \* maxAge[f]: the filesystem_sample_max_age gauge

azure == <<sku, point>>
round == <<busy, found, pending, failed, read>>
shown == <<gauges, active, stamp, maxAge>>
vars == <<azure, phase, round, shown>>

Workers == {"poller", "election"}
Ages == {"fresh", "old"}
Phases == {"follower", "promoting", "collecting", "leader", "clearing"}

\* A label set of a gauge: its kind, the filesystem, and what else tells it apart.
LabelSets ==
    ({"info"} \X Filesystems \X Skus)
    \cup ({"capacity", "aggregate"} \X Filesystems \X {None})
    \cup ({"target"} \X Filesystems \X Targets)

TypeOK ==
    /\ sku \in [Filesystems -> Skus \cup {None}]
    /\ point \in [Filesystems -> [Targets -> Ages \cup {None}]]
    /\ phase \in Phases
    /\ busy \in [Workers -> BOOLEAN]
    /\ found \in [Workers -> SUBSET (Filesystems \X Skus)]
    /\ pending \in [Workers -> SUBSET Filesystems]
    /\ failed \in [Workers -> SUBSET Filesystems]
    /\ read \in [Workers -> [Filesystems -> [Targets -> Ages \cup {None, "unstamped"}]]]
    /\ gauges \subseteq LabelSets
    /\ active \subseteq LabelSets
    /\ stamp \in [Filesystems -> [Targets -> Ages \cup {None}]]
    /\ maxAge \in [Filesystems -> Ages \cup {None}]

NoSamples == [f \in Filesystems |-> [t \in Targets |-> None]]

Init ==
    /\ sku = [f \in Filesystems |-> None] /\ point = NoSamples
    /\ phase = "follower"
    /\ busy = [w \in Workers |-> FALSE]
    /\ found = [w \in Workers |-> {}]
    /\ pending = [w \in Workers |-> {}]
    /\ failed = [w \in Workers |-> {}]
    /\ read = [w \in Workers |-> NoSamples]
    /\ gauges = {} /\ active = {}
    /\ stamp = NoSamples /\ maxAge = [f \in Filesystems |-> None]

----------------------------------------------------------------------------
(* Azure.                                                                  *)

Provision(f) ==
    /\ sku[f] = None
    /\ \E s \in Skus : sku' = [sku EXCEPT ![f] = s]
    /\ UNCHANGED <<point, phase, round, shown>>

Remove(f) ==
    /\ sku[f] # None
    /\ sku' = [sku EXCEPT ![f] = None]
    /\ point' = [point EXCEPT ![f] = [t \in Targets |-> None]]
    /\ UNCHANGED <<phase, round, shown>>

Sample(f, t) ==
    /\ sku[f] # None
    /\ point' = [point EXCEPT ![f][t] = "fresh"]
    /\ UNCHANGED <<sku, phase, round, shown>>

\* The latest sample of a target leaves the lookback window.
Expire(f, t) ==
    /\ "absence" \in Env
    /\ point[f][t] = "old"
    /\ point' = [point EXCEPT ![f][t] = None]
    /\ UNCHANGED <<sku, phase, round, shown>>

\* Its latest sample passes the alert threshold, and every earlier one with it,
\* wherever its timestamp is.  The age gauge is a number and stays as it is.
Aged(age) == IF age = "fresh" THEN "old" ELSE age
GrowOld(f, t) ==
    /\ point' = [point EXCEPT ![f][t] = Aged(@)]
    /\ read' = [w \in Workers |-> [read[w] EXCEPT ![f][t] = Aged(@)]]
    /\ stamp' = [stamp EXCEPT ![f][t] = Aged(@)]
    /\ UNCHANGED <<sku, phase, busy, found, pending, failed, gauges, active, maxAge>>

AzureStep ==
    \E f \in Filesystems :
       \/ Provision(f) \/ Remove(f)
       \/ \E t \in Targets : Sample(f, t) \/ Expire(f, t) \/ GrowOld(f, t)

----------------------------------------------------------------------------
(* AzureManagedLustreCollector.collect.  A discovery that fails leaves the  *)
(* gauges as they are, and the round is over.                              *)

Discover(w) ==
    /\ ~busy[w]
    /\ IF w = "election"
          THEN phase = "promoting" /\ phase' = "collecting"
          ELSE UNCHANGED phase
    /\ busy' = [busy EXCEPT ![w] = TRUE]
    /\ found' = [found EXCEPT ![w] = {<<f, sku[f]>> : f \in {g \in Filesystems : sku[g] # None}}]
    /\ pending' = [pending EXCEPT ![w] = {f \in Filesystems : sku[f] # None}]
    /\ UNCHANGED <<azure, failed, read, shown>>

\* All the queries for one filesystem, in one of the pool's threads: its latest
\* samples, some without a timestamp.
QueryReturns(w, f) ==
    /\ f \in pending[w] /\ sku[f] # None
    /\ pending' = [pending EXCEPT ![w] = @ \ {f}]
    /\ \E bare \in SUBSET {t \in Targets : "unstamped" \in Env /\ point[f][t] # None} :
          read' = [read EXCEPT ![w][f] =
                      [t \in Targets |-> IF t \in bare THEN "unstamped" ELSE point[f][t]]]
    /\ UNCHANGED <<azure, phase, busy, found, failed, shown>>

\* One of them raises, for good or after its retries.
QueryFails(w, f) ==
    /\ f \in pending[w] /\ ("errors" \in Env \/ sku[f] = None)
    /\ pending' = [pending EXCEPT ![w] = @ \ {f}]
    /\ failed' = [failed EXCEPT ![w] = @ \cup {f}]
    /\ UNCHANGED <<azure, phase, busy, found, read, shown>>

Query(w) == \E f \in Filesystems : QueryReturns(w, f) \/ QueryFails(w, f)

----------------------------------------------------------------------------
(* _update_lustre_metrics, under _metric_lock.                             *)

Sampled(w, f) == {t \in Targets : read[w][f][t] # None}
Stamped(w, f) == {t \in Targets : read[w][f][t] \in Ages}

\* Mutant: an aggregate for every filesystem discovered.
AggregatedAll(w) == {x[1] : x \in found[w]}

\* build_lustre_filesystem_aggregate_metrics leaves out filesystems without samples.
Aggregated(w) == {f \in Filesystems : Sampled(w, f) # {}}

\* The label sets of a result, the seven new_*_labelsets.
Labels(w) ==
    {<<"info", x[1], x[2]>> : x \in found[w]}
    \cup {<<"capacity", x[1], None>> : x \in found[w]}
    \cup {<<"aggregate", f, None>> : f \in Aggregated(w)}
    \cup UNION {{<<"target", f, t>> : t \in Sampled(w, f)} : f \in Filesystems}

\* sample_max_age_seconds: the age of the oldest stamped target, if there is one.
MaxAge(w, f) ==
    IF \E t \in Targets : read[w][f][t] = "old" THEN "old"
    ELSE IF Stamped(w, f) # {} THEN "fresh"
    ELSE None

\* Mutant: a result with errors is taken for complete.
RemoveStaleAlways(w) == TRUE

RemoveStale(w) == failed[w] = {}

\* Mutant: the label sets of a result with errors replace the active ones.
ActiveReplaced(w) == Labels(w)

ActiveAfter(w) == IF RemoveStale(w) THEN Labels(w) ELSE active \cup Labels(w)

Stale(w) == IF RemoveStale(w) THEN active \ Labels(w) ELSE {}

\* Mutants: a sample without a timestamp counts as taken now; it is written as
\* it is; the timestamp gauge is missing from the list of gauges to remove.
StampNow(w, f, t) ==
    CASE read[w][f][t] \in Ages -> read[w][f][t]
      [] read[w][f][t] = "unstamped" -> "fresh"
      [] <<"target", f, t>> \in Stale(w) -> None
      [] OTHER -> stamp[f][t]
StampCopied(w, f, t) ==
    CASE read[w][f][t] # None -> read[w][f][t]
      [] <<"target", f, t>> \in Stale(w) -> None
      [] OTHER -> stamp[f][t]
StampKept(w, f, t) == IF read[w][f][t] \in Ages THEN read[w][f][t] ELSE stamp[f][t]

StampAfter(w, f, t) ==
    CASE read[w][f][t] \in Ages -> read[w][f][t]
      [] <<"target", f, t>> \in Stale(w) -> None
      [] OTHER -> stamp[f][t]

MaxAgeAfter(w, f) ==
    CASE f \in Aggregated(w) -> MaxAge(w, f)
      [] <<"aggregate", f, None>> \in Stale(w) -> None
      [] OTHER -> maxAge[f]

CanWrite == phase \in {"promoting", "collecting", "leader"}

Update(w) ==
    /\ gauges' = (gauges \ Stale(w)) \cup Labels(w)
    /\ active' = ActiveAfter(w)
    /\ stamp' = [f \in Filesystems |-> [t \in Targets |-> StampAfter(w, f, t)]]
    /\ maxAge' = [f \in Filesystems |-> MaxAgeAfter(w, f)]

Apply(w) ==
    /\ busy[w] /\ pending[w] = {}
    /\ IF CanWrite THEN Update(w) ELSE UNCHANGED shown
    /\ busy' = [busy EXCEPT ![w] = FALSE]
    /\ found' = [found EXCEPT ![w] = {}]
    /\ failed' = [failed EXCEPT ![w] = {}]
    /\ read' = [read EXCEPT ![w] = NoSamples]
    /\ UNCHANGED <<azure, phase, pending>>

----------------------------------------------------------------------------
(* The election thread: set_leader, with the promotion's collect_once.     *)

Elect ==
    /\ phase = "follower"
    /\ phase' = "promoting"
    /\ UNCHANGED <<azure, round, shown>>

\* collect_once is over; it may have failed before it came to Lustre.
Promoted ==
    /\ phase \in {"promoting", "collecting"} /\ ~busy["election"]
    /\ phase' = "leader"
    /\ UNCHANGED <<azure, round, shown>>

Demote ==
    /\ phase = "leader"
    /\ phase' = "clearing"
    /\ UNCHANGED <<azure, round, shown>>

\* _clear_resource_gauges, under _metric_lock
Clear ==
    /\ phase = "clearing"
    /\ phase' = "follower"
    /\ gauges' = {} /\ active' = {}
    /\ stamp' = NoSamples /\ maxAge' = [f \in Filesystems |-> None]
    /\ UNCHANGED <<azure, round>>

----------------------------------------------------------------------------

Collect(w) == Discover(w) \/ Query(w) \/ Apply(w)
Leadership == Elect \/ Promoted \/ Demote \/ Clear

Next == AzureStep \/ (\E w \in Workers : Collect(w)) \/ Leadership

Spec == Init /\ [][Next]_vars

----------------------------------------------------------------------------
(* What must hold.                                                         *)

Applies(w) == busy[w] /\ ~busy'[w] /\ CanWrite

\* After a round without errors exactly its series are exposed, whatever partial
\* failures, overlapping rounds, demotions and re-elections came before: the
\* active label sets never forget a series that is on display.
CleanRoundIsExact ==
    [][\A w \in Workers : Applies(w) /\ failed[w] = {} => gauges' = Labels(w)]_vars

\* "Partial failures keep existing series to avoid hiding capacity signals":
\* no series of a filesystem goes in a round that failed to query it.
Of(f) == {x \in LabelSets : x[2] = f}
FailureHidesNothing ==
    [][\A w \in Workers : \A f \in failed[w] :
          Applies(w) => gauges \cap Of(f) \subseteq gauges']_vars

\* "Derived gauges represent only filesystems with data backing the computed
\* values", and a series on display belongs to a filesystem with an info series
\* to join it with, through partial failures and overlapping rounds too.
SeriesAreBacked ==
    \A f \in Filesystems :
       /\ <<"aggregate", f, None>> \in gauges
             => \E t \in Targets : <<"target", f, t>> \in gauges
       /\ Of(f) \cap gauges # {} => \E s \in Skus : <<"info", f, s>> \in gauges

\* No freshness gauge outlives the series it dates, nor an age its filesystem:
\* a timestamp left behind would age into an alert nobody can resolve.
NoOrphanedDates ==
    \A f \in Filesystems :
       /\ maxAge[f] # None => <<"aggregate", f, None>> \in gauges
       /\ \A t \in Targets : stamp[f][t] # None => <<"target", f, t>> \in gauges

\* The timestamp gauge never calls a target fresh whose latest sample is old,
\* with samples that carry no timestamp in between ("Falling back to time.time()
\* would silently reset the freshness counter").
StampIsHonest ==
    \A f \in Filesystems, t \in Targets : point[f][t] = "old" => stamp[f][t] # "fresh"

\* The rounds of each thread are what FetchRound promises and AzureFetch keeps: what
\* Azure has when the discovery ends, each filesystem returned or failed once.
Discovered(w) == {x[1] : x \in found[w]}

Round(w) == INSTANCE FetchRound WITH
    there <- IF busy[w] THEN Discovered(w) ELSE {f \in Filesystems : sku[f] # None},
    over <- pending[w] = {},
    todo <- pending[w],
    good <- IF busy[w] THEN Discovered(w) \ (pending[w] \cup failed[w]) ELSE {},
    bad <- Cardinality(failed[w])
============================================================================
