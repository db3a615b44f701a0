----------------------------- MODULE LustreSamples -----------------------------
(***************************************************************************)
(* How the answers of Azure Monitor for one filesystem become rows and        *)
(* aggregates: the metrics are asked for in batches, the time series of all   *)
(* batches are merged, each falls into a row by its dimensions, and the       *)
(* filesystem's derived gauges are computed from the rows.                    *)
(***************************************************************************)
EXTENDS Naturals, Sequences, SequencesExt, FiniteSets, FiniteSetsExt, Functions, Sums

CONSTANTS
    OstSimple, OstOperation, MdtSimple, MdtOperation, MdtTotal,
                 \* the five tuples of metric names, as sequences
    BatchSize,   \* AZURE_MONITOR_METRIC_NAMES_PER_REQUEST
    ReadOps, WriteOps, MdtOps, Clients, Evictions,
                 \* the metrics that are read by name
    Series,      \* the time series Azure may return
    MaxSeries,   \* how many it returns
    Now,         \* now_seconds
    None

ASSUME SamplesAssumption ==
    /\ BatchSize \in Nat \ {0} /\ MaxSeries \in Nat /\ Now \in Nat
    /\ None \notin Nat
    /\ \A s \in Series :
          /\ s.data \in Seq([value : Nat \cup {None}, stamp : Nat \cup {None}])
          /\ s.op # "-"

VARIABLES
    azure,   \* the time series Azure has for the filesystem
    batch,   \* the batches that were asked for
    merged,  \* merged_metrics: the time series not yet normalised
    values,  \* values[key][metric]: a field of a row
    stamps   \* stamps[key]: its sample_timestamp_seconds

vars == <<azure, batch, merged, values, stamps>>

OstMetrics == ToSet(OstSimple \o OstOperation)
OperationMetrics == ToSet(OstOperation \o MdtOperation)
Metrics == OstMetrics \cup ToSet(MdtSimple \o MdtOperation \o MdtTotal)

\* Each name is in one of the tuples, and those read by name are where the rows
\* they are read from are filled.
ASSUME NamesAssumption ==
    /\ {OstSimple, OstOperation, MdtSimple, MdtOperation, MdtTotal} \subseteq Seq(STRING)
    /\ OstMetrics \cap ToSet(MdtSimple \o MdtOperation \o MdtTotal) = {}
    /\ OperationMetrics \cap ToSet(OstSimple \o MdtSimple \o MdtTotal) = {}
    /\ {ReadOps, WriteOps} \subseteq ToSet(OstSimple)
    /\ MdtOps \in ToSet(MdtOperation)
    /\ Clients \in ToSet(MdtSimple) /\ Evictions \in ToSet(MdtTotal)

\* _chunk_metric_names
Chunk(names, size) ==
    [i \in 1 .. ((Len(names) + size - 1) \div size) |->
        SubSeq(names, (i - 1) * size + 1, IF i * size < Len(names) THEN i * size ELSE Len(names))]

\* The requests of _collect_filesystem_metrics, in order.
Batches ==
    Chunk(OstSimple \o MdtSimple, BatchSize) \o <<OstOperation, MdtOperation>>
    \o Chunk(MdtTotal, BatchSize)

----------------------------------------------------------------------------
(* A time series: its metric, the dimensions it is split by, its points.  A    *)
(* dimension is "none" if there is no metadata, "" if it is not in it.         *)

\* _latest_value: the last point with a value
Latest(s) ==
    LET dated == {i \in DOMAIN s.data : s.data[i].value # None}
    IN  IF dated = {} THEN None ELSE s.data[Max(dated)]

\* _dimension_value_or_aggregate and _dimension_value
Dimension(s) ==
    IF s.num = "none" \/ (s.num = "" /\ s.metric \in OperationMetrics) THEN "all" ELSE s.num
Operation(s) ==
    IF s.metric \notin OperationMetrics THEN "-"
    ELSE IF s.op \in {"none", ""} THEN "all" ELSE s.op

Kept(s) == s.metric \in Metrics /\ Latest(s) # None /\ Dimension(s) # ""

Family(s) == IF s.metric \in OstMetrics THEN "ost" ELSE "mdt"
Key(s) == <<Family(s), Dimension(s), Operation(s)>>

Keys == {Key(s) : s \in {t \in Series : t.metric \in Metrics}}

\* Azure has at most one time series of a metric for the same dimensions.
Consistent(set) ==
    \A s, t \in set : s.metric = t.metric /\ Key(s) = Key(t) => s = t

Init ==
    /\ \E n \in 0 .. MaxSeries : \E f \in [1 .. n -> Series] : azure = Range(f)
    /\ Consistent(azure)
    /\ batch = 0 /\ merged = {}
    /\ values = [k \in Keys |-> [m \in Metrics |-> None]]
    /\ stamps = [k \in Keys |-> None]

Query ==
    /\ batch < Len(Batches)
    /\ batch' = batch + 1
    /\ merged' = merged \cup {s \in azure : s.metric \in ToSet(Batches[batch'])}
    /\ UNCHANGED <<azure, values, stamps>>

Later(t, u) == IF u = None \/ (t # None /\ t > u) THEN t ELSE u

\* Mutant: the date of a row is that of the metric seen last.
NormalizeLastDate(s) ==
    /\ batch = Len(Batches) /\ s \in merged
    /\ merged' = merged \ {s}
    /\ IF Kept(s)
          THEN /\ values' = [values EXCEPT ![Key(s)][s.metric] = Latest(s).value]
               /\ stamps' = [stamps EXCEPT ![Key(s)] = Latest(s).stamp]
          ELSE UNCHANGED <<values, stamps>>
    /\ UNCHANGED <<azure, batch>>

\* One turn of the loop of normalize_lustre_metrics_response.
Normalize(s) ==
    /\ batch = Len(Batches) /\ s \in merged
    /\ merged' = merged \ {s}
    /\ IF Kept(s)
          THEN /\ values' = [values EXCEPT ![Key(s)][s.metric] = Latest(s).value]
               /\ stamps' = [stamps EXCEPT ![Key(s)] = Later(Latest(s).stamp, @)]
          ELSE UNCHANGED <<values, stamps>>
    /\ UNCHANGED <<azure, batch>>

Next == Query \/ \E s \in merged : Normalize(s)
Spec == Init /\ [][Next]_vars

----------------------------------------------------------------------------
(* build_lustre_filesystem_aggregate_metrics                                *)

IsRow(k) == \E m \in Metrics : values[k][m] # None
Rows(family, simple) ==
    {k \in Keys : k[1] = family /\ (k[3] = "-") = simple /\ IsRow(k)}
AllRows == {k \in Keys : IsRow(k)}

OrZero(v) == IF v = None THEN 0 ELSE v
Field(keys, m) == {k \in keys : values[k][m] # None}
SumField(keys, m) == Sum([k \in keys |-> OrZero(values[k][m])], keys)

MaxOptional(keys, m) ==
    IF Field(keys, m) = {} THEN None ELSE Max({values[k][m] : k \in Field(keys, m)})
SumOptional(keys, m) == IF Field(keys, m) = {} THEN None ELSE SumField(keys, m)

Dated == {k \in AllRows : stamps[k] # None}

\* Mutant: the age is that of the freshest row.
AgeOfFreshest ==
    IF Dated = {} THEN None
    ELSE LET last == Max({stamps[k] : k \in Dated}) IN IF last < Now THEN Now - last ELSE 0

SampleMaxAge ==
    IF Dated = {} THEN None
    ELSE LET first == Min({stamps[k] : k \in Dated}) IN IF first < Now THEN Now - first ELSE 0

DataOps == SumField(Rows("ost", TRUE), ReadOps) + SumField(Rows("ost", TRUE), WriteOps)

\* The ratio is kept as its two terms.
Aggregate ==
    [clients   |-> MaxOptional(Rows("mdt", TRUE), Clients),
     evictions |-> SumOptional(Rows("mdt", TRUE), Evictions),
     ratio     |-> <<SumField(Rows("mdt", FALSE), MdtOps), IF DataOps > 1 THEN DataOps ELSE 1>>,
     maxAge    |-> SampleMaxAge]

----------------------------------------------------------------------------

Done == batch = Len(Batches) /\ merged = {}
Shown == {s \in azure : Kept(s)}
Of(m) == {s \in Shown : s.metric = m}
SumOf(m) == Sum([s \in Of(m) |-> Latest(s).value], Of(m))
DatesOf(k) == {Latest(s).stamp : s \in {t \in Shown : Key(t) = k}} \ {None}

\* However the metrics are cut into requests and in whatever order the time
\* series come, the rows hold exactly what Azure has: a field for every series
\* with a value and a dimension, none besides, and the row's date is the latest
\* of its series.
NothingIsLost ==
    Done =>
       /\ \A s \in Shown : values[Key(s)][s.metric] = Latest(s).value
       /\ \A k \in Keys, m \in Metrics : values[k][m] # None =>
             \E s \in Of(m) : Key(s) = k
       /\ \A k \in Keys : stamps[k] = IF DatesOf(k) = {} THEN None ELSE Max(DatesOf(k))

\* The derived gauges, which are computed from rows, agree with the time series
\* themselves: nothing is counted twice or left out by the grouping, an unknown
\* value is not a zero, the ratio never divides by zero, and the age is no less
\* than the age of any row.
AggregatesAreExact ==
    Done =>
       /\ Aggregate.evictions = IF Of(Evictions) = {} THEN None ELSE SumOf(Evictions)
       /\ Aggregate.clients =
             IF Of(Clients) = {} THEN None ELSE Max({Latest(s).value : s \in Of(Clients)})
       /\ Aggregate.ratio[1] = SumOf(MdtOps) /\ Aggregate.ratio[2] > 0
       /\ Aggregate.ratio[2] = SumOf(ReadOps) + SumOf(WriteOps) \/ Aggregate.ratio[2] = 1
       /\ Aggregate.maxAge = None <=> \A k \in Keys : DatesOf(k) = {}
       /\ \A k \in Keys : DatesOf(k) # {} => Max(DatesOf(k)) + Aggregate.maxAge >= Now
=============================================================================
