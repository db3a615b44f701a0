---------------------------- MODULE MCLustreSamples ----------------------------
(* LustreSamples with one or two metrics of each kind, two targets, and points  *)
(* that are missing, undated, late or dated after now.                        *)
EXTENDS LustreSamples

MCOstSimple == <<"available", "readOps", "writeOps">>
MCOstOperation == <<"ostLatency", "ostOps">>
MCMdtSimple == <<"clients">>
MCMdtOperation == <<"mdtOps">>
MCMdtTotal == <<"evictions">>

Point(value, stamp) == [value |-> value, stamp |-> stamp]
Data ==
    {<<Point(1, 1), Point(None, 3)>>, <<Point(3, 2), Point(2, 3)>>, <<Point(2, None)>>}
NoData == {<<Point(None, 3)>>}

TimeSeries(metrics, nums, ops, data) ==
    [metric : metrics, num : nums, op : ops, data : data]

MCSeries ==
    TimeSeries({"readOps", "writeOps"}, {"0", "1"}, {""}, Data)
    \cup TimeSeries({"readOps", "clients"}, {"none"}, {"none"}, Data)
    \cup TimeSeries({"evictions", "clients"}, {"0", "1"}, {""}, Data)
    \cup TimeSeries({"mdtOps"}, {"0", "1"}, {"open", ""}, Data)
    \cup TimeSeries({"ostOps", "mdtOps"}, {"", "none"}, {"", "none"}, {<<Point(2, 3)>>})
    \cup TimeSeries({"available", "clients"}, {""}, {""}, {<<Point(1, 1)>>})
    \cup TimeSeries({"available", "evictions"}, {"0"}, {""}, NoData)
    \cup TimeSeries({"other"}, {"0"}, {""}, {<<Point(2, 3)>>})
=============================================================================
