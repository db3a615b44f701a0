----------------------------- MODULE MCWorkload -----------------------------
(* Workload with a fill that ends by its target, by its files and by ENOSPC    *)
(* alone, with and without tolerated errors, and read Jobs with and without   *)
(* limits, on a filesystem that is empty, half full or full.  The paths are a tree  *)
(* with a link out of the dataset and one into it, for the guards of          *)
(* DatasetPaths.                                                           *)
EXTENDS Workload, DatasetPaths

MCSizes == <<2, 4, 6, 3>>

FillJob(target, files, strict, used) ==
    [mode |-> "write-only", failRead |-> TRUE, failWrite |-> strict,
     target |-> target, filesPerPod |-> files, bytesPerPod |-> 0, used |-> used]
ReadJob(failRead, failWrite, files, bytes, used) ==
    [mode |-> "read-write-output", failRead |-> failRead, failWrite |-> failWrite,
     target |-> 0, filesPerPod |-> files, bytesPerPod |-> bytes, used |-> used]

MCJobs ==
    {FillJob(4, 0, TRUE, 1), FillJob(4, 0, FALSE, 1), FillJob(0, 1, FALSE, 3), FillJob(0, 0, TRUE, 1)}
    \cup {ReadJob(TRUE, TRUE, 0, 0, 0), ReadJob(FALSE, FALSE, 0, 0, 0)}
    \cup {ReadJob(TRUE, FALSE, 1, 0, 7), ReadJob(FALSE, TRUE, 0, 6, 0), ReadJob(TRUE, TRUE, 1, 0, 3)}

MCNames == {"data", "out", "a", "run", "pod", "into", "away"}
MCPaths == {<<"data">>, <<"data", "a">>, <<"data", "away">>, <<"out">>, <<"out", "into">>,
            <<"out", "run">>, <<"out", "run", "pod">>, <<"out", "run", "pod", "a">>,
            <<"out", "run", "pod", "into">>, <<"out", "run", "away">>}
Link(p) ==
    IF p = <<>> THEN p
    ELSE CASE p[Len(p)] = "into" -> <<"data">>
           [] p[Len(p)] = "away" -> <<"out">>
           [] OTHER -> p
MCReal == [p \in MCPaths |-> Link(p)]

\* The theorems of WorkloadProofs on this tree, and that the guards let
\* something through.
ASSUME GuardsOnTree ==
    /\ \A dataset, result \in Paths, run, pod \in Names : DisjointRoots(dataset, result) =>
          \A c \in Writes(result, run, pod) :
             /\ ~IsInside(Real[c], Real[dataset])
             /\ \A writes \in BOOLEAN : Real[c] \notin Reads(dataset, result, <<>>, {}, writes)
    /\ DisjointRoots(<<"data">>, <<"out">>)
    /\ Reads(<<"data">>, <<"out">>, <<>>, {}, TRUE) = {<<"data", "a">>}
    /\ Writes(<<"out">>, "run", "pod") = {<<"out", "run", "pod">>, <<"out", "run", "pod", "a">>}
    /\ Writes(<<"out">>, "run", "away") = {} /\ Writes(<<"out">>, "into", "pod") = {}
=============================================================================
