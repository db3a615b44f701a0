---------------------------- MODULE DatasetPaths ----------------------------
(***************************************************************************)
(* The guards that keep av_lustre_workload.py out of the source dataset:     *)
(* which roots a mode accepts, which files it enumerates, and which paths it *)
(* opens for writing.  A path is the sequence of its segments, resolved by a *)
(* filesystem with symbolic links that stays as it is.                      *)
(***************************************************************************)
EXTENDS Naturals, Sequences

CONSTANTS
    Names,   \* segments
    Paths,   \* the absolute paths there are
    Real     \* Path.resolve(): Real[p] is p without its symbolic links

ASSUME PathAssumption ==
    /\ Paths \subseteq Seq(Names)
    /\ Real \in [Paths -> Paths]
    /\ \A p \in Paths : Real[Real[p]] = Real[p]

\* child.relative_to(parent) does not raise.
IsInside(child, parent) ==
    /\ Len(parent) <= Len(child)
    /\ \A i \in 1 .. Len(parent) : child[i] = parent[i]

\* ensure_within(base, candidate) returns.
EnsureWithin(base, candidate) == IsInside(Real[candidate], Real[base])

\* assert_disjoint_roots returns.
DisjointRoots(dataset, result) ==
    /\ Real[dataset] # Real[result]
    /\ ~IsInside(Real[result], Real[dataset])
    /\ ~IsInside(Real[dataset], Real[result])

\* resolve_walk_root returns walk: subpath is relative and without "..".
WalkRoot(dataset, subpath, walk) ==
    \/ subpath = <<>> /\ walk = Real[dataset]
    \/ /\ subpath # <<>> /\ Real[dataset] \o subpath \in Paths
       /\ walk = Real[Real[dataset] \o subpath]
       /\ IsInside(walk, Real[dataset])

\* The directory of a run and of a pod in it, as the reading, the filling and the
\* verifying modes make it: one segment each, resolved and checked.
RunDir(result, run, dir) ==
    /\ Append(Real[result], run) \in Paths
    /\ dir = Real[Append(Real[result], run)]
    /\ IsInside(dir, Real[result])

PodDir(result, run, pod, dir) ==
    \E runDir \in Paths :
       /\ RunDir(result, run, runDir)
       /\ Append(runDir, pod) \in Paths
       /\ dir = Real[Append(runDir, pod)]
       /\ IsInside(dir, runDir)

\* enumerate_dataset: os.walk does not follow links, and linked files are passed
\* over.  Below the root it descends into the directories of the split filter, and
\* never into an excluded one.
Enumerated(root, split, excluded) ==
    {f \in Paths :
       /\ Real[f] = f /\ IsInside(f, root) /\ f # root
       /\ split = {} \/ Len(f) = Len(root) + 1 \/ f[Len(root) + 1] \in split
       /\ \A e \in excluded : ~IsInside(f, Real[e])}

\* The files a pod of a Job reads, and those it may open for writing.  Writing,
\* the result root is excluded from the enumeration.
Reads(dataset, result, subpath, split, writes) ==
    {f \in Paths : \E walk \in Paths :
       /\ WalkRoot(dataset, subpath, walk)
       /\ f \in Enumerated(walk, split, IF writes THEN {result} ELSE {})}

Writes(result, run, pod) ==
    {c \in Paths : \E dir \in Paths : PodDir(result, run, pod, dir) /\ EnsureWithin(dir, c)}
=============================================================================
