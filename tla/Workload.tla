------------------------------- MODULE Workload -------------------------------
(***************************************************************************)
(* The pods of one pressure-test Job running av_lustre_workload.py: filling   *)
(* a filesystem they share until a budget or ENOSPC ends it (write-only), or  *)
(* reading the shards of a dataset with one output per file                 *)
(* (read-write-output), the verification of those outputs, the exit codes     *)
(* the Job is judged by, and the write budget (lustre_safe_write_budget.py)   *)
(* it is planned against.                                                  *)
(*                                                                         *)
(* Sizes are in a small unit.  Latencies, warm-up and SLOs are left out.  A   *)
(* limit of 0 stands for none.                                              *)
(***************************************************************************)
EXTENDS Integers, Sequences, FiniteSets, Functions, Sums

CONSTANTS
    PodCount,    \* POD_COUNT; the pods are 0 .. PodCount - 1
    Jobs,        \* the settings a Job of this instance may have
    Capacity,    \* of the filesystem that is filled
    FileSize,    \* WRITE_ONLY_FILE_SIZE_BYTES
    ChunkSize,   \* WRITE_ONLY_CHUNK_SIZE_BYTES
    Buffer,      \* the capacity of the buffer of a file open() returns
    Sizes,       \* the sizes of the files of the dataset, in path order
    Hotset,      \* the files of it that are largest, read by every pod
    Epochs,
    Ratio,       \* OUTPUT_BYTES_PER_INPUT, in percent
    MaxOutput,   \* MAX_OUTPUT_BYTES_PER_FILE
    MaxUsed,     \* --max-used-percent
    Reserve,     \* --reserve
    MaxFailures, \* the tolerated errors of a pod the model counts to
    MaxWritten   \* the bytes_written the model counts to

ASSUME WorkloadAssumption ==
    /\ PodCount \in Nat \ {0} /\ Capacity \in Nat
    /\ FileSize \in Nat \ {0} /\ ChunkSize \in 1 .. FileSize
    /\ Sizes \in Seq(Nat) /\ Hotset \subseteq DOMAIN Sizes
    /\ Ratio \in Nat /\ MaxOutput \in Nat /\ MaxUsed \in 1 .. 100 /\ Reserve \in Nat
    /\ Epochs \in Nat \ {0} /\ MaxFailures \in Nat \ {0}
    /\ Buffer \in Nat /\ MaxWritten \in Nat /\ MaxWritten >= Capacity + Buffer
    /\ \A j \in Jobs : j.target <= MaxWritten
    /\ Jobs \subseteq [mode : {"write-only", "read-write-output"},
                       failRead : BOOLEAN, failWrite : BOOLEAN,
                       target : Nat, filesPerPod : Nat, bytesPerPod : Nat,
                       used : 0 .. Capacity]

VARIABLES
    job,       \* the settings of this Job
    pc,        \* pc[p]: where pod p stands
    sigterm,   \* sigterm[p]: its signal flag
    free,      \* what is left of the capacity
    disk,      \* disk[p]: the lengths of the files of p, by file_index + 1
    index,     \* index[p]: file_index
    remaining, \* remaining[p]: of the file being written
    buffered,  \* buffered[p]: of it, written to the buffer and not yet to the disk
    written,   \* written[p]: bytes_written
    counted,   \* counted[p]: files_written
    failures,  \* failures[p]: files_failed, up to MaxFailures
    reason,    \* reason[p]: terminal_reason
    exit,      \* exit[p]: the exit code of a process that ended
    epoch,     \* epoch[p]: epochs_completed
    planned,   \* planned[p]: planned_output_bytes
    todo,      \* todo[p]: the files to be read in this epoch
    hot,       \* hot[p]: the hotset reads left in this epoch
    current,   \* current[p]: the file read, whose output is due
    artifact,  \* artifact[p][f]: the output of p for file f
    verdict    \* the exit code of a verify-output pod, or "none"

fill == <<free, disk, index, remaining, buffered, written, counted, reason>>
reading == <<epoch, planned, todo, hot, current, artifact, verdict>>
vars == <<job, pc, sigterm, fill, failures, exit, reading>>

Pods == 0 .. PodCount - 1
Dataset == DOMAIN Sizes

\* shard_files: index % pod_count == pod_index
Shard(p) == {f \in Dataset : (f - 1) % PodCount = p}

\* The tests of the loop of select_files, after those it selected before f.
Fits(before, f) ==
    /\ job.filesPerPod > 0 => Cardinality(before) < job.filesPerPod
    /\ job.bytesPerPod > 0 => Sum(Sizes, before) + Sizes[f] <= job.bytesPerPod

\* What select_files may return, the shuffle being another one in every epoch: a
\* file too large is passed over, and smaller ones after it may still fit.
Selections(p) ==
    {chosen \in SUBSET Shard(p) :
       \E order \in Bijection(1 .. Cardinality(Shard(p)), Shard(p)) :
          \A i \in DOMAIN order :
             LET before == chosen \cap {order[k] : k \in 1 .. i - 1}
             IN  order[i] \in chosen <=> Fits(before, order[i])}

\* planned_output_payload_bytes, file by file
Payload == [f \in Dataset |-> LET n == (Sizes[f] * Ratio) \div 100
                              IN  IF n < MaxOutput THEN n ELSE MaxOutput]

\* Mutant: what is planned is counted for the first epoch only.
PlanOnce(p, files) ==
    planned' = [planned EXCEPT ![p] = IF epoch[p] = 0 THEN Sum(Payload, files) ELSE @]

Plan(p, files) == planned' = [planned EXCEPT ![p] = @ + Sum(Payload, files)]

Init ==
    /\ job \in Jobs
    /\ pc = [p \in Pods |-> IF job.mode = "write-only" THEN "top" ELSE "epoch"]
    /\ sigterm = [p \in Pods |-> FALSE]
    /\ free = Capacity - job.used
    /\ disk = [p \in Pods |-> <<>>]
    /\ index = [p \in Pods |-> 0]
    /\ remaining = [p \in Pods |-> 0] /\ buffered = [p \in Pods |-> 0]
    /\ written = [p \in Pods |-> 0] /\ counted = [p \in Pods |-> 0]
    /\ failures = [p \in Pods |-> 0]
    /\ reason = [p \in Pods |-> "none"] /\ exit = [p \in Pods |-> 0]
    /\ epoch = [p \in Pods |-> 0]
    /\ planned = [p \in Pods |-> 0]
    /\ todo = [p \in Pods |-> {}]
    /\ current = [p \in Pods |-> 0]
    /\ hot = [p \in Pods |-> {}]
    /\ artifact = [p \in Pods |-> [f \in Dataset |-> "none"]]
    /\ verdict = "none"

Goto(p, l) == pc' = [pc EXCEPT ![p] = l]
Exit(p, code) == exit' = [exit EXCEPT ![p] = code] /\ Goto(p, "ended")
CountFailure(p) ==
    failures' = [failures EXCEPT ![p] = IF @ < MaxFailures THEN @ + 1 ELSE @]

CountWritten(p, n) ==
    written' = [written EXCEPT ![p] = IF @ + n < MaxWritten THEN @ + n ELSE MaxWritten]

----------------------------------------------------------------------------
(* run_write_only, and main, which turns its return into exit code 0.        *)

End(p, why) == reason' = [reason EXCEPT ![p] = why] /\ Exit(p, 0)

Signal(p) ==
    /\ job.mode = "write-only" /\ pc[p] # "ended" /\ ~sigterm[p]
    /\ sigterm' = [sigterm EXCEPT ![p] = TRUE]
    /\ UNCHANGED <<job, pc, fill, failures, exit, reading>>

Reached(p) == job.target > 0 /\ written[p] >= job.target

\* The three tests at the head of the loop.
Top(p) ==
    /\ pc[p] = "top"
    /\ IF sigterm[p] THEN End(p, "sigterm")
       ELSE IF job.filesPerPod > 0 /\ counted[p] >= job.filesPerPod
       THEN End(p, "files_per_pod")
       ELSE IF Reached(p) THEN End(p, "target_bytes")
       ELSE Goto(p, "open") /\ UNCHANGED <<reason, exit>>
    /\ UNCHANGED <<job, sigterm, free, disk, index, remaining, buffered, written, counted,
                   failures, reading>>

\* The length of the file at the index, 0 if there is none.
Present(p) == IF index[p] < Len(disk[p]) THEN disk[p][index[p] + 1] ELSE 0

SetLength(p, n) ==
    disk' = [disk EXCEPT ![p] = [i \in 1 .. (IF index[p] < Len(@) THEN Len(@) ELSE index[p] + 1)
                                    |-> IF i = index[p] + 1 THEN n ELSE IF i <= Len(@) THEN @[i] ELSE 0]]

\* The directory is made and the file opened "wb": what it held is gone.
Open(p) ==
    /\ pc[p] = "open"
    /\ SetLength(p, 0) /\ free' = free + Present(p)
    /\ remaining' = [remaining EXCEPT ![p] = FileSize]
    /\ Goto(p, "write")
    /\ UNCHANGED <<job, sigterm, index, buffered, written, counted, failures, reason, exit,
                   reading>>

\* There is no room for a directory or a file.
FullAtOpen(p) ==
    /\ pc[p] = "open" /\ free = 0
    /\ End(p, "enospc")
    /\ UNCHANGED <<job, sigterm, free, disk, index, remaining, buffered, written, counted,
                   failures, reading>>

WriteSize(p) == IF ChunkSize < remaining[p] THEN ChunkSize ELSE remaining[p]

\* What waits to be put on the disk when a chunk is written.
Held(p) == buffered[p] + WriteSize(p)

Put(p, k) == k <= free /\ SetLength(p, Present(p) + k) /\ free' = free - k

\* Mutant: the target is looked at between files only.
ChunkToEnd(p) ==
    /\ pc[p] = "write" /\ remaining[p] > 0 /\ ~sigterm[p]
    /\ \E k \in 0 .. Held(p) :
          /\ Held(p) - k <= Buffer /\ (Held(p) <= Buffer => k = 0)
          /\ Put(p, k) /\ buffered' = [buffered EXCEPT ![p] = Held(p) - k]
    /\ CountWritten(p, WriteSize(p))
    /\ remaining' = [remaining EXCEPT ![p] = @ - WriteSize(p)]
    /\ Goto(p, IF remaining'[p] = 0 THEN "close" ELSE "write")
    /\ UNCHANGED <<job, sigterm, index, counted, failures, reason, exit, reading>>

\* A chunk is written, and counted: to the buffer if it fits in there, else the
\* disk takes at least what the buffer has no room for.
Chunk(p) ==
    /\ pc[p] = "write" /\ remaining[p] > 0 /\ ~sigterm[p]
    /\ \E k \in 0 .. Held(p) :
          /\ Held(p) - k <= Buffer /\ (Held(p) <= Buffer => k = 0)
          /\ Put(p, k) /\ buffered' = [buffered EXCEPT ![p] = Held(p) - k]
    /\ CountWritten(p, WriteSize(p))
    /\ remaining' = [remaining EXCEPT ![p] = @ - WriteSize(p)]
    /\ Goto(p, IF remaining'[p] = 0 \/ (job.target > 0 /\ written'[p] >= job.target)
                  THEN "close" ELSE "write")
    /\ UNCHANGED <<job, sigterm, index, counted, failures, reason, exit, reading>>

\* The signal flag is looked at before each chunk.
Interrupt(p) ==
    /\ pc[p] = "write" /\ sigterm[p]
    /\ Goto(p, "close")
    /\ UNCHANGED <<job, sigterm, fill, failures, exit, reading>>

\* The write of a chunk raises after k bytes reached the disk, those of the
\* buffer first.  The chunk is not counted, and the file is closed.
Raise(p, why, k) ==
    /\ pc[p] = "write" /\ remaining[p] > 0 /\ ~sigterm[p] /\ Held(p) > Buffer
    /\ Put(p, k) /\ buffered' = [buffered EXCEPT ![p] = IF k < @ THEN @ - k ELSE 0]
    /\ Goto(p, why)
    /\ UNCHANGED <<job, sigterm, index, remaining, written, counted, failures, reason, exit,
                   reading>>

Full(p) == free < Held(p) /\ Raise(p, "enospc", free)
WriteError(p) == \E k \in 0 .. Held(p) - 1 : Raise(p, "error", k)

\* Mutant: ENOSPC is waited out, in the hope that another pod makes room.
FullRetried(p) == Goto(p, "top") /\ UNCHANGED <<index, counted, failures, reason, exit>>

\* ENOSPC: the fill is over, and successful.
EndFull(p) == End(p, "enospc") /\ UNCHANGED <<index, counted, failures>>

\* Mutant: a file that failed is left behind for the next one.
FailedSkips(p) ==
    /\ CountFailure(p)
    /\ index' = [index EXCEPT ![p] = @ + 1]
    /\ IF job.failWrite THEN Exit(p, 1) ELSE Goto(p, "top") /\ UNCHANGED exit
    /\ UNCHANGED <<counted, reason>>

\* Another OSError: the file is tried again under its index, and what was
\* counted of it stays in bytes_written.
Failed(p) ==
    /\ CountFailure(p)
    /\ IF job.failWrite THEN Exit(p, 1) ELSE Goto(p, "top") /\ UNCHANGED exit
    /\ UNCHANGED <<index, counted, reason>>

Done(p) ==
    /\ counted' = [counted EXCEPT ![p] = @ + 1]
    /\ index' = [index EXCEPT ![p] = @ + 1]
    /\ Goto(p, "top")
    /\ UNCHANGED <<failures, reason, exit>>

\* The with statement closes the file, with no exception or with the one a
\* write raised; k bytes of the buffer reach the disk, the rest is lost.
Leave(p, k) ==
    /\ pc[p] \in {"close", "enospc", "error"}
    /\ Put(p, k) /\ buffered' = [buffered EXCEPT ![p] = 0]
    /\ UNCHANGED <<job, sigterm, remaining, written, reading>>

Close(p) ==
    /\ Leave(p, buffered[p])
    /\ \/ pc[p] = "close" /\ Done(p)
       \/ pc[p] = "enospc" /\ EndFull(p)
       \/ pc[p] = "error" /\ Failed(p)

\* The flush of the close raises, and its exception takes the place of another.
CloseFull(p) == free < buffered[p] /\ Leave(p, free) /\ EndFull(p)
CloseError(p) == \E k \in 0 .. buffered[p] : Leave(p, k) /\ Failed(p)

OpenError(p) ==
    /\ pc[p] = "open" /\ Failed(p)
    /\ UNCHANGED <<job, sigterm, free, disk, remaining, buffered, written, reading>>

\* mkdir raises whatever fail_on_write_error says.
MkdirError(p) ==
    /\ pc[p] = "open"
    /\ Exit(p, 1)
    /\ UNCHANGED <<job, sigterm, fill, failures, reading>>

Write(p) ==
    \/ Open(p) \/ FullAtOpen(p) \/ Chunk(p) \/ Interrupt(p) \/ Full(p)
    \/ Close(p) \/ CloseFull(p)
WriteFails(p) == OpenError(p) \/ WriteError(p) \/ CloseError(p) \/ MkdirError(p)

----------------------------------------------------------------------------
(* run_read.  The order within an epoch is a shuffle.                       *)

EpochBegins(p) ==
    /\ pc[p] = "epoch"
    /\ \E files \in Selections(p) : Plan(p, files) /\ todo' = [todo EXCEPT ![p] = files]
    /\ hot' = [hot EXCEPT ![p] = Hotset]
    /\ Goto(p, "read")
    /\ UNCHANGED <<job, sigterm, fill, failures, exit, epoch, current, artifact, verdict>>

\* One file of the shard: an error is recorded, and ends the pod if it must.
Read(p, f) ==
    /\ pc[p] = "read" /\ f \in todo[p]
    /\ todo' = [todo EXCEPT ![p] = @ \ {f}]
    /\ \/ current' = [current EXCEPT ![p] = f] /\ Goto(p, "output") /\ UNCHANGED <<failures, exit>>
       \/ /\ CountFailure(p)
          /\ IF job.failRead THEN Exit(p, 2) ELSE UNCHANGED <<pc, exit>>
          /\ UNCHANGED current
    /\ UNCHANGED <<job, sigterm, fill, epoch, planned, hot, artifact, verdict>>

SetArtifact(p, f, state) == artifact' = [artifact EXCEPT ![p][f] = state]

\* Mutant: a failed output is recorded, whatever fail_on_write_error says.
OutputTolerated(p, f) ==
    /\ pc[p] = "output" /\ f = current[p]
    /\ \/ SetArtifact(p, f, "whole") /\ Goto(p, "read") /\ UNCHANGED <<failures, exit>>
       \/ /\ \E state \in {artifact[p][f], "torn", "sidecar"} : SetArtifact(p, f, state)
          /\ Goto(p, "read") /\ UNCHANGED <<failures, exit>>
    /\ UNCHANGED <<job, sigterm, fill, epoch, planned, todo, hot, current, verdict>>

\* write_per_pod_output: the JSON sidecar, then the payload.  It may fail before
\* the sidecar, in it, or in the payload.
Output(p, f) ==
    /\ pc[p] = "output" /\ f = current[p]
    /\ \/ SetArtifact(p, f, "whole") /\ Goto(p, "read") /\ UNCHANGED <<failures, exit>>
       \/ /\ \E state \in {artifact[p][f], "torn", "sidecar"} : SetArtifact(p, f, state)
          /\ CountFailure(p)
          /\ IF job.failWrite THEN Exit(p, 3) ELSE Goto(p, "read") /\ UNCHANGED exit
    /\ UNCHANGED <<job, sigterm, fill, epoch, planned, todo, hot, current, verdict>>

ReadHot(p, f) ==
    /\ pc[p] = "read" /\ todo[p] = {} /\ f \in hot[p]
    /\ hot' = [hot EXCEPT ![p] = @ \ {f}]
    /\ \/ UNCHANGED <<pc, failures, exit>>
       \/ CountFailure(p) /\ IF job.failRead THEN Exit(p, 2) ELSE UNCHANGED <<pc, exit>>
    /\ UNCHANGED <<job, sigterm, fill, epoch, planned, todo, current, artifact, verdict>>

\* The exit code main gives a summary.
ExitCode(p) == IF failures[p] > 0 /\ (job.failRead \/ job.failWrite) THEN 1 ELSE 0

EpochEnds(p) ==
    /\ pc[p] = "read" /\ todo[p] = {} /\ hot[p] = {}
    /\ epoch' = [epoch EXCEPT ![p] = @ + 1]
    /\ IF epoch'[p] < Epochs
          THEN Goto(p, "epoch") /\ UNCHANGED exit
          ELSE Exit(p, ExitCode(p))
    /\ UNCHANGED <<job, sigterm, fill, failures, planned, todo, hot, current, artifact, verdict>>

ReadStep(p) ==
    \/ \E f \in Dataset : Read(p, f) \/ Output(p, f) \/ ReadHot(p, f)
    \/ EpochBegins(p) \/ EpochEnds(p)

\* run_verify, started when the Job is over, reads every sidecar of the run; a
\* payload is not looked at.
Verify ==
    /\ job.mode = "read-write-output" /\ verdict = "none"
    /\ \A p \in Pods : pc[p] = "ended"
    /\ verdict' = IF \E p \in Pods, f \in Dataset : artifact[p][f] = "torn"
                     THEN "failed" ELSE "passed"
    /\ UNCHANGED <<job, pc, sigterm, fill, failures, exit, epoch, planned, todo, hot, current,
                   artifact>>

----------------------------------------------------------------------------

Next ==
    \/ \E p \in Pods : Signal(p) \/ Top(p) \/ Write(p) \/ WriteFails(p) \/ ReadStep(p)
    \/ Verify

Spec == Init /\ [][Next]_vars

\* Pods are scheduled, and their calls end.  Nothing makes a write succeed.
FairSpec == Spec /\ \A p \in Pods : WF_vars(Top(p) \/ Write(p) \/ WriteFails(p) \/ ReadStep(p))

----------------------------------------------------------------------------

Succeeded(p) == pc[p] = "ended" /\ exit[p] = 0
Bytes(p) == Sum(disk[p], DOMAIN disk[p])

\* A pod never takes more of the filesystem than its target and less than one
\* chunk beyond it, nor more files than its limit, whatever failed and was
\* written again: 200 pods are sized against the capacity by these numbers.
FillIsBounded ==
    \A p \in Pods :
       /\ job.target > 0 => Bytes(p) < job.target + ChunkSize
       /\ job.filesPerPod > 0 => Len(disk[p]) <= job.filesPerPod

\* The summary of a fill agrees with the filesystem: every counted file is whole
\* but the last one, and without errors bytes_written is what is on disk; if
\* ENOSPC ended the fill, the disk may have part of a chunk more, or less by
\* what was counted and lost with the buffer.
SummaryIsHonest ==
    \A p \in Pods : job.mode = "write-only" /\ Succeeded(p) =>
       /\ \A i \in 1 .. Len(disk[p]) : i < counted[p] => disk[p][i] = FileSize
       /\ failures[p] = 0 =>
             /\ Bytes(p) < written[p] + ChunkSize /\ written[p] <= Bytes(p) + Buffer
             /\ reason[p] # "enospc" => written[p] = Bytes(p)

Whole(p) == {f \in Dataset : artifact[p][f] = "whole"}
Strict == job.mode = "read-write-output" /\ job.failRead /\ job.failWrite
Unlimited == job.filesPerPod = 0 /\ job.bytesPerPod = 0

\* Exit code 0 is earned: with both error flags set, every file of the shard has
\* its whole output; and if all pods exit 0, every file of the dataset has exactly
\* one, so that the Job covered the dataset without overlap, and verify-output
\* has nothing to complain of.
ExitZeroIsEarned ==
    Strict =>
       /\ Unlimited => \A p \in Pods : Succeeded(p) => Whole(p) = Shard(p)
       /\ (\A p \in Pods : Succeeded(p)) =>
             /\ Unlimited => \A f \in Dataset : \E p \in Pods :
                               \A q \in Pods : f \in Whole(q) <=> q = p
             /\ verdict # "failed"

\* calculate_budget, with the percentage taken in integers
MaxAllowedUsed == (Capacity * MaxUsed) \div 100
Budget == MaxAllowedUsed - job.used - Reserve
Allowed(bytes) == Budget >= 0 /\ bytes <= Budget

\* The budget protects the filesystem: if what the pods report as planned was
\* allowed, the payloads they leave, whatever they selected in which epoch and
\* however their writes ended, keep within the percentage and the reserve.
Payloads(p) == Sum(Payload, {f \in Dataset : artifact[p][f] # "none"})
BudgetProtects ==
    job.mode = "read-write-output" /\ Allowed(Sum(planned, Pods)) =>
       job.used + Sum([p \in Pods |-> Payloads(p)], Pods) + Reserve <= MaxAllowedUsed

\* Every pod ends, also one without a target, if its errors stop: the
\* filesystem is finite, and ENOSPC ends a fill.
PodsFinish ==
    \A p \in Pods : (<>[][~WriteFails(p)]_vars) => <>(pc[p] = "ended")
=============================================================================
