------------------------------ MODULE AzureFetch ------------------------------
(***************************************************************************)
(* One collection of AzureManagedLustreCollector after the other: the paged *)
(* discovery through Resource Graph, then the queries for every filesystem   *)
(* in a thread pool, each request retried on transient errors and each       *)
(* needing a token of the one CredentialChain all threads share.  The        *)
(* Resource Graph collectors of VMSS and VMs page and retry the same way.    *)
(*                                                                         *)
(* Backoff and jitter are pauses of no particular length.                  *)
(***************************************************************************)
EXTENDS Naturals, Sequences, FiniteSets

CONSTANTS
    Filesystems,
    Inventories,  \* the results a discovery may have, as sequences of pages
    Workers,      \* the threads of the pool
    Requests,     \* requests for one filesystem
    MaxRetries,
    Deployments, Outages,   \* see CredentialChain
    None          \* no job

RangeOf(s) == {s[i] : i \in DOMAIN s}

\* No two rows of a result are for the same filesystem: the query lists resources
\* and is ordered by what identifies them, which a skip token needs.
Unrepeated(found) ==
    \A k, l \in DOMAIN found : \A m \in DOMAIN found[k] : \A n \in DOMAIN found[l] :
        found[k][m] = found[l][n] => k = l /\ m = n

ASSUME FetchAssumption ==
    /\ Inventories \subseteq Seq(Seq(Filesystems))
    /\ \A i \in Inventories : i # <<>> /\ Unrepeated(i)
    /\ Requests \in Nat \ {0} /\ MaxRetries \in Nat
    /\ None \notin Filesystems
    /\ IsFiniteSet(Workers) /\ "collector" \notin Workers

VARIABLES
    pages,     \* Azure: what this discovery finds, page by page
    stage,     \* the collecting thread
    page,      \* the skip token: the number of the page to ask for
    rows,      \* all_rows
    queue,     \* work items no worker has taken
    job,       \* job[w]: the filesystem worker w collects
    batches,   \* batches[w]: the answers in its merged_metrics
    ready,     \* futures done and not yet seen: filesystem and batches, 0 raised
    metrics,   \* metrics[f]: the batches of f in the result
    errors,    \* error_count
    req,       \* req[t]: where thread t stands with its request
    tries,     \* tries[t]: attempt
    failed,    \* history: the errors that t's present request met, up to MaxRetries
    excused,   \* history: the work that Azure gave reason to give up
    conf, health, active, call, at, lived   \* CredentialChain

cred == <<conf, health, active, call, at, lived>>
pool == <<queue, job, batches, ready, metrics, errors>>
vars == <<pages, stage, page, rows, pool, req, tries, failed, excused, cred>>

Collector == "collector"
Threads == Workers \cup {Collector}

Credential == INSTANCE CredentialChain WITH Callers <- Threads

ASSUME DeploymentAssumption == Credential!CredentialAssumption

Init ==
    /\ pages = <<<<>>>> /\ stage = "over" /\ page = 1 /\ rows = <<>>
    /\ queue = <<>>
    /\ job = [w \in Workers |-> None]
    /\ batches = [w \in Workers |-> 0]
    /\ ready = {}
    /\ metrics = [f \in Filesystems |-> 0]
    /\ errors = 0
    /\ req = [t \in Threads |-> "none"]
    /\ tries = [t \in Threads |-> 0] /\ failed = [t \in Threads |-> 0]
    /\ excused = {}
    /\ Credential!Init

\* collect() is called.
Collect ==
    /\ stage \in {"over", "raised"}
    /\ pages' \in Inventories
    /\ stage' = "discover" /\ page' = 1 /\ rows' = <<>>
    /\ metrics' = [f \in Filesystems |-> 0]
    /\ errors' = 0
    /\ excused' = {}
    /\ UNCHANGED <<queue, job, batches, ready, req, tries, failed, cred>>

----------------------------------------------------------------------------
(* A request, of any thread.                                               *)

Working(t) == IF t = Collector THEN stage = "discover" ELSE job[t] # None
Work(t) == IF t = Collector THEN "discovery" ELSE job[t]

Goto(t, r) == req' = [req EXCEPT ![t] = r]

\* The client's pipeline asks for a token, or has one that is still good.
Send(t) ==
    /\ Working(t) /\ req[t] = "none"
    /\ \/ Credential!Begin(t) /\ Goto(t, "token")
       \/ Goto(t, "sent") /\ UNCHANGED cred
    /\ UNCHANGED <<pages, stage, page, rows, pool, tries, failed, excused>>

Authorize(t) ==
    /\ Credential!GetToken(t)
    /\ UNCHANGED <<pages, stage, page, rows, pool, req, tries, failed, excused>>

Authorized(t) ==
    /\ req[t] = "token" /\ call[t] = "token"
    /\ Credential!Finish(t)
    /\ Goto(t, "sent")
    /\ UNCHANGED <<pages, stage, page, rows, pool, tries, failed, excused>>

\* Mutant: a page without a skip token ends the discovery without its rows.
LastPageLost ==
    /\ page' = page + 1
    /\ IF page < Len(pages)
          THEN rows' = rows \o pages[page] /\ UNCHANGED <<stage, queue>>
          ELSE /\ rows' = rows
               /\ stage' = IF rows' = <<>> THEN "over" ELSE "pool"
               /\ queue' = rows'
    /\ UNCHANGED <<job, batches, ready, metrics, errors>>

\* A page is added to all_rows; without a skip token the discovery is over, and
\* the pool gets its work if there is any.
PageArrives ==
    /\ rows' = rows \o pages[page]
    /\ page' = page + 1
    /\ IF page < Len(pages)
          THEN UNCHANGED <<stage, queue>>
          ELSE /\ stage' = IF rows' = <<>> THEN "over" ELSE "pool"
               /\ queue' = rows'
    /\ UNCHANGED <<job, batches, ready, metrics, errors>>

\* A batch is added to merged_metrics; the last one completes the future.
BatchArrives(w) ==
    /\ IF batches[w] + 1 < Requests
          THEN batches' = [batches EXCEPT ![w] = @ + 1] /\ UNCHANGED <<job, ready>>
          ELSE /\ ready' = ready \cup {<<job[w], Requests>>}
               /\ job' = [job EXCEPT ![w] = None]
               /\ batches' = [batches EXCEPT ![w] = 0]
    /\ UNCHANGED <<stage, page, rows, queue, metrics, errors>>

Fresh(t) == failed' = [failed EXCEPT ![t] = 0]

\* Mutant: one count of attempts for all the pages, or batches, of a query.
AnswerKeepsCount(t) ==
    /\ req[t] = "sent"
    /\ IF t = Collector THEN PageArrives ELSE BatchArrives(t)
    /\ Goto(t, "none") /\ Fresh(t)
    /\ UNCHANGED <<pages, tries, excused, cred>>

\* The next request has its own count of attempts.
Answer(t) ==
    /\ req[t] = "sent"
    /\ IF t = Collector THEN PageArrives ELSE BatchArrives(t)
    /\ Goto(t, "none") /\ tries' = [tries EXCEPT ![t] = 0] /\ Fresh(t)
    /\ UNCHANGED <<pages, excused, cred>>

\* The request raises: collect() with it, or the future of the filesystem, and
\* what has arrived is dropped.
Raise(t) ==
    /\ IF t = Collector
          THEN stage' = "raised" /\ rows' = <<>> /\ UNCHANGED <<job, batches, ready>>
          ELSE /\ ready' = ready \cup {<<job[t], 0>>}
               /\ job' = [job EXCEPT ![t] = None]
               /\ batches' = [batches EXCEPT ![t] = 0]
               /\ UNCHANGED <<stage, rows>>
    /\ Goto(t, "none") /\ tries' = [tries EXCEPT ![t] = 0] /\ Fresh(t)
    /\ UNCHANGED <<pages, page, queue, metrics, errors>>

\* attempt >= max_retries or not _is_retryable_exception(exc)
GivesUp(t, kind) == kind = "fatal" \/ tries[t] >= MaxRetries

\* Mutant: the failed attempt is not counted.
SameAttempt(t) == tries[t]

NextAttempt(t) == tries[t] + 1

\* The service fails: with a status out of 408, 409, 429, 500, 502, 503, 504 or
\* without one ("transient"), or otherwise, an answer of an unexpected type included.
Error(t) ==
    /\ req[t] = "sent"
    /\ \E kind \in {"transient", "fatal"} :
          /\ IF GivesUp(t, kind)
                THEN Raise(t)
                ELSE /\ Goto(t, "wait") /\ tries' = [tries EXCEPT ![t] = NextAttempt(t)]
                     /\ failed' = [failed EXCEPT ![t] = IF @ >= MaxRetries THEN @ ELSE @ + 1]
                     /\ UNCHANGED <<pages, stage, page, rows, pool>>
          /\ excused' = IF kind = "fatal" \/ failed[t] >= MaxRetries
                           THEN excused \cup {Work(t)} ELSE excused
    /\ UNCHANGED cred

\* ClientAuthenticationError is not retried.  The failure is excused if every
\* identity was down at some time of the call.
Unauthorized(t) ==
    /\ req[t] = "token" /\ call[t] = "raise"
    /\ Credential!Finish(t)
    /\ Raise(t)
    /\ excused' = IF \E k \in 1 .. Len(Credential!chain) :
                        Credential!Uses(conf, Credential!chain[k]) \cap lived[t] # {}
                     THEN excused ELSE excused \cup {Work(t)}

\* The pause before a retry is over.
Retry(t) ==
    /\ req[t] = "wait"
    /\ Goto(t, "none")
    /\ UNCHANGED <<pages, stage, page, rows, pool, tries, failed, excused, cred>>

Request(t) == Send(t) \/ Authorize(t) \/ Authorized(t) \/ Answer(t) \/ Error(t)
              \/ Unauthorized(t) \/ Retry(t)

----------------------------------------------------------------------------
(* The pool.                                                               *)

Take(w) ==
    /\ job[w] = None /\ queue # <<>>
    /\ job' = [job EXCEPT ![w] = Head(queue)]
    /\ queue' = Tail(queue)
    /\ UNCHANGED <<pages, stage, page, rows, batches, ready, metrics, errors, req, tries,
                   failed, excused, cred>>

Left == Len(queue) + Cardinality({w \in Workers : job[w] # None}) + Cardinality(ready)

\* One future of as_completed; after the last one collect() returns.
Merge ==
    /\ stage = "pool"
    /\ \E r \in ready :
          /\ ready' = ready \ {r}
          /\ IF r[2] = 0
                THEN errors' = errors + 1 /\ UNCHANGED metrics
                ELSE metrics' = [metrics EXCEPT ![r[1]] = @ + r[2]] /\ UNCHANGED errors
    /\ stage' = IF Left = 1 THEN "over" ELSE "pool"
    /\ UNCHANGED <<pages, page, rows, queue, job, batches, req, tries, failed, excused, cred>>

----------------------------------------------------------------------------

\* The identities behind the credentials come and go.
Identity ==
    /\ \E i \in Credential!Identities : Credential!Change(i)
    /\ UNCHANGED <<pages, stage, page, rows, pool, req, tries, failed, excused>>

Next ==
    \/ Collect \/ Merge \/ Identity
    \/ \E t \in Threads : Request(t)
    \/ \E w \in Workers : Take(w)

Spec == Init /\ [][Next]_vars

\* Threads are scheduled and requests end, with an answer or without.
FairSpec ==
    /\ Spec
    /\ WF_vars(Merge)
    /\ \A t \in Threads : WF_vars(Request(t))
    /\ \A w \in Workers : WF_vars(Take(w))

----------------------------------------------------------------------------

TypeOK ==
    /\ stage \in {"over", "discover", "pool", "raised"}
    /\ page \in 1 .. Len(pages) + 1
    /\ rows \in Seq(Filesystems)
    /\ queue \in Seq(Filesystems)
    /\ job \in [Workers -> Filesystems \cup {None}]
    /\ batches \in [Workers -> 0 .. Requests - 1]
    /\ ready \subseteq (Filesystems \X {0, Requests})
    /\ metrics \in [Filesystems -> {0, Requests}]
    /\ errors \in 0 .. Len(rows)
    /\ req \in [Threads -> {"none", "token", "sent", "wait"}]
    /\ tries \in [Threads -> 0 .. MaxRetries] /\ failed = tries
    /\ excused \subseteq Filesystems \cup {"discovery"}
    /\ Credential!TypeOK

\* The collector implements FetchRound: whatever was retried, raised or finished
\* out of order, each row of each page is accounted for exactly once, delivered
\* with all its batches or counted in error_count.  RemoveStale of LustreGauges
\* rests on it: it takes a result with error_count = 0 for complete.
Found(n) == UNION {RangeOf(pages[k]) : k \in 1 .. n}
Pending == RangeOf(queue) \cup (RangeOf(job) \ {None}) \cup {r[1] : r \in ready}

Round == INSTANCE FetchRound WITH
    there <- Found(Len(pages)),
    over <- stage # "pool",
    todo <- Pending,
    good <- {f \in Filesystems : metrics[f] = Requests},
    bad <- errors

RoundsAreComplete == Round!Spec

\* What LustreGauges makes of it: a result misses as many of the filesystems it
\* discovered as error_count says, so none if it is 0.
ErrorsAreCounted ==
    stage = "over" => errors = Cardinality({f \in RangeOf(rows) : metrics[f] # Requests})

\* A collection fails, or misses a filesystem, only if Azure gave it cause: an
\* answer that is not transient, transient errors more often than max_retries for
\* one request, or identities none of which was up throughout a get_token.
OnlyForCause ==
    /\ stage = "raised" => "discovery" \in excused
    /\ \A r \in ready : r[2] = 0 => r[1] \in excused

\* collect() comes back, however long Azure goes on failing.
CollectEnds == stage \in {"discover", "pool"} ~> stage \in {"over", "raised"}

\* The properties of CredentialChain, with the pool's threads as its callers.
NoFalseRefusal == Credential!NoFalseRefusal
TokensAreRequested == Credential!TokensAreRequested
ActiveSettles == Credential!ActiveSettles
=============================================================================
