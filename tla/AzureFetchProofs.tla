-------------------------- MODULE AzureFetchProofs --------------------------
(***************************************************************************)
(* Proofs about AzureFetch and the CredentialChain its threads share, for any *)
(* number of threads, filesystems and retries, and any deployments: every     *)
(* failure has a cause, and every round is complete (FetchRound).            *)
(***************************************************************************)
EXTENDS AzureFetch, FiniteSetTheorems, TLAPS

chain == Credential!chain
Uses(k) == Credential!Uses(conf, chain[k])

\* The composition moves the credential chain by the chain's own steps.
LEMMA CredentialStep ==
  ASSUME [Next]_vars
  PROVE  [Credential!Next]_cred
<1>1. ASSUME NEW t \in Threads, Request(t)
      PROVE  [Credential!Next]_cred
  BY <1>1 DEF Request, Send, Authorize, Authorized, Answer, Error, Unauthorized, Retry,
              Credential!Next
<1>2. ASSUME NEW w \in Workers, Take(w)
      PROVE  UNCHANGED cred
  BY <1>2 DEF Take
<1>3. ASSUME Collect \/ Merge
      PROVE  UNCHANGED cred
  BY <1>3 DEF Collect, Merge
<1>4. ASSUME Identity
      PROVE  Credential!Next
  BY <1>4 DEF Identity, Credential!Next
<1>5. ASSUME UNCHANGED vars
      PROVE  UNCHANGED cred
  BY <1>5 DEF vars
<1> QED
  BY <1>1, <1>2, <1>3, <1>4, <1>5 DEF Next

----------------------------------------------------------------------------
(* The credential chain.                                                   *)

LEMMA LinkIsSeq ==
  ASSUME NEW c, NEW member \in Credential!Members, NEW wanted
  PROVE  Credential!Link(c, member, wanted) \in Seq(Credential!Members)
<1>1. <<member>> \in Seq(Credential!Members) /\ <<>> \in Seq(Credential!Members)
  OBVIOUS
<1>2. Credential!Link(c, member, wanted) \in {<<member>>, <<>>}
  BY ZenonT(20) DEF Credential!Link
<1> QED
  BY <1>1, <1>2

LEMMA ChainIsSeq == \A c : Credential!Chain(c) \in Seq(Credential!Members)
<1> SUFFICES ASSUME NEW c
             PROVE  Credential!Chain(c) \in Seq(Credential!Members)
  OBVIOUS
<1> DEFINE S == Seq(Credential!Members)
<1>1. /\ Credential!Link(c, "service-principal", Credential!SecretOnly(c)) \in S
      /\ Credential!Link(c, "workload-identity", c.federated /\ ~Credential!SecretOnly(c)) \in S
      /\ Credential!Link(c, "default-azure-credential", ~Credential!SecretOnly(c)) \in S
  BY LinkIsSeq DEF Credential!Members
<1>2. \A u, v \in S : u \o v \in S
  OBVIOUS
<1>3. <<>> \in S
  OBVIOUS
<1> HIDE DEF S
<1>4. Credential!Chain(c) \in S
  BY <1>1, <1>2, <1>3 DEF Credential!Chain
<1> QED
  BY <1>4 DEF S

LEMMA ChainLength == Len(chain) \in Nat
  BY ChainIsSeq DEF chain, Credential!chain

\* A position is in the chain while a member of it is asked, and beyond when
\* all have been.
Position(t) ==
    /\ call[t] \in {"cached", "keep", "token"} => at[t] \in 1 .. Len(chain)
    /\ call[t] = "walk" => at[t] \in 1 .. Len(chain) + 1

\* The members a walk has passed cannot have used an identity that was up all along.
Passed(t) ==
    call[t] = "walk" =>
       \A k \in 1 .. Len(chain) : k < at[t] => Uses(k) \cap lived[t] = {}

Refused(t) == call[t] = "raise" => \A k \in 1 .. Len(chain) : Uses(k) \cap lived[t] = {}

ChainInv ==
    /\ call \in [Threads -> Credential!Phases]
    /\ at \in [Threads -> 0 .. Len(chain) + 1]
    /\ active \in 0 .. Len(chain)
    /\ health \in [Credential!Identities -> {"up"} \cup Outages]
    /\ lived \in [Threads -> SUBSET Credential!Up]
    /\ \A t \in Threads : Position(t) /\ Passed(t) /\ Refused(t)

LEMMA ChainInvInit == Credential!Init => ChainInv
  BY ChainLength DEF Credential!Init, ChainInv, Position, Passed, Refused, Credential!Phases,
                     Credential!Up

LEMMA ChainConstant ==
  ASSUME [Credential!Next]_cred
  PROVE  conf' = conf
  BY DEF Credential!Next, Credential!Change, Credential!Begin, Credential!GetToken,
         Credential!Cached, Credential!ClearActive, Credential!Try, Credential!Keep,
         Credential!Refuse, Credential!Finish, cred

LEMMA ChainInvNext ==
  ASSUME ChainInv, [Credential!Next]_cred
  PROVE  ChainInv'
<1>1. conf' = conf /\ chain' = chain /\ Len(chain) \in Nat /\ \A k : Uses(k)' = Uses(k)
  BY ChainConstant, ChainLength DEF chain, Credential!chain, Uses
<1> USE DEF ChainInv
<1>2. ASSUME NEW i \in Credential!Identities, Credential!Change(i)
      PROVE  ChainInv'
  <2>1. /\ call' = call /\ at' = at /\ active' = active
        /\ health' \in [Credential!Identities -> {"up"} \cup Outages]
    BY <1>2 DEF Credential!Change
  <2>2. \A t \in Threads : lived'[t] = lived[t] \ {i}
    BY <1>2 DEF Credential!Change
  <2>3. Credential!Up \ {i} \subseteq Credential!Up'
    BY <1>2 DEF Credential!Change, Credential!Up
  <2>4. lived' \in [Threads -> SUBSET Credential!Up']
    BY <1>2, <2>2, <2>3 DEF Credential!Change
  <2>5. \A t \in Threads : (Position(t) /\ Passed(t) /\ Refused(t))'
    BY <1>1, <2>1, <2>2 DEF Position, Passed, Refused
  <2> QED
    BY <1>1, <2>1, <2>4, <2>5
<1>3. ASSUME NEW t \in Threads, Credential!Begin(t)
      PROVE  ChainInv'
  <2>1. health' = health /\ active' = active /\ Credential!Up' = Credential!Up
    BY <1>3 DEF Credential!Begin, Credential!Up
  <2>2. lived' \in [Threads -> SUBSET Credential!Up'] /\ \A u \in Threads \ {t} : lived'[u] = lived[u]
    BY <1>3, <2>1 DEF Credential!Begin
  <2> DEFINE k == IF active = 0 THEN 1 ELSE active
             c == IF active = 0 THEN "walk" ELSE "cached"
  <2>6. k \in 0 .. Len(chain) + 1 /\ c \in Credential!Phases
    BY <1>1 DEF Credential!Phases
  <2>7. call' = [call EXCEPT ![t] = c] /\ at' = [at EXCEPT ![t] = k]
    BY <1>3 DEF Credential!Begin, Credential!Goto
  <2>3. /\ call' \in [Threads -> Credential!Phases] /\ at' \in [Threads -> 0 .. Len(chain) + 1]
        /\ \A u \in Threads \ {t} : call'[u] = call[u] /\ at'[u] = at[u]
        /\ \/ call'[t] = "walk" /\ at'[t] = 1
           \/ call'[t] = "cached" /\ at'[t] \in 1 .. Len(chain)
    BY <1>1, <2>6, <2>7
  <2>4. \A u \in Threads : (Position(u) /\ Passed(u) /\ Refused(u))'
    BY <1>1, <2>2, <2>3 DEF Position, Passed, Refused
  <2> QED
    BY <1>1, <2>1, <2>2, <2>3, <2>4
<1>4. ASSUME NEW t \in Threads, Credential!Cached(t)
      PROVE  ChainInv'
  <2>1. UNCHANGED <<health, active, at, lived>> /\ Credential!Up' = Credential!Up
    BY <1>4 DEF Credential!Cached, Credential!Up
  <2>2. /\ call' \in [Threads -> Credential!Phases] /\ \A u \in Threads \ {t} : call'[u] = call[u]
        /\ call[t] = "cached" /\ call'[t] \in {"token", "clear"}
    BY <1>4 DEF Credential!Cached, Credential!Goto, Credential!Phases
  <2>3. \A u \in Threads : (Position(u) /\ Passed(u) /\ Refused(u))'
    BY <1>1, <2>1, <2>2 DEF Position, Passed, Refused
  <2> QED
    BY <1>1, <2>1, <2>2, <2>3
<1>5. ASSUME NEW t \in Threads, Credential!ClearActive(t)
      PROVE  ChainInv'
  <2>1. UNCHANGED <<health, lived>> /\ active' = 0 /\ Credential!Up' = Credential!Up
    BY <1>5 DEF Credential!ClearActive, Credential!Up
  <2>2. /\ call' \in [Threads -> Credential!Phases] /\ at' \in [Threads -> 0 .. Len(chain) + 1]
        /\ \A u \in Threads \ {t} : call'[u] = call[u] /\ at'[u] = at[u]
        /\ call'[t] = "walk" /\ at'[t] = 1
    BY <1>1, <1>5 DEF Credential!ClearActive, Credential!Goto, Credential!Phases
  <2>3. \A u \in Threads : (Position(u) /\ Passed(u) /\ Refused(u))'
    BY <1>1, <2>1, <2>2 DEF Position, Passed, Refused
  <2> QED
    BY <1>1, <2>1, <2>2, <2>3
<1>6. ASSUME NEW t \in Threads, Credential!Try(t)
      PROVE  ChainInv'
  <2>1. UNCHANGED <<health, active, lived>> /\ Credential!Up' = Credential!Up
    BY <1>6 DEF Credential!Try, Credential!Up
  <2>2. call[t] = "walk" /\ at[t] \in 1 .. Len(chain) /\ lived[t] \subseteq Credential!Up
    BY <1>1, <1>6 DEF Credential!Try, chain, Position
  <2>3. CASE Credential!Answers(t)
    <3>1. /\ at' = at /\ call' \in [Threads -> Credential!Phases] /\ call'[t] = "keep"
          /\ \A u \in Threads \ {t} : call'[u] = call[u]
      BY <1>6, <2>3 DEF Credential!Try, Credential!Goto, Credential!Phases
    <3>2. \A u \in Threads : (Position(u) /\ Passed(u) /\ Refused(u))'
      BY <1>1, <2>1, <2>2, <3>1 DEF Position, Passed, Refused
    <3> QED
      BY <1>1, <2>1, <3>1, <3>2
  <2>4. CASE ~Credential!Answers(t)
    <3>1. /\ call' = call /\ at' \in [Threads -> 0 .. Len(chain) + 1] /\ at'[t] = at[t] + 1
          /\ \A u \in Threads \ {t} : at'[u] = at[u]
      BY <1>1, <1>6, <2>2, <2>4 DEF Credential!Try
    <3>2. Uses(at[t]) \cap lived[t] = {}
      BY <2>2, <2>4 DEF Credential!Answers, Uses, chain
    <3>3. \A k \in 1 .. Len(chain) : k < at'[t] => k < at[t] \/ k = at[t]
      BY <1>1, <2>2, <3>1
    <3>4. Passed(t)'
      BY <1>1, <2>1, <2>2, <3>1, <3>2, <3>3 DEF Passed
    <3>5. \A u \in Threads : (Position(u) /\ Refused(u))' /\ (u # t => Passed(u)')
      BY <1>1, <2>1, <2>2, <3>1 DEF Position, Passed, Refused
    <3> QED
      BY <1>1, <2>1, <3>1, <3>4, <3>5
  <2> QED
    BY <2>3, <2>4
<1>7. ASSUME NEW t \in Threads, Credential!Keep(t)
      PROVE  ChainInv'
  <2>1. UNCHANGED <<health, at, lived>> /\ Credential!Up' = Credential!Up
    BY <1>7 DEF Credential!Keep, Credential!Up
  <2>2. /\ call' \in [Threads -> Credential!Phases] /\ \A u \in Threads \ {t} : call'[u] = call[u]
        /\ call[t] = "keep" /\ call'[t] = "token" /\ active' \in 0 .. Len(chain)
    BY <1>1, <1>7 DEF Credential!Keep, Credential!Goto, Credential!Phases, Position
  <2>3. \A u \in Threads : (Position(u) /\ Passed(u) /\ Refused(u))'
    BY <1>1, <2>1, <2>2 DEF Position, Passed, Refused
  <2> QED
    BY <1>1, <2>1, <2>2, <2>3
<1>8. ASSUME NEW t \in Threads, Credential!Refuse(t)
      PROVE  ChainInv'
  <2>1. UNCHANGED <<health, active, at, lived>> /\ Credential!Up' = Credential!Up
    BY <1>8 DEF Credential!Refuse, Credential!Up
  <2>2. /\ call' \in [Threads -> Credential!Phases] /\ \A u \in Threads \ {t} : call'[u] = call[u]
        /\ call[t] = "walk" /\ call'[t] = "raise" /\ at[t] > Len(chain)
    BY <1>8 DEF Credential!Refuse, Credential!Goto, Credential!Phases, chain
  <2>3. \A k \in 1 .. Len(chain) : k < at[t]
    BY <1>1, <2>2
  <2>4. \A k \in 1 .. Len(chain) : Uses(k) \cap lived[t] = {}
    BY <2>2, <2>3 DEF Passed
  <2>5. \A u \in Threads : (Position(u) /\ Passed(u) /\ Refused(u))'
    BY <1>1, <2>1, <2>2, <2>4 DEF Position, Passed, Refused
  <2> QED
    BY <1>1, <2>1, <2>2, <2>5
<1>9. ASSUME NEW t \in Threads, Credential!Finish(t)
      PROVE  ChainInv'
  <2>1. UNCHANGED <<health, active>> /\ Credential!Up' = Credential!Up
    BY <1>9 DEF Credential!Finish, Credential!Up
  <2>2. /\ call' \in [Threads -> Credential!Phases] /\ at' \in [Threads -> 0 .. Len(chain) + 1]
        /\ lived' \in [Threads -> SUBSET Credential!Up']
        /\ \A u \in Threads \ {t} : call'[u] = call[u] /\ at'[u] = at[u] /\ lived'[u] = lived[u]
        /\ call'[t] = "idle"
    BY <1>1, <1>9, <2>1 DEF Credential!Finish, Credential!Goto, Credential!Phases
  <2>3. \A u \in Threads : (Position(u) /\ Passed(u) /\ Refused(u))'
    BY <1>1, <2>1, <2>2 DEF Position, Passed, Refused
  <2> QED
    BY <1>1, <2>1, <2>2, <2>3
<1>10. CASE UNCHANGED cred
  BY <1>1, <1>10 DEF cred, Position, Passed, Refused, Credential!Up
<1> QED
  BY <1>2, <1>3, <1>4, <1>5, <1>6, <1>7, <1>8, <1>9, <1>10
     DEF Credential!Next, Credential!GetToken

\* A get_token that raises is right to: each identity the chain can use was down
\* at some time of the call, whatever other threads did with _active meanwhile.
THEOREM RefusalsAreTrue == Spec => []NoFalseRefusal
<1>1. Init => ChainInv
  BY ChainInvInit DEF Init
<1>2. ChainInv /\ [Next]_vars => ChainInv'
  BY CredentialStep, ChainInvNext
<1>3. ChainInv => NoFalseRefusal
  BY DEF ChainInv, Refused, NoFalseRefusal, Credential!NoFalseRefusal, Uses, chain
<1> QED
  BY <1>1, <1>2, <1>3, PTL DEF Spec

\* Whoever has or keeps a token stands at a member of the chain, of a deployment
\* of this instance.
LEMMA DeploymentStays == Spec => [](conf \in Credential!AllDeployments)
<1>1. Init => conf \in Credential!AllDeployments
  BY DeploymentAssumption DEF Init, Credential!Init, Credential!CredentialAssumption
<1>2. conf \in Credential!AllDeployments /\ [Next]_vars => (conf \in Credential!AllDeployments)'
  BY CredentialStep, ChainConstant
<1> QED
  BY <1>1, <1>2, PTL DEF Spec

\* A chain for the secret has no other member, and any other chain not that one.
LEMMA ChainIsSelected ==
  ASSUME NEW c, NEW k \in 1 .. Len(Credential!Chain(c))
  PROVE  Credential!Chain(c)[k] = "service-principal" <=> Credential!SecretOnly(c)
<1> DEFINE Sp == Credential!Link(c, "service-principal", Credential!SecretOnly(c))
           Wi == Credential!Link(c, "workload-identity", c.federated /\ ~Credential!SecretOnly(c))
           Da == Credential!Link(c, "default-azure-credential", ~Credential!SecretOnly(c))
<1>1. /\ Sp \in {<<"service-principal">>, <<>>}
      /\ Wi \in {<<"workload-identity">>, <<>>}
      /\ Da \in {<<"default-azure-credential">>, <<>>}
  BY ZenonT(20) DEF Credential!Link
<1>2. Credential!SecretOnly(c) => Wi = <<>> /\ Da = <<>>
  BY ZenonT(20) DEF Credential!Link
<1>3. ~Credential!SecretOnly(c) => Sp = <<>>
  BY ZenonT(20) DEF Credential!Link
<1>4. Credential!Chain(c) = <<>> \/ Credential!Chain(c) = Sp \o Wi \o Da
  BY ZenonT(20) DEF Credential!Chain
<1> HIDE DEF Sp, Wi, Da
<1>5. Credential!Chain(c) = Sp \o Wi \o Da
  BY <1>4
<1>6. CASE Credential!SecretOnly(c)
  <2>1. Credential!Chain(c) \in {<<"service-principal">>, <<>>}
    BY <1>1, <1>2, <1>5, <1>6
  <2> QED
    BY <1>6, <2>1
<1>7. CASE ~Credential!SecretOnly(c)
  <2>1. Credential!Chain(c) = Wi \o Da
    BY <1>1, <1>3, <1>5, <1>7
  <2> DEFINE Others == {"workload-identity", "default-azure-credential"}
  <2>2. Wi \o Da \in Seq(Others)
    <3>1. <<"workload-identity">> \in Seq(Others) /\ <<"default-azure-credential">> \in Seq(Others)
          /\ <<>> \in Seq(Others)
      OBVIOUS
    <3>2. Wi \in Seq(Others) /\ Da \in Seq(Others)
      BY <1>1, <3>1
    <3> QED
      BY <3>2
  <2>3. Credential!Chain(c)[k] \in {"workload-identity", "default-azure-credential"}
    BY <2>1, <2>2
  <2> QED
    BY <1>7, <2>3
<1> QED
  BY <1>6, <1>7

\* Every token comes from an identity the deployment selected, whichever member
\* answered and whatever other threads remembered meanwhile: for all deployments.
THEOREM TokensComeFromTheSelection == Spec => []TokensAreRequested
<1> DEFINE Inv == ChainInv /\ conf \in Credential!AllDeployments
<1>1. Init => ChainInv
  BY ChainInvInit DEF Init
<1>2. ChainInv /\ [Next]_vars => ChainInv'
  BY CredentialStep, ChainInvNext
<1>3. Inv => TokensAreRequested
  <2> SUFFICES ASSUME Inv, NEW t \in Threads, call[t] \in {"token", "keep"}
               PROVE  LET used == Credential!Uses(conf, Credential!chain[at[t]])
                      IN  /\ Credential!SecretOnly(conf) => used = {"secret"}
                          /\ conf.mode = "workload_identity" => "secret" \notin used
    BY DEF TokensAreRequested, Credential!TokensAreRequested
  <2>1. at[t] \in 1 .. Len(Credential!Chain(conf))
    BY DEF ChainInv, Position, chain, Credential!chain
  <2> DEFINE member == Credential!Chain(conf)[at[t]]
  <2>2. member = "service-principal" <=> Credential!SecretOnly(conf)
    BY <2>1, ChainIsSelected
  <2>3. conf.mode = "workload_identity" => ~Credential!SecretOnly(conf)
    BY DEF Credential!SecretOnly
  <2> HIDE DEF member
  <2>4. CASE Credential!SecretOnly(conf)
    <3>1. Credential!Uses(conf, member) = {"secret"}
      BY <2>2, <2>4 DEF Credential!Uses
    <3> QED
      BY <2>3, <2>4, <3>1 DEF member, Credential!chain
  <2>5. CASE ~Credential!SecretOnly(conf)
    <3>1. member # "service-principal"
      BY <2>2, <2>5
    <3>2. conf.mode = "workload_identity" => "secret" \notin Credential!Uses(conf, member)
      BY <3>1 DEF Credential!Uses
    <3> QED
      BY <2>5, <3>2 DEF member, Credential!chain
  <2> QED
    BY <2>4, <2>5
<1> QED
  BY <1>1, <1>2, <1>3, DeploymentStays, PTL DEF Spec

----------------------------------------------------------------------------
(* The collection.                                                         *)

\* Between two collections the pool has nothing of the last one.
Idle == queue = <<>> /\ ready = {} /\ \A w \in Workers : job[w] = None

\* The attempts are counted right: each request from zero, each error once.
Counted == tries = failed

LEMMA CountedNext ==
  ASSUME Counted, [Next]_vars
  PROVE  Counted'
<1> USE DEF Counted
<1>1. ASSUME NEW t \in Threads, Request(t)
      PROVE  Counted'
  <2>1. CASE Send(t) \/ Authorize(t) \/ Authorized(t) \/ Retry(t)
    BY <2>1 DEF Send, Authorize, Authorized, Retry
  <2>2. CASE Answer(t)
    BY <2>2 DEF Answer, Fresh
  <2>3. CASE Error(t)
    BY <2>3 DEF Error, GivesUp, NextAttempt, Raise, Fresh
  <2>4. CASE Unauthorized(t)
    BY <2>4 DEF Unauthorized, Raise, Fresh
  <2> QED
    BY <1>1, <2>1, <2>2, <2>3, <2>4 DEF Request
<1>2. CASE Collect \/ Merge \/ Identity \/ UNCHANGED vars
  BY <1>2 DEF Collect, Merge, Identity, vars
<1>3. ASSUME NEW w \in Workers, Take(w)
      PROVE  Counted'
  BY <1>3 DEF Take
<1> QED
  BY <1>1, <1>2, <1>3 DEF Next

PoolInv ==
    /\ pages \in Seq(Seq(Filesystems)) /\ rows \in Seq(Filesystems)
    /\ stage = "discover" => page \in 1 .. Len(pages)
    /\ queue \in Seq(Filesystems)
    /\ job \in [Workers -> Filesystems \cup {None}]
    /\ IsFiniteSet(ready)
    /\ req \in [Threads -> {"none", "token", "sent", "wait"}]
    /\ \A t \in Threads : req[t] # "none" => Working(t)
    /\ stage # "pool" => Idle
    /\ Counted
    /\ OnlyForCause

LEMMA PoolInvInit == Init => PoolInv
<1>1. IsFiniteSet({})
  BY FS_EmptySet
<1>2. <<<<>>>> \in Seq(Seq(Filesystems)) /\ <<>> \in Seq(Filesystems)
  OBVIOUS
<1> QED
  BY <1>1, <1>2 DEF Init, PoolInv, Idle, Counted, OnlyForCause, Threads

LEMMA LastMerge ==
  ASSUME PoolInv, NEW r \in ready, Left = 1
  PROVE  queue = <<>> /\ ready \ {r} = {} /\ \A w \in Workers : job[w] = None
<1> DEFINE Busy == {w \in Workers : job[w] # None}
<1>1. IsFiniteSet(Busy) /\ IsFiniteSet(ready) /\ IsFiniteSet(ready \ {r})
  BY FS_Subset, FS_RemoveElement, FetchAssumption DEF PoolInv
<1>2. Cardinality(Busy) \in Nat /\ Cardinality(ready) \in Nat /\ Cardinality(ready \ {r}) \in Nat
  BY <1>1, FS_CardinalityType
<1>3. Cardinality(ready \ {r}) = Cardinality(ready) - 1
  BY <1>1, FS_RemoveElement
<1>4. Len(queue) \in Nat /\ Len(queue) + Cardinality(Busy) + Cardinality(ready) = 1
  BY DEF Left, PoolInv
<1>5. Len(queue) = 0 /\ Cardinality(Busy) = 0 /\ Cardinality(ready \ {r}) = 0
  <2> HIDE DEF Busy
  <2> QED
    BY <1>2, <1>3, <1>4
<1>6. Busy = {} /\ ready \ {r} = {}
  BY <1>1, <1>5, FS_EmptySet
<1> QED
  BY <1>5, <1>6 DEF PoolInv

\* An error ends the collector's discovery or a worker's future, with a cause.
LEMMA RaiseKeepsPoolInv ==
  ASSUME PoolInv, NEW t \in Threads, req[t] # "none", Raise(t),
         excused' = excused \cup {Work(t)}, Counted'
  PROVE  PoolInv'
<1> USE DEF PoolInv
<1>1. Working(t)
  OBVIOUS
<1>2. /\ pages' = pages /\ page' = page /\ queue' = queue
      /\ req' = [req EXCEPT ![t] = "none"]
  BY DEF Raise, Goto
<1>3. CASE t = Collector
  <2>1. stage = "discover" /\ stage' = "raised" /\ rows' = <<>> /\ UNCHANGED <<job, ready>>
    BY <1>1, <1>3 DEF Raise, Working
  <2>2. "discovery" \in excused' /\ excused \subseteq excused'
    BY <1>3 DEF Work
  <2>3. \A u \in Threads : req'[u] # "none" => Working(u)'
    BY <1>2, <1>3, <2>1 DEF Working
  <2> QED
    BY <1>2, <2>1, <2>2, <2>3 DEF Idle, OnlyForCause
<1>4. CASE t # Collector
  <2>1. /\ t \in Workers /\ job[t] \in Filesystems /\ stage = "pool"
        /\ stage' = stage /\ rows' = rows
        /\ ready' = ready \cup {<<job[t], 0>>} /\ job' = [job EXCEPT ![t] = None]
    BY <1>1, <1>4 DEF Raise, Working, Threads, Idle
  <2>2. job[t] \in excused' /\ excused \subseteq excused'
    BY <1>4 DEF Work
  <2>3. IsFiniteSet(ready')
    BY <2>1, FS_AddElement
  <2>4. \A u \in Threads : req'[u] # "none" => Working(u)'
    BY <1>2, <2>1 DEF Working, Threads
  <2>5. OnlyForCause'
    BY <2>1, <2>2 DEF OnlyForCause
  <2>6. job' \in [Workers -> Filesystems \cup {None}]
    BY <2>1
  <2> QED
    BY <1>2, <2>1, <2>3, <2>4, <2>5, <2>6
<1> QED
  BY <1>3, <1>4

LEMMA RequestKeepsPoolInv ==
  ASSUME ChainInv, PoolInv, NEW t \in Threads, Request(t), Counted'
  PROVE  PoolInv'
<1> USE DEF PoolInv
<1> DEFINE Rest == <<pages, stage, page, rows, queue, job, ready, excused>>
<1>1. ASSUME UNCHANGED Rest, NEW r \in {"none", "token", "sent", "wait"},
             req' = req \/ (req' = [req EXCEPT ![t] = r] /\ (r = "none" \/ Working(t)))
      PROVE  PoolInv'
  <2>1. \A u \in Threads : req'[u] # "none" => Working(u)'
    BY <1>1 DEF Working
  <2>2. req' \in [Threads -> {"none", "token", "sent", "wait"}]
    BY <1>1
  <2> QED
    BY <1>1, <2>1, <2>2 DEF Idle, OnlyForCause
<1>2. CASE Send(t)
  BY <1>1, <1>2 DEF Send, Goto, pool
<1>3. CASE Authorize(t)
  BY <1>1, <1>3 DEF Authorize, pool
<1>4. CASE Authorized(t)
  BY <1>1, <1>4 DEF Authorized, Goto, pool
<1>5. CASE Retry(t)
  BY <1>1, <1>5 DEF Retry, Goto, pool
<1>6. CASE Answer(t)
  <2>1. /\ pages' = pages /\ excused' = excused /\ req' = [req EXCEPT ![t] = "none"]
        /\ Working(t)
    BY <1>6 DEF Answer, Goto
  <2>2. CASE t = Collector
    <3>1. PageArrives /\ stage = "discover" /\ Idle
      BY <1>6, <2>1, <2>2 DEF Answer, Working
    <3>2. pages[page] \in Seq(Filesystems) /\ Len(pages) \in Nat /\ page \in Nat
      BY <3>1
    <3>3. rows' \in Seq(Filesystems) /\ page' = page + 1 /\ UNCHANGED <<job, ready>>
      BY <3>1, <3>2 DEF PageArrives
    <3>4. \/ page' <= Len(pages) /\ stage' = "discover" /\ queue' = queue
          \/ stage' = "over" /\ queue' = <<>>
          \/ stage' = "pool" /\ queue' = rows'
      BY <3>1, <3>2 DEF PageArrives
    <3>5. \A u \in Threads : req'[u] # "none" => Working(u)'
      BY <2>1, <2>2, <3>3 DEF Working, Threads
    <3> QED
      <4>1. stage' # "pool" => Idle'
        BY <3>1, <3>3, <3>4 DEF Idle
      <4>2. OnlyForCause'
        BY <2>1, <3>3, <3>4 DEF OnlyForCause
      <4>3. stage' = "discover" => page' \in 1 .. Len(pages')
        BY <2>1, <3>2, <3>3, <3>4
      <4>4. queue' \in Seq(Filesystems)
        <5>1. <<>> \in Seq(Filesystems)
          OBVIOUS
        <5>2. queue' = queue \/ queue' = <<>> \/ queue' = rows'
          BY <3>4
        <5> QED
          BY <3>3, <5>1, <5>2
      <4> QED
        BY <2>1, <3>3, <3>5, <4>1, <4>2, <4>3, <4>4
  <2>3. CASE t # Collector
    <3>1. /\ BatchArrives(t) /\ t \in Workers /\ job[t] \in Filesystems /\ stage = "pool"
          /\ UNCHANGED <<stage, page, rows, queue>>
      BY <1>6, <2>1, <2>3 DEF Answer, BatchArrives, Working, Threads, Idle
    <3>2. \/ UNCHANGED <<job, ready>>
          \/ ready' = ready \cup {<<job[t], Requests>>} /\ job' = [job EXCEPT ![t] = None]
      BY <3>1 DEF BatchArrives
    <3>3. IsFiniteSet(ready') /\ job' \in [Workers -> Filesystems \cup {None}]
      <4>1. IsFiniteSet(ready')
        <5>1. CASE ready' = ready
          BY <5>1
        <5>2. CASE ready' = ready \cup {<<job[t], Requests>>}
          BY <5>2, FS_AddElement
        <5> QED
          BY <3>2, <5>1, <5>2
      <4>2. job' \in [Workers -> Filesystems \cup {None}]
        BY <3>2
      <4> QED
        BY <4>1, <4>2
    <3>4. \A u \in Threads : req'[u] # "none" => Working(u)'
      BY <2>1, <3>1, <3>2 DEF Working, Threads
    <3>5. OnlyForCause'
      BY <2>1, <3>1, <3>2, FetchAssumption DEF OnlyForCause
    <3> QED
      BY <2>1, <3>1, <3>3, <3>4, <3>5
  <2> QED
    BY <2>2, <2>3
<1>7. CASE Error(t)
  <2>1. PICK kind \in {"transient", "fatal"} :
           /\ IF GivesUp(t, kind)
                 THEN Raise(t)
                 ELSE /\ Goto(t, "wait")
                      /\ UNCHANGED <<pages, stage, page, rows, pool>>
           /\ excused' = IF GivesUp(t, kind) THEN excused \cup {Work(t)} ELSE excused
    BY <1>7 DEF Error, GivesUp, Counted
  <2>2. req[t] # "none" /\ Working(t)
    BY <1>7 DEF Error
  <2>3. CASE GivesUp(t, kind)
    BY <2>1, <2>2, <2>3, RaiseKeepsPoolInv
  <2>4. CASE ~GivesUp(t, kind)
    BY <1>1, <2>1, <2>2, <2>4 DEF Goto, pool
  <2> QED
    BY <2>3, <2>4
<1>8. CASE Unauthorized(t)
  <2>1. Refused(t)
    BY DEF ChainInv
  <2>2. ~\E k \in 1 .. Len(Credential!chain) :
           Credential!Uses(conf, Credential!chain[k]) \cap lived[t] # {}
    BY <1>8, <2>1 DEF Unauthorized, Refused, Uses, chain
  <2>3. excused' = excused \cup {Work(t)} /\ Raise(t) /\ req[t] # "none"
    BY <1>8, <2>2 DEF Unauthorized
  <2> QED
    BY <2>3, RaiseKeepsPoolInv
<1> QED
  BY <1>2, <1>3, <1>4, <1>5, <1>6, <1>7, <1>8 DEF Request

LEMMA PoolInvNext ==
  ASSUME ChainInv, PoolInv, [Next]_vars
  PROVE  PoolInv'
<1> USE DEF PoolInv
<1>0. Counted'
  BY CountedNext
<1> USE <1>0
<1>1. CASE Collect
  <2>1. /\ pages' \in Inventories /\ stage' = "discover" /\ page' = 1 /\ rows' = <<>>
        /\ UNCHANGED <<queue, job, ready, req>>
        /\ stage # "pool" /\ stage # "discover"
    BY <1>1 DEF Collect
  <2>2. pages' \in Seq(Seq(Filesystems)) /\ 1 \in 1 .. Len(pages') /\ <<>> \in Seq(Filesystems)
    BY <2>1, FetchAssumption
  <2>3. \A u \in Threads : req'[u] # "none" => Working(u)'
    BY <2>1 DEF Working
  <2>4. OnlyForCause'
    BY <2>1 DEF OnlyForCause, Idle
  <2> QED
    BY <2>1, <2>2, <2>3, <2>4 DEF Idle
<1>2. CASE Merge
  <2>1. PICK r \in ready : ready' = ready \ {r}
    BY <1>2 DEF Merge
  <2>2. /\ UNCHANGED <<pages, page, rows, queue, job, req, excused>>
        /\ stage = "pool" /\ stage' = IF Left = 1 THEN "over" ELSE "pool"
    BY <1>2 DEF Merge
  <2>3. stage' # "pool" => Idle'
    BY <2>1, <2>2, LastMerge DEF Idle
  <2>4. IsFiniteSet(ready')
    BY <2>1, FS_RemoveElement
  <2>5. \A u \in Threads : req'[u] # "none" => Working(u)'
    BY <2>2 DEF Working
  <2>6. OnlyForCause'
    BY <2>1, <2>2 DEF OnlyForCause
  <2>7. stage' # "discover"
    BY <2>2
  <2> QED
    BY <2>2, <2>3, <2>4, <2>5, <2>6, <2>7
<1>3. ASSUME NEW w \in Workers, Take(w)
      PROVE  PoolInv'
  <2>1. /\ UNCHANGED <<pages, stage, page, rows, ready, req, excused>>
        /\ job' = [job EXCEPT ![w] = Head(queue)] /\ queue' = Tail(queue)
        /\ queue # <<>> /\ stage = "pool"
    BY <1>3 DEF Take, Idle
  <2>2. Head(queue) \in Filesystems /\ Tail(queue) \in Seq(Filesystems)
    BY <2>1
  <2>3. job' \in [Workers -> Filesystems \cup {None}]
    BY <2>1, <2>2
  <2>4. \A u \in Threads : req'[u] # "none" => Working(u)'
    BY <2>1, <2>2, FetchAssumption DEF Working, Threads
  <2> QED
    BY <2>1, <2>2, <2>3, <2>4 DEF OnlyForCause
<1>4. CASE Identity \/ UNCHANGED vars
  BY <1>4 DEF Identity, vars, pool, Idle, OnlyForCause, Working
<1> QED
  BY <1>1, <1>2, <1>3, <1>4, RequestKeepsPoolInv DEF Next

\* A collection raises, and a filesystem is missed, only for a cause: an answer that
\* is not transient, transient ones more often than max_retries, or identities none
\* of which was up throughout; for any number of pages, filesystems and threads.
THEOREM FailuresHaveCause == Spec => []OnlyForCause
<1>1. Init => ChainInv /\ PoolInv
  BY ChainInvInit, PoolInvInit DEF Init
<1>2. ChainInv /\ PoolInv /\ [Next]_vars => (ChainInv /\ PoolInv)'
  BY CredentialStep, ChainInvNext, PoolInvNext
<1>3. PoolInv => OnlyForCause
  BY DEF PoolInv
<1> QED
  BY <1>1, <1>2, <1>3, PTL DEF Spec

----------------------------------------------------------------------------
(* The round: where each filesystem of the inventory is.                     *)

OnePlace(s) == \A m, n \in DOMAIN s : s[m] = s[n] => m = n

\* What a discovery has so far is the pages it has read.
Discovering ==
    stage = "discover" =>
       /\ errors = 0 /\ \A f \in Filesystems : metrics[f] = 0
       /\ RangeOf(rows) = Found(page - 1)
       /\ OnePlace(rows)

\* A filesystem is in the queue, with one worker, in one future, or accounted for.
Apart ==
    /\ OnePlace(queue)
    /\ \A w \in Workers : job[w] \notin RangeOf(queue)
    /\ \A v, w \in Workers : job[v] = job[w] => v = w \/ job[v] = None
    /\ \A r \in ready : r[1] \notin RangeOf(queue) /\ \A w \in Workers : job[w] # r[1]
    /\ \A r, s \in ready : r[1] = s[1] => r = s
    /\ \A f \in Pending : metrics[f] = 0

RoundInv ==
    /\ PoolInv
    /\ Unrepeated(pages)
    /\ ready \subseteq Filesystems \X {0, Requests}
    /\ metrics \in [Filesystems -> {0, Requests}]
    /\ Discovering /\ Apart

\* The steps of a request that the round sees nothing of, and those it does.
Quiet == UNCHANGED <<pages, stage, page, rows, queue, job, ready, metrics, errors>>

DiscoveryRaised ==
    /\ stage = "discover" /\ stage' = "raised"
    /\ UNCHANGED <<pages, queue, job, ready, metrics, errors>>

PageRead == stage = "discover" /\ PageArrives /\ pages' = pages

FutureDone(w) ==
    /\ stage = "pool" /\ job[w] \in Filesystems
    /\ \E q \in {0, Requests} : ready' = ready \cup {<<job[w], q>>}
    /\ job' = [job EXCEPT ![w] = None]
    /\ UNCHANGED <<pages, stage, page, rows, queue, metrics, errors>>

LEMMA RaiseEffect ==
  ASSUME PoolInv, NEW t \in Threads, req[t] # "none", Raise(t)
  PROVE  DiscoveryRaised \/ \E w \in Workers : FutureDone(w)
<1>1. Working(t)
  BY DEF PoolInv
<1>2. CASE t = Collector
  BY <1>1, <1>2 DEF Raise, Working, DiscoveryRaised
<1>3. CASE t # Collector
  <2>1. t \in Workers /\ job[t] \in Filesystems /\ stage = "pool"
    BY <1>1, <1>3 DEF Working, Threads, PoolInv, Idle
  <2>2. FutureDone(t)
    BY <1>3, <2>1 DEF Raise, FutureDone
  <2> QED
    BY <2>1, <2>2
<1> QED
  BY <1>2, <1>3

LEMMA RequestEffect ==
  ASSUME PoolInv, NEW t \in Threads, Request(t)
  PROVE  Quiet \/ DiscoveryRaised \/ PageRead \/ \E w \in Workers : FutureDone(w)
<1>1. CASE Send(t) \/ Authorize(t) \/ Authorized(t) \/ Retry(t)
  BY <1>1 DEF Send, Authorize, Authorized, Retry, Quiet, pool
<1>2. CASE Answer(t)
  <2>1. Working(t) /\ pages' = pages
    BY <1>2 DEF Answer, PoolInv
  <2>2. CASE t = Collector
    BY <1>2, <2>1, <2>2 DEF Answer, Working, PageRead
  <2>3. CASE t # Collector
    <3>1. /\ BatchArrives(t) /\ t \in Workers /\ job[t] \in Filesystems /\ stage = "pool"
      BY <1>2, <2>1, <2>3 DEF Answer, Working, Threads, PoolInv, Idle
    <3>2. Quiet \/ FutureDone(t)
      BY <2>1, <3>1 DEF BatchArrives, Quiet, FutureDone
    <3> QED
      BY <3>1, <3>2
  <2> QED
    BY <2>2, <2>3
<1>3. CASE Error(t)
  <2>1. req[t] # "none" /\ (Raise(t) \/ Quiet)
    BY <1>3 DEF Error, Quiet, pool
  <2> QED
    BY <2>1, RaiseEffect
<1>4. CASE Unauthorized(t)
  BY <1>4, RaiseEffect DEF Unauthorized
<1> QED
  BY <1>1, <1>2, <1>3, <1>4 DEF Request

\* A page adds its rows, and none that is there already.
LEMMA PageAdds ==
  ASSUME RoundInv, PageRead
  PROVE  /\ page \in 1 .. Len(pages) /\ page' - 1 = page
         /\ rows' \in Seq(Filesystems)
         /\ RangeOf(rows') = Found(page)
         /\ OnePlace(rows')
<1>1. /\ page \in 1 .. Len(pages) /\ page' = page + 1
      /\ rows \in Seq(Filesystems) /\ pages[page] \in Seq(Filesystems)
      /\ Len(pages) \in Nat /\ DOMAIN pages = 1 .. Len(pages)
      /\ rows' = rows \o pages[page]
      /\ RangeOf(rows) = Found(page - 1) /\ OnePlace(rows) /\ Unrepeated(pages)
  BY DEF RoundInv, PoolInv, PageRead, PageArrives, Discovering
<1> DEFINE p == pages[page]
<1>2. /\ Len(rows) \in Nat /\ Len(p) \in Nat /\ p \in Seq(Filesystems)
      /\ DOMAIN rows = 1 .. Len(rows) /\ DOMAIN p = 1 .. Len(p)
      /\ DOMAIN rows' = 1 .. Len(rows) + Len(p) /\ rows' \in Seq(Filesystems)
      /\ \A n \in 1 .. Len(rows) : rows'[n] = rows[n]
      /\ \A n \in Len(rows) + 1 .. Len(rows) + Len(p) : rows'[n] = p[n - Len(rows)]
  BY <1>1
<1> HIDE DEF p
<1>3. \A n \in DOMAIN rows' : n \in DOMAIN rows \/ (n \notin DOMAIN rows /\ n - Len(rows) \in DOMAIN p)
  BY <1>2
<1>4. \A n \in DOMAIN p : n + Len(rows) \in DOMAIN rows' /\ rows'[n + Len(rows)] = p[n]
  BY <1>2
<1>5. RangeOf(rows') = RangeOf(rows) \cup RangeOf(p)
  <2>1. \A n \in DOMAIN rows' : rows'[n] \in RangeOf(rows) \cup RangeOf(p)
    BY <1>2, <1>3 DEF RangeOf
  <2>2. \A n \in DOMAIN rows : rows[n] \in RangeOf(rows')
    BY <1>2 DEF RangeOf
  <2>3. \A n \in DOMAIN p : p[n] \in RangeOf(rows')
    BY <1>4 DEF RangeOf
  <2> QED
    BY <2>1, <2>2, <2>3 DEF RangeOf
<1>6. 1 .. page = (1 .. page - 1) \cup {page}
  BY <1>1
<1>7. Found(page) = Found(page - 1) \cup RangeOf(p)
  BY <1>6 DEF Found, p
<1>8. RangeOf(rows) \cap RangeOf(p) = {}
  <2> SUFFICES ASSUME NEW m \in DOMAIN p, p[m] \in RangeOf(rows)
               PROVE  FALSE
    BY DEF RangeOf
  <2>1. PICK k \in 1 .. page - 1 : p[m] \in RangeOf(pages[k])
    BY <1>1 DEF Found
  <2>2. PICK n \in DOMAIN pages[k] : pages[k][n] = pages[page][m]
    BY <2>1 DEF RangeOf, p
  <2>3. k \in DOMAIN pages /\ page \in DOMAIN pages /\ k # page /\ m \in DOMAIN pages[page]
    BY <1>1 DEF p
  <2> QED
    BY <1>1, <2>2, <2>3 DEF Unrepeated
<1>9. \A m, n \in DOMAIN p : p[m] = p[n] => m = n
  BY <1>1 DEF p, Unrepeated
<1>10. OnePlace(rows')
  <2> SUFFICES ASSUME NEW m \in DOMAIN rows', NEW n \in DOMAIN rows', rows'[m] = rows'[n]
               PROVE  m = n
    BY DEF OnePlace
  <2>1. CASE m \in DOMAIN rows /\ n \in DOMAIN rows
    BY <1>1, <1>2, <2>1 DEF OnePlace
  <2>2. CASE m \notin DOMAIN rows /\ n \notin DOMAIN rows
    <3>1. \A k \in DOMAIN rows' : k \notin DOMAIN rows => rows'[k] = p[k - Len(rows)]
      BY <1>2
    <3>2. m - Len(rows) = n - Len(rows)
      BY <1>3, <1>9, <2>2, <3>1
    <3> QED
      BY <1>2, <3>2
  <2>3. \A k \in DOMAIN rows' : k \notin DOMAIN rows => rows'[k] \in RangeOf(p)
    BY <1>2, <1>3 DEF RangeOf
  <2>4. \A k \in DOMAIN rows : rows'[k] \in RangeOf(rows)
    BY <1>2 DEF RangeOf
  <2> QED
    BY <1>8, <2>1, <2>2, <2>3, <2>4
<1> QED
  BY <1>1, <1>2, <1>5, <1>7, <1>10

LEMMA RoundInvInit == Init => RoundInv
<1> SUFFICES ASSUME Init
             PROVE  RoundInv
  OBVIOUS
<1>1. queue = <<>> /\ ready = {} /\ (\A w \in Workers : job[w] = None) /\ stage = "over"
      /\ metrics = [f \in Filesystems |-> 0] /\ pages = <<<<>>>>
  BY DEF Init
<1>2. RangeOf(queue) = {} /\ OnePlace(queue)
  BY <1>1 DEF RangeOf, OnePlace
<1>3. Unrepeated(pages)
  BY <1>1 DEF Unrepeated
<1>4. Pending = {}
  <2>1. DOMAIN job = Workers
    BY DEF Init
  <2> QED
    BY <1>1, <1>2, <2>1 DEF Pending, RangeOf
<1> QED
  BY <1>1, <1>2, <1>3, <1>4, PoolInvInit DEF RoundInv, Discovering, Apart

\* Whoever is pending is in the queue, with a worker or in a future.
Waits(f) ==
    \/ f \in RangeOf(queue)
    \/ f # None /\ \E w \in Workers : job[w] = f
    \/ \E r \in ready : r[1] = f

LEMMA PendingWaits ==
  ASSUME DOMAIN job = Workers
  PROVE  \A f : f \in Pending <=> Waits(f)
<1>1. \A f : f \in RangeOf(job) <=> \E w \in Workers : job[w] = f
  BY DEF RangeOf
<1> QED
  BY <1>1 DEF Pending, Waits

LEMMA PendingWaitsNext ==
  ASSUME DOMAIN job' = Workers
  PROVE  \A f : f \in Pending' <=> Waits(f)'
<1>1. \A f : f \in RangeOf(job') <=> \E w \in Workers : job'[w] = f
  BY DEF RangeOf
<1> QED
  BY <1>1 DEF Pending, Waits

LEMMA TakeKeepsRound ==
  ASSUME RoundInv, PoolInv', NEW w \in Workers, Take(w)
  PROVE  RoundInv' /\ Pending' = Pending
<1>1. /\ UNCHANGED <<pages, stage, page, rows, ready, metrics, errors>>
      /\ job[w] = None /\ queue # <<>> /\ queue \in Seq(Filesystems)
      /\ job' = [job EXCEPT ![w] = Head(queue)] /\ queue' = Tail(queue)
      /\ job \in [Workers -> Filesystems \cup {None}]
  BY DEF Take, RoundInv, PoolInv
<1>2. /\ DOMAIN queue = 1 .. Len(queue) /\ Len(queue) \in Nat \ {0} /\ Head(queue) = queue[1]
      /\ DOMAIN queue' = 1 .. Len(queue) - 1
      /\ \A n \in DOMAIN queue' : n + 1 \in DOMAIN queue /\ queue'[n] = queue[n + 1]
      /\ Head(queue) \in Filesystems /\ 1 \in DOMAIN queue
  BY <1>1
<1>3. OnePlace(queue') /\ Head(queue) \notin RangeOf(queue')
  <2>1. OnePlace(queue)
    BY DEF RoundInv, Apart
  <2>2. OnePlace(queue')
    BY <1>2, <2>1 DEF OnePlace
  <2>3. \A n \in DOMAIN queue' : queue'[n] # queue[1]
    BY <1>2, <2>1 DEF OnePlace
  <2> QED
    BY <1>2, <2>2, <2>3 DEF RangeOf
<1>4. RangeOf(queue) = RangeOf(queue') \cup {Head(queue)}
  <2>1. \A n \in DOMAIN queue : n = 1 \/ (n - 1 \in DOMAIN queue' /\ queue'[n - 1] = queue[n])
    BY <1>2
  <2>2. RangeOf(queue) \subseteq RangeOf(queue') \cup {Head(queue)}
    BY <1>2, <2>1 DEF RangeOf
  <2>3. RangeOf(queue') \subseteq RangeOf(queue)
    BY <1>2 DEF RangeOf
  <2> QED
    BY <1>2, <2>2, <2>3 DEF RangeOf
<1>5. job'[w] = Head(queue) /\ \A v \in Workers \ {w} : job'[v] = job[v]
  BY <1>1
<1>6. Head(queue) # None
  BY <1>2, FetchAssumption
<1>7. Pending' = Pending
  <2>1. (\A f : f \in Pending <=> Waits(f)) /\ (\A f : f \in Pending' <=> Waits(f)')
    BY <1>1, PendingWaits, PendingWaitsNext
  <2>2. \A f : f # None => ((\E v \in Workers : job'[v] = f) <=> f = Head(queue) \/ \E v \in Workers : job[v] = f)
    BY <1>1, <1>5
  <2>3. ready' = ready
    BY <1>1
  <2>4. \A f : Waits(f)' <=> Waits(f)
    BY <1>4, <1>6, <2>2, <2>3 DEF Waits
  <2> QED
    BY <2>1, <2>4
<1> QED
  BY <1>1, <1>3, <1>4, <1>5, <1>6, <1>7 DEF RoundInv, Discovering, Apart, Found

\* A future that is done holds what its worker had.
LEMMA FutureKeepsRound ==
  ASSUME RoundInv, PoolInv', NEW w \in Workers, FutureDone(w)
  PROVE  RoundInv' /\ Pending' = Pending
<1>1. PICK q \in {0, Requests} : ready' = ready \cup {<<job[w], q>>}
  BY DEF FutureDone
<1>2. /\ UNCHANGED <<pages, stage, page, rows, queue, metrics, errors>>
      /\ stage = "pool" /\ job[w] \in Filesystems /\ job[w] # None
      /\ job' = [job EXCEPT ![w] = None] /\ DOMAIN job = Workers /\ DOMAIN job' = Workers
  BY FetchAssumption DEF FutureDone, RoundInv, PoolInv
<1>3. job'[w] = None /\ \A v \in Workers \ {w} : job'[v] = job[v]
  BY <1>2
<1>4. \A f : Waits(f)' <=> Waits(f)
  <2>1. \A f : (\E r \in ready' : r[1] = f) <=> f = job[w] \/ \E r \in ready : r[1] = f
    <3> DEFINE new == <<job[w], q>>
    <3>1. new[1] = job[w] /\ ready' = ready \cup {new}
      BY <1>1
    <3> HIDE DEF new
    <3> QED
      BY <3>1
  <2>2. \A f : f # None => ((\E v \in Workers : job[v] = f) <=> f = job[w] \/ \E v \in Workers : job'[v] = f)
    BY <1>3
  <2> QED
    BY <1>2, <2>1, <2>2 DEF Waits
<1>5. Pending' = Pending
  <2>1. \A f : f \in Pending' <=> f \in Pending
    BY <1>2, <1>4, PendingWaits, PendingWaitsNext
  <2> QED
    BY <2>1
<1>6. Apart'
  <2> USE DEF RoundInv, Apart
  <2>1. RangeOf(queue)' = RangeOf(queue)
    BY <1>2
  <2>2. OnePlace(queue)'
    BY <1>2 DEF OnePlace
  <2>3. \A v \in Workers : job[v] \notin RangeOf(queue)
    OBVIOUS
  <2>4. \A v \in Workers : job'[v] \notin RangeOf(queue')
    <3>1. None \notin RangeOf(queue)
      BY FetchAssumption DEF PoolInv, RangeOf
    <3> QED
      BY <1>3, <2>1, <2>3, <3>1
  <2>5. \A u, v \in Workers : job'[u] = job'[v] => u = v \/ job'[u] = None
    BY <1>3
  <2>6. \A r \in ready : r[1] \notin RangeOf(queue) /\ \A v \in Workers : job[v] # r[1]
    OBVIOUS
  <2>7. \A r \in ready : r[1] # None
    BY FetchAssumption
  <2>8. \A r \in ready' : r[1] \notin RangeOf(queue') /\ \A v \in Workers : job'[v] # r[1]
    <3>1. \A v \in Workers : job'[v] # job[w]
      BY <1>2, <1>3
    <3>2. \A r \in ready : \A v \in Workers : job'[v] # r[1]
      BY <1>3, <2>6, <2>7
    <3> QED
      BY <1>1, <2>1, <2>3, <2>6, <3>1, <3>2
  <2>9. \A r, s \in ready' : r[1] = s[1] => r = s
    BY <1>1, <2>6
  <2>10. \A f \in Pending' : metrics'[f] = 0
    BY <1>2, <1>5
  <2> QED
    BY <2>2, <2>4, <2>5, <2>8, <2>9, <2>10
<1>7. ready' \subseteq Filesystems \X {0, Requests}
  BY <1>1, <1>2 DEF RoundInv
<1> QED
  BY <1>2, <1>5, <1>6, <1>7 DEF RoundInv, Discovering

\* The last page hands the pool every filesystem of the result, once.
LEMMA PageKeepsRound ==
  ASSUME RoundInv, PoolInv', PageRead
  PROVE  /\ RoundInv'
         /\ \/ stage' # "pool" /\ Pending' = Pending
            \/ stage' = "pool" /\ Found(Len(pages)) # {} /\ Pending' = Found(Len(pages))
<1>1. /\ UNCHANGED <<pages, job, ready, metrics, errors>> /\ Idle
      /\ stage = "discover" /\ DOMAIN job = Workers
      /\ errors = 0 /\ \A f \in Filesystems : metrics[f] = 0
  BY DEF PageRead, PageArrives, RoundInv, PoolInv, Discovering
<1>2. /\ page \in 1 .. Len(pages) /\ page' - 1 = page /\ Len(pages) \in Nat
      /\ rows' \in Seq(Filesystems)
      /\ RangeOf(rows') = Found(page)
      /\ OnePlace(rows')
  BY PageAdds DEF RoundInv, PoolInv
<1>3. \/ page < Len(pages) /\ stage' = stage /\ queue' = queue
      \/ page = Len(pages) /\ rows' = <<>> /\ stage' = "over" /\ queue' = queue
      \/ page = Len(pages) /\ rows' # <<>> /\ stage' = "pool" /\ queue' = rows'
  BY <1>1, <1>2 DEF PageRead, PageArrives, Idle
<1>4. \A n : Found(n)' = Found(n)
  BY <1>1 DEF Found
<1>5. Discovering'
  <2>1. RangeOf(rows)' = Found(page - 1)'
    BY <1>1, <1>2 DEF Found
  <2> QED
    BY <1>1, <1>2, <2>1 DEF Discovering, OnePlace
<1>6. Unrepeated(pages)'
  BY <1>1 DEF RoundInv
<1>7. CASE queue' = queue
  <2>1. Pending' = Pending
    BY <1>1, <1>7 DEF Pending
  <2>2. Apart'
    BY <1>1, <1>7, <2>1 DEF RoundInv, Apart
  <2>3. stage' = "pool" => rows' = <<>> /\ rows' # <<>>
    BY <1>1, <1>3, <1>7 DEF Idle
  <2> QED
    BY <1>1, <1>5, <1>6, <2>1, <2>2, <2>3 DEF RoundInv
<1>8. CASE queue' # queue
  <2>1. page = Len(pages) /\ rows' # <<>> /\ stage' = "pool" /\ queue' = rows'
    BY <1>3, <1>8
  <2>2. RangeOf(rows') # {}
    <3>1. 1 \in DOMAIN rows'
      BY <1>2, <2>1
    <3> QED
      BY <3>1 DEF RangeOf
  <2>3. Pending' = RangeOf(rows')
    <3>1. \A f : Waits(f)' <=> f \in RangeOf(rows')
      BY <1>1, <2>1 DEF Waits, Idle
    <3>2. \A f : f \in Pending' <=> f \in RangeOf(rows')
      BY <1>1, <3>1, PendingWaitsNext
    <3> QED
      BY <3>2
  <2>4. RangeOf(rows') \subseteq Filesystems
    BY <1>2 DEF RangeOf
  <2>5. Apart'
    <3>1. None \notin RangeOf(rows')
      BY <2>4, FetchAssumption
    <3>2. OnePlace(queue)'
      BY <1>2, <2>1 DEF OnePlace
    <3> QED
      BY <1>1, <2>1, <2>3, <2>4, <3>1, <3>2 DEF Apart, Idle
  <2> QED
    BY <1>1, <1>2, <1>5, <1>6, <2>1, <2>2, <2>3, <2>5 DEF RoundInv
<1> QED
  BY <1>7, <1>8

\* One future: its filesystem is accounted for, and collect returns with the last.
LEMMA MergeKeepsRound ==
  ASSUME RoundInv, PoolInv', Merge
  PROVE  /\ RoundInv' /\ pages' = pages /\ stage = "pool"
         /\ stage' \in {"over", "pool"} /\ (stage' = "over" <=> Pending' = {})
         /\ \E f \in Pending :
               /\ Pending' = Pending \ {f}
               /\ \/ metrics' = [metrics EXCEPT ![f] = Requests] /\ errors' = errors
                  \/ metrics' = metrics /\ errors' = errors + 1
<1>1. PICK r \in ready :
         /\ ready' = ready \ {r}
         /\ IF r[2] = 0
               THEN errors' = errors + 1 /\ UNCHANGED metrics
               ELSE metrics' = [metrics EXCEPT ![r[1]] = @ + r[2]] /\ UNCHANGED errors
  BY DEF Merge
<1>2. /\ UNCHANGED <<pages, page, rows, queue, job>> /\ stage = "pool"
      /\ stage' = IF Left = 1 THEN "over" ELSE "pool"
      /\ DOMAIN job = Workers
  BY DEF Merge, RoundInv, PoolInv
<1> DEFINE f == r[1]
<1>3. f \in Filesystems /\ r[2] \in {0, Requests} /\ f # None
  BY FetchAssumption DEF RoundInv
<1>4. /\ f \in Pending /\ metrics[f] = 0
  <2>1. Waits(f)
    BY DEF Waits
  <2>2. f \in Pending
    BY <1>2, <2>1, PendingWaits
  <2> QED
    BY <2>2 DEF RoundInv, Apart
<1>5. Pending' = Pending \ {f}
  <2>1. \A g : (\E s \in ready' : s[1] = g) <=> g # f /\ \E s \in ready : s[1] = g
    BY <1>1 DEF RoundInv, Apart
  <2>2. f \notin RangeOf(queue) /\ \A w \in Workers : job[w] # f
    BY DEF RoundInv, Apart
  <2>3. \A g : Waits(g)' <=> Waits(g) /\ g # f
    BY <1>2, <2>1, <2>2 DEF Waits
  <2>4. \A g : g \in Pending' <=> g \in Pending /\ g # f
    BY <1>2, <2>3, PendingWaits, PendingWaitsNext
  <2> QED
    BY <2>4
<1>6. \/ metrics' = [metrics EXCEPT ![f] = Requests] /\ errors' = errors
      \/ metrics' = metrics /\ errors' = errors + 1
  <2>1. 0 + Requests = Requests
    BY FetchAssumption
  <2> QED
    BY <1>1, <1>3, <1>4, <2>1 DEF RoundInv
<1>7. metrics' \in [Filesystems -> {0, Requests}] /\ \A g \in Filesystems \ {f} : metrics'[g] = metrics[g]
  BY <1>3, <1>6 DEF RoundInv
<1>8. Apart'
  <2>1. /\ OnePlace(queue)' /\ (\A w \in Workers : job'[w] \notin RangeOf(queue'))
        /\ \A v, w \in Workers : job'[v] = job'[w] => v = w \/ job'[v] = None
    BY <1>2 DEF RoundInv, Apart, OnePlace
  <2>2. /\ \A s \in ready' : s[1] \notin RangeOf(queue') /\ \A w \in Workers : job'[w] # s[1]
        /\ \A s, t \in ready' : s[1] = t[1] => s = t
    BY <1>1, <1>2 DEF RoundInv, Apart
  <2>3. Pending \subseteq Filesystems
    BY FetchAssumption DEF Pending, RangeOf, RoundInv, PoolInv
  <2>4. \A g \in Pending' : metrics'[g] = 0
    BY <1>5, <1>7, <2>3 DEF RoundInv, Apart
  <2> QED
    BY <2>1, <2>2, <2>4 DEF Apart
<1>9. RoundInv'
  <2>1. ready' \subseteq Filesystems \X {0, Requests}
    BY <1>1 DEF RoundInv
  <2>2. Unrepeated(pages)' /\ Discovering'
    BY <1>2 DEF RoundInv, Discovering
  <2> QED
    BY <1>7, <1>8, <2>1, <2>2 DEF RoundInv
<1>10. ASSUME stage' = "over" PROVE Pending' = {}
  <2>1. Left = 1
    BY <1>2, <1>10
  <2>2. queue = <<>> /\ ready' = {} /\ \A w \in Workers : job[w] = None
    BY <1>1, <2>1, LastMerge DEF RoundInv
  <2>3. \A g : ~Waits(g)'
    BY <1>2, <2>2 DEF Waits, RangeOf
  <2> QED
    BY <1>2, <2>3, PendingWaitsNext
<1>11. ASSUME Pending' = {} PROVE stage' = "over"
  <2>1. \A g : ~Waits(g)'
    BY <1>2, <1>11, PendingWaitsNext
  <2>2. Len(queue) = 0
    <3>1. queue \in Seq(Filesystems) /\ RangeOf(queue) = {}
      BY <1>2, <2>1 DEF Waits, RoundInv, PoolInv
    <3>2. Len(queue) \in Nat /\ DOMAIN queue = 1 .. Len(queue) /\ DOMAIN queue = {}
      BY <3>1 DEF RangeOf
    <3> QED
      BY <3>2
  <2>3. {w \in Workers : job[w] # None} = {}
    BY <1>2, <2>1 DEF Waits
  <2>4. ready = {r}
    BY <1>1, <2>1 DEF Waits
  <2>5. Cardinality({w \in Workers : job[w] # None}) = 0 /\ Cardinality(ready) = 1
    <3>1. Cardinality({}) = 0 /\ Cardinality({r}) = 1
      BY FS_EmptySet, FS_Singleton
    <3> QED
      BY <2>3, <2>4, <3>1
  <2>6. Left = 1
    BY <2>2, <2>5 DEF Left
  <2> QED
    BY <1>2, <2>6
<1> QED
  BY <1>2, <1>4, <1>5, <1>6, <1>9, <1>10, <1>11

\* A step keeps the invariant and is a step of FetchRound, or one it does not see.
LEMMA RoundStep ==
  ASSUME RoundInv, PoolInv', [Next]_vars
  PROVE  /\ RoundInv'
         /\ [Round!Next]_<<Found(Len(pages)), stage # "pool", Pending,
                           {f \in Filesystems : metrics[f] = Requests}, errors>>
<1> DEFINE good == {f \in Filesystems : metrics[f] = Requests}
           Seen == <<Found(Len(pages)), stage # "pool", Pending, good, errors>>
<1>1. Requests # 0 /\ 0 \in Nat
  BY FetchAssumption
<1>2. ASSUME pages' = pages
      PROVE  Found(Len(pages))' = Found(Len(pages))
  BY <1>2 DEF Found
<1>3. ASSUME UNCHANGED <<pages, metrics, errors>>, Pending' = Pending,
             (stage' = "pool") <=> (stage = "pool")
      PROVE  UNCHANGED Seen
  BY <1>2, <1>3
<1>4. ASSUME Quiet
      PROVE  RoundInv' /\ UNCHANGED Seen
  <2>1. Pending' = Pending
    BY <1>4 DEF Quiet, Pending
  <2>2. RoundInv'
    BY <1>4, <2>1 DEF Quiet, RoundInv, Discovering, Apart, Found, OnePlace
  <2> QED
    BY <1>3, <1>4, <2>1, <2>2 DEF Quiet
<1>5. CASE Collect
  <2>1. /\ pages' \in Inventories /\ stage' = "discover" /\ page' = 1 /\ rows' = <<>>
        /\ metrics' = [f \in Filesystems |-> 0] /\ errors' = 0
        /\ UNCHANGED <<queue, job, ready>> /\ stage # "pool"
    BY <1>5 DEF Collect
  <2>2. Pending' = Pending
    BY <2>1 DEF Pending
  <2>3. Unrepeated(pages')
    BY <2>1, FetchAssumption
  <2>4. Found(page - 1)' = {} /\ RangeOf(rows') = {} /\ OnePlace(rows')
    <3>1. page' - 1 = 0 /\ 1 .. 0 = {}
      BY <2>1
    <3>2. DOMAIN rows' = {}
      BY <2>1
    <3> QED
      BY <3>1, <3>2 DEF Found, RangeOf, OnePlace
  <2>5. Discovering'
    BY <2>1, <2>4 DEF Discovering, OnePlace, RangeOf
  <2>6. Pending \subseteq Filesystems
    BY FetchAssumption DEF Pending, RangeOf, RoundInv, PoolInv
  <2>7. Apart'
    BY <2>1, <2>2, <2>6 DEF RoundInv, Apart, OnePlace
  <2>8. RoundInv'
    BY <2>1, <2>3, <2>5, <2>7 DEF RoundInv
  <2>9. good' = {}
    BY <1>1, <2>1
  <2>10. Found(Len(pages))' \subseteq Filesystems
    BY <2>1, FetchAssumption DEF Found, RangeOf
  <2>11. Round!Begin
    BY <2>1, <2>2, <2>9, <2>10 DEF Round!Begin
  <2> QED
    BY <2>8, <2>11 DEF Round!Next
<1>6. CASE Merge
  <2>1. /\ RoundInv' /\ pages' = pages /\ stage = "pool"
        /\ stage' \in {"over", "pool"} /\ (stage' = "over" <=> Pending' = {})
    BY <1>6, MergeKeepsRound
  <2>2. PICK f \in Pending :
          /\ Pending' = Pending \ {f}
          /\ \/ metrics' = [metrics EXCEPT ![f] = Requests] /\ errors' = errors
             \/ metrics' = metrics /\ errors' = errors + 1
    BY <1>6, MergeKeepsRound
  <2>3. f \in Filesystems
    BY FetchAssumption DEF Pending, RangeOf, RoundInv, PoolInv
  <2>4. Round!Deliver(f) \/ Round!Miss(f)
    <3>1. CASE metrics' = [metrics EXCEPT ![f] = Requests] /\ errors' = errors
      <4>1. good' = good \cup {f}
        BY <2>3, <3>1 DEF RoundInv
      <4> QED
        BY <3>1, <4>1 DEF Round!Deliver
    <3>2. CASE metrics' = metrics /\ errors' = errors + 1
      BY <3>2 DEF Round!Miss
    <3> QED
      BY <2>2, <3>1, <3>2
  <2>5. (stage # "pool")' = (Pending' = {})
    BY <2>1
  <2>6. Round!Account
    BY <1>2, <2>1, <2>2, <2>4, <2>5 DEF Round!Account
  <2> QED
    BY <2>1, <2>6 DEF Round!Next
<1>7. ASSUME NEW w \in Workers, Take(w)
      PROVE  RoundInv' /\ UNCHANGED Seen
  BY <1>3, <1>7, TakeKeepsRound DEF Take
<1>8. ASSUME DiscoveryRaised
      PROVE  RoundInv' /\ UNCHANGED Seen
  <2>1. Pending' = Pending /\ stage' = "raised" /\ UNCHANGED <<pages, metrics, errors>> /\ stage # "pool"
    BY <1>8 DEF DiscoveryRaised, Pending
  <2>2. RoundInv'
    BY <1>8, <2>1 DEF DiscoveryRaised, RoundInv, Discovering, Apart, OnePlace
  <2> QED
    BY <1>3, <2>1, <2>2
<1>9. ASSUME PageRead
      PROVE  RoundInv' /\ (Round!Discover \/ UNCHANGED Seen)
  <2>1. /\ RoundInv' /\ UNCHANGED <<pages, metrics, errors>>
        /\ stage = "discover" /\ errors = 0 /\ good = {}
    BY <1>1, <1>9, PageKeepsRound DEF PageRead, PageArrives, RoundInv, Discovering
  <2>2. CASE stage' # "pool" /\ Pending' = Pending
    BY <1>3, <2>1, <2>2
  <2>3. CASE stage' = "pool" /\ Found(Len(pages)) # {} /\ Pending' = Found(Len(pages))
    <3>1. Found(Len(pages))' = Found(Len(pages)) /\ good' = good
      BY <1>2, <2>1
    <3> QED
      BY <2>1, <2>3, <3>1 DEF Round!Discover
  <2> QED
    BY <1>9, <2>1, <2>2, <2>3, PageKeepsRound
<1>10. ASSUME NEW w \in Workers, FutureDone(w)
       PROVE  RoundInv' /\ UNCHANGED Seen
  BY <1>3, <1>10, FutureKeepsRound DEF FutureDone
<1>11. ASSUME NEW t \in Threads, Request(t)
       PROVE  RoundInv' /\ (Round!Discover \/ UNCHANGED Seen)
  BY <1>4, <1>8, <1>9, <1>10, <1>11, RequestEffect DEF RoundInv
<1>12. CASE Identity \/ UNCHANGED vars
  BY <1>4, <1>12 DEF Identity, vars, pool, Quiet
<1> QED
  BY <1>5, <1>6, <1>7, <1>11, <1>12 DEF Next, Round!Next

LEMMA RoundInit == Init => Round!Init
<1> SUFFICES ASSUME Init
             PROVE  Round!Init
  OBVIOUS
<1>1. Pending = {}
  <2>1. DOMAIN job = Workers /\ queue = <<>> /\ ready = {} /\ \A w \in Workers : job[w] = None
    BY DEF Init
  <2>2. \A f : ~Waits(f)
    BY <2>1 DEF Waits, RangeOf
  <2> QED
    BY <2>1, <2>2, PendingWaits
<1>2. Found(Len(pages)) = {}
  BY DEF Init, Found, RangeOf
<1>3. {f \in Filesystems : metrics[f] = Requests} = {}
  BY FetchAssumption DEF Init
<1> QED
  BY <1>1, <1>2, <1>3 DEF Init, Round!Init

\* The collector implements FetchRound: whatever was retried, raised or finished out
\* of order, a round fails before any query or accounts for each filesystem of each
\* page exactly once, delivered with all its batches or counted in error_count.
THEOREM EveryRoundIsComplete == Spec => RoundsAreComplete
<1>1. Init => ChainInv /\ RoundInv
  BY ChainInvInit, RoundInvInit DEF Init
<1>2. ChainInv /\ RoundInv /\ [Next]_vars => (ChainInv /\ RoundInv)'
  BY CredentialStep, ChainInvNext, PoolInvNext, RoundStep DEF RoundInv
<1>3. ChainInv /\ RoundInv /\ [Next]_vars =>
         [Round!Next]_<<Found(Len(pages)), stage # "pool", Pending,
                        {f \in Filesystems : metrics[f] = Requests}, errors>>
  BY CredentialStep, PoolInvNext, RoundStep DEF RoundInv
<1> QED
  BY RoundInit, <1>1, <1>2, <1>3, PTL DEF Spec, RoundsAreComplete, Round!Spec, Round!vars

----------------------------------------------------------------------------
(* The count of errors.                                                    *)

Missing == {f \in RangeOf(rows) : metrics[f] = 0}

\* The pool still has, or has counted as errors, whatever the result lacks.
CountInv ==
    /\ errors \in Nat
    /\ stage \in {"pool", "over"} =>
          /\ Pending \subseteq Missing
          /\ errors + Cardinality(Pending) = Cardinality(Missing)

LEMMA RowsAreFinite ==
  ASSUME NEW s \in Seq(Filesystems)
  PROVE  IsFiniteSet(RangeOf(s))
<1>1. DOMAIN s = 1 .. Len(s) /\ Len(s) \in Nat
  OBVIOUS
<1>2. IsFiniteSet(1 .. Len(s))
  BY <1>1, FS_Interval
<1>3. s \in Surjection(1 .. Len(s), RangeOf(s))
  BY <1>1 DEF RangeOf, Surjection
<1> QED
  BY <1>2, <1>3, FS_Surjection

LEMMA CountInit ==
  ASSUME Init
  PROVE  CountInv
<1>1. PoolInv /\ rows = <<>> /\ errors = 0 /\ Idle
  BY PoolInvInit DEF Init, Idle
<1>2. Pending = {}
  <2>1. DOMAIN job = Workers
    BY <1>1 DEF PoolInv
  <2>2. \A f : ~Waits(f)
    BY <1>1 DEF Waits, Idle, RangeOf
  <2> QED
    BY <2>1, <2>2, PendingWaits
<1>3. Missing = {}
  BY <1>1 DEF Missing, RangeOf
<1> QED
  BY <1>1, <1>2, <1>3, FS_EmptySet DEF CountInv

LEMMA CountStep ==
  ASSUME RoundInv, PoolInv', CountInv, [Next]_vars
  PROVE  CountInv'
<1>1. ASSUME UNCHANGED <<rows, metrics, errors>>, Pending' = Pending,
             stage' \in {"pool", "over"} => stage \in {"pool", "over"}
      PROVE  CountInv'
  <2>1. Missing' = Missing
    BY <1>1 DEF Missing
  <2> QED
    BY <1>1, <2>1 DEF CountInv
<1>2. CASE Collect
  BY <1>2 DEF Collect, CountInv
<1>3. CASE Merge
  <2>1. rows' = rows /\ stage = "pool"
    BY <1>3 DEF Merge
  <2>2. PICK f \in Pending :
          /\ Pending' = Pending \ {f}
          /\ \/ metrics' = [metrics EXCEPT ![f] = Requests] /\ errors' = errors
             \/ metrics' = metrics /\ errors' = errors + 1
    BY <1>3, MergeKeepsRound
  <2>3. /\ errors \in Nat /\ Pending \subseteq Missing
        /\ errors + Cardinality(Pending) = Cardinality(Missing)
    BY <2>1 DEF CountInv
  <2>4. IsFiniteSet(Missing) /\ IsFiniteSet(Pending)
    <3>1. IsFiniteSet(RangeOf(rows))
      BY RowsAreFinite DEF RoundInv, PoolInv
    <3>2. IsFiniteSet(Missing)
      BY <3>1, FS_Subset DEF Missing
    <3> QED
      BY <2>3, <3>2, FS_Subset
  <2>5. /\ Cardinality(Missing) \in Nat /\ Cardinality(Pending) \in Nat
        /\ Cardinality(Pending') = Cardinality(Pending) - 1
        /\ Cardinality(Missing \ {f}) = Cardinality(Missing) - 1
    BY <2>2, <2>3, <2>4, FS_CardinalityType, FS_RemoveElement
  <2>6. CASE metrics' = [metrics EXCEPT ![f] = Requests] /\ errors' = errors
    <3>1. metrics'[f] # 0 /\ \A g \in RangeOf(rows) \ {f} : metrics'[g] = metrics[g]
      <4>1. f \in Filesystems /\ RangeOf(rows) \subseteq Filesystems
        BY <2>3 DEF Missing, RangeOf, RoundInv, PoolInv
      <4> QED
        BY <2>6, <4>1, FetchAssumption DEF RoundInv
    <3>2. Missing' = Missing \ {f}
      BY <2>1, <3>1 DEF Missing
    <3> QED
      BY <2>2, <2>3, <2>5, <2>6, <3>2 DEF CountInv
  <2>7. CASE metrics' = metrics /\ errors' = errors + 1
    <3>1. Missing' = Missing
      BY <2>1, <2>7 DEF Missing
    <3> QED
      BY <2>2, <2>3, <2>5, <2>7, <3>1 DEF CountInv
  <2> QED
    BY <2>2, <2>6, <2>7
<1>4. ASSUME NEW w \in Workers, Take(w)
      PROVE  CountInv'
  BY <1>1, <1>4, TakeKeepsRound DEF Take
<1>5. ASSUME Quiet
      PROVE  CountInv'
  <2>1. Pending' = Pending
    BY <1>5 DEF Quiet, Pending
  <2> QED
    BY <1>1, <1>5, <2>1 DEF Quiet
<1>6. ASSUME DiscoveryRaised
      PROVE  CountInv'
  BY <1>6 DEF DiscoveryRaised, CountInv
<1>7. ASSUME PageRead
      PROVE  CountInv'
  <2>1. /\ UNCHANGED <<pages, job, ready, metrics, errors>> /\ Idle /\ errors = 0
        /\ DOMAIN job = Workers /\ \A f \in Filesystems : metrics[f] = 0
    BY <1>7 DEF PageRead, PageArrives, RoundInv, PoolInv, Discovering
  <2>2. /\ rows' \in Seq(Filesystems) /\ stage = "discover"
        /\ \/ stage' = stage
           \/ rows' = <<>> /\ stage' = "over" /\ queue' = <<>>
           \/ stage' = "pool" /\ queue' = rows'
    BY <1>7, <2>1, PageAdds DEF PageRead, PageArrives, Idle
  <2>3. Missing' = RangeOf(rows')
    BY <2>1, <2>2 DEF Missing, RangeOf
  <2>4. ASSUME stage' \in {"pool", "over"}
        PROVE  Pending' = Missing'
    <3>1. queue' = rows'
      BY <2>2, <2>4
    <3>2. \A f : Waits(f)' <=> f \in RangeOf(rows')
      BY <2>1, <3>1 DEF Waits, Idle
    <3>3. \A f : f \in Pending' <=> f \in RangeOf(rows')
      BY <2>1, <3>2, PendingWaitsNext
    <3> QED
      BY <2>3, <3>3
  <2>5. Cardinality(Missing') \in Nat
    BY <2>2, <2>3, RowsAreFinite, FS_CardinalityType
  <2> QED
    BY <2>1, <2>4, <2>5 DEF CountInv
<1>8. ASSUME NEW w \in Workers, FutureDone(w)
      PROVE  CountInv'
  BY <1>1, <1>8, FutureKeepsRound DEF FutureDone
<1>9. ASSUME NEW t \in Threads, Request(t)
      PROVE  CountInv'
  BY <1>5, <1>6, <1>7, <1>8, <1>9, RequestEffect DEF RoundInv
<1>10. CASE Identity \/ UNCHANGED vars
  BY <1>5, <1>10 DEF Identity, vars, pool, Quiet
<1> QED
  BY <1>2, <1>3, <1>4, <1>9, <1>10 DEF Next

\* A collection that returns has missed as many of the filesystems it discovered as
\* its error_count says: with error_count = 0, the condition of remove_stale in
\* collect_lustre_once, its result is complete.
THEOREM ErrorCountIsExact == Spec => []ErrorsAreCounted
<1>1. Init => ChainInv /\ RoundInv /\ CountInv
  BY ChainInvInit, RoundInvInit, CountInit DEF Init
<1>2. ChainInv /\ RoundInv /\ CountInv /\ [Next]_vars => (ChainInv /\ RoundInv /\ CountInv)'
  BY CredentialStep, ChainInvNext, PoolInvNext, RoundStep, CountStep DEF RoundInv
<1>3. RoundInv /\ CountInv => ErrorsAreCounted
  <2> SUFFICES ASSUME RoundInv, CountInv, stage = "over"
               PROVE  errors = Cardinality({f \in RangeOf(rows) : metrics[f] # Requests})
    BY DEF ErrorsAreCounted
  <2>1. Missing = {f \in RangeOf(rows) : metrics[f] # Requests}
    <3>1. RangeOf(rows) \subseteq Filesystems
      BY DEF RangeOf, RoundInv, PoolInv
    <3> QED
      BY <3>1, FetchAssumption DEF Missing, RoundInv
  <2>2. Pending = {}
    <3>1. Idle /\ DOMAIN job = Workers
      BY DEF RoundInv, PoolInv
    <3>2. \A f : ~Waits(f)
      BY <3>1 DEF Waits, Idle, RangeOf
    <3> QED
      BY <3>1, <3>2, PendingWaits
  <2> QED
    BY <2>1, <2>2, FS_EmptySet DEF CountInv
<1> QED
  BY <1>1, <1>2, <1>3, PTL DEF Spec
=============================================================================
