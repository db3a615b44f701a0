-------------------------- MODULE CredentialChain --------------------------
(***************************************************************************)
(* ResilientAzureCredential: the chain of credentials that the environment  *)
(* selects, and get_token called by several threads, which remember in      *)
(* _active the member that answered last.  The lock covers each access to   *)
(* _active, not the call: a thread acts on what it read before.            *)
(*                                                                         *)
(* The Azure identities behind the members come and go on their own.       *)
(***************************************************************************)
EXTENDS Naturals, Sequences

CONSTANTS
    Callers,   \* the threads that ask for tokens
    Deployments,   \* the environments of this instance: VMSS_METRICS_AUTH_MODE,
                   \* whether the variables of a secret and of a federated token
                   \* are complete, and the constructors that raise
    Outages    \* how an identity may fail: "unavailable", "denied"

Members == {"service-principal", "workload-identity", "default-azure-credential"}
Identities == {"secret", "federated", "managed"}
AllDeployments ==
    [mode : {"auto", "service_principal", "workload_identity"},
     secret : BOOLEAN, federated : BOOLEAN, broken : SUBSET Members]

CredentialAssumption ==
    /\ Deployments \subseteq AllDeployments
    /\ Outages \subseteq {"unavailable", "denied"}

VARIABLES
    conf,      \* the deployment
    health,    \* health[i]: what identity i answers
    active,    \* _active, as a position in the chain, or 0
    call,      \* call[t]: where thread t stands in get_token
    at,        \* at[t]: the position in the chain it is at
    lived      \* lived[t], history: the identities up since its call began

vars == <<conf, health, active, call, at, lived>>

----------------------------------------------------------------------------
(* _build_credential_chain.  A deployment whose construction raises, or      *)
(* leaves the chain empty, does not start.                                 *)

SecretOnly(c) == c.mode = "service_principal" \/ (c.mode = "auto" /\ c.secret)

Raises(c) ==
    \/ c.mode = "service_principal" /\ (~c.secret \/ "service-principal" \in c.broken)
    \/ c.mode = "workload_identity" /\ (~c.federated \/ "workload-identity" \in c.broken)

Link(c, member, wanted) ==
    IF wanted /\ member \notin c.broken THEN <<member>> ELSE <<>>

Chain(c) ==
    IF Raises(c) THEN <<>>
    ELSE Link(c, "service-principal", SecretOnly(c))
         \o Link(c, "workload-identity", c.federated /\ ~SecretOnly(c))
         \o Link(c, "default-azure-credential", ~SecretOnly(c))

\* Mutant: the secret is not excluded from DefaultAzureCredential.
UsesSecret(c, member) ==
    CASE member = "service-principal" -> {"secret"}
      [] member = "workload-identity" -> {"federated"}
      [] OTHER -> {"managed"} \cup (IF c.secret THEN {"secret"} ELSE {})

\* The identities a member can answer with.
Uses(c, member) ==
    CASE member = "service-principal" -> {"secret"}
      [] member = "workload-identity" -> {"federated"}
      [] OTHER -> {"managed"}
                  \cup (IF c.secret /\ c.mode # "workload_identity" THEN {"secret"} ELSE {})

chain == Chain(conf)

InUse == UNION {Uses(conf, chain[k]) : k \in 1 .. Len(chain)}

----------------------------------------------------------------------------

Init ==
    /\ conf \in {c \in Deployments : Chain(c) # <<>>}
    /\ health \in [Identities -> {"up"} \cup Outages]
    /\ \A i \in Identities \ InUse : health[i] = "up"
    /\ active = 0
    /\ call = [t \in Callers |-> "idle"]
    /\ at = [t \in Callers |-> 0]
    /\ lived = [t \in Callers |-> {}]

\* An identity recovers or fails.
Change(i) ==
    /\ i \in InUse
    /\ \E h \in ({"up"} \cup Outages) \ {health[i]} : health' = [health EXCEPT ![i] = h]
    /\ lived' = [t \in Callers |-> lived[t] \ {i}]
    /\ UNCHANGED <<conf, active, call, at>>

Up == {i \in Identities : health[i] = "up"}
Answers(t) == Uses(conf, chain[at[t]]) \cap Up # {}

Goto(t, c) == call' = [call EXCEPT ![t] = c]

\* get_token is entered: _active is read under the lock.
Begin(t) ==
    /\ call[t] = "idle"
    /\ IF active = 0
          THEN Goto(t, "walk") /\ at' = [at EXCEPT ![t] = 1]
          ELSE Goto(t, "cached") /\ at' = [at EXCEPT ![t] = active]
    /\ lived' = [lived EXCEPT ![t] = Up]
    /\ UNCHANGED <<conf, health, active>>

\* Mutant: the token is not returned at once, _active is cleared whatever happens.
CachedAlwaysFails(t) ==
    /\ call[t] = "cached"
    /\ Goto(t, "clear")
    /\ UNCHANGED <<conf, health, active, at, lived>>

Cached(t) ==
    /\ call[t] = "cached"
    /\ Goto(t, IF Answers(t) THEN "token" ELSE "clear")
    /\ UNCHANGED <<conf, health, active, at, lived>>

\* Whatever _active holds by now.
ClearActive(t) ==
    /\ call[t] = "clear"
    /\ active' = 0
    /\ Goto(t, "walk") /\ at' = [at EXCEPT ![t] = 1]
    /\ UNCHANGED <<conf, health, lived>>

\* Mutant: only a credential that is unavailable lets the walk go on, as in
\* DefaultAzureCredential; one that is refused ends it.
TryUntilDenied(t) ==
    /\ call[t] = "walk" /\ at[t] <= Len(chain)
    /\ IF Answers(t) THEN Goto(t, "keep") /\ UNCHANGED at
       ELSE IF \E i \in Uses(conf, chain[at[t]]) : health[i] = "denied"
       THEN Goto(t, "raise") /\ UNCHANGED at
       ELSE at' = [at EXCEPT ![t] = @ + 1] /\ UNCHANGED call
    /\ UNCHANGED <<conf, health, active, lived>>

Try(t) ==
    /\ call[t] = "walk" /\ at[t] <= Len(chain)
    /\ IF Answers(t)
          THEN Goto(t, "keep") /\ UNCHANGED at
          ELSE at' = [at EXCEPT ![t] = @ + 1] /\ UNCHANGED call
    /\ UNCHANGED <<conf, health, active, lived>>

Keep(t) ==
    /\ call[t] = "keep"
    /\ active' = at[t]
    /\ Goto(t, "token")
    /\ UNCHANGED <<conf, health, at, lived>>

Refuse(t) ==
    /\ call[t] = "walk" /\ at[t] > Len(chain)
    /\ Goto(t, "raise")
    /\ UNCHANGED <<conf, health, active, at, lived>>

GetToken(t) == Cached(t) \/ ClearActive(t) \/ Try(t) \/ Keep(t) \/ Refuse(t)

\* The caller has its token or its ClientAuthenticationError.
Finish(t) ==
    /\ call[t] \in {"token", "raise"}
    /\ Goto(t, "idle")
    /\ at' = [at EXCEPT ![t] = 0]
    /\ lived' = [lived EXCEPT ![t] = {}]
    /\ UNCHANGED <<conf, health, active>>

----------------------------------------------------------------------------

Next ==
    \/ \E i \in Identities : Change(i)
    \/ \E t \in Callers : Begin(t) \/ GetToken(t) \/ Finish(t)

Spec == Init /\ [][Next]_vars

FairSpec == Spec /\ \A t \in Callers : WF_vars(GetToken(t) \/ Finish(t))

----------------------------------------------------------------------------

Phases == {"idle", "cached", "clear", "walk", "keep", "token", "raise"}
TypeOK ==
    /\ conf \in Deployments /\ chain # <<>>
    /\ health \in [Identities -> {"up"} \cup Outages]
    /\ active \in 0 .. Len(chain)
    /\ call \in [Callers -> Phases]
    /\ at \in [Callers -> 0 .. Len(chain) + 1]
    /\ lived \in [Callers -> SUBSET Identities]

\* get_token raises ClientAuthenticationError only when no identity that a member
\* of the chain can use was up throughout the call, whatever the other threads
\* stored in _active or cleared from it meanwhile: "catches any exception from a
\* credential and tries the next one".
NoFalseRefusal ==
    \A t \in Callers, k \in 1 .. Len(chain) :
       call[t] = "raise" => Uses(conf, chain[k]) \cap lived[t] = {}

\* A token never comes from an identity the deployment did not choose: a complete
\* service principal is not masked by another identity, and an explicit
\* workload_identity not by a mounted secret.
TokensAreRequested ==
    \A t \in Callers : call[t] \in {"token", "keep"} =>
       LET used == Uses(conf, chain[at[t]])
       IN  /\ SecretOnly(conf) => used = {"secret"}
           /\ conf.mode = "workload_identity" => "secret" \notin used

\* When the identities stay as they are, _active stays as it is too, after
\* finitely many calls: threads do not go on undoing each other's choice.
ActiveSettles ==
    <>[][UNCHANGED health]_vars => \E k \in 0 .. 2 : <>[](active = k)
============================================================================
