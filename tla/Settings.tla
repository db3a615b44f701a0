------------------------------ MODULE Settings ------------------------------
(***************************************************************************)
(* The settings of the leader election: how load_settings reads them from    *)
(* the environment and checks them, and what LeaderElectionConfig, built     *)
(* from them later in the start, demands.  LeaseElection takes these demands  *)
(* as its assumption.                                                      *)
(***************************************************************************)
EXTENDS Integers

Durations == {"lease", "renew", "retry"}

\* What a variable may hold, as _get_int tells it apart: nothing or "", text
\* that is no integer, or an integer.
Readings == [kind : {"unset", "text", "integer"}, value : Int]

\* The name of the lock is read without a range or a fallback for "".
Environments ==
    [durations : [Durations -> Readings], lockName : {"unset", "empty", "named"}]

Default == [lease |-> 15, renew |-> 10, retry |-> 2]
Minimum == [lease |-> 5, renew |-> 2, retry |-> 1]
Maximum == [lease |-> 120, renew |-> 119, retry |-> 60]

\* _get_int returns, and what it returns.
Readable(raw, d) ==
    \/ raw.kind = "unset"
    \/ raw.kind = "integer" /\ raw.value \in Minimum[d] .. Maximum[d]

GetInt(env, d) ==
    IF env.durations[d].kind = "unset" THEN Default[d] ELSE env.durations[d].value

\* retry_period * 1.2, in whole numbers
OutlastsRetry(renew, retry) == 5 * renew > 6 * retry

\* load_settings returns.
Loads(env) ==
    /\ \A d \in Durations : Readable(env.durations[d], d)
    /\ GetInt(env, "renew") < GetInt(env, "lease")
    /\ OutlastsRetry(GetInt(env, "renew"), GetInt(env, "retry"))

\* The conditions of LeaderElectionConfig.__post_init__ on the durations.
ValidTiming(lease, renew, retry) ==
    /\ lease >= 5
    /\ renew < lease
    /\ retry >= 1
    /\ OutlastsRetry(renew, retry)

\* The dataclass is constructed: namespace and identity are never empty, for
\* they fall back, while an empty lock name is handed on as it is.
Constructs(env) ==
    /\ ValidTiming(GetInt(env, "lease"), GetInt(env, "renew"), GetInt(env, "retry"))
    /\ env.lockName # "empty"

=============================================================================
