-------------------------- MODULE MCLeaseElection --------------------------
(* Instances of LeaseElection for TLC: pods are interchangeable.           *)
EXTENDS LeaseElection, TLC

PodSymmetry == Permutations(Pods)

\* The timing of every run is one that some environment loads.
Set(n) == [kind |-> "integer", value |-> n]
ASSUME LoadableTiming ==
    Timing!Loads([durations |-> [lease |-> Set(LeaseDuration), renew |-> Set(RenewDeadline),
                                 retry |-> Set(RetryPeriod)],
                  lockName |-> "unset"])
=============================================================================
