------------------------------ MODULE LeaderSpec ------------------------------
(***************************************************************************)
(* What the Lease election promises, without clocks, requests or threads: a    *)
(* lock.  The Lease is granted and freed only while nobody leads, and a pod    *)
(* comes to lead only as the holder written in it.                           *)
(***************************************************************************)
CONSTANTS Candidates, Missing, Nobody

VARIABLES
    holder,  \* the holder written in the Lease
    leaders  \* the pods that lead

Init == holder = Missing /\ leaders = {}

\* The Lease is created, taken over or given to a candidate.
Grant(p) ==
    /\ leaders = {}
    /\ holder' = p
    /\ UNCHANGED leaders

\* The Lease is released.
Free ==
    /\ leaders = {}
    /\ holder' = Nobody
    /\ UNCHANGED leaders

Lead(p) ==
    /\ leaders = {} /\ holder = p
    /\ leaders' = {p}
    /\ UNCHANGED holder

\* A leader steps down, stops or dies; the Lease still names it.
Yield(p) ==
    /\ p \in leaders
    /\ leaders' = leaders \ {p}
    /\ UNCHANGED holder

Next == Free \/ \E p \in Candidates : Grant(p) \/ Lead(p) \/ Yield(p)

Spec == Init /\ [][Next]_<<holder, leaders>>
=============================================================================
