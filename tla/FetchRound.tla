------------------------------ MODULE FetchRound ------------------------------
(***************************************************************************)
(* What one AzureManagedLustreCollector.collect promises, and what           *)
(* LustreGauges takes a round to be: it fails as a whole before any query,   *)
(* or it accounts for every filesystem there is exactly once, delivered      *)
(* complete or counted as an error.                                        *)
(***************************************************************************)
EXTENDS Naturals

CONSTANT Filesystems

VARIABLES
    there,  \* the filesystems Azure has when the round begins
    over,   \* no queries are under way
    todo,   \* the filesystems the round has not accounted for
    good,   \* those delivered
    bad     \* error_count

vars == <<there, over, todo, good, bad>>

Init == there = {} /\ over = TRUE /\ todo = {} /\ good = {} /\ bad = 0

Begin ==
    /\ over
    /\ there' \in SUBSET Filesystems
    /\ good' = {} /\ bad' = 0
    /\ UNCHANGED <<over, todo>>

\* All of them or none: a discovery that fails half way is no discovery.
Discover ==
    /\ over /\ good = {} /\ bad = 0
    /\ there # {} /\ todo' = there
    /\ over' = FALSE
    /\ UNCHANGED <<there, good, bad>>

Deliver(f) == good' = good \cup {f} /\ bad' = bad

Miss(f) == good' = good /\ bad' = bad + 1

Account ==
    /\ ~over
    /\ \E f \in todo : todo' = todo \ {f} /\ (Deliver(f) \/ Miss(f))
    /\ over' = (todo' = {})
    /\ UNCHANGED there

Next == Begin \/ Discover \/ Account

Spec == Init /\ [][Next]_vars
=============================================================================
