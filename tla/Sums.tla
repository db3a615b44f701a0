-------------------------------- MODULE Sums --------------------------------
(***************************************************************************)
(* The sum of a function's values over a finite set, as a cardinality.  No    *)
(* recursion is needed, so that it can be reasoned about.                    *)
(***************************************************************************)
EXTENDS Naturals, FiniteSets

\* The units f counts on a set: the pairs of an element and one of its units.
Units(f, set) == UNION {{i} \X (1 .. f[i]) : i \in set}
Sum(f, set) == Cardinality(Units(f, set))
=============================================================================
