-------------------------------- MODULE Counts --------------------------------
(***************************************************************************)
(* Sums of counts, as the pipeline client and rank 0 of the static         *)
(* experiment form them over the parts of a batch.                         *)
(***************************************************************************)
EXTENDS Integers, FiniteSets

\* The sum of a finite number of naturals is the number of all that is counted:
\* <<i, j>> is the j-th thing counted at i.
Units(counts) == UNION {{i} \X (1 .. counts[i]) : i \in DOMAIN counts}

Total(counts) == Cardinality(Units(counts))
=============================================================================
