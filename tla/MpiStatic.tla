------------------------------ MODULE MpiStatic ------------------------------
(***************************************************************************)
(* The static experiment, hpc-engine/src/mpi_experiment/main_mpi.cpp:      *)
(* each rank computes its share of the batch, generates that many devices, *)
(* waits for the others, verifies its own and takes part in reductions to  *)
(* rank 0, which reports.  The four reductions follow each other with      *)
(* nothing in between and are one step of a rank: all but rank 0 need not  *)
(* wait in them for anybody.                                               *)
(***************************************************************************)
EXTENDS MpiWorld, Counts

VARIABLES
  devices,  \* rank -> local_devices
  result,   \* rank -> local_res: nothing, or a BenchResult
  reduced,  \* the ranks whose contribution to the reductions is sent
  total_verified  \* what rank 0 reports, -1 before it does

staticVars == <<devices, result, reduced, total_verified>>

Nothing == [batch_size |-> -1, valid_count |-> -1]

StaticTypeOK ==
  /\ devices \in [Ranks -> SUBSET (Ranks \X Nat)]
  /\ result \in [Ranks -> BenchResult \cup {Nothing}]
  /\ reduced \subseteq Ranks
  /\ total_verified \in Nat \cup {-1}

StaticInit ==
  /\ devices = [r \in Ranks |-> {}]
  /\ result = [r \in Ranks |-> Nothing]
  /\ reduced = {}
  /\ total_verified = -1

-----------------------------------------------------------------------------
\* Faulty variant: one rank too many takes one of the remainder.
GenerousShare(r) == total \div Size + (IF r <= total % Size THEN 1 ELSE 0)

Share(r) == total \div Size + (IF r < total % Size THEN 1 ELSE 0)

\* The share, and generate_devices.
Generate(r) ==
  /\ Continue(r, "preparing", "barrier2")
  /\ devices' = [devices EXCEPT ![r] = {r} \X (1 .. Share(r))]
  /\ UNCHANGED <<result, reduced, total_verified>>

\* run_parallel over the local devices, all of them.
VerifyShare(r) ==
  /\ phase[r] = "working" /\ result[r] = Nothing
  /\ \E failed \in Failures(devices[r]) :
       result' = [result EXCEPT ![r] = Bench(devices[r], Cardinality(devices[r]), failed)]
  /\ UNCHANGED <<worldVars, devices, reduced, total_verified>>

Contribute(r) ==
  /\ r # 0 /\ result[r] # Nothing
  /\ Continue(r, "working", "done")
  /\ reduced' = reduced \cup {r}
  /\ UNCHANGED <<devices, result, total_verified>>

\* Rank 0 has everybody's numbers.  It adds up the sizes of the batches.
Report ==
  /\ result[0] # Nothing /\ reduced = Ranks \ {0}
  /\ Continue(0, "working", "done")
  /\ reduced' = reduced \cup {0}
  /\ total_verified' = Total([r \in Ranks |-> result[r].batch_size])
  /\ UNCHANGED <<devices, result>>

StaticNext ==
  \/ \E r \in Ranks :
       \/ WorldStep(r) /\ UNCHANGED staticVars
       \/ Generate(r) \/ VerifyShare(r) \/ Contribute(r)
  \/ Report

StaticSpec == WorldInit /\ StaticInit /\ [][StaticNext]_<<worldVars, staticVars>>

-----------------------------------------------------------------------------
(***************************************************************************)
(* Properties.                                                             *)
(***************************************************************************)
\* When rank 0 reports, the whole batch has been put to verification and every
\* part of it once: the ranks generated as many devices as the batch has, also
\* where the division has a rest or leaves a rank none, and each has verified all
\* of its own (a limit of 0, signature_bench.cpp:59, being no limit).
BatchIsDone ==
  total_verified # -1 =>
    /\ Total([r \in Ranks |-> Cardinality(devices[r])]) = total
    /\ \A r \in Ranks : result[r].batch_size = Cardinality(devices[r])

\* No rank prepares anything when the check of another has failed ("Wait for
\* rank 0 to finish sanity check", main_mpi.cpp:67), and none verifies before
\* all have generated ("so the timing reflects just the verification phase",
\* main_mpi.cpp:116).
PhasesAreApart ==
  /\ aborted => \A r \in Ranks : devices[r] = {}
  /\ \A r \in Ranks : result[r] # Nothing =>
       \A q \in Ranks : Cardinality(devices[q]) = Share(q)

\* What rank 0 reports is the "somma algebrica del conteggio firme verificate"
\* (hpc-engine/results/RAW_FINDINGS_LOG.md:50): the signatures that verified, and
\* no others.
ReportsVerified ==
  total_verified # -1 => total_verified = Total([r \in Ranks |-> result[r].valid_count])
=============================================================================
