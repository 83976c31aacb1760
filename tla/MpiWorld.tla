------------------------------ MODULE MpiWorld ------------------------------
(***************************************************************************)
(* What the two MPI programs of hpc-engine/src/mpi_experiment share: ranks *)
(* that run the same program, which checks its environment, meets at a     *)
(* barrier, prepares its data, meets at a second barrier and works; and    *)
(* the verification of devices, onboarding/signature_bench.cpp.            *)
(*                                                                         *)
(* A barrier is entered by each rank by itself and left by each rank by    *)
(* itself, once all have entered it.  MPI_Abort ends the rank that calls   *)
(* it at once and the others some time later.                              *)
(***************************************************************************)
EXTENDS Integers, FiniteSets

CONSTANTS
  Size,           \* the number of ranks
  Totals,         \* the values of total_batch_size, the first argument
  ChecksMayFail,  \* may MPI's thread level or the sanity check disappoint?
  VerifyMayFail   \* may a signature fail to verify (OpenSSL out of memory)?

ASSUME WorldAssumption ==
  /\ Size \in Nat \ {0}
  /\ Totals \subseteq Nat
  /\ {ChecksMayFail, VerifyMayFail} \subseteq BOOLEAN

VARIABLES
  total,   \* total_batch_size
  phase,   \* rank -> where it is in main
  aborted  \* has MPI_Abort been called?

worldVars == <<total, phase, aborted>>

Ranks == 0 .. Size - 1

Inside2 == {"working", "done"}
Entered2 == Inside2 \cup {"barrier2"}
Inside1 == Entered2 \cup {"preparing"}
Entered1 == Inside1 \cup {"barrier1"}
Phases == Entered1 \cup {"starting", "killed"}

WorldTypeOK ==
  /\ total \in Totals
  /\ phase \in [Ranks -> Phases]
  /\ aborted \in BOOLEAN

WorldInit ==
  /\ total \in Totals
  /\ phase = [r \in Ranks |-> "starting"]
  /\ aborted = FALSE

Goto(r, from, to) ==
  /\ phase[r] = from
  /\ phase' = [phase EXCEPT ![r] = to]
  /\ UNCHANGED total

Continue(r, from, to) == Goto(r, from, to) /\ UNCHANGED aborted

\* MPI_Init_thread, and on rank 0 the sanity check.
Start(r) == Continue(r, "starting", "barrier1")

StartFails(r) ==
  /\ ChecksMayFail
  /\ Goto(r, "starting", "killed")
  /\ aborted' = TRUE

Killed(r) ==
  /\ aborted
  /\ phase[r] # "done"
  /\ \E from \in Phases \ {"killed"} : Continue(r, from, "killed")

\* Faulty variant: nobody waits at the first barrier.
WalkThrough1(r) == Continue(r, "barrier1", "preparing")

Leave1(r) ==
  /\ \A q \in Ranks : phase[q] \in Entered1
  /\ Continue(r, "barrier1", "preparing")

Leave2(r) ==
  /\ \A q \in Ranks : phase[q] \in Entered2
  /\ Continue(r, "barrier2", "working")

WorldStep(r) == Start(r) \/ StartFails(r) \/ Killed(r) \/ Leave1(r) \/ Leave2(r)

Ended == \A r \in Ranks : phase[r] \in {"done", "killed"}

-----------------------------------------------------------------------------
(***************************************************************************)
(* SignatureBench: how many of the devices a run verifies, a limit of 0    *)
(* being no limit, and which of them may fail to.                          *)
(***************************************************************************)
ActualLimit(limit, size) == IF limit = 0 \/ limit > size THEN size ELSE limit

Failures(devices) == IF VerifyMayFail THEN SUBSET devices ELSE {{}}

BenchResult == [batch_size : Nat, valid_count : Nat]

Bench(devices, limit, failed) ==
  [batch_size  |-> ActualLimit(limit, Cardinality(devices)),
   valid_count |-> ActualLimit(limit, Cardinality(devices)) - Cardinality(failed)]
=============================================================================
