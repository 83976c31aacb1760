----------------------------- MODULE MpiDynamic -----------------------------
(***************************************************************************)
(* The dynamic master-worker experiment,                                   *)
(* hpc-engine/src/mpi_experiment/main_mpi_dynamic.cpp: rank 0 hands out    *)
(* chunks of a batch of signatures, the other ranks verify them, report    *)
(* and ask for more.  The master receives from MPI_ANY_SOURCE, so it may   *)
(* answer the waiting workers in any order.                                *)
(***************************************************************************)
EXTENDS MpiWorld

CONSTANT ChunkSizes  \* the values of chunk_size, the second argument

\* The program refuses to run without a worker, and takes any chunk size.
ASSUME MpiAssumption == Size >= 2 /\ ChunkSizes \subseteq Nat

VARIABLES
  chunk,      \* chunk_size
  next,       \* next_index
  active,     \* active_workers
  processed,  \* total_processed
  valid,      \* total_valid
  outcome,    \* "running", then what the cross-check says
  report,     \* worker -> what it reports next: signatures processed and valid
  requests,   \* workers whose report is on its way to the master
  answer,     \* worker -> the message on its way to it
  owed,       \* worker -> indices handed to it and not reported yet (history)
  settled,    \* indices the master has a report of (history)
  bad         \* indices whose signature did not verify (history)

masterVars == <<next, active, processed, valid, outcome, owed, settled>>
workerVars == <<report, bad>>
messages == <<requests, answer>>
dynamicVars == <<chunk, masterVars, workerVars, messages>>

Workers == Ranks \ {0}
Indices == 0 .. total - 1

NoAnswer == [tag |-> "none"]
Terminate == [tag |-> "TERMINATE"]
Work(start, count) == [tag |-> "WORK", start |-> start, count |-> count]
WorkMessage == [tag : {"WORK"}, start : Nat, count : Nat]
Chunk(start, count) == start .. start + count - 1

DynamicTypeOK ==
  /\ chunk \in ChunkSizes
  /\ next \in 0 .. total
  /\ active \in 0 .. Size - 1
  /\ processed \in Nat /\ valid \in Nat
  /\ outcome \in {"running", "complete", "aborted"}
  /\ report \in [Workers -> BenchResult]
  /\ requests \in SUBSET Workers
  /\ answer \in [Workers -> WorkMessage \cup {NoAnswer, Terminate}]
  /\ owed \in [Workers -> SUBSET Indices]
  /\ settled \in SUBSET Indices /\ bad \in SUBSET Indices

DynamicInit ==
  /\ chunk \in ChunkSizes
  /\ next = 0 /\ active = Size - 1
  /\ processed = 0 /\ valid = 0 /\ outcome = "running"
  /\ report = [w \in Workers |-> [batch_size |-> 0, valid_count |-> 0]]
  /\ requests = {} /\ answer = [w \in Workers |-> NoAnswer]
  /\ owed = [w \in Workers |-> {}] /\ settled = {} /\ bad = {}

\* Between the barriers a rank only reads its arguments.
ReadArguments(r) == Continue(r, "preparing", "barrier2") /\ UNCHANGED dynamicVars

-----------------------------------------------------------------------------
(***************************************************************************)
(* The master: MPI_Recv of a report, then MPI_Send of the next chunk or,   *)
(* when nothing is left, of TERMINATE.                                     *)
(***************************************************************************)
Receive(w) ==
  /\ phase[0] = "working" /\ active > 0 /\ w \in requests
  /\ requests' = requests \ {w}
  /\ processed' = processed + report[w].batch_size
  /\ valid' = valid + report[w].valid_count
  /\ settled' = settled \cup owed[w]
  /\ UNCHANGED <<worldVars, chunk, workerVars, outcome>>

Send(w, message, indices) ==
  /\ answer' = [answer EXCEPT ![w] = message]
  /\ owed' = [owed EXCEPT ![w] = indices]

NextCount == IF chunk < total - next THEN chunk ELSE total - next

\* Faulty variant: the index moves on by one less than was handed out.
AssignOverlapping(w) ==
  /\ next < total
  /\ Receive(w)
  /\ Send(w, Work(next, NextCount), Chunk(next, NextCount))
  /\ next' = next + (IF NextCount > 1 THEN NextCount - 1 ELSE 1)
  /\ UNCHANGED active

\* A device stands for its index; its seed and the chunk's number are left out.
Assign(w) ==
  /\ next < total
  /\ Receive(w)
  /\ Send(w, Work(next, NextCount), Chunk(next, NextCount))
  /\ next' = next + NextCount
  /\ UNCHANGED active

\* Faulty variant: the master stops at the first worker it dismisses.
DismissOne(w) ==
  /\ next >= total
  /\ Receive(w)
  /\ Send(w, Terminate, {})
  /\ active' = 0
  /\ UNCHANGED next

Dismiss(w) ==
  /\ next >= total
  /\ Receive(w)
  /\ Send(w, Terminate, {})
  /\ active' = active - 1
  /\ UNCHANGED next

\* Faulty variant: only the number processed is compared.
AllProcessed == processed = total

AllValid == valid = total /\ processed = total

\* The cross-check, which reports or aborts.
CrossCheck ==
  /\ active = 0 /\ outcome = "running"
  /\ IF AllValid
     THEN outcome' = "complete" /\ Continue(0, "working", "done")
     ELSE outcome' = "aborted" /\ Goto(0, "working", "killed") /\ aborted' = TRUE
  /\ UNCHANGED <<chunk, next, active, processed, valid, owed, settled, workerVars, messages>>

-----------------------------------------------------------------------------
(***************************************************************************)
(* A worker: MPI_Send of its report, then MPI_Recv of a chunk, which it    *)
(* generates and verifies, or of TERMINATE.                                *)
(***************************************************************************)
SendReport(w) ==
  /\ phase[w] = "working" /\ w \notin requests /\ answer[w] = NoAnswer
  /\ requests' = requests \cup {w}
  /\ UNCHANGED <<worldVars, chunk, masterVars, workerVars, answer>>

Consume(w) == answer' = [answer EXCEPT ![w] = NoAnswer]

Stop(w) ==
  /\ answer[w] = Terminate
  /\ Continue(w, "working", "done")
  /\ Consume(w)
  /\ UNCHANGED <<chunk, masterVars, workerVars, requests>>

VerifyChunk(w) ==
  /\ phase[w] = "working" /\ answer[w] \in WorkMessage
  /\ LET generated == Chunk(answer[w].start, answer[w].count)
     IN  \E failed \in Failures(generated) :
           /\ report' = [report EXCEPT ![w] = Bench(generated, answer[w].count, failed)]
           /\ bad' = bad \cup failed
  /\ Consume(w)
  /\ UNCHANGED <<worldVars, chunk, masterVars, requests>>

-----------------------------------------------------------------------------
DynamicNext ==
  \/ \E r \in Ranks :
       \/ WorldStep(r) /\ UNCHANGED dynamicVars
       \/ ReadArguments(r)
  \/ CrossCheck
  \/ \E w \in Workers :
       Assign(w) \/ Dismiss(w) \/ SendReport(w) \/ Stop(w) \/ VerifyChunk(w)

DynamicSpec == WorldInit /\ DynamicInit /\ [][DynamicNext]_<<worldVars, dynamicVars>>

-----------------------------------------------------------------------------
(***************************************************************************)
(* Properties.                                                             *)
(***************************************************************************)
\* Every signature handed out is with exactly one worker or settled: no chunk
\* is given twice, overlaps another or falls outside the batch, whatever order
\* the workers ask in.
ExactlyOnce ==
  /\ settled \cup UNION {owed[w] : w \in Workers} = 0 .. next - 1
  /\ \A w \in Workers :
       /\ owed[w] \cap settled = {}
       /\ \A v \in Workers \ {w} : owed[w] \cap owed[v] = {}

\* The program speaks only of a whole batch, and aborts exactly when some
\* signature of it did not verify.  A chunk size of 0 makes it hand out nothing
\* for ever, but never report a success.
AbortsOnlyForBad ==
  outcome # "running" =>
    /\ settled = Indices
    /\ outcome = "aborted" <=> bad # {}
=============================================================================
