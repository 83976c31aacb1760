----------------------------- MODULE Mpi_proofs -----------------------------
(***************************************************************************)
(* Proofs about the two MPI programs, for any number of ranks, any batch   *)
(* and any chunk size: the dynamic one settles every signature once and    *)
(* its cross-check aborts exactly for signatures that do not verify; the   *)
(* static one keeps generation and verification apart.                     *)
(***************************************************************************)
EXTENDS MpiStatic, MpiDynamic, Counts_proofs

-----------------------------------------------------------------------------
(***************************************************************************)
(* What both programs share.                                               *)
(***************************************************************************)
LEMMA WorldStart == WorldInit => WorldTypeOK
  BY DEF WorldInit, WorldTypeOK, Phases, Entered1

LEMMA ContinueKeeps ==
  ASSUME WorldTypeOK, NEW r \in Ranks, NEW from, NEW to \in Phases, Continue(r, from, to)
  PROVE  /\ WorldTypeOK'
         /\ phase' = [phase EXCEPT ![r] = to] /\ phase[r] = from
         /\ total' = total /\ aborted' = aborted
  BY DEF Continue, Goto, WorldTypeOK

\* A step of the world ends no rank normally.
LEMMA WorldStepKeeps ==
  ASSUME WorldTypeOK, NEW r \in Ranks,
         WorldStep(r) \/ Continue(r, "preparing", "barrier2")
  PROVE  /\ WorldTypeOK' /\ total' = total
         /\ \A q \in Ranks : phase'[q] = "done" <=> phase[q] = "done"
<1> USE DEF Phases, Entered1, Inside1, Entered2, Inside2
<1>1. CASE Start(r) \/ Leave1(r) \/ Leave2(r) \/ Continue(r, "preparing", "barrier2")
  <2>1. PICK from \in {"starting", "barrier1", "barrier2", "preparing"},
             to \in {"barrier1", "preparing", "working", "barrier2"} : Continue(r, from, to)
    BY <1>1 DEF Start, Leave1, Leave2
  <2> QED BY <2>1 DEF Continue, Goto, WorldTypeOK
<1>2. CASE StartFails(r)
  BY <1>2 DEF StartFails, Goto, WorldTypeOK
<1>3. CASE Killed(r)
  BY <1>3 DEF Killed, Continue, Goto, WorldTypeOK
<1> QED BY <1>1, <1>2, <1>3 DEF WorldStep

-----------------------------------------------------------------------------
(***************************************************************************)
(* The dynamic program: the inductive invariant.                           *)
(***************************************************************************)
Types == WorldTypeOK /\ DynamicTypeOK

\* ExactlyOnce, index by index.
Partition ==
  /\ \A i \in Int : i \in 0 .. next - 1 <=> i \in settled \/ \E w \in Workers : i \in owed[w]
  /\ \A w \in Workers : \A i \in owed[w] :
       i \notin settled /\ \A v \in Workers \ {w} : i \notin owed[v]

Dismissed(w) == answer[w] = Terminate \/ phase[w] = "done"

Reported(w) == answer[w] = NoAnswer /\ phase[w] # "done"

\* What a worker owes is in the message on its way to it, then in its report.
Carried(w) ==
  /\ w \in requests => Reported(w)
  /\ phase[w] = "done" => answer[w] = NoAnswer
  /\ Dismissed(w) => owed[w] = {} /\ next = total
  /\ answer[w] \in WorkMessage =>
       /\ owed[w] = Chunk(answer[w].start, answer[w].count)
       /\ owed[w] \cap bad = {}
  /\ Reported(w) =>
       /\ report[w].batch_size = Cardinality(owed[w])
       /\ report[w].valid_count = Cardinality(owed[w] \ bad)

\* The master's counters: active_workers is the number of workers not dismissed.
Counted ==
  /\ processed = Cardinality(settled)
  /\ valid = Cardinality(settled \ bad)
  /\ active = Cardinality({w \in Workers : ~Dismissed(w)})

Verdict ==
  /\ AbortsOnlyForBad
  /\ outcome # "running" => active = 0

DInv ==
  /\ Types
  /\ Partition
  /\ \A w \in Workers : Carried(w)
  /\ bad \subseteq 0 .. next - 1
  /\ Counted
  /\ Verdict

-----------------------------------------------------------------------------
LEMMA Finite ==
  ASSUME Types
  PROVE  /\ IsFiniteSet(Workers) /\ IsFiniteSet(Indices)
         /\ \A S : S \subseteq Workers \/ S \subseteq Indices =>
              IsFiniteSet(S) /\ Cardinality(S) \in Nat
         /\ Cardinality(Indices) = total /\ total \in Nat
         /\ Cardinality(Workers) = Size - 1 /\ Workers # {}
<1>1. Size \in Nat /\ Size >= 2 /\ total \in Nat
  BY WorldAssumption, MpiAssumption DEF Types, WorldTypeOK
<1>2. IsFiniteSet(Indices) /\ Cardinality(Indices) = total
  BY <1>1, FS_Interval DEF Indices
<1>3. Workers = 1 .. Size - 1
  BY <1>1 DEF Workers, Ranks
<1>4. IsFiniteSet(Workers) /\ Cardinality(Workers) = Size - 1 /\ 1 \in Workers
  BY <1>1, <1>3, FS_Interval
<1>5. ASSUME NEW S, S \subseteq Workers \/ S \subseteq Indices
      PROVE  IsFiniteSet(S) /\ Cardinality(S) \in Nat
  BY <1>2, <1>4, <1>5, FS_Subset, FS_CardinalityType
<1> QED BY <1>1, <1>2, <1>4, <1>5

LEMMA DynamicStart == WorldInit /\ DynamicInit => DInv
<1> SUFFICES ASSUME WorldInit, DynamicInit PROVE DInv
  OBVIOUS
<1>1. Size \in Nat /\ Size >= 2 /\ total \in Nat /\ WorldTypeOK
  BY WorldAssumption, MpiAssumption, WorldStart DEF WorldInit
<1>2. DynamicTypeOK
  BY <1>1 DEF DynamicInit, DynamicTypeOK, BenchResult
<1>3. Partition /\ bad \subseteq 0 .. next - 1
  BY DEF DynamicInit, Partition
<1>4. ASSUME NEW w \in Workers PROVE Carried(w) /\ ~Dismissed(w)
  <2>1. /\ answer[w] = NoAnswer /\ w \notin requests /\ owed[w] = {}
        /\ report[w].batch_size = 0 /\ report[w].valid_count = 0
        /\ phase[w] # "done"
    BY DEF DynamicInit, WorldInit, Workers
  <2>2. NoAnswer # Terminate /\ NoAnswer \notin WorkMessage
    BY DEF NoAnswer, Terminate, WorkMessage
  <2> QED BY <2>1, <2>2, FS_EmptySet DEF Carried, Dismissed, Reported
<1>5. Counted
  <2>1. {w \in Workers : ~Dismissed(w)} = Workers
    BY <1>4
  <2>2. settled = {} /\ bad = {} /\ processed = 0 /\ valid = 0 /\ active = Size - 1
    BY DEF DynamicInit
  <2> QED BY <1>1, <1>2, <2>1, <2>2, Finite, FS_EmptySet DEF Counted, Types
<1>6. Verdict
  BY DEF Verdict, AbortsOnlyForBad, DynamicInit
<1> QED BY <1>1, <1>2, <1>3, <1>4, <1>5, <1>6 DEF DInv, Types

-----------------------------------------------------------------------------
(***************************************************************************)
(* The steps of the dynamic program that move no index.                    *)
(***************************************************************************)
LEMMA Tags ==
  /\ NoAnswer # Terminate /\ NoAnswer \notin WorkMessage /\ Terminate \notin WorkMessage
  /\ \A s, c \in Nat : /\ Work(s, c) \in WorkMessage
                       /\ Work(s, c).start = s /\ Work(s, c).count = c
  BY DEF NoAnswer, Terminate, WorkMessage, Work

LEMMA WorldPart ==
  ASSUME DInv, WorldTypeOK', total' = total, UNCHANGED dynamicVars,
         \A q \in Ranks : phase'[q] = "done" <=> phase[q] = "done"
  PROVE  DInv'
<1> USE DEF dynamicVars, masterVars, workerVars, messages
<1>1. Types'
  BY DEF DInv, Types, DynamicTypeOK, Indices
<1>2. Partition' /\ bad' \subseteq 0 .. next' - 1
  BY DEF DInv, Partition
<1>3. ASSUME NEW w \in Workers PROVE Carried(w)' /\ (Dismissed(w)' <=> Dismissed(w))
  BY DEF DInv, Carried, Dismissed, Reported, Workers
<1>4. Counted'
  <2>1. {w \in Workers : ~Dismissed(w)}' = {w \in Workers : ~Dismissed(w)}
    BY <1>3
  <2> QED BY <2>1 DEF DInv, Counted
<1>5. Verdict'
  BY DEF DInv, Verdict, AbortsOnlyForBad, Indices
<1> QED BY <1>1, <1>2, <1>3, <1>4, <1>5 DEF DInv

LEMMA SendReportStep ==
  ASSUME DInv, NEW w \in Workers, SendReport(w)
  PROVE  DInv'
<1> USE DEF SendReport, worldVars, masterVars, workerVars
<1>1. Types'
  BY DEF DInv, Types, WorldTypeOK, DynamicTypeOK, Indices
<1>2. Partition' /\ bad' \subseteq 0 .. next' - 1
  BY DEF DInv, Partition
<1>3. ASSUME NEW v \in Workers PROVE Carried(v)' /\ (Dismissed(v)' <=> Dismissed(v))
  BY DEF DInv, Carried, Dismissed, Reported
<1>4. Counted'
  <2>1. {v \in Workers : ~Dismissed(v)}' = {v \in Workers : ~Dismissed(v)}
    BY <1>3
  <2> QED BY <2>1 DEF DInv, Counted
<1>5. Verdict'
  BY DEF DInv, Verdict, AbortsOnlyForBad, Indices
<1> QED BY <1>1, <1>2, <1>3, <1>4, <1>5 DEF DInv

LEMMA StopStep ==
  ASSUME DInv, NEW w \in Workers, Stop(w)
  PROVE  DInv'
<1> USE DEF Stop, masterVars, workerVars
<1>0. /\ WorldTypeOK' /\ total' = total /\ phase' = [phase EXCEPT ![w] = "done"]
      /\ answer[w] = Terminate /\ answer' = [answer EXCEPT ![w] = NoAnswer]
      /\ phase \in [Ranks -> Phases] /\ w \in Ranks
      /\ answer \in [Workers -> WorkMessage \cup {NoAnswer, Terminate}]
  BY ContinueKeeps
     DEF Consume, DInv, Types, WorldTypeOK, DynamicTypeOK, Workers, Phases, Entered1,
         Inside1, Entered2, Inside2
<1>1. Types'
  BY <1>0 DEF DInv, Types, DynamicTypeOK, Indices
<1>2. Partition' /\ bad' \subseteq 0 .. next' - 1
  BY DEF DInv, Partition
<1>3. ASSUME NEW v \in Workers PROVE Carried(v)' /\ (Dismissed(v)' <=> Dismissed(v))
  BY <1>0, Tags DEF DInv, Carried, Dismissed, Reported, Workers
<1>4. Counted'
  <2>1. {v \in Workers : ~Dismissed(v)}' = {v \in Workers : ~Dismissed(v)}
    BY <1>3
  <2> QED BY <2>1 DEF DInv, Counted
<1>5. Verdict'
  BY <1>0 DEF DInv, Verdict, AbortsOnlyForBad, Indices
<1> QED BY <1>1, <1>2, <1>3, <1>4, <1>5 DEF DInv

LEMMA CrossCheckStep ==
  ASSUME DInv, CrossCheck
  PROVE  DInv'
<1> USE DEF CrossCheck, workerVars, messages
<1>0. /\ WorldTypeOK' /\ total' = total
      /\ \A w \in Workers : phase'[w] = phase[w]
  BY ContinueKeeps, WorldAssumption
     DEF DInv, Types, WorldTypeOK, Continue, Goto, Workers, Ranks, Phases, Entered1,
         Inside1, Entered2, Inside2
<1>1. Types'
  BY <1>0 DEF DInv, Types, DynamicTypeOK, Indices
<1>2. Partition' /\ bad' \subseteq 0 .. next' - 1
  BY DEF DInv, Partition
<1>3. ASSUME NEW w \in Workers PROVE Carried(w)' /\ (Dismissed(w)' <=> Dismissed(w))
  BY <1>0 DEF DInv, Carried, Dismissed, Reported
<1>4. Counted'
  <2>1. {w \in Workers : ~Dismissed(w)}' = {w \in Workers : ~Dismissed(w)}
    BY <1>3
  <2> QED BY <2>1 DEF DInv, Counted
<1>5. settled = Indices
  <2>1. \A w \in Workers : Dismissed(w)
    BY Finite, FS_EmptySet DEF DInv, Counted
  <2>2. next = total /\ \A w \in Workers : owed[w] = {}
    BY <2>1, Finite DEF DInv, Carried
  <2>3. ASSUME NEW i \in Indices PROVE i \in settled
    BY <2>2, Finite DEF DInv, Partition, Indices
  <2>4. settled \subseteq Indices
    BY DEF DInv, Types, DynamicTypeOK
  <2> QED BY <2>3, <2>4
<1>6. AllValid <=> bad = {}
  <2>1. bad \subseteq Indices
    BY DEF DInv, Types, DynamicTypeOK
  <2>2. Cardinality(Indices \ bad) = Cardinality(Indices) <=> bad = {}
    BY <2>1, Finite, FS_Subset DEF DInv
  <2> QED BY <1>5, <2>2, Finite DEF AllValid, DInv, Counted
<1>7. Verdict'
  BY <1>0, <1>5, <1>6 DEF Verdict, AbortsOnlyForBad, Indices
<1> QED BY <1>1, <1>2, <1>3, <1>4, <1>7 DEF DInv

-----------------------------------------------------------------------------
(***************************************************************************)
(* A worker verifies its chunk: what it reports is what it was given, less *)
(* what does not verify.                                                   *)
(***************************************************************************)
LEMMA BenchCounts ==
  ASSUME NEW D, IsFiniteSet(D), NEW failed \in Failures(D)
  PROVE  /\ failed \subseteq D
         /\ Bench(D, Cardinality(D), failed) \in BenchResult
         /\ Bench(D, Cardinality(D), failed).batch_size = Cardinality(D)
         /\ Bench(D, Cardinality(D), failed).valid_count = Cardinality(D \ failed)
<1>1. failed \subseteq D
  BY DEF Failures
<1>2. IsFiniteSet(failed) /\ Cardinality(failed) \in Nat /\ Cardinality(D) \in Nat
  BY <1>1, FS_Subset, FS_CardinalityType
<1>3. IsFiniteSet(D \ failed) /\ Cardinality(D \ failed) \in Nat
  BY FS_Subset, FS_CardinalityType
<1>4. Cardinality(D \ failed) = Cardinality(D) - Cardinality(failed)
  <2>1. D = (D \ failed) \cup failed /\ (D \ failed) \cap failed = {}
    BY <1>1
  <2>2. Cardinality(D) = Cardinality(D \ failed) + Cardinality(failed) - Cardinality({})
    BY <1>2, <1>3, <2>1, FS_Union
  <2> QED BY <1>2, <1>3, <2>2, FS_EmptySet
<1>5. ActualLimit(Cardinality(D), Cardinality(D)) = Cardinality(D)
  BY <1>2 DEF ActualLimit
<1> QED BY <1>1, <1>2, <1>3, <1>4, <1>5 DEF Bench, BenchResult

LEMMA ChunkCounts ==
  ASSUME NEW start \in Nat, NEW count \in Nat
  PROVE  IsFiniteSet(Chunk(start, count)) /\ Cardinality(Chunk(start, count)) = count
  BY FS_Interval DEF Chunk

LEMMA VerifyChunkStep ==
  ASSUME DInv, NEW w \in Workers, VerifyChunk(w)
  PROVE  DInv'
<1> DEFINE generated == Chunk(answer[w].start, answer[w].count)
<1> USE DEF masterVars, worldVars
<1>0. PICK failed \in Failures(generated) :
        /\ report' = [report EXCEPT ![w] = Bench(generated, answer[w].count, failed)]
        /\ bad' = bad \cup failed
  BY DEF VerifyChunk
<1>1. /\ phase[w] = "working" /\ answer[w] \in WorkMessage
      /\ answer' = [answer EXCEPT ![w] = NoAnswer]
      /\ UNCHANGED <<total, phase, aborted, chunk, next, active, processed, valid, outcome,
                     owed, settled, requests>>
  BY DEF VerifyChunk, Consume
<1>2. /\ answer[w].start \in Nat /\ answer[w].count \in Nat
      /\ owed[w] = generated /\ owed[w] \cap bad = {} /\ ~Dismissed(w)
      /\ w \notin requests
  BY <1>1, Tags DEF DInv, Carried, Reported, Dismissed, WorkMessage
<1>3. /\ failed \subseteq owed[w] /\ report'[w] \in BenchResult
      /\ report'[w].batch_size = Cardinality(owed[w])
      /\ report'[w].valid_count = Cardinality(owed[w] \ failed)
      /\ \A v \in Workers \ {w} : report'[v] = report[v]
  <2>1. report'[w] = Bench(generated, answer[w].count, failed)
        /\ \A v \in Workers \ {w} : report'[v] = report[v]
    BY <1>0 DEF DInv, Types, DynamicTypeOK
  <2>2. IsFiniteSet(generated) /\ Cardinality(generated) = answer[w].count
    BY <1>2, ChunkCounts
  <2> HIDE DEF generated
  <2>3. report'[w] = Bench(generated, Cardinality(generated), failed)
    BY <2>1, <2>2
  <2>4. failed \in Failures(generated)
    BY <1>0
  <2>5. /\ failed \subseteq generated /\ report'[w] \in BenchResult
        /\ report'[w].batch_size = Cardinality(generated)
        /\ report'[w].valid_count = Cardinality(generated \ failed)
    BY <2>2, <2>3, <2>4, BenchCounts
  <2> QED BY <1>2, <2>1, <2>5
<1> HIDE DEF generated
<1>4. Types'
  <2>1. failed \subseteq Indices
    BY <1>3 DEF DInv, Types, DynamicTypeOK
  <2>2. /\ report' \in [Workers -> BenchResult]
        /\ answer' \in [Workers -> WorkMessage \cup {NoAnswer, Terminate}]
    BY <1>0, <1>1, <1>3 DEF DInv, Types, DynamicTypeOK
  <2> QED BY <1>0, <1>1, <2>1, <2>2 DEF DInv, Types, WorldTypeOK, DynamicTypeOK, Indices
<1>5. Partition' /\ bad' \subseteq 0 .. next' - 1
  <2>1. Partition'
    BY <1>1 DEF DInv, Partition
  <2>2. owed[w] \subseteq 0 .. next - 1
    <3>1. owed[w] \subseteq Int
      BY DEF DInv, Types, DynamicTypeOK, Indices
    <3> QED BY <3>1 DEF DInv, Partition
  <2> QED BY <1>0, <1>1, <1>3, <2>1, <2>2 DEF DInv
<1>6. ASSUME NEW v \in Workers PROVE Carried(v)' /\ (Dismissed(v)' <=> Dismissed(v))
  <2>1. CASE v = w
    <3>1. answer'[w] = NoAnswer
      BY <1>1 DEF DInv, Types, DynamicTypeOK
    <3>2. owed'[w] \ bad' = owed[w] \ failed
      <4>1. owed'[w] = owed[w] /\ bad' = bad \cup failed /\ owed[w] \cap bad = {}
        BY <1>0, <1>1, <1>2
      <4> QED BY <4>1
    <3>3. /\ phase'[w] = "working" /\ w \notin requests' /\ ~Dismissed(w)
          /\ report'[w].batch_size = Cardinality(owed'[w])
          /\ report'[w].valid_count = Cardinality(owed'[w] \ bad')
      <4>1. owed' = owed /\ phase' = phase /\ requests' = requests
        BY <1>1
      <4> QED BY <1>1, <1>2, <1>3, <3>2, <4>1
    <3>4. Carried(w)' /\ (Dismissed(w)' <=> Dismissed(w))
      BY <3>1, <3>3, Tags DEF Carried, Dismissed, Reported
    <3> QED BY <2>1, <3>4
  <2>2. CASE v # w
    <3>1. answer'[v] = answer[v] /\ report'[v] = report[v] /\ owed'[v] = owed[v]
      BY <1>1, <1>3, <2>2 DEF DInv, Types, DynamicTypeOK
    <3>2. owed[v] \cap failed = {}
      BY <1>3, <2>2 DEF DInv, Partition
    <3>3. owed'[v] \ bad' = owed[v] \ bad /\ (owed'[v] \cap bad' = owed[v] \cap bad)
      BY <1>0, <3>1, <3>2
    <3> QED BY <1>1, <3>1, <3>3 DEF DInv, Carried, Dismissed, Reported
  <2> QED BY <2>1, <2>2
<1>7. Counted'
  <2>1. {v \in Workers : ~Dismissed(v)}' = {v \in Workers : ~Dismissed(v)}
    BY <1>6
  <2>2. settled' \ bad' = settled \ bad
    BY <1>0, <1>1, <1>3 DEF DInv, Partition
  <2> QED BY <1>1, <2>1, <2>2 DEF DInv, Counted
<1>8. Verdict'
  <2>1. outcome = "running"
    <3>1. active # 0
      <4>1. w \in {v \in Workers : ~Dismissed(v)}
        BY <1>2
      <4> QED BY <4>1, Finite, FS_EmptySet DEF DInv, Counted
    <3> QED BY <3>1 DEF DInv, Verdict
  <2> QED BY <1>1, <2>1 DEF Verdict, AbortsOnlyForBad
<1> QED BY <1>4, <1>5, <1>6, <1>7, <1>8 DEF DInv

-----------------------------------------------------------------------------
(***************************************************************************)
(* The master receives a report, and hands out a chunk or dismisses.       *)
(***************************************************************************)
LEMMA Received ==
  ASSUME DInv, NEW w \in Workers, Receive(w)
  PROVE  /\ UNCHANGED <<total, phase, aborted, chunk, report, bad, outcome>>
         /\ requests' = requests \ {w} /\ w \in requests
         /\ answer[w] = NoAnswer /\ phase[w] # "done" /\ ~Dismissed(w)
         /\ settled' = settled \cup owed[w] /\ settled' \subseteq Indices
         /\ processed' = Cardinality(settled') /\ valid' = Cardinality(settled' \ bad)
         /\ outcome = "running"
<1>1. /\ UNCHANGED <<total, phase, aborted, chunk, report, bad, outcome>>
      /\ requests' = requests \ {w} /\ w \in requests /\ active > 0
      /\ settled' = settled \cup owed[w]
      /\ processed' = processed + report[w].batch_size
      /\ valid' = valid + report[w].valid_count
  BY DEF Receive, worldVars, workerVars
<1>2. /\ answer[w] = NoAnswer /\ phase[w] # "done" /\ ~Dismissed(w)
      /\ report[w].batch_size = Cardinality(owed[w])
      /\ report[w].valid_count = Cardinality(owed[w] \ bad)
  BY <1>1, Tags DEF DInv, Carried, Reported, Dismissed
<1>3. settled \subseteq Indices /\ owed[w] \subseteq Indices /\ settled \cap owed[w] = {}
  BY DEF DInv, Types, DynamicTypeOK, Partition
<1>4. ASSUME NEW S \in SUBSET Indices, NEW T \in SUBSET Indices, S \cap T = {}
      PROVE  Cardinality(S \cup T) = Cardinality(S) + Cardinality(T)
  <2>1. IsFiniteSet(S) /\ IsFiniteSet(T) /\ Cardinality(S) \in Nat /\ Cardinality(T) \in Nat
    BY Finite DEF DInv
  <2>2. Cardinality(S \cup T) = Cardinality(S) + Cardinality(T) - Cardinality({})
    BY <1>4, <2>1, FS_Union
  <2> QED BY <2>1, <2>2, FS_EmptySet
<1>5. processed' = Cardinality(settled')
  <2>1. Cardinality(settled') = Cardinality(settled) + Cardinality(owed[w])
    BY <1>1, <1>3, <1>4
  <2> QED BY <1>1, <1>2, <2>1 DEF DInv, Counted
<1>6. valid' = Cardinality(settled' \ bad)
  <2>1. settled' \ bad = (settled \ bad) \cup (owed[w] \ bad)
    BY <1>1
  <2>2. /\ settled \ bad \in SUBSET Indices /\ owed[w] \ bad \in SUBSET Indices
        /\ (settled \ bad) \cap (owed[w] \ bad) = {}
    BY <1>3
  <2>3. Cardinality(settled' \ bad) = Cardinality(settled \ bad) + Cardinality(owed[w] \ bad)
    BY <1>4, <2>1, <2>2
  <2> QED BY <1>1, <1>2, <2>3 DEF DInv, Counted
<1>7. outcome = "running"
  BY <1>1 DEF DInv, Verdict
<1> QED BY <1>1, <1>2, <1>3, <1>5, <1>6, <1>7

LEMMA Beyond ==
  ASSUME NEW a \in Nat, NEW b \in Nat, a <= b, NEW i \in Int
  PROVE  i \in 0 .. b - 1 <=> i \in 0 .. a - 1 \/ (a <= i /\ i < b)
  OBVIOUS

LEMMA AssignStep ==
  ASSUME DInv, NEW w \in Workers, Assign(w)
  PROVE  DInv'
<1> DEFINE fresh == Chunk(next, NextCount)
<1>1. /\ Receive(w) /\ next < total /\ active' = active
      /\ answer' = [answer EXCEPT ![w] = Work(next, NextCount)]
      /\ owed' = [owed EXCEPT ![w] = fresh]
      /\ next' = next + NextCount
  BY DEF Assign, Send
<1>2. /\ next \in Nat /\ total \in Nat /\ NextCount \in Nat
      /\ next' \in 0 .. total /\ next <= next'
      /\ fresh \subseteq Int /\ \A i \in Int : i \in fresh <=> next <= i /\ i < next'
  BY <1>1, MpiAssumption, WorldAssumption
     DEF DInv, Types, WorldTypeOK, DynamicTypeOK, NextCount, Chunk
<1> HIDE DEF fresh
<1>3. fresh \subseteq Indices /\ fresh \cap (0 .. next - 1) = {}
  <2>1. ASSUME NEW i \in fresh PROVE i \in Indices /\ i \notin 0 .. next - 1
    BY <1>2 DEF Indices
  <2> QED BY <2>1
<1>4. /\ answer'[w] = Work(next, NextCount) /\ owed'[w] = fresh
      /\ \A v \in Workers \ {w} : answer'[v] = answer[v] /\ owed'[v] = owed[v]
  BY <1>1 DEF DInv, Types, DynamicTypeOK
<1>5. /\ answer'[w] \in WorkMessage /\ answer'[w] # NoAnswer /\ answer'[w] # Terminate
      /\ owed'[w] = Chunk(answer'[w].start, answer'[w].count)
  BY <1>2, <1>4, Tags DEF fresh
<1>6. Types'
  <2>1. /\ owed' \in [Workers -> SUBSET Indices]
        /\ answer' \in [Workers -> WorkMessage \cup {NoAnswer, Terminate}]
    BY <1>1, <1>3, <1>5 DEF DInv, Types, DynamicTypeOK
  <2>2. processed' \in Nat /\ valid' \in Nat
    <3>1. settled' \ bad \subseteq Indices
      BY <1>1, Received
    <3> QED BY <1>1, <3>1, Received, Finite DEF DInv
  <2> QED BY <1>1, <1>2, <2>1, <2>2, Received DEF DInv, Types, WorldTypeOK, DynamicTypeOK, Indices
<1>7. Partition'
  <2>0. settled' = settled \cup owed[w]
    BY <1>1, Received
  <2>1. ASSUME NEW i \in Int
        PROVE  i \in 0 .. next' - 1 <=> i \in settled' \/ \E v \in Workers : i \in owed'[v]
    <3>1. i \in 0 .. next' - 1 <=> i \in 0 .. next - 1 \/ i \in fresh
      <4>1. next \in Nat /\ next' \in Nat /\ next <= next'
        BY <1>2
      <4>2. i \in 0 .. next' - 1 <=> i \in 0 .. next - 1 \/ (next <= i /\ i < next')
        BY <4>1, Beyond
      <4>3. i \in fresh <=> next <= i /\ i < next'
        BY <1>2
      <4> QED BY <4>2, <4>3
    <3>2. i \in 0 .. next - 1 <=> i \in settled \/ \E v \in Workers : i \in owed[v]
      BY DEF DInv, Partition
    <3> QED BY <1>4, <2>0, <3>1, <3>2
  <2>2. ASSUME NEW v \in Workers, NEW i \in owed'[v]
        PROVE  i \notin settled' /\ \A u \in Workers \ {v} : i \notin owed'[u]
    <3>1. \A u \in Workers : owed[u] \subseteq 0 .. next - 1
      BY <1>2 DEF DInv, Types, DynamicTypeOK, Partition, Indices
    <3>2. settled \subseteq 0 .. next - 1
      BY <1>2 DEF DInv, Types, DynamicTypeOK, Partition, Indices
    <3>3. CASE v = w
      BY <1>3, <1>4, <2>0, <2>2, <3>1, <3>2, <3>3
    <3>4. CASE v # w
      BY <1>3, <1>4, <2>0, <2>2, <3>1, <3>4 DEF DInv, Partition
    <3> QED BY <3>3, <3>4
  <2> QED BY <2>1, <2>2 DEF Partition
<1>8. bad' \subseteq 0 .. next' - 1
  <2>1. 0 .. next - 1 \subseteq 0 .. next' - 1
    BY <1>1, <1>2
  <2> QED BY <1>1, <2>1, Received DEF DInv
<1>9. ASSUME NEW v \in Workers PROVE Carried(v)' /\ (Dismissed(v)' <=> Dismissed(v))
  <2>1. CASE v = w
    <3>1. owed'[w] \cap bad' = {}
      BY <1>1, <1>3, <1>4, Received DEF DInv
    <3> QED BY <1>1, <1>5, <2>1, <3>1, Received DEF Carried, Dismissed, Reported
  <2>2. CASE v # w
    <3>1. ~Dismissed(v)
      <4>1. Carried(v) /\ next # total
        BY <1>1, <1>2 DEF DInv
      <4> QED BY <4>1 DEF Carried
    <3> QED BY <1>1, <1>4, <2>2, <3>1, Received DEF DInv, Carried, Dismissed, Reported
  <2> QED BY <2>1, <2>2
<1>10. Counted'
  <2>1. {v \in Workers : ~Dismissed(v)}' = {v \in Workers : ~Dismissed(v)}
    BY <1>9
  <2> QED BY <1>1, <2>1, Received DEF DInv, Counted
<1>11. Verdict'
  BY <1>1, Received DEF Verdict, AbortsOnlyForBad
<1> QED BY <1>6, <1>7, <1>8, <1>9, <1>10, <1>11 DEF DInv

LEMMA DismissStep ==
  ASSUME DInv, NEW w \in Workers, Dismiss(w)
  PROVE  DInv'
<1>1. /\ Receive(w) /\ next >= total /\ active' = active - 1 /\ next' = next
      /\ answer' = [answer EXCEPT ![w] = Terminate]
      /\ owed' = [owed EXCEPT ![w] = {}]
  BY DEF Dismiss, Send
<1>2. next = total /\ active > 0 /\ active \in 0 .. Size - 1 /\ Size \in Nat
  BY <1>1, WorldAssumption DEF Receive, DInv, Types, WorldTypeOK, DynamicTypeOK
<1>3. /\ answer'[w] = Terminate /\ owed'[w] = {}
      /\ \A v \in Workers \ {w} : answer'[v] = answer[v] /\ owed'[v] = owed[v]
  BY <1>1 DEF DInv, Types, DynamicTypeOK
<1>4. Types'
  <2>1. /\ owed' \in [Workers -> SUBSET Indices]
        /\ answer' \in [Workers -> WorkMessage \cup {NoAnswer, Terminate}]
    BY <1>1 DEF DInv, Types, DynamicTypeOK
  <2>2. processed' \in Nat /\ valid' \in Nat
    <3>1. settled' \ bad \subseteq Indices
      BY <1>1, Received
    <3> QED BY <1>1, <3>1, Received, Finite DEF DInv
  <2>3. WorldTypeOK' /\ Indices' = Indices
    BY <1>1, Received DEF DInv, Types, WorldTypeOK, Indices
  <2>4. active' \in 0 .. Size - 1
    BY <1>1, <1>2
  <2>5. /\ chunk' = chunk /\ next' = next /\ outcome' = outcome /\ report' = report
        /\ requests' \in SUBSET Workers /\ settled' \subseteq Indices /\ bad' = bad
    BY <1>1, Received DEF DInv, Types, DynamicTypeOK
  <2>6. total' = total
    BY <1>1, Received
  <2> QED BY <2>1, <2>2, <2>3, <2>4, <2>5, <2>6 DEF DInv, Types, DynamicTypeOK
<1>5. Partition'
  <2>0. settled' = settled \cup owed[w]
    BY <1>1, Received
  <2> QED BY <1>1, <1>3, <2>0 DEF DInv, Partition
<1>6. bad' \subseteq 0 .. next' - 1
  BY <1>1, Received DEF DInv
<1>7. ASSUME NEW v \in Workers
      PROVE  Carried(v)' /\ (Dismissed(v)' <=> v = w \/ Dismissed(v))
  <2>1. CASE v = w
    BY <1>1, <1>2, <1>3, <2>1, Received, Tags DEF Carried, Dismissed, Reported
  <2>2. CASE v # w
    BY <1>1, <1>2, <1>3, <2>2, Received DEF DInv, Carried, Dismissed, Reported
  <2> QED BY <2>1, <2>2
<1>8. Counted'
  <2> DEFINE rest == {v \in Workers : ~Dismissed(v)}
  <2>1. {v \in Workers : ~Dismissed(v)}' = rest \ {w} /\ w \in rest
    BY <1>1, <1>7, Received
  <2>2. IsFiniteSet(rest)
    BY Finite DEF DInv
  <2>3. Cardinality(rest \ {w}) = Cardinality(rest) - 1
    BY <2>1, <2>2, FS_RemoveElement
  <2> QED BY <1>1, <2>1, <2>3, Received DEF DInv, Counted
<1>9. Verdict'
  BY <1>1, Received DEF Verdict, AbortsOnlyForBad
<1> QED BY <1>4, <1>5, <1>6, <1>7, <1>8, <1>9 DEF DInv

-----------------------------------------------------------------------------
LEMMA DynamicStep == DInv /\ [DynamicNext]_<<worldVars, dynamicVars>> => DInv'
<1> SUFFICES ASSUME DInv, [DynamicNext]_<<worldVars, dynamicVars>> PROVE DInv'
  OBVIOUS
<1>1. ASSUME NEW r \in Ranks, (WorldStep(r) /\ UNCHANGED dynamicVars) \/ ReadArguments(r)
      PROVE  DInv'
  <2>1. /\ UNCHANGED dynamicVars
        /\ WorldStep(r) \/ Continue(r, "preparing", "barrier2")
    BY <1>1 DEF ReadArguments
  <2>2. WorldTypeOK
    BY DEF DInv, Types
  <2>3. /\ WorldTypeOK' /\ total' = total
        /\ \A q \in Ranks : phase'[q] = "done" <=> phase[q] = "done"
    BY <2>1, <2>2, WorldStepKeeps
  <2> QED BY <2>1, <2>3, WorldPart
<1>2. CASE CrossCheck
  BY <1>2, CrossCheckStep
<1>3. ASSUME NEW w \in Workers,
             Assign(w) \/ Dismiss(w) \/ SendReport(w) \/ Stop(w) \/ VerifyChunk(w)
      PROVE  DInv'
  BY <1>3, AssignStep, DismissStep, SendReportStep, StopStep, VerifyChunkStep
<1>4. CASE UNCHANGED <<worldVars, dynamicVars>>
  <2>1. WorldTypeOK' /\ total' = total /\ phase' = phase
    BY <1>4 DEF worldVars, DInv, Types, WorldTypeOK
  <2> QED BY <1>4, <2>1, WorldPart
<1> QED BY <1>1, <1>2, <1>3, <1>4 DEF DynamicNext

LEMMA DynamicInductive == DynamicSpec => []DInv
  BY DynamicStart, DynamicStep, PTL DEF DynamicSpec

\* The master's and the workers' variables have their types in every reachable
\* state of the dynamic program.
THEOREM DynamicTypeCorrect == DynamicSpec => [](WorldTypeOK /\ DynamicTypeOK)
  BY DynamicInductive, PTL DEF DInv, Types

\* Every signature handed out is with one worker or settled, for any number of
\* workers that ask in any order and any chunk size.
THEOREM ExactlyOnceCorrect == DynamicSpec => []ExactlyOnce
<1>1. ASSUME DInv PROVE ExactlyOnce
  <2>1. settled \subseteq Int /\ \A w \in Workers : owed[w] \subseteq Int
    BY <1>1 DEF DInv, Types, DynamicTypeOK, Indices
  <2>2. settled \cup UNION {owed[w] : w \in Workers} = 0 .. next - 1
    <3>1. ASSUME NEW i \in Int
          PROVE  i \in settled \cup UNION {owed[w] : w \in Workers} <=> i \in 0 .. next - 1
      BY <1>1 DEF DInv, Partition
    <3>2. settled \cup UNION {owed[w] : w \in Workers} \subseteq Int
      BY <2>1
    <3>3. 0 .. next - 1 \subseteq Int
      BY <1>1 DEF DInv, Types, DynamicTypeOK
    <3> QED BY <3>1, <3>2, <3>3
  <2> QED BY <1>1, <2>2 DEF DInv, Partition, ExactlyOnce
<1> QED BY <1>1, DynamicInductive, PTL

\* The cross-check speaks of a whole batch, and aborts exactly when some
\* signature of it did not verify.
THEOREM AbortsOnlyForBadCorrect == DynamicSpec => []AbortsOnlyForBad
  BY DynamicInductive, PTL DEF DInv, Verdict

-----------------------------------------------------------------------------
(***************************************************************************)
(* The static program.  Its only abort is that of a rank which has not     *)
(* entered the first barrier, so nobody has left it, and nobody will.      *)
(***************************************************************************)
PhaseOfDevices(r) ==
  devices[r] = IF phase[r] \in Entered2 THEN {r} \X (1 .. Share(r)) ELSE {}

PhaseOfResult(r) == result[r] # Nothing => phase[r] \in Inside2

Stopped ==
  /\ \E r \in Ranks : phase[r] = "killed"
  /\ \A r \in Ranks : phase[r] \in {"starting", "barrier1", "killed"}

Together ==
  /\ \A r \in Ranks : phase[r] # "killed"
  /\ (\E r \in Ranks : phase[r] \in Inside1) => \A r \in Ranks : phase[r] \in Entered1
  /\ (\E r \in Ranks : phase[r] \in Inside2) => \A r \in Ranks : phase[r] \in Entered2

SInv ==
  /\ WorldTypeOK
  /\ devices \in [Ranks -> SUBSET (Ranks \X Nat)]
  /\ result \in [Ranks -> BenchResult \cup {Nothing}]
  /\ IF aborted THEN Stopped ELSE Together
  /\ \A r \in Ranks : PhaseOfDevices(r) /\ PhaseOfResult(r)

LEMMA ShareSize ==
  ASSUME WorldTypeOK, NEW r \in Ranks
  PROVE  Share(r) \in Nat /\ Cardinality({r} \X (1 .. Share(r))) = Share(r)
         /\ IsFiniteSet({r} \X (1 .. Share(r)))
<1>1. Share(r) \in Nat
  <2>1. Size \in Nat \ {0} /\ total \in Nat
    BY WorldAssumption DEF WorldTypeOK
  <2>2. total \div Size \in Nat
    BY <2>1
  <2> QED BY <2>2 DEF Share
<1> DEFINE n == Share(r)
           f == [i \in 1 .. n |-> <<r, i>>]
<1>2. f \in Bijection(1 .. n, {r} \X (1 .. n))
  <2>1. f \in [1 .. n -> {r} \X (1 .. n)]
    OBVIOUS
  <2>2. IsInjective(f)
    BY DEF IsInjective
  <2>3. \A t \in {r} \X (1 .. n) : \E i \in 1 .. n : f[i] = t
    OBVIOUS
  <2> QED BY <2>1, <2>2, <2>3 DEF Bijection, Injection, Surjection
<1>3. IsFiniteSet(1 .. n) /\ Cardinality(1 .. n) = n
  BY <1>1, FS_Interval
<1> HIDE DEF n
<1> QED BY <1>1, <1>2, <1>3, FS_Bijection DEF ExistsBijection, n

LEMMA StaticStart == WorldInit /\ StaticInit => SInv
<1> SUFFICES ASSUME WorldInit, StaticInit PROVE SInv
  OBVIOUS
<1>1. \A r \in Ranks : phase[r] = "starting" /\ devices[r] = {} /\ result[r] = Nothing
  BY DEF WorldInit, StaticInit
<1>2. aborted = FALSE /\ Together
  BY <1>1 DEF WorldInit, Together, Inside1, Entered2, Inside2
<1> QED
  BY <1>1, <1>2, WorldStart
     DEF SInv, StaticInit, PhaseOfDevices, PhaseOfResult, Entered2, Inside2

LEMMA StaticWorldPart ==
  ASSUME SInv, NEW r \in Ranks, WorldStep(r), UNCHANGED staticVars
  PROVE  SInv'
<1> USE DEF staticVars, Phases, Entered1, Inside1, Entered2, Inside2
<1>1. WorldTypeOK' /\ total' = total /\ \A q \in Ranks : Share(q)' = Share(q)
  BY WorldStepKeeps DEF SInv, Share
<1>3. IF aborted' THEN Stopped' ELSE Together'
  <2>1. CASE Start(r)
    BY <2>1 DEF SInv, WorldTypeOK, Start, Continue, Goto, Stopped, Together
  <2>2. CASE StartFails(r)
    BY <2>2 DEF SInv, WorldTypeOK, StartFails, Goto, Stopped, Together
  <2>3. CASE Killed(r)
    BY <2>3 DEF SInv, WorldTypeOK, Killed, Continue, Goto, Stopped, Together
  <2>4. CASE Leave1(r)
    BY <2>4 DEF SInv, WorldTypeOK, Leave1, Continue, Goto, Stopped, Together
  <2>5. CASE Leave2(r)
    BY <2>5 DEF SInv, WorldTypeOK, Leave2, Continue, Goto, Stopped, Together
  <2> QED BY <2>1, <2>2, <2>3, <2>4, <2>5 DEF WorldStep
<1>4. ASSUME NEW q \in Ranks PROVE (phase'[q] \in Entered2 <=> phase[q] \in Entered2)
                                   /\ (phase[q] \in Inside2 => phase'[q] \in Inside2)
  <2>1. CASE Start(r) \/ Leave1(r) \/ Leave2(r)
    BY <2>1 DEF SInv, WorldTypeOK, Start, Leave1, Leave2, Continue, Goto
  <2>2. CASE StartFails(r)
    BY <2>2 DEF SInv, WorldTypeOK, StartFails, Goto
  <2>3. CASE Killed(r)
    <3>1. Stopped
      BY <2>3 DEF SInv, Killed
    <3> QED BY <2>3, <3>1 DEF SInv, WorldTypeOK, Killed, Continue, Goto, Stopped
  <2> QED BY <2>1, <2>2, <2>3 DEF WorldStep
<1>5. ASSUME NEW q \in Ranks PROVE PhaseOfDevices(q)' /\ PhaseOfResult(q)'
  BY <1>1, <1>4 DEF SInv, PhaseOfDevices, PhaseOfResult
<1> QED BY <1>1, <1>3, <1>5 DEF SInv

\* A rank moves on by itself, and not past a barrier.
LEMMA StaticMove ==
  ASSUME SInv, NEW r \in Ranks,
         \E from \in {<<"preparing", "barrier2">>, <<"working", "done">>} :
           Continue(r, from[1], from[2])
  PROVE  /\ WorldTypeOK' /\ aborted' = aborted
         /\ IF aborted' THEN Stopped' ELSE Together'
         /\ \A q \in Ranks : Share(q)' = Share(q)
         /\ \A q \in Ranks : phase[q] \in Inside2 <=> phase'[q] \in Inside2
         /\ \A q \in Ranks \ {r} : phase'[q] = phase[q]
<1> USE DEF Phases, Entered1, Inside1, Entered2, Inside2
<1>1. CASE Continue(r, "preparing", "barrier2")
  BY <1>1 DEF SInv, WorldTypeOK, Continue, Goto, Stopped, Together, Share
<1>2. CASE Continue(r, "working", "done")
  BY <1>2 DEF SInv, WorldTypeOK, Continue, Goto, Stopped, Together, Share
<1> QED BY <1>1, <1>2

LEMMA GenerateStep ==
  ASSUME SInv, NEW r \in Ranks, Generate(r)
  PROVE  SInv'
<1>1. /\ Continue(r, "preparing", "barrier2") /\ result' = result
      /\ devices' = [devices EXCEPT ![r] = {r} \X (1 .. Share(r))]
  BY DEF Generate
<1>2. /\ WorldTypeOK' /\ aborted' = aborted
      /\ IF aborted' THEN Stopped' ELSE Together'
      /\ \A q \in Ranks : Share(q)' = Share(q)
      /\ \A q \in Ranks : phase[q] \in Inside2 <=> phase'[q] \in Inside2
      /\ \A q \in Ranks \ {r} : phase'[q] = phase[q]
  BY <1>1, StaticMove
<1>3. phase'[r] = "barrier2"
  BY <1>1 DEF Continue, Goto, SInv, WorldTypeOK
<1>4. devices' \in [Ranks -> SUBSET (Ranks \X Nat)]
  <2>1. {r} \X (1 .. Share(r)) \in SUBSET (Ranks \X Nat)
    BY ShareSize DEF SInv
  <2> QED BY <1>1, <2>1 DEF SInv
<1>5. ASSUME NEW q \in Ranks PROVE PhaseOfDevices(q)' /\ PhaseOfResult(q)'
  BY <1>1, <1>2, <1>3 DEF SInv, PhaseOfDevices, PhaseOfResult, Entered2
<1> QED BY <1>1, <1>2, <1>4, <1>5 DEF SInv

LEMMA VerifyShareStep ==
  ASSUME SInv, NEW r \in Ranks, VerifyShare(r)
  PROVE  SInv'
<1>1. PICK failed \in Failures(devices[r]) :
        result' = [result EXCEPT ![r] = Bench(devices[r], Cardinality(devices[r]), failed)]
  BY DEF VerifyShare
<1>2. /\ UNCHANGED <<total, phase, aborted, devices>>
      /\ phase[r] = "working"
  BY DEF VerifyShare, worldVars
<1>3. devices[r] = {r} \X (1 .. Share(r))
  BY <1>2 DEF SInv, PhaseOfDevices, Entered2, Inside2
<1>4. Bench(devices[r], Cardinality(devices[r]), failed) \in BenchResult
  <2>1. IsFiniteSet(devices[r])
    BY <1>3, ShareSize DEF SInv
  <2> QED BY <2>1, BenchCounts
<1>5. /\ WorldTypeOK' /\ devices' \in [Ranks -> SUBSET (Ranks \X Nat)]
      /\ IF aborted' THEN Stopped' ELSE Together'
  BY <1>2 DEF SInv, WorldTypeOK, Stopped, Together
<1>6. result' \in [Ranks -> BenchResult \cup {Nothing}]
  BY <1>1, <1>4 DEF SInv
<1>7. ASSUME NEW q \in Ranks PROVE PhaseOfDevices(q)' /\ PhaseOfResult(q)'
  BY <1>1, <1>2 DEF SInv, PhaseOfDevices, PhaseOfResult, Share, Inside2
<1> QED BY <1>5, <1>6, <1>7 DEF SInv

LEMMA ContributeStep ==
  ASSUME SInv, NEW r \in Ranks, Continue(r, "working", "done"),
         devices' = devices, result' = result
  PROVE  SInv'
<1>1. /\ WorldTypeOK' /\ aborted' = aborted
      /\ IF aborted' THEN Stopped' ELSE Together'
      /\ \A q \in Ranks : Share(q)' = Share(q)
      /\ \A q \in Ranks : phase[q] \in Inside2 <=> phase'[q] \in Inside2
      /\ \A q \in Ranks \ {r} : phase'[q] = phase[q]
  BY StaticMove
<1>2. phase[r] = "working" /\ phase'[r] = "done"
  BY DEF Continue, Goto, SInv, WorldTypeOK
<1>3. ASSUME NEW q \in Ranks PROVE PhaseOfDevices(q)' /\ PhaseOfResult(q)'
  BY <1>1, <1>2 DEF SInv, PhaseOfDevices, PhaseOfResult, Entered2, Inside2
<1> QED BY <1>1, <1>3 DEF SInv

LEMMA StaticStep == SInv /\ [StaticNext]_<<worldVars, staticVars>> => SInv'
<1> SUFFICES ASSUME SInv, [StaticNext]_<<worldVars, staticVars>> PROVE SInv'
  OBVIOUS
<1>1. ASSUME NEW r \in Ranks,
             \/ WorldStep(r) /\ UNCHANGED staticVars
             \/ Generate(r) \/ VerifyShare(r) \/ Contribute(r)
      PROVE  SInv'
  BY <1>1, StaticWorldPart, GenerateStep, VerifyShareStep, ContributeStep DEF Contribute
<1>2. CASE Report
  <2>1. 0 \in Ranks
    BY WorldAssumption DEF Ranks
  <2>2. Continue(0, "working", "done") /\ devices' = devices /\ result' = result
    BY <1>2, Zenon DEF Report
  <2> QED BY <2>1, <2>2, ContributeStep
<1>3. CASE UNCHANGED <<worldVars, staticVars>>
  BY <1>3
     DEF SInv, worldVars, staticVars, WorldTypeOK, Stopped, Together, PhaseOfDevices,
         PhaseOfResult, Share
<1> QED BY <1>1, <1>2, <1>3 DEF StaticNext

LEMMA StaticInductive == StaticSpec => []SInv
  BY StaticStart, StaticStep, PTL DEF StaticSpec

\* No rank prepares anything when the check of another has failed, and none
\* verifies before all have generated their whole share, for any number of ranks
\* and any batch.
THEOREM PhasesAreApartCorrect == StaticSpec => []PhasesAreApart
<1>1. ASSUME SInv, aborted, NEW r \in Ranks PROVE devices[r] = {}
  BY <1>1 DEF SInv, Stopped, PhaseOfDevices, Entered2, Inside2
<1>2. ASSUME SInv, NEW r \in Ranks, result[r] # Nothing, NEW q \in Ranks
      PROVE  Cardinality(devices[q]) = Share(q)
  <2>1. phase[r] \in Inside2 /\ ~aborted
    BY <1>2 DEF SInv, PhaseOfResult, Stopped, Inside2
  <2>2. phase[q] \in Entered2
    BY <1>2, <2>1 DEF SInv, Together
  <2> QED BY <1>2, <2>2, ShareSize DEF SInv, PhaseOfDevices
<1>3. SInv => PhasesAreApart
  BY <1>1, <1>2 DEF PhasesAreApart
<1> QED BY <1>3, StaticInductive, PTL

-----------------------------------------------------------------------------
(***************************************************************************)
(* What is done when rank 0 reports: every rank has contributed, a rank    *)
(* that contributes has the result of its whole share, and the shares make *)
(* up the batch.                                                           *)
(***************************************************************************)
Contributions ==
  /\ \A r \in Ranks : result[r] # Nothing => result[r].batch_size = Share(r)
  /\ reduced \subseteq {r \in Ranks : result[r] # Nothing}
  /\ total_verified \in Nat \cup {-1}
  /\ total_verified # -1 => reduced = Ranks

LEMMA RankShares ==
  ASSUME WorldTypeOK
  PROVE  /\ total \in Nat /\ Size \in Nat \ {0}
         /\ [r \in Ranks |-> Share(r)] = Shares(total, Size)
  BY WorldAssumption DEF WorldTypeOK, Share, Shares, Ranks

LEMMA WholeBatch ==
  ASSUME SInv, Contributions, Report
  PROVE  total_verified' = total
<1>1. \A r \in Ranks : result[r].batch_size = Share(r)
  BY DEF Report, Contributions
<1>2. total_verified' = Total([r \in Ranks |-> result[r].batch_size])
  BY Zenon DEF Report
<1>3. total_verified' = Total([r \in Ranks |-> Share(r)])
  BY <1>1, <1>2
<1> QED BY <1>3, RankShares, SharesMakeTotal DEF SInv

LEMMA ContributionsStep ==
  SInv /\ Contributions /\ [StaticNext]_<<worldVars, staticVars>> => Contributions'
<1> SUFFICES ASSUME SInv, Contributions, [StaticNext]_<<worldVars, staticVars>>
             PROVE  Contributions'
  OBVIOUS
<1>1. ASSUME total' = total, UNCHANGED <<result, reduced, total_verified>>
      PROVE  Contributions'
  BY <1>1 DEF Contributions, Share
<1>2. ASSUME NEW r \in Ranks, WorldStep(r) /\ UNCHANGED staticVars
      PROVE  Contributions'
  BY <1>1, <1>2, WorldStepKeeps DEF SInv, staticVars
<1>3. ASSUME NEW r \in Ranks, Generate(r)
      PROVE  Contributions'
  BY <1>1, <1>3 DEF Generate, Continue, Goto
<1>4. ASSUME NEW r \in Ranks, VerifyShare(r)
      PROVE  Contributions'
  <2>1. PICK failed \in Failures(devices[r]) :
          result' = [result EXCEPT ![r] = Bench(devices[r], Cardinality(devices[r]), failed)]
    BY <1>4 DEF VerifyShare
  <2>2. UNCHANGED <<total, reduced, total_verified>> /\ phase[r] = "working"
    BY <1>4 DEF VerifyShare, worldVars
  <2>3. Cardinality(devices[r]) = Share(r) /\ Share(r) \in Nat
    BY <2>2, ShareSize DEF SInv, PhaseOfDevices, Entered2, Inside2
  <2>4. Bench(devices[r], Cardinality(devices[r]), failed).batch_size = Share(r)
    BY <2>3 DEF Bench, ActualLimit
  <2>5. Bench(devices[r], Cardinality(devices[r]), failed) # Nothing
    BY <2>3, <2>4 DEF Nothing
  <2> QED BY <2>1, <2>2, <2>4, <2>5 DEF Contributions, SInv, Share
<1>5. ASSUME NEW r \in Ranks, Contribute(r)
      PROVE  Contributions'
  BY <1>5 DEF Contribute, Continue, Goto, Contributions, Share
<1>6. CASE Report
  <2>1. total_verified' = total /\ total \in Nat
    BY <1>6, WholeBatch, RankShares DEF SInv
  <2>2. UNCHANGED <<total, result>> /\ reduced' = reduced \cup {0} /\ result[0] # Nothing
                                /\ reduced = Ranks \ {0}
    BY <1>6, Zenon DEF Report, Continue, Goto
  <2>3. 0 \in Ranks
    BY WorldAssumption DEF Ranks
  <2> QED BY <2>1, <2>2, <2>3 DEF Contributions, Share
<1>7. CASE UNCHANGED <<worldVars, staticVars>>
  BY <1>1, <1>7 DEF worldVars, staticVars
<1> QED BY <1>2, <1>3, <1>4, <1>5, <1>6, <1>7 DEF StaticNext

LEMMA ContributionsInductive == StaticSpec => []Contributions
<1>1. WorldInit /\ StaticInit => Contributions
  BY DEF StaticInit, Contributions
<1> QED BY <1>1, ContributionsStep, StaticInductive, PTL DEF StaticSpec

\* The static program's variables have their types in every reachable state.
THEOREM StaticTypeCorrect == StaticSpec => [](WorldTypeOK /\ StaticTypeOK)
<1>1. SInv /\ Contributions => WorldTypeOK /\ StaticTypeOK
  BY DEF SInv, Contributions, StaticTypeOK
<1> QED BY <1>1, StaticInductive, ContributionsInductive, PTL

LEMMA DoneAtReport ==
  ASSUME SInv, Contributions
  PROVE  BatchIsDone
<1> SUFFICES ASSUME total_verified # -1
             PROVE  /\ Total([r \in Ranks |-> Cardinality(devices[r])]) = total
                    /\ \A r \in Ranks : result[r].batch_size = Cardinality(devices[r])
  BY DEF BatchIsDone
<1>1. \A r \in Ranks : result[r] # Nothing /\ result[r].batch_size = Share(r)
  BY DEF Contributions
<1>2. ASSUME NEW r \in Ranks PROVE Cardinality(devices[r]) = Share(r)
  <2>1. phase[r] \in Inside2 /\ ~aborted
    BY <1>1 DEF SInv, PhaseOfResult, Stopped, Inside2
  <2> QED BY <2>1, ShareSize DEF SInv, PhaseOfDevices, Entered2
<1>3. [r \in Ranks |-> Cardinality(devices[r])] = [r \in Ranks |-> Share(r)]
  BY <1>2
<1> QED BY <1>1, <1>2, <1>3, RankShares, SharesMakeTotal DEF SInv

\* When rank 0 reports, the devices the ranks have generated are as many as the
\* batch asked for, and each rank has put all of its own to verification, whatever
\* the number of ranks, also when there are more of them than signatures.
THEOREM BatchIsDoneCorrect == StaticSpec => []BatchIsDone
  BY DoneAtReport, StaticInductive, ContributionsInductive, PTL
=============================================================================
