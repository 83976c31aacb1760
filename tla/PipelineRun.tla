----------------------------- MODULE PipelineRun -----------------------------
(***************************************************************************)
(* Runs of a pipeline on the nodes leased for it: the satellite            *)
(* (satellite/app/pipeline_client.py) calls, through IoTronic, the plugin  *)
(* on each board (s4t-plugin/plugin_template.py), which calls the worker   *)
(* next to it (hpc-engine/src/pipeline/worker_server.cpp) over gRPC.       *)
(*                                                                         *)
(* run calls the nodes one after the other, each with what the one before  *)
(* returned; run-parallel calls them all at once with a share of a batch.  *)
(* Any number of runs, leases and releases interleave at every await.      *)
(* How nodes are leased is SatelliteLeasing; here a pipeline gets nodes no *)
(* other pipeline lists, which is DisjointPipelines there.                 *)
(***************************************************************************)
EXTENDS Integers, Sequences, Counts

CONSTANTS
  Nodes,         \* the boards
  Backed,        \* those with a worker: device ids worker-*
  Pipelines, Runs,
  MaxNodes,      \* bound of the model: nodes of a pipeline
  IntMax,        \* largest value of the worker's int32
  Initials,      \* initial values asked for
  Totals,        \* batch sizes asked for
  CallsMayFail   \* may calls fail, time out, signatures not verify?

ASSUME RunAssumption ==
  /\ Backed \subseteq Nodes
  /\ MaxNodes \in Nat \ {0} /\ IntMax \in Nat
  /\ Initials \subseteq Int /\ Totals \subseteq Nat \ {0}
  /\ CallsMayFail \in BOOLEAN

VARIABLES
  pipelines,  \* pipeline -> its nodes, <<>> when it does not exist
  phase,      \* run -> "new", "running", then the answer: "ok" or "failed"
  job,        \* run -> what was asked for, and the nodes read at the start
  call,       \* run -> place in its nodes -> where the call of that node is
  output,     \* run -> place -> value or valid_count the worker returned
  trace,      \* run -> outputs the satellite has received, in order
  executed    \* run -> places whose worker has done its task (history)

vars == <<pipelines, phase, job, call, output, trace, executed>>

Places == 1 .. MaxNodes
NodeLists == UNION {[1 .. n -> Nodes] : n \in 0 .. MaxNodes}
NoJob == [mode |-> "none"]
Jobs == [mode : {"sequential", "parallel"}, pipeline : Pipelines,
         nodes : NodeLists \ {<<>>}, input : Int]

TypeOK ==
  /\ pipelines \in [Pipelines -> NodeLists]
  /\ phase \in [Runs -> {"new", "running", "ok", "failed"}]
  /\ job \in [Runs -> Jobs \cup {NoJob}]
  /\ call \in [Runs -> [Places -> {"none", "sent", "done", "error", "abandoned", "closed", "lost"}]]
  /\ output \in [Runs -> [Places -> Int]]
  /\ trace \in [Runs -> Seq(Int)]
  /\ executed \in [Runs -> SUBSET Places]
  /\ \A r \in Runs : phase[r] = "new" <=> job[r] = NoJob

Init ==
  /\ pipelines = [p \in Pipelines |-> <<>>]
  /\ phase = [r \in Runs |-> "new"] /\ job = [r \in Runs |-> NoJob]
  /\ call = [r \in Runs |-> [i \in Places |-> "none"]]
  /\ output = [r \in Runs |-> [i \in Places |-> 0]]
  /\ trace = [r \in Runs |-> <<>>] /\ executed = [r \in Runs |-> {}]

-----------------------------------------------------------------------------
(***************************************************************************)
(* Pipelines.                                                              *)
(***************************************************************************)
Listed(p) == {pipelines[p][i] : i \in DOMAIN pipelines[p]}
Unleased == Nodes \ UNION {Listed(p) : p \in Pipelines}

Lease(p, nodes) ==
  /\ pipelines[p] = <<>>
  /\ nodes # <<>>
  /\ \A i, j \in DOMAIN nodes : nodes[i] \in Unleased /\ (i # j => nodes[i] # nodes[j])
  /\ pipelines' = [pipelines EXCEPT ![p] = nodes]
  /\ UNCHANGED <<phase, job, call, output, trace, executed>>

Release(p) ==
  /\ pipelines[p] # <<>>
  /\ pipelines' = [pipelines EXCEPT ![p] = <<>>]
  /\ UNCHANGED <<phase, job, call, output, trace, executed>>

-----------------------------------------------------------------------------
(***************************************************************************)
(* What a run asks of the worker at each place.                            *)
(***************************************************************************)
Size(r) == Len(job[r].nodes)
Used(r) == 1 .. Size(r)

Int32 == -IntMax - 1 .. IntMax
\* The sum of the worker's int32, as its machine wraps it round.
Increment(v) == IF v = IntMax THEN -IntMax - 1 ELSE v + 1

Current(r) == IF trace[r] = <<>> THEN job[r].input ELSE trace[r][Len(trace[r])]

\* Faulty variant: the rest of the division is left out.
ShareWithoutRest(total, n, i) == total \div n

Share(total, n, i) == total \div n + (IF i <= total % n THEN 1 ELSE 0)

Chunk(r, i) == Share(job[r].input, Size(r), i)

-----------------------------------------------------------------------------
(***************************************************************************)
(* The handlers of run and run-parallel, from one await to the next.       *)
(***************************************************************************)
Fail(r) == phase' = [phase EXCEPT ![r] = IF @ = "running" THEN "failed" ELSE @]

\* Go on to place i of a sequential run: call it, refuse it or be done.
Proceed(r, nodes, i, calls) ==
  \/ /\ i > Len(nodes)
     /\ phase' = [phase EXCEPT ![r] = "ok"]
     /\ call' = [call EXCEPT ![r] = calls]
  \/ /\ i <= Len(nodes) /\ nodes[i] \in Backed
     /\ phase' = [phase EXCEPT ![r] = "running"]
     /\ call' = [call EXCEPT ![r] = [calls EXCEPT ![i] = "sent"]]
  \/ /\ i <= Len(nodes) /\ nodes[i] \notin Backed
     /\ phase' = [phase EXCEPT ![r] = "failed"]
     /\ call' = [call EXCEPT ![r] = calls]

\* A pipeline that is not there is answered with 404.
StartSequential(r, p, v) ==
  /\ phase[r] = "new" /\ pipelines[p] # <<>>
  /\ job' = [job EXCEPT ![r] =
       [mode |-> "sequential", pipeline |-> p, nodes |-> pipelines[p], input |-> v]]
  /\ Proceed(r, pipelines[p], 1, call[r])
  /\ UNCHANGED <<pipelines, output, trace, executed>>

\* gather starts the calls of all places; a place without a backend raises.
StartParallel(r, p, total) ==
  /\ phase[r] = "new" /\ pipelines[p] # <<>>
  /\ job' = [job EXCEPT ![r] =
       [mode |-> "parallel", pipeline |-> p, nodes |-> pipelines[p], input |-> total]]
  /\ LET backed == {i \in DOMAIN pipelines[p] : pipelines[p][i] \in Backed}
     IN  /\ call' = [call EXCEPT ![r] = [i \in Places |-> IF i \in backed THEN "sent" ELSE @[i]]]
         /\ phase' = [phase EXCEPT ![r] =
                        IF backed = DOMAIN pipelines[p] THEN "running" ELSE "failed"]
  /\ UNCHANGED <<pipelines, output, trace, executed>>

Close(r, i) == [call[r] EXCEPT ![i] = "closed"]

\* Faulty variant: every node is given the initial value.
TakeOutputStale(r, i) ==
  /\ job[r].mode = "sequential" /\ phase[r] = "running" /\ call[r][i] = "done"
  /\ trace' = [trace EXCEPT ![r] = Append(@, job[r].input + 1)]
  /\ Proceed(r, job[r].nodes, i + 1, Close(r, i))
  /\ UNCHANGED <<pipelines, job, output, executed>>

TakeOutput(r, i) ==
  /\ job[r].mode = "sequential" /\ phase[r] = "running" /\ call[r][i] = "done"
  /\ trace' = [trace EXCEPT ![r] = Append(@, output[r][i])]
  /\ Proceed(r, job[r].nodes, i + 1, Close(r, i))
  /\ UNCHANGED <<pipelines, job, output, executed>>

\* When the last call of a gather that has not failed returns, the counts are
\* added up and checked against the batch.
CountOf(r) == Total([i \in Used(r) |-> output[r][i]])

\* Faulty variant: gather returns with the first answer.
TakeCountFirst(r, i) ==
  /\ job[r].mode = "parallel" /\ call[r][i] = "done"
  /\ call' = [call EXCEPT ![r] = Close(r, i)]
  /\ phase' = [phase EXCEPT ![r] = IF @ = "running" THEN "ok" ELSE @]
  /\ UNCHANGED <<pipelines, job, output, trace, executed>>

TakeCount(r, i) ==
  /\ job[r].mode = "parallel" /\ call[r][i] = "done"
  /\ call' = [call EXCEPT ![r] = Close(r, i)]
  /\ phase' = [phase EXCEPT ![r] =
       IF @ = "running" /\ \A j \in Used(r) \ {i} : call[r][j] = "closed"
       THEN IF CountOf(r) = job[r].input THEN "ok" ELSE "failed"
       ELSE @]
  /\ UNCHANGED <<pipelines, job, output, trace, executed>>

Lose(r, i) == [call[r] EXCEPT ![i] = "lost"]

\* Faulty variants: a node that fails is left out; an error is forgotten.
TakeErrorGoOn(r, i) ==
  /\ call[r][i] = "error"
  /\ Proceed(r, job[r].nodes, i + 1, Lose(r, i))
  /\ UNCHANGED <<pipelines, job, output, trace, executed>>

TakeErrorSilently(r, i) ==
  /\ call[r][i] = "error"
  /\ call' = [call EXCEPT ![r] = Lose(r, i)]
  /\ UNCHANGED <<pipelines, phase, job, output, trace, executed>>

\* An answer "ERROR: ...", of an unexpected form or a status other than 200; the
\* calls of the other places go on.
TakeError(r, i) ==
  /\ call[r][i] = "error"
  /\ call' = [call EXCEPT ![r] = Lose(r, i)]
  /\ Fail(r)
  /\ UNCHANGED <<pipelines, job, output, trace, executed>>

\* httpx gives up after 30 s, whatever has become of the call.
TimeOut(r, i) ==
  /\ CallsMayFail
  /\ call[r][i] \in {"sent", "done"}
  /\ call' = [call EXCEPT ![r][i] = IF @ = "sent" THEN "abandoned" ELSE "lost"]
  /\ Fail(r)
  /\ UNCHANGED <<pipelines, job, output, trace, executed>>

-----------------------------------------------------------------------------
(***************************************************************************)
(* The plugin and the worker.                                              *)
(***************************************************************************)
\* protobuf refuses a value that is no int32; the worker returns it plus one.
ExecuteIncrement(r, i) ==
  /\ job[r].mode = "sequential" /\ call[r][i] \in {"sent", "abandoned"}
  /\ Current(r) \in Int32
  /\ output' = [output EXCEPT ![r][i] = Increment(Current(r))]
  /\ executed' = [executed EXCEPT ![r] = @ \cup {i}]
  /\ call' = [call EXCEPT ![r][i] = IF @ = "sent" THEN "done" ELSE "lost"]
  /\ UNCHANGED <<pipelines, phase, job, trace>>

ExecuteVerify(r, i) ==
  /\ job[r].mode = "parallel" /\ call[r][i] \in {"sent", "abandoned"}
  /\ \E valid \in 0 .. Chunk(r, i) :
       /\ valid = Chunk(r, i) \/ CallsMayFail
       /\ output' = [output EXCEPT ![r][i] = valid]
  /\ executed' = [executed EXCEPT ![r] = @ \cup {i}]
  /\ call' = [call EXCEPT ![r][i] = IF @ = "sent" THEN "done" ELSE "lost"]
  /\ UNCHANGED <<pipelines, phase, job, trace>>

\* The plugin turns every exception, before or after the worker has run, into
\* an answer; so does the conductor.
ExecuteFails(r, i) ==
  /\ call[r][i] = "sent"
  /\ \/ CallsMayFail
     \/ job[r].mode = "sequential" /\ Current(r) \notin Int32
  /\ call' = [call EXCEPT ![r][i] = "error"]
  /\ UNCHANGED <<pipelines, phase, job, output, trace, executed>>

-----------------------------------------------------------------------------
Handler(r, i) == TakeOutput(r, i) \/ TakeCount(r, i) \/ TakeError(r, i)
Worker(r, i) == ExecuteIncrement(r, i) \/ ExecuteVerify(r, i) \/ ExecuteFails(r, i)
CallStep(r, i) == Handler(r, i) \/ Worker(r, i) \/ TimeOut(r, i)

Next ==
  \/ \E p \in Pipelines : Release(p) \/ \E nodes \in NodeLists : Lease(p, nodes)
  \/ \E r \in Runs, p \in Pipelines :
       \/ \E v \in Initials : StartSequential(r, p, v)
       \/ \E total \in Totals : StartParallel(r, p, total)
  \/ \E r \in Runs, i \in Places : CallStep(r, i)

Spec == Init /\ [][Next]_vars

\* The event loop runs what is ready, and a call that gets no answer times out.
FairSpec == Spec /\ \A r \in Runs, i \in Places : WF_vars(CallStep(r, i))

-----------------------------------------------------------------------------
(***************************************************************************)
(* Properties.                                                             *)
(***************************************************************************)
\* A sequential run that succeeds has run every node of the pipeline, in order,
\* each on the output of the one before it: the final value and the trace are
\* those of that many increments of the initial value, whatever is released,
\* leased again or run at the same time.
Incremented(v, k) == ((v + k + IntMax + 1) % (2 * (IntMax + 1))) - (IntMax + 1)

TraceIsExact ==
  \A r \in Runs : phase[r] = "ok" /\ job[r].mode = "sequential" =>
    /\ executed[r] = Used(r)
    /\ trace[r] = [k \in Used(r) |-> Incremented(job[r].input, k)]

\* A parallel run that succeeds has verified the whole batch: every node has
\* done its chunk, no signature was bad, and the chunks make up the batch.
BatchIsVerified ==
  \A r \in Runs : phase[r] = "ok" /\ job[r].mode = "parallel" =>
    /\ executed[r] = Used(r)
    /\ \A i \in Used(r) : output[r][i] = Chunk(r, i)

\* A run does not fail without a reason: a board without a worker, a value no
\* int32 can hold, a call that failed or timed out or a bad signature.  Above all
\* the chunks of a batch are such that they make up the batch.
Troubled(r, i) ==
  \/ job[r].nodes[i] \notin Backed
  \/ call[r][i] \in {"lost", "abandoned"}
  \/ job[r].mode = "parallel" /\ call[r][i] = "closed" /\ output[r][i] < Chunk(r, i)

FailsForAReason ==
  \A r \in Runs : phase[r] = "failed" => \E i \in Used(r) : Troubled(r, i)

\* In a sequential run no worker starts before the one before it has answered,
\* and after a failure none starts but the one that was already called.
OneAtATime ==
  \A r \in Runs : job[r] # NoJob /\ job[r].mode = "sequential" =>
    /\ \A i \in Used(r) : call[r][i] # "none" =>
         \A j \in 1 .. i - 1 : call[r][j] = "closed" /\ j \in executed[r]
    /\ Len(trace[r]) <= Size(r)

\* Every run is answered.
RunsAreAnswered ==
  \A r \in Runs : phase[r] = "running" ~> (phase[r] \in {"ok", "failed"})
=============================================================================
