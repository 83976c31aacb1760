---------------------------- MODULE Boards_proofs ----------------------------
(***************************************************************************)
(* Proofs about what the satellite asks of the boards: IotronicClient      *)
(* repeats only calls that have certainly not been carried out, and with a *)
(* fresh token; runs of pipelines execute what they say they have, for any *)
(* boards, pipelines, runs, batches and width of the int32.                *)
(***************************************************************************)
EXTENDS IotronicClient, PipelineRun, Counts_proofs

-----------------------------------------------------------------------------
(***************************************************************************)
(* The client: its inductive invariant.  A call is carried out when the    *)
(* conductor answers it, or later when the client has given it up          *)
(* unanswered; it is never with the conductor and with the client at once. *)
(***************************************************************************)
Answered == {"done", "ok"}

ExecutedWhenAnswered(c) ==
  /\ carriedOut[c] \in {0, 1}
  /\ pc[c] \in Answered => carriedOut[c] = 1
  /\ pc[c] \notin Answered \cup {"failed"} => carriedOut[c] = 0
  /\ c \in late => pc[c] = "failed" /\ carriedOut[c] = 0

ExecutionInv == \A c \in Calls : ExecutedWhenAnswered(c)

ClientInv == ClientTypeOK /\ ExecutionInv /\ RetryIsFresh

LEMMA ClientStart == ClientInit => ClientInv
  BY ClientAssumption
     DEF ClientInit, ClientInv, ClientTypeOK, ExecutionInv, ExecutedWhenAnswered, Answered,
         RetryIsFresh, Tokens

-----------------------------------------------------------------------------
(***************************************************************************)
(* The types, with who holds the lock.                                     *)
(***************************************************************************)
LEMMA GetTokenType ==
  ASSUME ClientInv, NEW c \in Calls,
         \/ Begin(c) \/ UseCached(c) \/ Authenticate(c) \/ KeystoneIssues(c)
         \/ CacheToken(c) \/ AuthFails(c)
  PROVE  ClientTypeOK'
<1>1. CASE Begin(c)
  BY <1>1, ClientAssumption DEF ClientInv, ClientTypeOK, Begin, Goto, Tokens
<1>2. CASE UseCached(c)
  BY <1>2, ClientAssumption DEF ClientInv, ClientTypeOK, UseCached, Goto, Tokens
<1>3. CASE Authenticate(c)
  BY <1>3, ClientAssumption DEF ClientInv, ClientTypeOK, Authenticate, Goto, Tokens
<1>4. CASE KeystoneIssues(c)
  BY <1>4, ClientAssumption DEF ClientInv, ClientTypeOK, KeystoneIssues, Goto, Tokens
<1>5. CASE CacheToken(c)
  BY <1>5, ClientAssumption DEF ClientInv, ClientTypeOK, CacheToken, Goto, Tokens
<1>6. CASE AuthFails(c)
  BY <1>6, ClientAssumption DEF ClientInv, ClientTypeOK, AuthFails, Goto, Tokens
<1> QED BY <1>1, <1>2, <1>3, <1>4, <1>5, <1>6

LEMMA ClientStepType ==
  ASSUME ClientInv, NEW c \in Calls,
         \/ Send(c) \/ Execute(c) \/ Refuse(c) \/ Succeed(c) \/ Retry(c) \/ GiveUp(c)
  PROVE  ClientTypeOK'
<1>1. CASE Send(c)
  BY <1>1, ClientAssumption DEF ClientInv, ClientTypeOK, Send, Goto, Tokens
<1>2. CASE Execute(c)
  <2>1. carriedOut[c] = 0
    BY <1>2 DEF ClientInv, ExecutionInv, ExecutedWhenAnswered, Answered, Execute
  <2> QED BY <1>2, <2>1, ClientAssumption DEF ClientInv, ClientTypeOK, Execute, Goto, Tokens
<1>3. CASE Refuse(c)
  BY <1>3, ClientAssumption DEF ClientInv, ClientTypeOK, Refuse, Goto, Tokens
<1>4. CASE Succeed(c)
  BY <1>4, ClientAssumption DEF ClientInv, ClientTypeOK, Succeed, Goto, Tokens
<1>5. CASE Retry(c)
  BY <1>5, ClientAssumption DEF ClientInv, ClientTypeOK, Retry, Goto, Tokens
<1>6. CASE GiveUp(c)
  BY <1>6, ClientAssumption DEF ClientInv, ClientTypeOK, GiveUp, Goto, Tokens
<1> QED BY <1>1, <1>2, <1>3, <1>4, <1>5, <1>6

-----------------------------------------------------------------------------
(***************************************************************************)
(* How often a call is carried out.                                        *)
(***************************************************************************)
LEMMA ExecutionStep == ClientInv /\ [ClientNext]_clientVars => ExecutionInv'
<1> SUFFICES ASSUME ClientInv, [ClientNext]_clientVars, NEW d \in Calls
               PROVE  ExecutedWhenAnswered(d)'
  BY DEF ExecutionInv
<1> USE DEF ExecutedWhenAnswered, Answered
<1>0. ExecutedWhenAnswered(d) /\ carriedOut \in [Calls -> 0 .. 2]
      /\ pc \in [Calls -> {"new", "token", "auth", "issued", "send", "sent", "done",
                           "refused", "ok", "failed"}]
  BY DEF ClientInv, ExecutionInv, ClientTypeOK
<1>1. ASSUME NEW c \in Calls, Step(c) PROVE ExecutedWhenAnswered(d)'
  <2>1. CASE Begin(c) \/ UseCached(c) \/ Authenticate(c) \/ KeystoneIssues(c)
             \/ CacheToken(c) \/ AuthFails(c)
    BY <1>0, <2>1
       DEF Begin, UseCached, Authenticate, KeystoneIssues, CacheToken, AuthFails, Goto
  <2>2. CASE Execute(c)
    BY <1>0, <2>2 DEF Execute, Goto
  <2>3. CASE Refuse(c)
    BY <1>0, <2>3 DEF Refuse, Goto
  <2>4. CASE Send(c) \/ Succeed(c) \/ Retry(c)
    BY <1>0, <2>4 DEF Send, Succeed, Retry, Goto
  <2> QED BY <1>1, <2>1, <2>2, <2>3, <2>4 DEF Step
<1>2. ASSUME NEW c \in Calls, GiveUp(c) PROVE ExecutedWhenAnswered(d)'
  BY <1>0, <1>2 DEF GiveUp, Goto
<1>3. CASE (\E t \in Tokens : Expire(t)) \/ UNCHANGED clientVars
  BY <1>0, <1>3 DEF Expire, clientVars
<1> QED BY <1>1, <1>2, <1>3 DEF ClientNext

-----------------------------------------------------------------------------
(***************************************************************************)
(* The token of the second attempt.                                        *)
(***************************************************************************)
LEMMA FreshStep == ClientInv /\ [ClientNext]_clientVars => RetryIsFresh'
<1> DEFINE Carrying == {"issued", "send", "sent", "done", "refused", "ok"}
           Fresh(d) == refused[d] # 0 /\ pc[d] \in Carrying => held[d] > refused[d]
<1> SUFFICES ASSUME ClientInv, [ClientNext]_clientVars, NEW d \in Calls PROVE Fresh(d)'
  BY DEF RetryIsFresh
<1>0. /\ Fresh(d) /\ refused \in [Calls -> 0 .. issued] /\ held \in [Calls -> 0 .. issued]
      /\ issued \in Nat
      /\ pc \in [Calls -> {"new", "token", "auth", "issued", "send", "sent", "done",
                           "refused", "ok", "failed"}]
  BY DEF ClientInv, RetryIsFresh, ClientTypeOK
<1>1. ASSUME NEW c \in Calls, Step(c) PROVE Fresh(d)'
  <2>1. CASE Begin(c) \/ UseCached(c) \/ Authenticate(c) \/ CacheToken(c) \/ AuthFails(c)
    BY <1>0, <2>1 DEF Begin, UseCached, Authenticate, CacheToken, AuthFails, Goto
  <2>2. CASE KeystoneIssues(c)
    BY <1>0, <2>2 DEF KeystoneIssues, Goto
  <2>3. CASE Send(c) \/ Execute(c) \/ Refuse(c) \/ Succeed(c)
    BY <1>0, <2>3 DEF Send, Execute, Refuse, Succeed, Goto
  <2>4. CASE Retry(c)
    BY <1>0, <2>4 DEF Retry, Goto
  <2> QED BY <1>1, <2>1, <2>2, <2>3, <2>4 DEF Step
<1>2. ASSUME NEW c \in Calls, GiveUp(c) PROVE Fresh(d)'
  BY <1>0, <1>2 DEF GiveUp, Goto
<1>3. CASE (\E t \in Tokens : Expire(t)) \/ UNCHANGED clientVars
  BY <1>0, <1>3 DEF Expire, clientVars
<1> QED BY <1>1, <1>2, <1>3 DEF ClientNext

-----------------------------------------------------------------------------
LEMMA ClientInductive == ClientInv /\ [ClientNext]_clientVars => ClientInv'
<1> SUFFICES ASSUME ClientInv, [ClientNext]_clientVars PROVE ClientTypeOK'
  BY ExecutionStep, FreshStep DEF ClientInv
<1>1. ASSUME NEW c \in Calls, Step(c) \/ GiveUp(c) PROVE ClientTypeOK'
  BY <1>1, GetTokenType, ClientStepType DEF Step
<1>2. ASSUME NEW t \in Tokens, Expire(t) PROVE ClientTypeOK'
  BY <1>2 DEF ClientInv, ClientTypeOK, Expire
<1>3. CASE UNCHANGED clientVars
  BY <1>3 DEF ClientInv, ClientTypeOK, clientVars
<1> QED BY <1>1, <1>2, <1>3 DEF ClientNext

LEMMA ClientInvariant == ClientSpec => []ClientInv
  BY ClientStart, ClientInductive, PTL DEF ClientSpec

\* The cache, the lock and the calls have their types, and the lock is with the
\* one call that authenticates, in every reachable state.
THEOREM ClientTypeCorrect == ClientSpec => []ClientTypeOK
  BY ClientInvariant, PTL DEF ClientInv

\* call_plugin and list_online_boards never make the conductor carry a call out
\* twice, whatever is refused, lost or late, and succeed only with what has been
\* carried out.
THEOREM AtMostOnceCorrect == ClientSpec => []AtMostOnce
<1>1. ASSUME ClientInv, NEW c \in Calls
      PROVE  carriedOut[c] <= 1 /\ (pc[c] = "ok" => carriedOut[c] = 1)
  <2>1. ExecutedWhenAnswered(c) /\ carriedOut[c] \in 0 .. 2
    BY <1>1 DEF ClientInv, ExecutionInv, ClientTypeOK
  <2> QED BY <2>1 DEF ExecutedWhenAnswered, Answered
<1>2. ClientInv => AtMostOnce
  BY <1>1 DEF AtMostOnce
<1> QED BY <1>2, ClientInvariant, PTL

\* The second attempt of a call carries a token issued after the one the
\* conductor refused, for any number of calls that share the cache.
THEOREM RetryIsFreshCorrect == ClientSpec => []RetryIsFresh
  BY ClientInvariant, PTL DEF ClientInv
-----------------------------------------------------------------------------
(***************************************************************************)
(* Runs of pipelines: the lists of nodes, the jobs and the calls.          *)
(***************************************************************************)
LEMMA ListType ==
  ASSUME NEW nodes \in NodeLists
  PROVE  /\ nodes \in Seq(Nodes) /\ Len(nodes) \in 0 .. MaxNodes
         /\ DOMAIN nodes = 1 .. Len(nodes) /\ DOMAIN nodes \subseteq Places
         /\ nodes # <<>> => Len(nodes) > 0
         /\ \A i \in 1 .. Len(nodes) : nodes[i] \in Nodes
<1>1. PICK n \in 0 .. MaxNodes : nodes \in [1 .. n -> Nodes]
  BY DEF NodeLists
<1>2. n \in Nat /\ n <= MaxNodes /\ MaxNodes \in Nat
  BY RunAssumption
<1>3. nodes \in Seq(Nodes) /\ Len(nodes) = n
  BY <1>1, <1>2
<1> QED BY <1>1, <1>2, <1>3 DEF Places

LEMMA JobType ==
  ASSUME TypeOK, NEW r \in Runs, job[r] # NoJob
  PROVE  /\ job[r] \in Jobs /\ job[r].mode \in {"sequential", "parallel"}
         /\ job[r].nodes \in NodeLists /\ job[r].input \in Int
         /\ Size(r) \in 1 .. MaxNodes /\ Used(r) = 1 .. Size(r) /\ Used(r) \subseteq Places
         /\ phase[r] # "new"
<1>1. job[r] \in Jobs
  BY DEF TypeOK
<1>2. job[r].nodes \in NodeLists /\ job[r].nodes # <<>>
  BY <1>1 DEF Jobs
<1>3. Len(job[r].nodes) \in 1 .. MaxNodes
  BY <1>2, ListType, RunAssumption
<1>4. Used(r) = 1 .. Size(r) /\ Used(r) \subseteq Places /\ Size(r) \in 1 .. MaxNodes
  BY <1>3, RunAssumption DEF Used, Size, Places
<1>5. phase[r] # "new"
  BY DEF TypeOK
<1> QED BY <1>1, <1>2, <1>4, <1>5 DEF Jobs

CallStates == {"none", "sent", "done", "error", "abandoned", "closed", "lost"}

\* The step of one run, as far as types go.
LEMMA PlaceTypes ==
  ASSUME TypeOK, NEW r \in Runs, NEW i \in Places, NEW c \in CallStates
  PROVE  /\ [call[r] EXCEPT ![i] = c] \in [Places -> CallStates]
         /\ [call EXCEPT ![r][i] = c] = [call EXCEPT ![r] = [call[r] EXCEPT ![i] = c]]
  BY DEF TypeOK, CallStates

LEMMA ProceedType ==
  ASSUME TypeOK, NEW r \in Runs, NEW nodes \in NodeLists, NEW i \in Nat \ {0},
         NEW calls \in [Places -> CallStates], Proceed(r, nodes, i, calls)
  PROVE  /\ phase' \in [Runs -> {"new", "running", "ok", "failed"}]
         /\ call' \in [Runs -> [Places -> CallStates]]
         /\ phase'[r] # "new"
         /\ \A q \in Runs \ {r} : phase'[q] = phase[q] /\ call'[q] = call[q]
<1>1. i <= Len(nodes) => [calls EXCEPT ![i] = "sent"] \in [Places -> CallStates]
  BY ListType DEF Places, CallStates
<1>2. PICK ph \in {"running", "ok", "failed"}, cs \in [Places -> CallStates] :
        phase' = [phase EXCEPT ![r] = ph] /\ call' = [call EXCEPT ![r] = cs]
  BY <1>1 DEF Proceed
<1> QED BY <1>2 DEF TypeOK, CallStates
-----------------------------------------------------------------------------
(***************************************************************************)
(* Types.                                                                  *)
(***************************************************************************)
RestType ==
  /\ pipelines \in [Pipelines -> NodeLists]
  /\ job \in [Runs -> Jobs \cup {NoJob}]
  /\ output \in [Runs -> [Places -> Int]]
  /\ trace \in [Runs -> Seq(Int)]
  /\ executed \in [Runs -> SUBSET Places]

\* The step of a run that has started: it does not go back, nor change its job.
LEMMA RunTypes ==
  ASSUME TypeOK, NEW r \in Runs, RestType',
         phase' \in [Runs -> {"new", "running", "ok", "failed"}],
         call' \in [Runs -> [Places -> CallStates]],
         \A q \in Runs \ {r} : phase'[q] = phase[q] /\ job'[q] = job[q],
         phase'[r] = "new" <=> job'[r] = NoJob
  PROVE  TypeOK'
  BY DEF TypeOK, RestType, CallStates

LEMMA FailType ==
  ASSUME TypeOK, NEW r \in Runs, Fail(r)
  PROVE  /\ phase' \in [Runs -> {"new", "running", "ok", "failed"}]
         /\ \A q \in Runs \ {r} : phase'[q] = phase[q]
         /\ phase'[r] = "new" <=> phase[r] = "new"
         /\ phase'[r] = IF phase[r] = "running" THEN "failed" ELSE phase[r]
  BY DEF TypeOK, Fail

LEMMA CurrentType ==
  ASSUME TypeOK, NEW r \in Runs, job[r] # NoJob
  PROVE  Current(r) \in Int /\ (Current(r) \in Int32 => Increment(Current(r)) \in Int)
<1>1. trace[r] # <<>> => Len(trace[r]) \in 1 .. Len(trace[r])
  BY DEF TypeOK
<1>2. Current(r) \in Int
  BY <1>1, JobType DEF TypeOK, Current
<1> QED BY <1>2, RunAssumption DEF Increment

LEMMA ChunkType ==
  ASSUME NEW total \in Nat, NEW n \in Nat \ {0}, NEW i \in 1 .. n
  PROVE  Share(total, n, i) \in Nat /\ Share(total, n, i) = Shares(total, n)[i - 1]
<1>1. PICK q \in Nat, m \in Nat : total \div n = q /\ total % n = m
  <2>1. total \div n \in Nat /\ total % n \in Nat
    BY DivMod
  <2> QED BY <2>1
<1>2. i - 1 \in 0 .. n - 1 /\ (i - 1 < m <=> i <= m)
  BY <1>1
<1>3. Share(total, n, i) = q + (IF i <= m THEN 1 ELSE 0)
  BY <1>1 DEF Share
<1>4. Shares(total, n)[i - 1] = q + (IF i - 1 < m THEN 1 ELSE 0)
  BY <1>1, <1>2 DEF Shares
<1> QED BY <1>1, <1>2, <1>3, <1>4

LEMMA StartTypes ==
  ASSUME TypeOK, NEW r \in Runs, NEW p \in Pipelines, NEW v \in Int,
         StartSequential(r, p, v) \/ StartParallel(r, p, v)
  PROVE  TypeOK'
<1>1. /\ pipelines[p] \in NodeLists \ {<<>>} /\ phase[r] = "new"
      /\ UNCHANGED <<pipelines, output, trace, executed>>
      /\ call[r] \in [Places -> CallStates]
  BY DEF StartSequential, StartParallel, TypeOK, CallStates
<1>2. PICK mode \in {"sequential", "parallel"} :
        job' = [job EXCEPT ![r] =
                  [mode |-> mode, pipeline |-> p, nodes |-> pipelines[p], input |-> v]]
  BY DEF StartSequential, StartParallel
<1>3. /\ phase' \in [Runs -> {"new", "running", "ok", "failed"}] /\ phase'[r] # "new"
      /\ call' \in [Runs -> [Places -> CallStates]]
      /\ \A q \in Runs \ {r} : phase'[q] = phase[q]
  <2>1. CASE StartSequential(r, p, v)
    BY <1>1, <2>1, ProceedType DEF StartSequential
  <2>2. CASE StartParallel(r, p, v)
    <3>1. PICK ph \in {"running", "failed"}, cs \in [Places -> CallStates] :
            phase' = [phase EXCEPT ![r] = ph] /\ call' = [call EXCEPT ![r] = cs]
      BY <1>1, <2>2 DEF StartParallel, CallStates
    <3> QED BY <3>1 DEF TypeOK, CallStates
  <2> QED BY <2>1, <2>2
<1>4. [mode |-> mode, pipeline |-> p, nodes |-> pipelines[p], input |-> v] \in Jobs \ {NoJob}
  BY <1>1, <1>2 DEF Jobs, NoJob
<1>5. RestType' /\ job'[r] # NoJob /\ \A q \in Runs \ {r} : job'[q] = job[q]
  BY <1>1, <1>2, <1>4 DEF RestType, TypeOK
<1> QED BY <1>3, <1>5, RunTypes

LEMMA ProceedTypes ==
  ASSUME TypeOK, NEW r \in Runs, job[r] # NoJob, NEW i \in Places,
         NEW calls \in [Places -> CallStates],
         Proceed(r, job[r].nodes, i + 1, calls), RestType', job' = job
  PROVE  TypeOK'
<1>1. job[r].nodes \in NodeLists /\ i + 1 \in Nat \ {0}
  BY JobType, RunAssumption DEF Places
<1> QED BY <1>1, ProceedType, RunTypes

LEMMA FailTypes ==
  ASSUME TypeOK, NEW r \in Runs, NEW calls \in [Places -> CallStates],
         call' = [call EXCEPT ![r] = calls],
         Fail(r) \/ UNCHANGED phase, RestType', job' = job
  PROVE  TypeOK'
<1>1. call' \in [Runs -> [Places -> CallStates]]
  BY DEF TypeOK, CallStates
<1>2. /\ phase' \in [Runs -> {"new", "running", "ok", "failed"}]
      /\ \A q \in Runs \ {r} : phase'[q] = phase[q]
      /\ phase'[r] = "new" <=> phase[r] = "new"
  BY FailType DEF TypeOK
<1> QED BY <1>1, <1>2, RunTypes DEF TypeOK

LEMMA StepTypes ==
  ASSUME TypeOK, NEW r \in Runs, NEW i \in Places,
         Handler(r, i) \/ Worker(r, i) \/ TimeOut(r, i)
  PROVE  TypeOK' /\ UNCHANGED <<pipelines, job>>
<1>1. RestType /\ call[r] \in [Places -> CallStates] /\ Close(r, i) \in [Places -> CallStates]
      /\ Lose(r, i) \in [Places -> CallStates]
  BY DEF TypeOK, RestType, CallStates, Close, Lose
<1>2. CASE TakeOutput(r, i)
  <2>1. job[r] # NoJob
    BY <1>2 DEF TakeOutput, NoJob
  <2>2. output[r][i] \in Int
    BY DEF TypeOK
  <2>3. RestType'
    BY <1>1, <1>2, <2>2 DEF TakeOutput, RestType
  <2> QED BY <1>1, <1>2, <2>1, <2>3, ProceedTypes DEF TakeOutput
<1>3. CASE TakeCount(r, i)
  <2>1. job[r] # NoJob /\ RestType' /\ job' = job /\ pipelines' = pipelines
    BY <1>1, <1>3 DEF TakeCount, NoJob, RestType
  <2>2. PICK ph \in {"ok", "failed", phase[r]} : phase' = [phase EXCEPT ![r] = ph]
    BY <1>3 DEF TakeCount
  <2>3. call' \in [Runs -> [Places -> CallStates]]
    BY <1>1, <1>3 DEF TakeCount, TypeOK, CallStates
  <2>4. /\ phase' \in [Runs -> {"new", "running", "ok", "failed"}] /\ phase'[r] # "new"
        /\ \A q \in Runs \ {r} : phase'[q] = phase[q]
    BY <2>1, <2>2 DEF TypeOK
  <2> QED BY <2>1, <2>3, <2>4, RunTypes
<1>4. CASE TakeError(r, i)
  <2>1. RestType' /\ UNCHANGED <<pipelines, job>>
    BY <1>1, <1>4 DEF TakeError, RestType
  <2> QED BY <1>1, <1>4, <2>1, FailTypes DEF TakeError
<1>5. ASSUME NEW c \in CallStates, call' = [call EXCEPT ![r][i] = c],
             Fail(r) \/ UNCHANGED phase, RestType', UNCHANGED <<pipelines, job>>
      PROVE  TypeOK' /\ UNCHANGED <<pipelines, job>>
  <2>1. [call[r] EXCEPT ![i] = c] \in [Places -> CallStates]
    BY <1>1, <1>5
  <2>2. call' = [call EXCEPT ![r] = [call[r] EXCEPT ![i] = c]]
    BY <1>5, PlaceTypes
  <2> QED BY <1>5, <2>1, <2>2, FailTypes
<1>6. CASE ExecuteIncrement(r, i)
  <2>1. job[r] # NoJob
    BY <1>6 DEF ExecuteIncrement, NoJob
  <2>2. Increment(Current(r)) \in Int
    BY <1>6, <2>1, CurrentType DEF ExecuteIncrement
  <2>3. RestType'
    BY <1>1, <1>6, <2>2 DEF ExecuteIncrement, RestType
  <2>4. PICK c \in {"done", "lost"} : call' = [call EXCEPT ![r][i] = c]
    BY <1>6 DEF ExecuteIncrement
  <2> QED BY <1>5, <1>6, <2>3, <2>4 DEF ExecuteIncrement, CallStates
<1>7. CASE ExecuteVerify(r, i)
  <2>1. PICK valid \in 0 .. Chunk(r, i) : output' = [output EXCEPT ![r][i] = valid]
    BY <1>7 DEF ExecuteVerify
  <2>2. RestType'
    BY <1>1, <1>7, <2>1 DEF ExecuteVerify, RestType
  <2>3. PICK c \in {"done", "lost"} : call' = [call EXCEPT ![r][i] = c]
    BY <1>7 DEF ExecuteVerify
  <2> QED BY <1>5, <1>7, <2>2, <2>3 DEF ExecuteVerify, CallStates
<1>8. CASE ExecuteFails(r, i)
  <2>1. RestType'
    BY <1>1, <1>8 DEF ExecuteFails, RestType
  <2> QED BY <1>5, <1>8, <2>1 DEF ExecuteFails, CallStates
<1>9. CASE TimeOut(r, i)
  <2>1. RestType'
    BY <1>1, <1>9 DEF TimeOut, RestType
  <2>2. PICK c \in {"abandoned", "lost"} : call' = [call EXCEPT ![r][i] = c]
    BY <1>9 DEF TimeOut
  <2> QED BY <1>5, <1>9, <2>1, <2>2 DEF TimeOut, CallStates
<1> QED
  BY <1>2, <1>3, <1>4, <1>6, <1>7, <1>8, <1>9, Zenon DEF Handler, Worker, TakeOutput, TakeCount
-----------------------------------------------------------------------------
(***************************************************************************)
(* The inductive invariant.  A sequential run is at the place after the    *)
(* last output it has received: all before are closed and have been        *)
(* executed, with the outputs of that many increments, and none behind has *)
(* been called.  In a parallel run what has been answered has been         *)
(* executed, by at most the chunk of its place.                            *)
(***************************************************************************)
Fresh(r) ==
  /\ call[r] = [i \in Places |-> "none"]
  /\ trace[r] = <<>> /\ executed[r] = {}

At(r) == Len(trace[r]) + 1

Passed(r) ==
  /\ Len(trace[r]) <= Size(r)
  /\ \A k \in 1 .. Len(trace[r]) :
       /\ call[r][k] = "closed" /\ k \in executed[r]
       /\ trace[r][k] = Incremented(job[r].input, k)
  /\ trace[r] # <<>> => job[r].input \in Int32

Ahead(r) ==
  \A i \in Places :
    /\ i > At(r) \/ i > Size(r) => call[r][i] = "none" /\ i \notin executed[r]
    /\ i = At(r) => call[r][i] # "closed"

Here(r) ==
  \A i \in Used(r) : i = At(r) =>
    /\ phase[r] \in {"running", "failed"}
    /\ phase[r] = "running" <=> call[r][i] \in {"sent", "done", "error"}
    /\ call[r][i] = "done" =>
         i \in executed[r] /\ Current(r) \in Int32 /\ output[r][i] = Increment(Current(r))
    /\ phase[r] = "failed" =>
         job[r].nodes[i] \notin Backed \/ call[r][i] \in {"lost", "abandoned"}

SequentialInv(r) ==
  /\ Passed(r) /\ Ahead(r) /\ Here(r)
  /\ Len(trace[r]) = Size(r) => phase[r] = "ok"

ParallelInv(r) ==
  /\ job[r].input \in Nat
  /\ \A i \in Places : i > Size(r) => call[r][i] = "none" /\ i \notin executed[r]
  /\ \A i \in Used(r) :
       /\ call[r][i] \in {"done", "closed"} =>
            i \in executed[r] /\ output[r][i] \in 0 .. Chunk(r, i)
       /\ phase[r] = "running" => call[r][i] \in {"sent", "done", "error", "closed"}
       /\ phase[r] = "ok" => call[r][i] = "closed" /\ output[r][i] = Chunk(r, i)
  /\ phase[r] = "failed" => \E i \in Used(r) : Troubled(r, i)

InvOf(r) ==
  /\ job[r] = NoJob => Fresh(r)
  /\ job[r].mode = "sequential" => SequentialInv(r)
  /\ job[r].mode = "parallel" => ParallelInv(r)

RunInv == TypeOK /\ \A r \in Runs : InvOf(r)

LEMMA Others ==
  ASSUME NEW q \in Runs, InvOf(q),
         phase'[q] = phase[q], job'[q] = job[q], call'[q] = call[q],
         output'[q] = output[q], trace'[q] = trace[q], executed'[q] = executed[q]
  PROVE  InvOf(q)'
  BY DEF InvOf, Fresh, SequentialInv, Passed, Ahead, Here, At, ParallelInv, Troubled, Chunk,
         Used, Size, Current

LEMMA TraceType ==
  ASSUME TypeOK, NEW r \in Runs
  PROVE  /\ Len(trace[r]) \in Nat /\ At(r) \in Nat \ {0}
         /\ DOMAIN trace[r] = 1 .. Len(trace[r])
         /\ \A v \in Int : /\ Len(Append(trace[r], v)) = At(r)
                           /\ Append(trace[r], v)[At(r)] = v
                           /\ \A k \in 1 .. Len(trace[r]) : Append(trace[r], v)[k] = trace[r][k]
  BY DEF TypeOK, At

-----------------------------------------------------------------------------
(***************************************************************************)
(* The int32 of the worker.                                                *)
(***************************************************************************)
LEMMA IncrementedBase ==
  ASSUME NEW v \in Int32
  PROVE  Incremented(v, 0) = v
<1>1. 2 * (IntMax + 1) \in Nat \ {0} /\ v + 0 + IntMax + 1 \in 0 .. 2 * (IntMax + 1) - 1
  BY RunAssumption DEF Int32
<1>2. (v + 0 + IntMax + 1) % (2 * (IntMax + 1)) = v + 0 + IntMax + 1
  BY <1>1, ModSmall
<1> QED BY <1>2, RunAssumption DEF Incremented, Int32

LEMMA IncrementedNext ==
  ASSUME NEW v \in Int32, NEW k \in Nat
  PROVE  Increment(Incremented(v, k)) = Incremented(v, k + 1)
<1> DEFINE n == 2 * (IntMax + 1)
           m == v + k + IntMax + 1
<1>1. n \in Nat \ {0} /\ m \in Nat /\ IntMax \in Nat
  BY RunAssumption DEF Int32
<1>2. v + (k + 1) + IntMax + 1 = m + 1
  BY RunAssumption DEF Int32
<1>3. n = 2 * (IntMax + 1)
  OBVIOUS
<1>4. /\ Incremented(v, k) = (m % n) - (IntMax + 1)
      /\ Incremented(v, k + 1) = ((m + 1) % n) - (IntMax + 1)
  BY <1>2 DEF Incremented
<1> HIDE DEF n, m
<1>5. m % n \in 0 .. n - 1 /\ (m + 1) % n = IF m % n = n - 1 THEN 0 ELSE (m % n) + 1
  BY <1>1, ModStep, DivMod
<1> QED BY <1>1, <1>3, <1>4, <1>5 DEF Increment

\* The worker at the place of a run returns the next value of the trace.
LEMMA CurrentIs ==
  ASSUME TypeOK, NEW r \in Runs, job[r] # NoJob, Passed(r), Current(r) \in Int32
  PROVE  job[r].input \in Int32 /\ Increment(Current(r)) = Incremented(job[r].input, At(r))
<1>1. CASE trace[r] = <<>>
  <2>1. Current(r) = job[r].input /\ At(r) = 0 + 1
    BY <1>1 DEF Current, At
  <2> QED BY <2>1, IncrementedBase, IncrementedNext
<1>2. CASE trace[r] # <<>>
  <2>1. Len(trace[r]) \in 1 .. Len(trace[r])
    BY <1>2 DEF TypeOK
  <2>2. Current(r) = Incremented(job[r].input, Len(trace[r])) /\ job[r].input \in Int32
    BY <1>2, <2>1 DEF Current, Passed
  <2> QED BY <2>1, <2>2, IncrementedNext DEF At
<1> QED BY <1>1, <1>2

-----------------------------------------------------------------------------
(***************************************************************************)
(* Steps of a sequential run.                                              *)
(***************************************************************************)
LEMMA SeqPlace ==
  ASSUME TypeOK, NEW r \in Runs, job[r] # NoJob, SequentialInv(r), NEW i \in Places,
         call[r][i] \in {"sent", "done", "error", "abandoned", "lost"}
  PROVE  i = At(r) /\ i \in Used(r)
<1>1. i \in Nat \ {0} /\ Len(trace[r]) \in Nat /\ At(r) = Len(trace[r]) + 1
  BY RunAssumption, TraceType DEF Places, At
<1>2. i <= Size(r) /\ i <= At(r) /\ Size(r) \in Nat
  BY <1>1, JobType DEF SequentialInv, Ahead
<1>3. i \notin 1 .. Len(trace[r])
  BY DEF SequentialInv, Passed
<1> QED BY <1>1, <1>2, <1>3 DEF Used

\* The run stays where it is.
LEMMA SeqHere ==
  ASSUME TypeOK, NEW r \in Runs, job[r] # NoJob, SequentialInv(r),
         NEW i \in Used(r), i = At(r), job' = job, trace' = trace,
         \A k \in Places \ {i} :
           call'[r][k] = call[r][k] /\ (k \in executed'[r] <=> k \in executed[r]),
         call'[r][i] # "closed", phase'[r] \in {"running", "failed"},
         phase'[r] = "running" <=> call'[r][i] \in {"sent", "done", "error"},
         call'[r][i] = "done" =>
           /\ i \in executed'[r] /\ Current(r) \in Int32
           /\ output'[r][i] = Increment(Current(r)),
         phase'[r] = "failed" =>
           job[r].nodes[i] \notin Backed \/ call'[r][i] \in {"lost", "abandoned"}
  PROVE  SequentialInv(r)'
<1>1. /\ At(r)' = i /\ Current(r)' = Current(r) /\ Size(r)' = Size(r) /\ Used(r)' = Used(r)
      /\ Len(trace[r]) = i - 1 /\ i \in Places /\ i \in 1 .. Size(r) /\ Size(r) \in Nat
  BY JobType, TraceType DEF At, Current, Size, Used
<1>2. Passed(r)'
  <2>1. ASSUME NEW k \in 1 .. Len(trace[r])
        PROVE  k \in Places \ {i}
    BY <1>1, RunAssumption DEF Places
  <2> QED BY <1>1, <2>1 DEF SequentialInv, Passed
<1>3. Ahead(r)'
  <2>1. ASSUME NEW k \in Places, k > i \/ k > Size(r)
        PROVE  call'[r][k] = "none" /\ k \notin executed'[r]
    <3>1. k \in Places \ {i}
      BY <1>1, <2>1, RunAssumption DEF Places
    <3> QED BY <2>1, <3>1 DEF SequentialInv, Ahead
  <2> QED BY <1>1, <2>1 DEF Ahead
<1>4. Here(r)'
  BY <1>1 DEF Here
<1>5. Len(trace[r])' # Size(r)'
  BY <1>1
<1> QED BY <1>2, <1>3, <1>4, <1>5 DEF SequentialInv

LEMMA FailIs ==
  ASSUME TypeOK, NEW r \in Runs, Fail(r)
  PROVE  phase'[r] = IF phase[r] = "running" THEN "failed" ELSE phase[r]
  BY FailType

LEMMA SeqSteps ==
  ASSUME TypeOK, NEW r \in Runs, job[r].mode = "sequential", SequentialInv(r), NEW i \in Places,
         \/ TakeError(r, i) \/ TimeOut(r, i)
         \/ ExecuteIncrement(r, i) \/ ExecuteFails(r, i)
  PROVE  SequentialInv(r)'
<1>1. call[r][i] \in {"sent", "done", "error", "abandoned"} /\ job' = job /\ trace' = trace
  BY DEF TakeError, TimeOut, ExecuteIncrement, ExecuteFails
<1>2. job[r] # NoJob
  BY DEF NoJob
<1>3. i = At(r) /\ i \in Used(r)
  BY <1>1, <1>2, SeqPlace
<1>4. /\ phase[r] \in {"running", "failed"}
      /\ phase[r] = "running" <=> call[r][i] \in {"sent", "done", "error"}
      /\ call[r][i] = "done" =>
           i \in executed[r] /\ Current(r) \in Int32 /\ output[r][i] = Increment(Current(r))
      /\ phase[r] = "failed" =>
           job[r].nodes[i] \notin Backed \/ call[r][i] \in {"lost", "abandoned"}
  BY <1>3 DEF SequentialInv, Here
<1>5. call[r] \in [Places -> CallStates] /\ call \in [Runs -> [Places -> CallStates]]
  BY DEF TypeOK, CallStates
<1>6. CASE TakeError(r, i)
  <2>1. call'[r] = [call[r] EXCEPT ![i] = "lost"] /\ executed' = executed
    BY <1>5, <1>6 DEF TakeError, Lose
  <2>2. phase'[r] = "failed"
    BY <1>4, <1>6, FailIs DEF TakeError
  <2> QED BY <1>1, <1>2, <1>3, <1>5, <2>1, <2>2, SeqHere
<1>7. CASE TimeOut(r, i)
  <2>1. PICK c \in {"abandoned", "lost"} : call'[r] = [call[r] EXCEPT ![i] = c]
    BY <1>5, <1>7 DEF TimeOut
  <2>2. phase'[r] = "failed" /\ executed' = executed
    BY <1>4, <1>7, FailIs DEF TimeOut
  <2> QED BY <1>1, <1>2, <1>3, <1>5, <2>1, <2>2, SeqHere
<1>8. CASE ExecuteIncrement(r, i)
  <2>1. /\ call'[r] = [call[r] EXCEPT ![i] = IF call[r][i] = "sent" THEN "done" ELSE "lost"]
        /\ output'[r] = [output[r] EXCEPT ![i] = Increment(Current(r))]
        /\ executed'[r] = executed[r] \cup {i} /\ Current(r) \in Int32
        /\ phase' = phase
    BY <1>5, <1>8 DEF ExecuteIncrement, TypeOK
  <2>2. output'[r][i] = Increment(Current(r))
    BY <2>1 DEF TypeOK
  <2>3. call[r][i] \in {"sent", "abandoned"}
    BY <1>8 DEF ExecuteIncrement
  <2> QED BY <1>1, <1>2, <1>3, <1>4, <1>5, <2>1, <2>2, <2>3, SeqHere
<1>9. CASE ExecuteFails(r, i)
  <2>1. call'[r] = [call[r] EXCEPT ![i] = "error"] /\ executed' = executed /\ phase' = phase
    BY <1>5, <1>9 DEF ExecuteFails
  <2>2. call[r][i] = "sent"
    BY <1>9 DEF ExecuteFails
  <2> QED BY <1>1, <1>2, <1>3, <1>4, <1>5, <2>1, <2>2, SeqHere
<1> QED BY <1>6, <1>7, <1>8, <1>9

LEMMA Except ==
  ASSUME NEW S, NEW T, NEW f \in [S -> T], NEW x \in S, NEW v
  PROVE  /\ [f EXCEPT ![x] = v][x] = v
         /\ \A y \in S : y # x => [f EXCEPT ![x] = v][y] = f[y]
  OBVIOUS

LEMMA ProceedIs ==
  ASSUME TypeOK, NEW r \in Runs, NEW nodes, NEW i, NEW calls, Proceed(r, nodes, i, calls)
  PROVE  \/ i > Len(nodes) /\ phase'[r] = "ok" /\ call'[r] = calls
         \/ /\ i <= Len(nodes) /\ nodes[i] \in Backed /\ phase'[r] = "running"
            /\ call'[r] = [calls EXCEPT ![i] = "sent"]
         \/ /\ i <= Len(nodes) /\ nodes[i] \notin Backed /\ phase'[r] = "failed"
            /\ call'[r] = calls
  BY DEF Proceed, TypeOK

\* The run goes to place n + 1, after n outputs.
LEMMA ProceedHere ==
  ASSUME TypeOK, NEW r \in Runs, NEW nodes \in NodeLists, nodes # <<>>,
         NEW n \in Nat, n <= Len(nodes), NEW calls \in [Places -> CallStates],
         Proceed(r, nodes, n + 1, calls),
         job'[r].nodes = nodes, Len(trace'[r]) = n,
         Passed(r)',
         \A k \in Places : k > n => calls[k] = "none" /\ k \notin executed'[r]
  PROVE  SequentialInv(r)'
<1>1. /\ Size(r)' = Len(nodes) /\ At(r)' = n + 1 /\ Len(nodes) \in Nat
      /\ \A k \in Places : k \in Nat
      /\ \A k \in 1 .. Len(nodes) : k \in Places
  BY ListType, RunAssumption DEF Size, At, Places
<1>2. \/ n + 1 > Len(nodes) /\ phase'[r] = "ok" /\ call'[r] = calls
      \/ /\ n + 1 <= Len(nodes) /\ nodes[n + 1] \in Backed /\ phase'[r] = "running"
         /\ call'[r] = [calls EXCEPT ![n + 1] = "sent"]
      \/ /\ n + 1 <= Len(nodes) /\ nodes[n + 1] \notin Backed /\ phase'[r] = "failed"
         /\ call'[r] = calls
  BY ProceedIs
<1>3. CASE n = Len(nodes)
  <2>1. phase'[r] = "ok" /\ call'[r] = calls
    BY <1>1, <1>2, <1>3
  <2>2. Ahead(r)'
    BY <1>1, <1>3, <2>1 DEF Ahead
  <2>3. Here(r)'
    BY <1>1, <1>3 DEF Here, Used
  <2> QED BY <2>1, <2>2, <2>3 DEF SequentialInv
<1>4. CASE n < Len(nodes)
  <2>1. n + 1 \in Places
    BY <1>1, <1>4
  <2>2. \/ /\ nodes[n + 1] \in Backed /\ phase'[r] = "running"
           /\ call'[r] = [calls EXCEPT ![n + 1] = "sent"]
        \/ /\ nodes[n + 1] \notin Backed /\ phase'[r] = "failed"
           /\ call'[r] = calls
    BY <1>1, <1>2, <1>4
  <2> DEFINE c == call'[r]
  <2>a. c[n + 1] = IF nodes[n + 1] \in Backed THEN "sent" ELSE "none"
    <3>1. calls[n + 1] = "none" /\ [calls EXCEPT ![n + 1] = "sent"][n + 1] = "sent"
      BY <2>1, Except
    <3> QED BY <2>2, <3>1
  <2>b. ASSUME NEW k \in Places, k > n + 1
        PROVE  c[k] = "none" /\ k \notin executed'[r]
    <3>1. k # n + 1 /\ k > n
      BY <1>1, <2>b
    <3>2. calls[k] = "none" /\ k \notin executed'[r]
      BY <3>1
    <3>3. [calls EXCEPT ![n + 1] = "sent"][k] = calls[k]
      BY <2>1, <3>1, Except
    <3> QED BY <2>2, <3>2, <3>3
  <2>3. Ahead(r)'
    <3>1. ASSUME NEW k \in Places
          PROVE  /\ k > n + 1 \/ k > Len(nodes) => c[k] = "none" /\ k \notin executed'[r]
                 /\ k = n + 1 => c[k] # "closed"
      BY <1>1, <1>4, <2>a, <2>b
    <3> QED BY <1>1, <3>1 DEF Ahead
  <2>4. Here(r)'
    <3>1. /\ phase'[r] \in {"running", "failed"}
          /\ phase'[r] = "running" <=> c[n + 1] \in {"sent", "done", "error"}
          /\ c[n + 1] # "done"
          /\ phase'[r] = "failed" => nodes[n + 1] \notin Backed
      BY <2>2, <2>a
    <3> QED BY <1>1, <3>1 DEF Here
  <2> QED BY <1>1, <1>4, <2>3, <2>4 DEF SequentialInv
<1> QED BY <1>1, <1>3, <1>4

LEMMA SeqOutput ==
  ASSUME TypeOK, TypeOK', NEW r \in Runs, SequentialInv(r), NEW i \in Places, TakeOutput(r, i)
  PROVE  SequentialInv(r)'
<1>1. job[r] # NoJob
  BY DEF TakeOutput, NoJob
<1>2. i = At(r) /\ i \in Used(r)
  BY <1>1, SeqPlace DEF TakeOutput
<1>3. i \in executed[r] /\ Current(r) \in Int32 /\ output[r][i] = Increment(Current(r))
  BY <1>2 DEF SequentialInv, Here, TakeOutput
<1>4. job[r].input \in Int32 /\ output[r][i] = Incremented(job[r].input, i)
  BY <1>1, <1>2, <1>3, CurrentIs DEF SequentialInv
<1>5. /\ trace'[r] = Append(trace[r], output[r][i]) /\ output[r][i] \in Int
      /\ job' = job /\ executed' = executed
      /\ Proceed(r, job[r].nodes, i + 1, Close(r, i))
  BY DEF TakeOutput, TypeOK
<1>6. /\ job[r].nodes \in NodeLists /\ job[r].nodes # <<>> /\ i \in 1 .. Len(job[r].nodes)
      /\ i \in Nat /\ i <= Len(job[r].nodes) /\ Len(job[r].nodes) \in Nat
  <2>1. Len(job[r].nodes) \in Nat /\ job[r].nodes \in NodeLists /\ job[r].nodes # <<>>
    BY <1>1, JobType, ListType DEF Jobs
  <2> QED BY <1>2, <2>1 DEF Used, Size
<1>7. /\ Len(trace'[r]) = i /\ trace'[r][i] = output[r][i]
      /\ \A k \in 1 .. Len(trace[r]) : trace'[r][k] = trace[r][k]
      /\ Len(trace[r]) = i - 1
  BY <1>2, <1>5, TraceType DEF At
<1>8. /\ Close(r, i) \in [Places -> CallStates] /\ Close(r, i)[i] = "closed"
      /\ \A k \in Places \ {i} : Close(r, i)[k] = call[r][k]
  BY DEF Close, TypeOK, CallStates
<1>9. \A k \in 1 .. i : k \in Places /\ (k < i => k \in 1 .. Len(trace[r]) /\ k # i)
  BY <1>7, RunAssumption DEF Places
<1>10. \/ call'[r] = Close(r, i)
       \/ i < Len(job[r].nodes) /\ call'[r] = [Close(r, i) EXCEPT ![i + 1] = "sent"]
  <2>1. \/ call'[r] = Close(r, i)
        \/ i + 1 <= Len(job[r].nodes) /\ call'[r] = [Close(r, i) EXCEPT ![i + 1] = "sent"]
    BY <1>5, ProceedIs
  <2> QED BY <1>6, <2>1
<1>11. Passed(r)'
  <2>1. ASSUME NEW k \in 1 .. i
        PROVE  /\ call'[r][k] = "closed" /\ k \in executed'[r]
               /\ trace'[r][k] = Incremented(job'[r].input, k)
    <3>1. call'[r][k] = Close(r, i)[k]
      <4>1. i < Len(job[r].nodes) => i + 1 \in Places
        BY <1>6, RunAssumption, ListType DEF Places
      <4>2. k \in Places /\ k # i + 1
        BY <1>6, <1>9
      <4>3. i < Len(job[r].nodes) => [Close(r, i) EXCEPT ![i + 1] = "sent"][k] = Close(r, i)[k]
        BY <1>8, <4>1, <4>2, Except
      <4> QED BY <1>10, <4>3
    <3>2. CASE k = i
      <4>1. call'[r][i] = "closed" /\ i \in executed'[r]
        BY <1>3, <1>5, <1>8, <3>1, <3>2
      <4>2. trace'[r][i] = Incremented(job[r].input, i) /\ job' = job
        BY <1>4, <1>5, <1>7
      <4> QED BY <3>2, <4>1, <4>2
    <3>3. CASE k # i
      <4>1. k \in 1 .. Len(trace[r]) /\ k \in Places \ {i}
        BY <1>6, <1>9, <3>3
      <4>2. call[r][k] = "closed" /\ k \in executed[r] /\ trace[r][k] = Incremented(job[r].input, k)
        BY <4>1 DEF SequentialInv, Passed
      <4> QED BY <1>5, <1>7, <1>8, <3>1, <4>1, <4>2
    <3> QED BY <3>2, <3>3
  <2> QED BY <1>4, <1>5, <1>6, <1>7, <2>1 DEF Passed, Size
<1>12. ASSUME NEW k \in Places, k > i
       PROVE  Close(r, i)[k] = "none" /\ k \notin executed'[r]
  <2>1. k > At(r) /\ k # i
    BY <1>2, <1>12, RunAssumption DEF Places
  <2> QED BY <1>5, <1>8, <1>12, <2>1 DEF SequentialInv, Ahead
<1> QED BY <1>5, <1>6, <1>7, <1>8, <1>11, <1>12, ProceedHere

LEMMA SeqStart ==
  ASSUME TypeOK, NEW r \in Runs, Fresh(r), NEW p \in Pipelines, NEW v \in Int,
         StartSequential(r, p, v)
  PROVE  job'[r].mode = "sequential" /\ SequentialInv(r)'
<1>1. /\ job'[r] = [mode |-> "sequential", pipeline |-> p, nodes |-> pipelines[p], input |-> v]
      /\ pipelines[p] \in NodeLists /\ pipelines[p] # <<>>
      /\ Proceed(r, pipelines[p], 0 + 1, call[r])
      /\ trace' = trace /\ executed' = executed
  BY DEF StartSequential, TypeOK
<1>2. /\ Len(trace'[r]) = 0 /\ trace'[r] = <<>> /\ call[r] \in [Places -> CallStates]
      /\ Len(pipelines[p]) \in Nat /\ Len(pipelines[p]) > 0
      /\ \A k \in Places : call[r][k] = "none" /\ k \notin executed'[r]
  BY <1>1, ListType DEF Fresh, CallStates, TypeOK
<1>3. Passed(r)'
  BY <1>1, <1>2 DEF Passed, Size
<1> QED BY <1>1, <1>2, <1>3, ProceedHere

-----------------------------------------------------------------------------
(***************************************************************************)
(* Steps of a parallel run.                                                *)
(***************************************************************************)
LEMMA ChunksOf ==
  ASSUME TypeOK, NEW r \in Runs, job[r] # NoJob, job[r].input \in Nat
  PROVE  /\ Size(r) \in Nat \ {0} /\ Used(r) = 1 .. Size(r)
         /\ \A i \in Used(r) :
              Chunk(r, i) \in Nat /\ Chunk(r, i) = Shares(job[r].input, Size(r))[i - 1]
<1>1. Size(r) \in Nat \ {0} /\ Used(r) = 1 .. Size(r)
  BY JobType, RunAssumption
<1> QED BY <1>1, ChunkType DEF Chunk

\* The counts of a batch add up to it just when every chunk is counted whole.
LEMMA CountIsWhole ==
  ASSUME TypeOK, NEW r \in Runs, job[r] # NoJob, job[r].input \in Nat,
         \A i \in Used(r) : output[r][i] \in 0 .. Chunk(r, i)
  PROVE  CountOf(r) = job[r].input <=> \A i \in Used(r) : output[r][i] = Chunk(r, i)
<1> DEFINE f == [i \in Used(r) |-> output[r][i]]
           g == [i \in Used(r) |-> Chunk(r, i)]
<1>1. /\ Size(r) \in Nat \ {0} /\ Used(r) = 1 .. Size(r)
      /\ \A i \in Used(r) :
           Chunk(r, i) \in Nat /\ Chunk(r, i) = Shares(job[r].input, Size(r))[i - 1]
  BY ChunksOf
<1>2. /\ f \in [Used(r) -> Nat] /\ g \in [Used(r) -> Nat]
      /\ \A i \in Used(r) : f[i] <= g[i] /\ f[i] = output[r][i] /\ g[i] = Chunk(r, i)
  <2>1. ASSUME NEW i \in Used(r)
        PROVE  output[r][i] \in Nat /\ Chunk(r, i) \in Nat /\ output[r][i] <= Chunk(r, i)
    BY <1>1
  <2> QED BY <2>1
<1>3. CountOf(r) = Total(f)
  BY DEF CountOf
<1> HIDE DEF f, g
<1>4. IsFiniteSet(Units(g)) /\ Total(g) = job[r].input
  <2>1. /\ g \in [1 .. Size(r) -> Nat]
        /\ \A i \in 1 .. Size(r) : g[i] = Shares(job[r].input, Size(r))[i - 1]
    BY <1>1, <1>2
  <2> QED BY <1>1, <2>1, ShiftedTotal
<1>5. Total(f) = Total(g) => f = g
  BY <1>2, <1>4, SameTotal
<1>6. (\A i \in Used(r) : f[i] = g[i]) <=> f = g
  BY <1>2
<1> QED BY <1>2, <1>3, <1>4, <1>5, <1>6

LEMMA ParHere ==
  ASSUME TypeOK, NEW r \in Runs, job[r] # NoJob, ParallelInv(r), NEW i \in Used(r), job' = job,
         \A k \in Places \ {i} :
           /\ call'[r][k] = call[r][k] /\ output'[r][k] = output[r][k]
           /\ k \in executed'[r] <=> k \in executed[r],
         call'[r][i] \in {"done", "closed"} =>
           i \in executed'[r] /\ output'[r][i] \in 0 .. Chunk(r, i),
         phase'[r] = "running" =>
           phase[r] = "running" /\ call'[r][i] \in {"sent", "done", "error", "closed"},
         phase'[r] = "ok" =>
           \A k \in Used(r) : call'[r][k] = "closed" /\ output'[r][k] = Chunk(r, k),
         phase'[r] = "failed" => \E k \in Used(r) : Troubled(r, k)'
  PROVE  ParallelInv(r)'
<1>1. /\ Used(r)' = Used(r) /\ Size(r)' = Size(r) /\ \A k \in Used(r) : Chunk(r, k)' = Chunk(r, k)
      /\ i \in Places /\ i <= Size(r) /\ Size(r) \in Nat
      /\ \A k \in Used(r) : k \in Places
  BY JobType DEF Used, Size, Chunk
<1>2. ASSUME NEW k \in Places, k > Size(r)
      PROVE  call'[r][k] = "none" /\ k \notin executed'[r]
  <2>1. k # i
    BY <1>1, <1>2, RunAssumption DEF Places
  <2> QED BY <1>2, <2>1 DEF ParallelInv
<1>3. ASSUME NEW k \in Used(r)
      PROVE  /\ call'[r][k] \in {"done", "closed"} =>
                  k \in executed'[r] /\ output'[r][k] \in 0 .. Chunk(r, k)
             /\ phase'[r] = "running" => call'[r][k] \in {"sent", "done", "error", "closed"}
  <2>1. CASE k = i
    BY <2>1
  <2>2. CASE k # i
    BY <1>1, <2>2 DEF ParallelInv
  <2> QED BY <2>1, <2>2
<1> QED BY <1>1, <1>2, <1>3 DEF ParallelInv

\* A place that has failed stays so.
LEMMA TroubleStays ==
  ASSUME TypeOK, NEW r \in Runs, job[r] # NoJob, ParallelInv(r), phase[r] = "failed",
         NEW i \in Used(r), job' = job, call[r][i] \notin {"closed", "lost"},
         call[r][i] = "abandoned" => call'[r][i] = "lost",
         \A k \in Places \ {i} : call'[r][k] = call[r][k] /\ output'[r][k] = output[r][k]
  PROVE  \E k \in Used(r) : Troubled(r, k)'
<1>1. PICK k \in Used(r) : Troubled(r, k)
  BY DEF ParallelInv
<1>2. k \in Places /\ Chunk(r, k)' = Chunk(r, k)
  BY JobType DEF Chunk, Size
<1>3. Troubled(r, k)'
  BY <1>1, <1>2 DEF Troubled
<1> QED BY <1>3

LEMMA ParCount ==
  ASSUME TypeOK, NEW r \in Runs, ParallelInv(r), NEW i \in Used(r), TakeCount(r, i)
  PROVE  ParallelInv(r)'
<1>1. job[r] # NoJob
  BY DEF TakeCount, NoJob
<1>2. /\ call[r] \in [Places -> CallStates] /\ call \in [Runs -> [Places -> CallStates]]
      /\ call[r][i] = "done" /\ \A k \in Used(r) : k \in Places
  BY <1>1, JobType DEF TypeOK, CallStates, TakeCount
<1>3. /\ UNCHANGED <<job, output, executed>>
      /\ call'[r] = [call[r] EXCEPT ![i] = "closed"]
  BY <1>2 DEF TakeCount, Close
<1>4. /\ call'[r][i] = "closed"
      /\ \A k \in Places \ {i} : call'[r][k] = call[r][k]
  BY <1>2, <1>3
<1>5. phase'[r] = IF phase[r] = "running" /\ \A j \in Used(r) \ {i} : call[r][j] = "closed"
                  THEN IF CountOf(r) = job[r].input THEN "ok" ELSE "failed"
                  ELSE phase[r]
  BY DEF TakeCount, TypeOK
<1>6. phase[r] # "ok" /\ i \in executed[r] /\ output[r][i] \in 0 .. Chunk(r, i)
  BY <1>2 DEF ParallelInv
<1>7. CASE phase[r] = "running" /\ \A j \in Used(r) \ {i} : call[r][j] = "closed"
  <2>1. \A j \in Used(r) : call'[r][j] = "closed" /\ output[r][j] \in 0 .. Chunk(r, j)
    BY <1>2, <1>4, <1>6, <1>7 DEF ParallelInv
  <2>2. CountOf(r) = job[r].input <=> \A j \in Used(r) : output[r][j] = Chunk(r, j)
    BY <1>1, <2>1, CountIsWhole DEF ParallelInv
  <2>3. ASSUME phase'[r] = "failed"
        PROVE  \E k \in Used(r) : Troubled(r, k)'
    <3>1. PICK k \in Used(r) : output[r][k] # Chunk(r, k)
      BY <1>5, <1>7, <2>2, <2>3
    <3>2. output[r][k] < Chunk(r, k)
      <4>1. Chunk(r, k) \in Nat /\ output[r][k] \in 0 .. Chunk(r, k)
        BY <1>1, <2>1, ChunksOf DEF ParallelInv
      <4> QED BY <3>1, <4>1
    <3>3. Chunk(r, k)' = Chunk(r, k)
      BY <1>3 DEF Chunk, Size
    <3>4. Troubled(r, k)'
      BY <1>3, <2>1, <3>2, <3>3 DEF Troubled, TakeCount
    <3> QED BY <3>4
  <2>4. phase'[r] # "running"
    BY <1>5, <1>7
  <2>5. phase'[r] = "ok" => \A k \in Used(r) : call'[r][k] = "closed" /\ output'[r][k] = Chunk(r, k)
    BY <1>3, <1>5, <1>7, <2>1, <2>2
  <2> QED BY <1>1, <1>3, <1>4, <1>6, <2>3, <2>4, <2>5, ParHere
<1>8. CASE ~(phase[r] = "running" /\ \A j \in Used(r) \ {i} : call[r][j] = "closed")
  <2>1. phase'[r] = phase[r]
    BY <1>5, <1>8
  <2>2. phase'[r] = "failed" => \E k \in Used(r) : Troubled(r, k)'
    BY <1>1, <1>2, <1>3, <1>4, <2>1, TroubleStays
  <2> QED BY <1>1, <1>3, <1>4, <1>6, <2>1, <2>2, ParHere
<1> QED BY <1>7, <1>8

LEMMA ParSteps ==
  ASSUME TypeOK, NEW r \in Runs, job[r].mode = "parallel", ParallelInv(r), NEW i \in Places,
         \/ TakeCount(r, i) \/ TakeError(r, i) \/ TimeOut(r, i)
         \/ ExecuteVerify(r, i) \/ ExecuteFails(r, i)
  PROVE  ParallelInv(r)'
<1>1. /\ call[r][i] \in {"sent", "done", "error", "abandoned"} /\ job' = job
      /\ phase[r] # "ok" \/ i \notin Used(r)
  BY DEF TakeCount, TakeError, TimeOut, ExecuteVerify, ExecuteFails, ParallelInv
<1>2. job[r] # NoJob
  BY DEF NoJob
<1>3. i \in Used(r) /\ phase[r] # "ok" /\ \A k \in Used(r) : k \in Places
  BY <1>1, <1>2, JobType, RunAssumption DEF ParallelInv, Used, Places
<1>4. /\ call[r] \in [Places -> CallStates] /\ call \in [Runs -> [Places -> CallStates]]
      /\ output \in [Runs -> [Places -> Int]] /\ executed \in [Runs -> SUBSET Places]
  BY DEF TypeOK, CallStates
<1>5. ASSUME NEW c \in {"error", "abandoned", "lost"}, call'[r] = [call[r] EXCEPT ![i] = c],
             call[r][i] = "abandoned" => c = "lost",
             UNCHANGED <<output, executed>>,
             (Fail(r) /\ c # "error") \/ (UNCHANGED phase /\ c = "error")
      PROVE  ParallelInv(r)'
  <2>1. call'[r][i] = c /\ \A k \in Places \ {i} : call'[r][k] = call[r][k]
    BY <1>4, <1>5
  <2>2. phase'[r] \in {phase[r], "failed"} /\ (phase'[r] = "running" => c = "error")
    BY <1>5, FailIs
  <2>3. ASSUME phase'[r] = "failed" PROVE \E k \in Used(r) : Troubled(r, k)'
    <3>1. CASE phase[r] = "failed"
      BY <1>1, <1>2, <1>3, <1>5, <2>1, <3>1, TroubleStays
    <3>2. CASE phase[r] # "failed"
      <4>1. c \in {"abandoned", "lost"}
        BY <1>5, <2>3, <3>2
      <4>2. Troubled(r, i)'
        BY <2>1, <4>1 DEF Troubled
      <4> QED BY <1>3, <4>2
    <3> QED BY <3>1, <3>2
  <2> QED BY <1>1, <1>2, <1>3, <1>5, <2>1, <2>2, <2>3, ParHere
<1>6. CASE TakeError(r, i)
  <2>1. /\ call'[r] = [call[r] EXCEPT ![i] = "lost"] /\ call[r][i] = "error"
        /\ UNCHANGED <<output, executed>> /\ Fail(r)
    BY <1>4, <1>6 DEF TakeError, Lose
  <2> QED BY <1>5, <2>1
<1>7. CASE TimeOut(r, i)
  <2>1. PICK c \in {"abandoned", "lost"} : call' = [call EXCEPT ![r][i] = c]
    BY <1>7 DEF TimeOut
  <2>2. /\ call'[r] = [call[r] EXCEPT ![i] = c] /\ call[r][i] # "abandoned"
        /\ UNCHANGED <<output, executed>> /\ Fail(r)
    BY <1>4, <1>7, <2>1 DEF TimeOut
  <2> QED BY <1>5, <2>1, <2>2
<1>8. CASE ExecuteFails(r, i)
  BY <1>4, <1>5, <1>8 DEF ExecuteFails
<1>9. CASE ExecuteVerify(r, i)
  <2>1. PICK valid \in 0 .. Chunk(r, i) : output' = [output EXCEPT ![r][i] = valid]
    BY <1>9 DEF ExecuteVerify
  <2>2. /\ output'[r][i] = valid
        /\ \A k \in Places \ {i} : output'[r][k] = output[r][k]
    BY <1>4, <2>1
  <2>3. /\ call[r][i] \in {"sent", "abandoned"} /\ phase' = phase
        /\ call'[r][i] = IF call[r][i] = "sent" THEN "done" ELSE "lost"
        /\ \A k \in Places \ {i} : call'[r][k] = call[r][k]
        /\ executed'[r] = executed[r] \cup {i}
    BY <1>4, <1>9 DEF ExecuteVerify
  <2>4. phase'[r] = "failed" => \E k \in Used(r) : Troubled(r, k)'
    BY <1>1, <1>2, <1>3, <2>2, <2>3, TroubleStays
  <2>5. phase'[r] = "running" => phase[r] = "running" /\ call'[r][i] = "done"
    BY <1>3, <2>3 DEF ParallelInv
  <2> QED BY <1>1, <1>2, <1>3, <2>2, <2>3, <2>4, <2>5, ParHere
<1> QED BY <1>3, <1>6, <1>7, <1>8, <1>9, ParCount

LEMMA ParStart ==
  ASSUME TypeOK, NEW r \in Runs, Fresh(r), NEW p \in Pipelines, NEW total \in Nat,
         StartParallel(r, p, total)
  PROVE  job'[r].mode = "parallel" /\ ParallelInv(r)'
<1> DEFINE backed == {i \in DOMAIN pipelines[p] : pipelines[p][i] \in Backed}
           n == Len(pipelines[p])
<1>1. /\ job'[r] = [mode |-> "parallel", pipeline |-> p, nodes |-> pipelines[p], input |-> total]
      /\ pipelines[p] \in NodeLists /\ pipelines[p] # <<>>
      /\ executed' = executed
      /\ call'[r] = [i \in Places |-> IF i \in backed THEN "sent" ELSE call[r][i]]
      /\ phase'[r] = IF backed = DOMAIN pipelines[p] THEN "running" ELSE "failed"
  BY DEF StartParallel, TypeOK
<1>2. /\ DOMAIN pipelines[p] = 1 .. n /\ n \in Nat /\ DOMAIN pipelines[p] \subseteq Places
  BY <1>1, ListType
<1>3. \A i \in Places : call[r][i] = "none" /\ i \notin executed'[r]
  BY <1>1 DEF Fresh
<1>4. /\ Size(r)' = n /\ Used(r)' = 1 .. n /\ job'[r].input \in Nat
      /\ job'[r].nodes = pipelines[p]
  BY <1>1 DEF Size, Used
<1> HIDE DEF n, backed
<1>5. \A i \in Places : call'[r][i] = IF i \in backed THEN "sent" ELSE "none"
  BY <1>1, <1>3
<1>6. backed \subseteq 1 .. n /\ \A i \in 1 .. n : i \in backed <=> pipelines[p][i] \in Backed
  BY <1>2 DEF backed
<1>7. \A i \in Places : i > n => call'[r][i] = "none"
  <2>1. ASSUME NEW i \in Places, i > n PROVE i \notin backed
    BY <1>2, <1>6, <2>1, RunAssumption DEF Places
  <2> QED BY <1>5, <2>1
<1>8. \A i \in 1 .. n : i \in Places /\ call'[r][i] \in {"none", "sent"}
  BY <1>2, <1>5
<1>9. phase'[r] = "running" => \A i \in 1 .. n : call'[r][i] = "sent"
  BY <1>1, <1>2, <1>5, <1>8
<1>10. phase'[r] = "failed" => \E i \in 1 .. n : Troubled(r, i)'
  <2>1. ASSUME phase'[r] = "failed"
        PROVE  \E i \in 1 .. n : pipelines[p][i] \notin Backed
    BY <1>1, <1>2, <1>6, <2>1
  <2> QED BY <1>4, <2>1 DEF Troubled
<1>11. phase'[r] # "ok"
  BY <1>1
<1>12. job'[r].mode = "parallel"
  BY <1>1
<1>13. \A i \in Places : i > Size(r)' => call'[r][i] = "none" /\ i \notin executed'[r]
  BY <1>3, <1>4, <1>7
<1>14. \A i \in Used(r)' :
         /\ call'[r][i] \notin {"done", "closed"}
         /\ phase'[r] = "running" => call'[r][i] = "sent"
  BY <1>4, <1>8, <1>9
<1>15. phase'[r] = "failed" => \E i \in Used(r)' : Troubled(r, i)'
  BY <1>4, <1>10
<1> QED BY <1>4, <1>11, <1>12, <1>13, <1>14, <1>15 DEF ParallelInv
-----------------------------------------------------------------------------
(***************************************************************************)
(* The invariant is inductive.                                             *)
(***************************************************************************)
LEMMA RunStart == Init => RunInv
<1> SUFFICES ASSUME Init PROVE RunInv
  OBVIOUS
<1>1. TypeOK
  <2>1. <<>> \in NodeLists
    <3>1. <<>> \in [1 .. 0 -> Nodes] /\ 0 \in 0 .. MaxNodes
      BY RunAssumption
    <3> QED BY <3>1 DEF NodeLists
  <2>2. \A r \in Runs : phase[r] = "new" /\ job[r] = NoJob
    BY DEF Init
  <2> QED BY <2>1, <2>2 DEF Init, TypeOK
<1>2. ASSUME NEW r \in Runs
      PROVE  InvOf(r)
  BY DEF Init, InvOf, Fresh, NoJob
<1> QED BY <1>1, <1>2 DEF RunInv

\* A new run is started: it was fresh, and its job is that of its mode.
LEMMA StartKeeps ==
  ASSUME RunInv, NEW r \in Runs, NEW p \in Pipelines, NEW v \in Int,
         StartSequential(r, p, v) \/ (StartParallel(r, p, v) /\ v \in Nat)
  PROVE  RunInv'
<1>1. TypeOK' /\ TypeOK
  BY StartTypes DEF RunInv
<1>2. phase[r] = "new" /\ job[r] = NoJob /\ Fresh(r)
  <2>1. phase[r] = "new"
    BY DEF StartSequential, StartParallel
  <2> QED BY <1>1, <2>1 DEF RunInv, InvOf, TypeOK
<1>3. \A q \in Runs \ {r} : InvOf(q)'
  <2>1. ASSUME NEW q \in Runs, q # r
        PROVE  InvOf(q)'
    <3>1. /\ job'[q] = job[q] /\ UNCHANGED <<output, trace, executed>>
      BY <1>1, <2>1 DEF StartSequential, StartParallel, TypeOK
    <3>2. phase'[q] = phase[q] /\ call'[q] = call[q]
      <4>1. CASE StartSequential(r, p, v)
        BY <1>1, <2>1, <4>1 DEF StartSequential, Proceed, TypeOK
      <4>2. CASE StartParallel(r, p, v)
        BY <1>1, <2>1, <4>2 DEF StartParallel, TypeOK
      <4> QED BY <4>1, <4>2
    <3> QED BY <2>1, <3>1, <3>2, Others DEF RunInv
  <2> QED BY <2>1
<1>4. InvOf(r)'
  <2>1. CASE StartSequential(r, p, v)
    BY <1>1, <1>2, <2>1, SeqStart DEF InvOf, NoJob
  <2>2. CASE StartParallel(r, p, v) /\ v \in Nat
    BY <1>1, <1>2, <2>2, ParStart DEF InvOf, NoJob
  <2> QED BY <2>1, <2>2
<1> QED BY <1>1, <1>3, <1>4 DEF RunInv

\* A step of a run touches nothing of another run.
LEMMA StepFrame ==
  ASSUME TypeOK, NEW r \in Runs, NEW i \in Places,
         Handler(r, i) \/ Worker(r, i) \/ TimeOut(r, i), NEW q \in Runs, q # r
  PROVE  /\ phase'[q] = phase[q] /\ job'[q] = job[q] /\ call'[q] = call[q]
         /\ output'[q] = output[q] /\ trace'[q] = trace[q] /\ executed'[q] = executed[q]
<1>1. CASE TakeOutput(r, i) \/ TakeCount(r, i) \/ TakeError(r, i)
  BY <1>1 DEF TakeOutput, TakeCount, TakeError, Proceed, Fail, TypeOK
<1>2. CASE Worker(r, i) \/ TimeOut(r, i)
  BY <1>2 DEF Worker, ExecuteIncrement, ExecuteVerify, ExecuteFails, TimeOut, Fail, TypeOK
<1> QED BY <1>1, <1>2 DEF Handler

LEMMA StepKeeps ==
  ASSUME RunInv, NEW r \in Runs, NEW i \in Places,
         Handler(r, i) \/ Worker(r, i) \/ TimeOut(r, i)
  PROVE  RunInv'
<1>1. TypeOK /\ TypeOK' /\ job' = job
  BY StepTypes DEF RunInv
<1>2. \A q \in Runs \ {r} : InvOf(q)'
  <2>1. ASSUME NEW q \in Runs, q # r
        PROVE  InvOf(q)'
    BY <1>1, <2>1, StepFrame, Others DEF RunInv
  <2> QED BY <2>1
<1>3. job[r] # NoJob
  <2>1. call[r][i] # "none"
    BY DEF Handler, Worker, TakeOutput, TakeCount, TakeError, TimeOut, ExecuteIncrement,
           ExecuteVerify, ExecuteFails
  <2>2. InvOf(r)
    BY DEF RunInv
  <2> QED BY <2>1, <2>2 DEF InvOf, Fresh
<1>4. ASSUME job[r].mode = "sequential"
      PROVE  InvOf(r)'
  <2>1. SequentialInv(r)
    BY <1>4 DEF RunInv, InvOf
  <2>2. ~TakeCount(r, i) /\ ~ExecuteVerify(r, i)
    BY <1>4 DEF TakeCount, ExecuteVerify
  <2>3. TakeOutput(r, i) => SequentialInv(r)'
    BY <1>1, <1>4, <2>1, SeqOutput
  <2>4. TakeError(r, i) \/ TimeOut(r, i) \/ ExecuteIncrement(r, i) \/ ExecuteFails(r, i)
          => SequentialInv(r)'
    BY <1>1, <1>4, <2>1, SeqSteps
  <2>5. SequentialInv(r)'
    BY <2>2, <2>3, <2>4 DEF Handler, Worker
  <2> QED BY <1>1, <1>3, <1>4, <2>5 DEF InvOf, NoJob
<1>5. ASSUME job[r].mode = "parallel"
      PROVE  InvOf(r)'
  <2>1. ParallelInv(r)
    BY <1>5 DEF RunInv, InvOf
  <2>2. ~TakeOutput(r, i) /\ ~ExecuteIncrement(r, i)
    BY <1>5 DEF TakeOutput, ExecuteIncrement
  <2>3. ParallelInv(r)'
    BY <1>1, <1>5, <2>1, <2>2, ParSteps DEF Handler, Worker
  <2> QED BY <1>1, <1>3, <1>5, <2>3 DEF InvOf, NoJob
<1>6. job[r].mode \in {"sequential", "parallel"}
  BY <1>1, <1>3, JobType
<1>7. InvOf(r)'
  BY <1>4, <1>5, <1>6
<1> QED BY <1>1, <1>2, <1>7 DEF RunInv

LEMMA RunInductive ==
  ASSUME RunInv, [Next]_vars
  PROVE  RunInv'
<1>1. CASE UNCHANGED <<phase, job, call, output, trace, executed>>
           /\ pipelines' \in [Pipelines -> NodeLists]
  <2>1. TypeOK'
    BY <1>1 DEF RunInv, TypeOK
  <2>2. \A r \in Runs : InvOf(r)'
    BY <1>1, Others DEF RunInv
  <2> QED BY <2>1, <2>2 DEF RunInv
<1>2. CASE UNCHANGED vars
  BY <1>1, <1>2 DEF vars, RunInv, TypeOK
<1>3. ASSUME NEW p \in Pipelines, Release(p)
      PROVE  RunInv'
  <2>1. <<>> \in NodeLists
    <3>1. <<>> \in [1 .. 0 -> Nodes] /\ 0 \in 0 .. MaxNodes
      BY RunAssumption
    <3> QED BY <3>1 DEF NodeLists
  <2> QED BY <1>1, <1>3, <2>1 DEF Release, RunInv, TypeOK
<1>4. ASSUME NEW p \in Pipelines, NEW nodes \in NodeLists, Lease(p, nodes)
      PROVE  RunInv'
  BY <1>1, <1>4 DEF Lease, RunInv, TypeOK
<1>5. ASSUME NEW r \in Runs, NEW p \in Pipelines, NEW v \in Initials, StartSequential(r, p, v)
      PROVE  RunInv'
  BY <1>5, StartKeeps, RunAssumption
<1>6. ASSUME NEW r \in Runs, NEW p \in Pipelines, NEW total \in Totals, StartParallel(r, p, total)
      PROVE  RunInv'
  BY <1>6, StartKeeps, RunAssumption
<1>7. ASSUME NEW r \in Runs, NEW i \in Places, Handler(r, i) \/ Worker(r, i) \/ TimeOut(r, i)
      PROVE  RunInv'
  BY <1>7, StepKeeps
<1> QED BY <1>2, <1>3, <1>4, <1>5, <1>6, <1>7 DEF Next, CallStep

LEMMA RunInvariant == Spec => []RunInv
<1>1. Init => RunInv
  BY RunStart
<1>2. RunInv /\ [Next]_vars => RunInv'
  BY RunInductive
<1> QED BY <1>1, <1>2, PTL DEF Spec

\* Every run keeps its variables in their types; in particular what was asked
\* for is there once a run has started.
THEOREM PipelineTypeCorrect == Spec => []TypeOK
<1>1. RunInv => TypeOK
  BY DEF RunInv
<1> QED BY <1>1, RunInvariant, PTL

\* A sequential run that succeeds has run every node of its pipeline in order,
\* and its trace is that of as many increments of an int32, whatever was
\* released, leased again or run at the same time (TraceIsExact).
THEOREM TraceIsExactCorrect == Spec => []TraceIsExact
<1>1. ASSUME RunInv PROVE TraceIsExact
  <2> SUFFICES ASSUME NEW r \in Runs, phase[r] = "ok", job[r].mode = "sequential"
               PROVE  /\ executed[r] = Used(r)
                      /\ trace[r] = [k \in Used(r) |-> Incremented(job[r].input, k)]
    BY DEF TraceIsExact
  <2>1. TypeOK /\ SequentialInv(r) /\ job[r] # NoJob
    BY <1>1 DEF RunInv, InvOf, NoJob
  <2>2. /\ Size(r) \in 1 .. MaxNodes /\ Used(r) = 1 .. Size(r) /\ Used(r) \subseteq Places
        /\ Len(trace[r]) \in Nat /\ Len(trace[r]) <= Size(r) /\ At(r) = Len(trace[r]) + 1
    BY <2>1, JobType, TraceType DEF SequentialInv, Passed, At
  <2>3. Len(trace[r]) = Size(r)
    <3>1. At(r) \notin Used(r)
      BY <2>1 DEF SequentialInv, Here
    <3> QED BY <2>2, <3>1, RunAssumption
  <2>4. executed[r] = Used(r)
    <3>1. \A k \in Used(r) : k \in executed[r]
      BY <2>1, <2>2, <2>3 DEF SequentialInv, Passed
    <3>2. ASSUME NEW k \in Places, k \in executed[r] PROVE k \in Used(r)
      <4>1. ~(k > Size(r))
        BY <2>1, <3>2 DEF SequentialInv, Ahead
      <4> QED BY <2>2, <4>1, RunAssumption DEF Places
    <3>3. executed[r] \subseteq Places
      BY <2>1 DEF TypeOK
    <3> QED BY <3>1, <3>2, <3>3
  <2>5. /\ trace[r] \in [1 .. Len(trace[r]) -> Int]
        /\ \A k \in Used(r) : trace[r][k] = Incremented(job[r].input, k)
    BY <2>1, <2>2, <2>3 DEF SequentialInv, Passed, TypeOK
  <2>6. trace[r] = [k \in Used(r) |-> Incremented(job[r].input, k)]
    BY <2>2, <2>3, <2>5
  <2> QED BY <2>4, <2>6
<1>2. RunInv => TraceIsExact
  BY <1>1
<1> QED BY <1>2, RunInvariant, PTL

\* A parallel run that succeeds has had every signature of its batch verified
\* by the worker whose chunk it was in (BatchIsVerified).
THEOREM BatchIsVerifiedCorrect == Spec => []BatchIsVerified
<1>1. ASSUME RunInv PROVE BatchIsVerified
  <2> SUFFICES ASSUME NEW r \in Runs, phase[r] = "ok", job[r].mode = "parallel"
               PROVE  /\ executed[r] = Used(r)
                      /\ \A i \in Used(r) : output[r][i] = Chunk(r, i)
    BY DEF BatchIsVerified
  <2>1. TypeOK /\ ParallelInv(r) /\ job[r] # NoJob
    BY <1>1 DEF RunInv, InvOf, NoJob
  <2>2. /\ Size(r) \in 1 .. MaxNodes /\ Used(r) = 1 .. Size(r) /\ executed[r] \subseteq Places
    BY <2>1, JobType DEF TypeOK
  <2>3. \A i \in Used(r) : i \in executed[r] /\ output[r][i] = Chunk(r, i)
    BY <2>1 DEF ParallelInv
  <2>4. ASSUME NEW k \in Places, k \in executed[r] PROVE k \in Used(r)
    <3>1. ~(k > Size(r))
      BY <2>1, <2>4 DEF ParallelInv
    <3> QED BY <2>2, <3>1, RunAssumption DEF Places
  <2> QED BY <2>2, <2>3, <2>4
<1>2. RunInv => BatchIsVerified
  BY <1>1
<1> QED BY <1>2, RunInvariant, PTL

\* A run that fails has met a board without a worker, a call that failed or
\* timed out, or a bad signature: the chunks themselves always make up the
\* batch (FailsForAReason).
THEOREM FailsForAReasonCorrect == Spec => []FailsForAReason
<1>1. ASSUME RunInv PROVE FailsForAReason
  <2> SUFFICES ASSUME NEW r \in Runs, phase[r] = "failed"
               PROVE  \E i \in Used(r) : Troubled(r, i)
    BY DEF FailsForAReason
  <2>1. TypeOK /\ InvOf(r) /\ job[r] # NoJob
    BY <1>1 DEF RunInv, TypeOK
  <2>2. CASE job[r].mode = "parallel"
    BY <2>1, <2>2 DEF InvOf, ParallelInv
  <2>3. CASE job[r].mode = "sequential"
    <3>1. /\ SequentialInv(r) /\ Used(r) = 1 .. Size(r) /\ Size(r) \in Nat
          /\ Len(trace[r]) \in Nat /\ Len(trace[r]) <= Size(r) /\ At(r) = Len(trace[r]) + 1
      BY <2>1, <2>3, JobType, TraceType, RunAssumption DEF InvOf, SequentialInv, Passed, At
    <3>2. Len(trace[r]) # Size(r)
      BY <3>1 DEF SequentialInv
    <3>3. At(r) \in Used(r)
      BY <3>1, <3>2
    <3>4. Troubled(r, At(r))
      BY <3>1, <3>3 DEF SequentialInv, Here, Troubled
    <3> QED BY <3>3, <3>4
  <2> QED BY <2>1, <2>2, <2>3, JobType
<1>2. RunInv => FailsForAReason
  BY <1>1
<1> QED BY <1>2, RunInvariant, PTL

\* No worker of a sequential run is called before the one before it has
\* answered, and none after a failure (OneAtATime).
THEOREM OneAtATimeCorrect == Spec => []OneAtATime
<1>1. ASSUME RunInv PROVE OneAtATime
  <2> SUFFICES ASSUME NEW r \in Runs, job[r] # NoJob, job[r].mode = "sequential"
               PROVE  /\ \A i \in Used(r) : call[r][i] # "none" =>
                           \A j \in 1 .. i - 1 : call[r][j] = "closed" /\ j \in executed[r]
                      /\ Len(trace[r]) <= Size(r)
    BY DEF OneAtATime
  <2>1. /\ SequentialInv(r) /\ Used(r) = 1 .. Size(r) /\ Size(r) \in Nat
        /\ Used(r) \subseteq Places
        /\ Len(trace[r]) \in Nat /\ Len(trace[r]) <= Size(r) /\ At(r) = Len(trace[r]) + 1
    BY <1>1, JobType, TraceType, RunAssumption DEF RunInv, InvOf, SequentialInv, Passed, At
  <2>2. ASSUME NEW i \in Used(r), call[r][i] # "none", NEW j \in 1 .. i - 1
        PROVE  call[r][j] = "closed" /\ j \in executed[r]
    <3>1. ~(i > At(r)) /\ i \in Nat
      BY <2>1, <2>2 DEF SequentialInv, Ahead
    <3>2. j \in 1 .. Len(trace[r])
      BY <2>1, <3>1
    <3> QED BY <2>1, <3>2 DEF SequentialInv, Passed
  <2> QED BY <2>1, <2>2
<1>2. RunInv => OneAtATime
  BY <1>1
<1> QED BY <1>2, RunInvariant, PTL
==============================================================================
