------------------------------- MODULE MCBoards -------------------------------
(***************************************************************************)
(* TLC instance of what the satellite asks of the boards: one run checks   *)
(* the runs of pipelines and the client that makes their calls, each by    *)
(* itself.  The variables of the other one stay as they are.               *)
(***************************************************************************)
EXTENDS PipelineRun, IotronicClient

VARIABLE checked

CONSTANTS n1, n2, n3, n4

\* The boards with a worker, all but n4, are alike to a run: of the lists that
\* differ in nothing else one is enough.
Lists == {<<>>, <<n1>>, <<n4>>, <<n1, n2>>, <<n1, n4>>, <<n4, n1>>,
          <<n1, n2, n3>>, <<n1, n2, n4>>, <<n1, n4, n2>>, <<n4, n1, n2>>}

\* 32-bit integers are scaled down to -4 .. 3: a sequential run from 2 wraps
\* round on its second node, 4 is the first value that is none.
Edges == {2, 4}

\* Shared by three nodes, a batch of 2 has a rest and leaves a chunk empty.
Batches == {2}

MCVars == <<vars, clientVars, checked>>

MCInit == Init /\ ClientInit /\ checked \in {"runs", "calls"}

OfRuns(action) == checked = "runs" /\ action /\ UNCHANGED <<clientVars, checked>>
OfCalls(action) == checked = "calls" /\ action /\ UNCHANGED <<vars, checked>>

MCNext ==
  \/ OfRuns(Next) /\ \A p \in Pipelines : pipelines'[p] \in Lists
  \/ OfCalls(ClientNext)

\* The fairness of both specifications.
MCSpec ==
  /\ MCInit /\ [][MCNext]_MCVars
  /\ \A r \in Runs, i \in Places : WF_MCVars(OfRuns(CallStep(r, i)))
  /\ \A c \in Calls : SF_MCVars(OfCalls(Step(c)))
=============================================================================
