------------------------ MODULE SatelliteLeasingProps ------------------------
(***************************************************************************)
(* What the leasing of pipelines is meant to achieve.                      *)
(***************************************************************************)
EXTENDS SatelliteLeasing

\* A claim on d: a pipeline lists d, a lease of d has succeeded and its answer
\* is on the way, or a release of d has yet to run.
PipelineClaims(d) == {p \in Pipelines : d \in got[p]}

CallClaims(d) ==
  {p \in Pipelines :
     /\ Awaiting(p)
     /\ call[p].dev = d
     /\ \/ call[p].op = "lease" /\ call[p].st = "ok"
        \/ call[p].op = "release" /\ call[p].st = "sent"}

OrphanClaims(d) == {o \in orphans : o.op = "release" /\ o.dev = d}

Claimed(d) == PipelineClaims(d) # {} \/ CallClaims(d) # {} \/ OrphanClaims(d) # {}

\* No two pipelines hold the same node, whatever calls time out, get lost or
\* run late and however often the satellite restarts, but for a node that other
\* clients of the gateway release.  Pipelines being rolled back count.
DisjointPipelines ==
  \A p, q \in Pipelines : p # q => got[p] \cap got[q] \subseteq DirectNodes

\* A node a pipeline believes it holds is leased on the chain, in the gateway's
\* name: no late or repeated release takes it away, unless it comes from another
\* client of the gateway.
HeldOnChain ==
  \A p \in Pipelines : \A d \in got[p] \ DirectNodes : holder[d] = Gateway

\* A node the chain shows as leased by the gateway is accounted for by some
\* handler, or by another client: with no fault, no lease is ever leaked.
NoLeak ==
  \A d \in Devices \ DirectNodes : holder[d] = Gateway => Claimed(d)

\* Once every request is answered and no pipeline is left, every node is free:
\* the rollback of a failed request releases all it had taken
\* (satellite/README.md, "HTTP 400 con rollback"; PROGRESS.md:435).
Quiet ==
  /\ \A p \in Pipelines : pc[p] \in {"idle", "failed", "released"}
  /\ orphans = {}

RollbackIsComplete ==
  Quiet => \A d \in Devices \ DirectNodes : holder[d] # Gateway

\* Some request gets its nodes when all want no more than the valid nodes
\* there are: "La richiesta fallisce (HTTP 400 con rollback) solo se i nodi
\* validi disponibili sono inferiori al conteggio richiesto".  Stated for
\* requests none of which was granted anything: all the nodes are available.
FailsOnlyWhenShort ==
  (\A p \in Pipelines : pc[p] = "failed") =>
    \E p \in Pipelines : want[p] > Cardinality(approved)

\* Every request is eventually answered, granted or failed, and every release
\* ends: a pipeline is asked for, and released, once.  With NoLeak it follows that
\* without faults every node comes back: in the end only the nodes of granted
\* pipelines are leased.
RequestsAreAnswered ==
  <>[](\A p \in Pipelines : pc[p] \notin {"listing", "leasing", "rollback", "releasing"})
=============================================================================
