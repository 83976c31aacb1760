-------------------------- MODULE SatelliteLeasing --------------------------
(***************************************************************************)
(* Leasing of nodes for pipelines: satellite/app/node_registry.py and its  *)
(* gateway_leasing_client.py, the gateway's /leasing routes and, below     *)
(* them, the lease board of the contracts (module NodeLease).              *)
(*                                                                         *)
(* The satellite's handlers run on one asyncio loop and interleave at      *)
(* every await: each HTTP call to the gateway is an action that sends it,  *)
(* one where the gateway runs it and one where the handler resumes.  The   *)
(* gateway's handlers call web3 synchronously inside `async def`, so a     *)
(* call, once started, runs to its receipt with nothing in between: one    *)
(* action.  A call whose 10 s timeout expires is not taken back: the       *)
(* gateway may still run it later (`orphans`).                             *)
(*                                                                         *)
(* A pipeline is known by the request that creates it; a request to        *)
(* release an unknown pipeline is answered 404 and changes nothing.        *)
(***************************************************************************)
EXTENDS NodeLease, Integers, FiniteSets

CONSTANTS
  Pipelines,      \* the POST /pipeline/lease requests ever made
  Gateway,        \* the gateway's account, in whose name every lease is taken
  MaxCount,       \* bound of the model: largest node count requested
  OnlineSets,     \* the answers IoTronic may give to a listing of online boards
  CallsMayFail,   \* may HTTP calls time out or get lost?
  MayRestart,     \* may the satellite process die and start again?
  DirectNodes,    \* nodes that other clients of the gateway lease and release, too
  TrustMoves      \* do approvals come and go while the satellite runs?

ASSUME SatelliteAssumption ==
  /\ Gateway \in Accounts
  /\ MaxCount \in Nat
  /\ OnlineSets \subseteq SUBSET Devices
  /\ DirectNodes \subseteq Devices
  /\ {CallsMayFail, MayRestart, TrustMoves} \subseteq BOOLEAN

VARIABLES
  pc,       \* where the handler of each pipeline is
  want,     \* the node count requested
  cands,    \* online candidates not tried yet
  got,      \* `allocated`: nodes this pipeline believes it holds
  call,     \* the gateway call the handler awaits
  orphans   \* calls the satellite gave up on, which the gateway may still run

satVars == <<pc, want, cands, got, call, orphans>>
vars == <<approved, holder, pc, want, cands, got, call, orphans>>

Phases == {"idle", "listing", "leasing", "rollback", "failed",
           "active", "releasing", "released", "lost"}
NoCall == [op |-> "none"]
Ops == {"lease", "release"}
Calls == {NoCall} \cup
         [op : Ops, dev : Devices, st : {"sent", "ok", "refused"}]
Orphans == [op : Ops, dev : Devices, by : Pipelines]

TypeOK ==
  /\ LeaseTypeOK
  /\ pc \in [Pipelines -> Phases]
  /\ want \in [Pipelines -> 0 .. MaxCount]
  /\ cands \in [Pipelines -> SUBSET Devices]
  /\ got \in [Pipelines -> SUBSET Devices]
  /\ call \in [Pipelines -> Calls]
  /\ orphans \in SUBSET Orphans

\* The satellite starts with no pipeline, on a chain where any devices may
\* already be approved.
Init ==
  /\ approved \in SUBSET Devices
  /\ holder = [d \in Devices |-> Nobody]
  /\ pc = [p \in Pipelines |-> "idle"]
  /\ want = [p \in Pipelines |-> 0]
  /\ cands = [p \in Pipelines |-> {}]
  /\ got = [p \in Pipelines |-> {}]
  /\ call = [p \in Pipelines |-> NoCall]
  /\ orphans = {}

Goto(p, from, to) ==
  /\ pc[p] = from
  /\ pc' = [pc EXCEPT ![p] = to]

-----------------------------------------------------------------------------
(***************************************************************************)
(* POST /pipeline/lease: NodeRegistry.lease_nodes.                         *)
(***************************************************************************)
RequestLease(p, n) ==
  /\ Goto(p, "idle", "listing")
  /\ want' = [want EXCEPT ![p] = n]
  /\ UNCHANGED <<approved, holder, cands, got, call, orphans>>

\* list_online_boards answers, or raises and the request fails.
ListBoards(p) ==
  /\ \/ \E online \in OnlineSets :
          /\ want[p] <= Cardinality(online)
          /\ Goto(p, "listing", "leasing")
          /\ cands' = [cands EXCEPT ![p] = online]
     \/ /\ CallsMayFail \/ \E online \in OnlineSets : want[p] > Cardinality(online)
        /\ Goto(p, "listing", "failed")
        /\ UNCHANGED cands
  /\ UNCHANGED <<approved, holder, want, got, call, orphans>>

Send(p, op, d) == call' = [call EXCEPT ![p] = [op |-> op, dev |-> d, st |-> "sent"]]

Awaiting(p) == call[p] # NoCall

\* Try the next candidate; IoTronic lists the boards in no particular order.
TryLease(p) ==
  /\ pc[p] = "leasing" /\ ~Awaiting(p)
  /\ Cardinality(got[p]) < want[p]
  /\ \E d \in cands[p] :
       /\ Send(p, "lease", d)
       /\ cands' = [cands EXCEPT ![p] = @ \ {d}]
  /\ UNCHANGED <<approved, holder, pc, want, got, orphans>>

\* Enough nodes: the pipeline is registered and its id returned.
Register(p) ==
  /\ ~Awaiting(p)
  /\ Cardinality(got[p]) = want[p]
  /\ Goto(p, "leasing", "active")
  /\ UNCHANGED <<approved, holder, want, cands, got, call, orphans>>

\* Faulty variants: the rollback is forgotten, or an empty one hangs.
FailWithoutRollback(p) ==
  /\ ~Awaiting(p)
  /\ Cardinality(got[p]) < want[p] /\ cands[p] = {}
  /\ Goto(p, "leasing", "failed")
  /\ got' = [got EXCEPT ![p] = {}]
  /\ UNCHANGED <<approved, holder, want, cands, call, orphans>>

RollbackWhenSome(p) ==
  /\ ~Awaiting(p)
  /\ Cardinality(got[p]) < want[p] /\ cands[p] = {} /\ got[p] # {}
  /\ Goto(p, "leasing", "rollback")
  /\ UNCHANGED <<approved, holder, want, cands, got, call, orphans>>

\* Candidates exhausted: give back what was taken, then answer 400.
StartRollback(p) ==
  /\ ~Awaiting(p)
  /\ Cardinality(got[p]) < want[p] /\ cands[p] = {}
  /\ Goto(p, "leasing", "rollback")
  /\ UNCHANGED <<approved, holder, want, cands, got, call, orphans>>

(***************************************************************************)
(* POST /pipeline/{id}/release: NodeRegistry.release_nodes.  The pop under *)
(* the lock makes the release of a pipeline start at most once.            *)
(***************************************************************************)
RequestRelease(p) ==
  /\ Goto(p, "active", "releasing")
  /\ UNCHANGED <<approved, holder, want, cands, got, call, orphans>>

\* Faulty variant: the node stays listed while it is given back.
GiveBackListed(p) ==
  /\ pc[p] \in {"rollback", "releasing"} /\ ~Awaiting(p)
  /\ \E d \in got[p] : Send(p, "release", d)
  /\ UNCHANGED <<approved, holder, pc, want, cands, got, orphans>>

\* Rollback and release give the nodes back one by one...
GiveBack(p) ==
  /\ pc[p] \in {"rollback", "releasing"} /\ ~Awaiting(p)
  /\ \E d \in got[p] :
       /\ Send(p, "release", d)
       /\ got' = [got EXCEPT ![p] = @ \ {d}]
  /\ UNCHANGED <<approved, holder, pc, want, cands, orphans>>

\* ...and answer when the last call has returned, whatever it returned.
GaveBack(p) ==
  /\ ~Awaiting(p) /\ got[p] = {}
  /\ Goto(p, "rollback", "failed") \/ Goto(p, "releasing", "released")
  /\ UNCHANGED <<approved, holder, want, cands, got, call, orphans>>

-----------------------------------------------------------------------------
(***************************************************************************)
(* The gateway.  It signs every transaction with its one account; the      *)
(* contract decides; a revert is answered with an error status.            *)
(***************************************************************************)
\* True and the board changes, or False and it does not.
Transact(op, d, success) ==
  IF success
  THEN (op = "lease" /\ Lease(Gateway, d)) \/ (op = "release" /\ Release(Gateway, d))
  ELSE /\ op = "lease" => ~Leasable(d)
       /\ op = "release" => holder[d] # Gateway
       /\ UNCHANGED leaseVars

GatewayServes(p) ==
  /\ Awaiting(p) /\ call[p].st = "sent"
  /\ \E success \in BOOLEAN :
       /\ Transact(call[p].op, call[p].dev, success)
       /\ call' = [call EXCEPT ![p].st = IF success THEN "ok" ELSE "refused"]
  /\ UNCHANGED <<pc, want, cands, got, orphans>>

GatewayServesOrphan(o) ==
  /\ \E success \in BOOLEAN : Transact(o.op, o.dev, success)
  /\ orphans' = orphans \ {o}
  /\ UNCHANGED <<pc, want, cands, got, call>>

\* Faulty variant: every answer is taken for a success.
ResumeAnyway(p, success) ==
  /\ call' = [call EXCEPT ![p] = NoCall]
  /\ got' = IF call[p].op = "lease"
            THEN [got EXCEPT ![p] = @ \cup {call[p].dev}] ELSE got

\* The handler resumes with True only for an answer 200.  The result of a
\* release is ignored.
Resume(p, success) ==
  /\ call' = [call EXCEPT ![p] = NoCall]
  /\ got' = IF success /\ call[p].op = "lease"
            THEN [got EXCEPT ![p] = @ \cup {call[p].dev}] ELSE got

Answer(p) ==
  /\ Awaiting(p) /\ call[p].st # "sent"
  /\ Resume(p, call[p].st = "ok")
  /\ UNCHANGED <<approved, holder, pc, want, cands, orphans>>

\* What becomes of the calls of P that nobody waits for any more: each one the
\* gateway has not run yet is still in its queue, or never got there.
Abandon(P) ==
  LET left == {[op |-> call[p].op, dev |-> call[p].dev, by |-> p] :
                 p \in {q \in P : Awaiting(q) /\ call[q].st = "sent"}}
  IN  \E queued \in SUBSET left : orphans' = orphans \cup queued

\* The call times out, fails, or its answer is lost: an exception, so False.
CallFails(p) ==
  /\ CallsMayFail /\ Awaiting(p)
  /\ Abandon({p})
  /\ Resume(p, FALSE)
  /\ UNCHANGED <<approved, holder, pc, want, cands>>

-----------------------------------------------------------------------------
(***************************************************************************)
(* The world around.                                                       *)
(***************************************************************************)
Handled == {"idle", "failed", "released", "lost"}

\* `pipelines` and the handlers live in memory only.
Restart ==
  /\ MayRestart
  /\ \E p \in Pipelines : pc[p] \notin Handled
  /\ pc' = [p \in Pipelines |-> IF pc[p] \in Handled THEN pc[p] ELSE "lost"]
  /\ cands' = [p \in Pipelines |-> {}]
  /\ got' = [p \in Pipelines |-> {}]
  /\ call' = [p \in Pipelines |-> NoCall]
  /\ Abandon(Pipelines)
  /\ UNCHANGED <<approved, holder, want>>

\* Somebody else calls the gateway, as satellite/scripts/run_e2e.sh does.
DirectCall(d) ==
  /\ d \in DirectNodes
  /\ Lease(Gateway, d) \/ Release(Gateway, d)
  /\ UNCHANGED satVars

\* Another account uses the contract; trust changes on the chain.
OthersLease(a, d) ==
  /\ Lease(a, d) \/ Release(a, d)
  /\ UNCHANGED satVars

ChainTrust(d) == TrustMoves /\ TrustChange(d) /\ UNCHANGED satVars

-----------------------------------------------------------------------------
Handler(p) ==
  \/ ListBoards(p) \/ TryLease(p) \/ Register(p) \/ StartRollback(p)
  \/ GiveBack(p) \/ GaveBack(p)
  \/ GatewayServes(p) \/ Answer(p)

Environment ==
  \/ \E p \in Pipelines :
       \/ \E n \in 1 .. MaxCount : RequestLease(p, n)
       \/ RequestRelease(p)
       \/ CallFails(p)
  \/ \E o \in orphans : GatewayServesOrphan(o)
  \/ Restart
  \/ \E d \in Devices :
       \/ DirectCall(d)
       \/ \E a \in Accounts \ {Gateway} : OthersLease(a, d)
       \/ ChainTrust(d)

Next == (\E p \in Pipelines : Handler(p)) \/ Environment

Spec == Init /\ [][Next]_vars

\* A live event loop resumes every handler whose await is done, and an await of
\* a gateway call is done at the latest when the 10 s timeout expires: the
\* gateway answers or the call fails.  Clients, trust, restarts and the calls
\* nobody waits for owe nothing.
FairSpec == Spec /\ \A p \in Pipelines : WF_vars(Handler(p) \/ CallFails(p))
=============================================================================
