----------------------- MODULE SatelliteLeasing_proofs -----------------------
(***************************************************************************)
(* Proofs that pipelines never share a node, whatever calls are lost, late *)
(* or abandoned, and that without faults no lease is leaked: for any       *)
(* devices, pipelines and counts.                                          *)
(***************************************************************************)
EXTENDS MCSatelliteLeasing, TLAPS

USE LeaseAssumption, SatelliteAssumption

(***************************************************************************)
(* The three ways pipeline p can have a claim on node d: it lists it; a    *)
(* lease of it succeeded, or its release has yet to run, in the call it    *)
(* awaits; its release has yet to run in a call it gave up on.             *)
(***************************************************************************)
Lists(p, d) == d \in got[p]

CallClaim(p, d) ==
  \/ call[p] = [op |-> "lease", dev |-> d, st |-> "ok"]
  \/ call[p] = [op |-> "release", dev |-> d, st |-> "sent"]

OrphanClaim(p, d) == [op |-> "release", dev |-> d, by |-> p] \in orphans

Claims(p, d) == Lists(p, d) \/ CallClaim(p, d) \/ OrphanClaim(p, d)

\* The nodes that only the satellite leases through the gateway.
Guarded == Devices \ DirectNodes

\* A claim is good on the chain.
ClaimsAreHeld ==
  \A p \in Pipelines, d \in Guarded : Claims(p, d) => holder[d] = Gateway

\* A node is claimed by one pipeline...
ClaimsAreDisjoint ==
  \A p, q \in Pipelines, d \in Guarded : Claims(p, d) /\ Claims(q, d) => p = q

\* ...and in one way: it is never both listed and being released.
ClaimsAreSingle ==
  \A p \in Pipelines, d \in Guarded :
    /\ ~(Lists(p, d) /\ CallClaim(p, d))
    /\ ~(Lists(p, d) /\ OrphanClaim(p, d))
    /\ ~(CallClaim(p, d) /\ OrphanClaim(p, d))

ClaimInv == TypeOK /\ ClaimsAreHeld /\ ClaimsAreDisjoint /\ ClaimsAreSingle

LEMMA GatewayIsSomebody == Gateway # Nobody
  OBVIOUS

LEMMA NoCallIsNoClaim ==
  ASSUME NEW p \in Pipelines, NEW d \in Devices, call[p] = NoCall
  PROVE  ~CallClaim(p, d)
  <1>1. ~("op" \in DOMAIN NoCall /\ NoCall.op \in Ops)
    BY DEF NoCall, Ops
  <1> QED  BY <1>1 DEF CallClaim, NoCall, Ops

-----------------------------------------------------------------------------
(***************************************************************************)
(* Type correctness.                                                       *)
(***************************************************************************)
LEMMA TypeInit == Init => TypeOK
  BY DEF Init, TypeOK, LeaseTypeOK, Phases, Calls, Orphans

LEMMA AbandonType ==
  ASSUME TypeOK, NEW P \in SUBSET Pipelines, Abandon(P)
  PROVE  /\ orphans' \in SUBSET Orphans
         /\ orphans \subseteq orphans'
         /\ \A o \in orphans' \ orphans :
              /\ o.by \in P
              /\ call[o.by] = [op |-> o.op, dev |-> o.dev, st |-> "sent"]
  <1> DEFINE left == {[op |-> call[p].op, dev |-> call[p].dev, by |-> p] :
                        p \in {q \in P : Awaiting(q) /\ call[q].st = "sent"}}
  <1>1. PICK queued \in SUBSET left : orphans' = orphans \cup queued
    BY DEF Abandon
  <1>2. ASSUME NEW p \in P, Awaiting(p), call[p].st = "sent"
        PROVE  /\ call[p] \in [op : Ops, dev : Devices, st : {"sent", "ok", "refused"}]
               /\ call[p] = [op |-> call[p].op, dev |-> call[p].dev, st |-> "sent"]
    <2>1. call[p] \in [op : Ops, dev : Devices, st : {"sent", "ok", "refused"}]
      BY <1>2 DEF TypeOK, Calls, Awaiting
    <2> QED  BY <1>2, <2>1
  <1>3. \A o \in left : /\ o \in Orphans
                        /\ o.by \in P
                        /\ call[o.by] = [op |-> o.op, dev |-> o.dev, st |-> "sent"]
    BY <1>2 DEF Orphans
  <1>4. orphans \in SUBSET Orphans
    BY DEF TypeOK
  <1> HIDE DEF left
  <1> QED  BY <1>1, <1>3, <1>4

LEMMA ResumeType ==
  ASSUME TypeOK, NEW p \in Pipelines, NEW success \in BOOLEAN, Awaiting(p), Resume(p, success)
  PROVE  /\ call' \in [Pipelines -> Calls]
         /\ got' \in [Pipelines -> SUBSET Devices]
  <1>1. call[p].dev \in Devices
    BY DEF TypeOK, Calls, Awaiting
  <1>2. NoCall \in Calls
    BY DEF Calls
  <1>3. call' \in [Pipelines -> Calls]
    BY <1>2 DEF Resume, TypeOK
  <1>4. got' \in [Pipelines -> SUBSET Devices]
    BY <1>1 DEF Resume, TypeOK
  <1> QED  BY <1>3, <1>4

LEMMA TransactType ==
  ASSUME TypeOK, NEW op, NEW d \in Devices, NEW success \in BOOLEAN, Transact(op, d, success)
  PROVE  LeaseTypeOK'
  BY DEF TypeOK, LeaseTypeOK, Transact, Lease, Release, leaseVars

LEMMA TypeNext == TypeOK /\ [Next]_vars => TypeOK'
  <1> SUFFICES ASSUME TypeOK, [Next]_vars PROVE TypeOK'
    OBVIOUS
  <1>1. CASE UNCHANGED vars
    BY <1>1 DEF vars, TypeOK, LeaseTypeOK
  <1>2. ASSUME NEW p \in Pipelines, Handler(p) PROVE TypeOK'
    <2>1. CASE ListBoards(p)
      BY <2>1 DEF ListBoards, Goto, TypeOK, LeaseTypeOK, Phases
    <2>2. CASE TryLease(p)
      BY <2>2 DEF TryLease, Send, TypeOK, LeaseTypeOK, Calls, Ops
    <2>3. CASE Register(p)
      BY <2>3 DEF Register, Goto, TypeOK, LeaseTypeOK, Phases
    <2>4. CASE StartRollback(p)
      BY <2>4 DEF StartRollback, Goto, TypeOK, LeaseTypeOK, Phases
    <2>5. CASE GiveBack(p)
      BY <2>5 DEF GiveBack, Send, TypeOK, LeaseTypeOK, Calls, Ops
    <2>6. CASE GaveBack(p)
      BY <2>6 DEF GaveBack, Goto, TypeOK, LeaseTypeOK, Phases
    <2>7. CASE GatewayServes(p)
      <3>1. call[p] \in [op : Ops, dev : Devices, st : {"sent", "ok", "refused"}]
        BY <2>7 DEF GatewayServes, Awaiting, TypeOK, Calls
      <3>2. PICK success \in BOOLEAN :
              /\ Transact(call[p].op, call[p].dev, success)
              /\ call' = [call EXCEPT ![p].st = IF success THEN "ok" ELSE "refused"]
        BY <2>7 DEF GatewayServes
      <3>3. LeaseTypeOK'
        BY <3>1, <3>2, TransactType
      <3>4. call' \in [Pipelines -> Calls]
        BY <3>1, <3>2 DEF TypeOK, Calls
      <3> QED  BY <2>7, <3>3, <3>4 DEF GatewayServes, TypeOK
    <2>8. CASE Answer(p)
      <3>1. (call[p].st = "ok") \in BOOLEAN
        OBVIOUS
      <3> QED  BY <2>8, <3>1, ResumeType DEF Answer, TypeOK, LeaseTypeOK
    <2> QED  BY <1>2, <2>1, <2>2, <2>3, <2>4, <2>5, <2>6, <2>7, <2>8 DEF Handler
  <1>3. ASSUME NEW p \in Pipelines, NEW n \in 1 .. MaxCount, RequestLease(p, n)
        PROVE  TypeOK'
    BY <1>3 DEF RequestLease, Goto, TypeOK, LeaseTypeOK, Phases
  <1>4. ASSUME NEW p \in Pipelines, RequestRelease(p) PROVE TypeOK'
    BY <1>4 DEF RequestRelease, Goto, TypeOK, LeaseTypeOK, Phases
  <1>5. ASSUME NEW p \in Pipelines, CallFails(p) PROVE TypeOK'
    <2>1. orphans' \in SUBSET Orphans
      BY <1>5, AbandonType DEF CallFails
    <2> QED  BY <1>5, <2>1, ResumeType DEF CallFails, TypeOK, LeaseTypeOK
  <1>6. ASSUME NEW o \in orphans, GatewayServesOrphan(o) PROVE TypeOK'
    <2>1. o.dev \in Devices
      BY DEF TypeOK, Orphans
    <2>2. LeaseTypeOK'
      BY <1>6, <2>1, TransactType DEF GatewayServesOrphan
    <2> QED  BY <1>6, <2>2 DEF GatewayServesOrphan, TypeOK
  <1>7. CASE Restart
    <2>1. orphans' \in SUBSET Orphans
      BY <1>7, AbandonType DEF Restart
    <2> QED  BY <1>7, <2>1 DEF Restart, TypeOK, LeaseTypeOK, Phases, Calls
  <1>8. ASSUME NEW d \in Devices, DirectCall(d) PROVE TypeOK'
    BY <1>8 DEF DirectCall, Lease, Release, satVars, TypeOK, LeaseTypeOK
  <1>9. ASSUME NEW d \in Devices, NEW a \in Accounts \ {Gateway}, OthersLease(a, d)
        PROVE  TypeOK'
    BY <1>9 DEF OthersLease, Lease, Release, satVars, TypeOK, LeaseTypeOK
  <1>10. ASSUME NEW d \in Devices, ChainTrust(d) PROVE TypeOK'
    BY <1>10 DEF ChainTrust, TrustChange, satVars, TypeOK, LeaseTypeOK
  <1> QED  BY <1>1, <1>2, <1>3, <1>4, <1>5, <1>6, <1>7, <1>8, <1>9, <1>10
           DEF Next, Environment

\* The variables of the satellite, the gateway and the board have their types
\* in every reachable state.
THEOREM SatelliteTypeCorrect == Spec => []TypeOK
  BY TypeInit, TypeNext, PTL DEF Spec

-----------------------------------------------------------------------------
(***************************************************************************)
(* The claims.  A step keeps the invariant when every claim after it is    *)
(* derived from a claim of the same pipeline on the same node before it.   *)
(***************************************************************************)
LEMMA DerivedClaims ==
  ASSUME ClaimInv, TypeOK',
         \A p \in Pipelines, d \in Guarded : Claims(p, d)' => Claims(p, d),
         \A p \in Pipelines, d \in Guarded : Claims(p, d)' => holder'[d] = holder[d],
         ClaimsAreSingle'
  PROVE  ClaimInv'
  <1>1. ClaimsAreHeld'
    BY DEF ClaimInv, ClaimsAreHeld
  <1>2. ClaimsAreDisjoint'
    BY DEF ClaimInv, ClaimsAreDisjoint
  <1> QED  BY <1>1, <1>2 DEF ClaimInv

\* A step that touches neither claims nor the board.
LEMMA QuietStep ==
  ASSUME ClaimInv, TypeOK', UNCHANGED <<holder, got, call, orphans>>
  PROVE  ClaimInv'
  BY DEF ClaimInv, ClaimsAreHeld, ClaimsAreDisjoint, ClaimsAreSingle,
         Claims, Lists, CallClaim, OrphanClaim

\* A step that changes the holder of unclaimed nodes only.
LEMMA UnclaimedStep ==
  ASSUME ClaimInv, TypeOK', UNCHANGED <<got, call, orphans>>, NEW d \in Devices,
         d \in Guarded => \A p \in Pipelines : ~Claims(p, d),
         \A e \in Guarded : e # d => holder'[e] = holder[e]
  PROVE  ClaimInv'
  <1>1. \A p \in Pipelines, e \in Guarded :
          /\ Lists(p, e)' <=> Lists(p, e)
          /\ CallClaim(p, e)' <=> CallClaim(p, e)
          /\ OrphanClaim(p, e)' <=> OrphanClaim(p, e)
    BY DEF Lists, CallClaim, OrphanClaim
  <1>2. \A p \in Pipelines, e \in Guarded : Claims(p, e)' => Claims(p, e)
    BY <1>1 DEF Claims
  <1>3. ClaimsAreSingle'
    BY <1>1 DEF ClaimInv, ClaimsAreSingle
  <1>4. \A p \in Pipelines, e \in Guarded : Claims(p, e)' => holder'[e] = holder[e]
    BY <1>2
  <1> QED  BY <1>2, <1>3, <1>4, DerivedClaims

\* On a node nobody holds, or that another account holds, there is no claim.
LEMMA NoClaimUnlessHeld ==
  ASSUME ClaimInv, NEW d \in Guarded, holder[d] # Gateway
  PROVE  \A p \in Pipelines : ~Claims(p, d)
  BY DEF ClaimInv, ClaimsAreHeld

-----------------------------------------------------------------------------
\* Trying a candidate: a call that was no claim is still none.
LEMMA TryLeaseClaims ==
  ASSUME ClaimInv, TypeOK', NEW p \in Pipelines, TryLease(p)
  PROVE  ClaimInv'
  <1>1. PICK d \in Devices : call' = [call EXCEPT ![p] = [op |-> "lease", dev |-> d, st |-> "sent"]]
    BY DEF TryLease, Send, ClaimInv, TypeOK
  <1>2. call \in [Pipelines -> Calls]
    BY DEF ClaimInv, TypeOK
  <1>3. \A q \in Pipelines, e \in Guarded :
          /\ Lists(q, e)' <=> Lists(q, e)
          /\ CallClaim(q, e)' => CallClaim(q, e)
          /\ OrphanClaim(q, e)' <=> OrphanClaim(q, e)
    <2> TAKE q \in Pipelines, e \in Guarded
    <2>1. UNCHANGED <<got, orphans>>
      BY DEF TryLease
    <2>2. CallClaim(q, e)' => CallClaim(q, e)
      <3>1. CASE q = p
        BY <1>1, <1>2, <3>1 DEF CallClaim
      <3>2. CASE q # p
        BY <1>1, <1>2, <3>2 DEF CallClaim
      <3> QED  BY <3>1, <3>2
    <2> QED  BY <2>1, <2>2 DEF Lists, OrphanClaim
  <1>4. \A q \in Pipelines, e \in Guarded : Claims(q, e)' => Claims(q, e)
    BY <1>3 DEF Claims
  <1>5. ClaimsAreSingle'
    BY <1>3 DEF ClaimInv, ClaimsAreSingle
  <1>6. UNCHANGED holder
    BY DEF TryLease
  <1> QED  BY <1>4, <1>5, <1>6, DerivedClaims

\* Giving a node back: the claim moves from the list into the call.
LEMMA GiveBackClaims ==
  ASSUME ClaimInv, TypeOK', NEW p \in Pipelines, GiveBack(p)
  PROVE  ClaimInv'
  <1>1. PICK d \in got[p] :
          /\ call' = [call EXCEPT ![p] = [op |-> "release", dev |-> d, st |-> "sent"]]
          /\ got' = [got EXCEPT ![p] = @ \ {d}]
    BY DEF GiveBack, Send
  <1>2. call \in [Pipelines -> Calls] /\ got \in [Pipelines -> SUBSET Devices] /\ d \in Devices
    BY DEF ClaimInv, TypeOK
  <1>3. UNCHANGED <<holder, orphans>>
    BY DEF GiveBack
  <1>4. \A q \in Pipelines, e \in Guarded :
          /\ Lists(q, e)' <=> Lists(q, e) /\ ~(q = p /\ e = d)
          /\ OrphanClaim(q, e)' <=> OrphanClaim(q, e)
    BY <1>1, <1>2, <1>3 DEF Lists, OrphanClaim
  <1>5. \A q \in Pipelines, e \in Guarded :
          CallClaim(q, e)' => IF q = p THEN e = d ELSE CallClaim(q, e)
    <2> TAKE q \in Pipelines, e \in Guarded
    <2>1. CASE q = p
      BY <1>1, <1>2, <2>1 DEF CallClaim
    <2>2. CASE q # p
      BY <1>1, <1>2, <2>2 DEF CallClaim
    <2> QED  BY <2>1, <2>2
  <1>6. Lists(p, d)
    BY DEF Lists
  <1>7. \A q \in Pipelines, e \in Guarded : Claims(q, e)' => Claims(q, e)
    BY <1>4, <1>5, <1>6 DEF Claims
  <1>8. ClaimsAreSingle'
    BY <1>4, <1>5, <1>6 DEF ClaimInv, ClaimsAreSingle
  <1> QED  BY <1>3, <1>7, <1>8, DerivedClaims

\* Resuming: the claim of a granted lease moves from the call into the list,
\* or is dropped when the answer was lost.
LEMMA AnswerClaims ==
  ASSUME ClaimInv, TypeOK', NEW p \in Pipelines, Answer(p)
  PROVE  ClaimInv'
  <1>1. call \in [Pipelines -> Calls] /\ got \in [Pipelines -> SUBSET Devices]
    BY DEF ClaimInv, TypeOK
  <1>2. call' = [call EXCEPT ![p] = NoCall] /\ UNCHANGED <<holder, orphans>>
    BY DEF Answer, Resume
  <1>3. call[p] \in [op : Ops, dev : Devices, st : {"sent", "ok", "refused"}]
    BY <1>1 DEF Answer, Awaiting, Calls
  <1>4. \A q \in Pipelines, e \in Guarded :
          CallClaim(q, e)' => q # p /\ CallClaim(q, e)
    <2> TAKE q \in Pipelines, e \in Guarded
    <2>1. CASE q = p
      BY <1>1, <1>2, <2>1 DEF CallClaim, NoCall
    <2>2. CASE q # p
      BY <1>1, <1>2, <2>2 DEF CallClaim
    <2> QED  BY <2>1, <2>2
  <1>5. \A q \in Pipelines, e \in Guarded :
          Lists(q, e)' => Lists(q, e) \/ (q = p /\ CallClaim(q, e))
    <2> TAKE q \in Pipelines, e \in Guarded
    <2>1. CASE got' = got
      BY <2>1 DEF Lists
    <2>2. CASE /\ call[p].st = "ok" /\ call[p].op = "lease"
               /\ got' = [got EXCEPT ![p] = @ \cup {call[p].dev}]
      <3>1. call[p] = [op |-> "lease", dev |-> call[p].dev, st |-> "ok"]
        BY <1>3, <2>2
      <3> QED  BY <1>1, <2>2, <3>1 DEF Lists, CallClaim
    <2> QED  BY <2>1, <2>2 DEF Answer, Resume
  <1>6. \A q \in Pipelines, e \in Guarded : OrphanClaim(q, e)' <=> OrphanClaim(q, e)
    BY <1>2 DEF OrphanClaim
  <1>7. \A q \in Pipelines, e \in Guarded : Claims(q, e)' => Claims(q, e)
    BY <1>4, <1>5, <1>6 DEF Claims
  <1>8. ClaimsAreSingle'
    BY <1>4, <1>5, <1>6 DEF ClaimInv, ClaimsAreSingle
  <1> QED  BY <1>2, <1>7, <1>8, DerivedClaims

\* Abandoned calls: the claim of a release that has not run moves from the
\* call to the orphans.
LEMMA AbandonClaims ==
  ASSUME ClaimInv, NEW P \in SUBSET Pipelines, Abandon(P),
         NEW q \in Pipelines, NEW e \in Guarded, OrphanClaim(q, e)'
  PROVE  OrphanClaim(q, e) \/ (q \in P /\ CallClaim(q, e))
  <1> DEFINE o == [op |-> "release", dev |-> e, by |-> q]
  <1>1. CASE o \in orphans
    BY <1>1 DEF OrphanClaim
  <1>2. CASE o \in orphans' \ orphans
    <2>1. /\ o.by \in P
          /\ call[o.by] = [op |-> o.op, dev |-> o.dev, st |-> "sent"]
      BY <1>2, AbandonType DEF ClaimInv
    <2>2. o.by = q /\ o.op = "release" /\ o.dev = e
      OBVIOUS
    <2> QED  BY <2>1, <2>2 DEF CallClaim
  <1> QED  BY <1>1, <1>2 DEF OrphanClaim

LEMMA CallFailsClaims ==
  ASSUME ClaimInv, TypeOK', NEW p \in Pipelines, CallFails(p)
  PROVE  ClaimInv'
  <1>1. call \in [Pipelines -> Calls]
    BY DEF ClaimInv, TypeOK
  <1>2. /\ call' = [call EXCEPT ![p] = NoCall]
        /\ UNCHANGED <<holder, got>>
        /\ Abandon({p})
    BY DEF CallFails, Resume
  <1>3. \A q \in Pipelines, e \in Guarded :
          CallClaim(q, e)' => q # p /\ CallClaim(q, e)
    <2> TAKE q \in Pipelines, e \in Guarded
    <2>1. CASE q = p
      BY <1>1, <1>2, <2>1 DEF CallClaim, NoCall
    <2>2. CASE q # p
      BY <1>1, <1>2, <2>2 DEF CallClaim
    <2> QED  BY <2>1, <2>2
  <1>4. \A q \in Pipelines, e \in Guarded :
          OrphanClaim(q, e)' => OrphanClaim(q, e) \/ (q = p /\ CallClaim(q, e))
    BY <1>2, AbandonClaims
  <1>5. \A q \in Pipelines, e \in Guarded : Lists(q, e)' <=> Lists(q, e)
    BY <1>2 DEF Lists
  <1>6. \A q \in Pipelines, e \in Guarded : Claims(q, e)' => Claims(q, e)
    BY <1>3, <1>4, <1>5 DEF Claims
  <1>7. ClaimsAreSingle'
    BY <1>3, <1>4, <1>5 DEF ClaimInv, ClaimsAreSingle
  <1> QED  BY <1>2, <1>6, <1>7, DerivedClaims

LEMMA RestartClaims ==
  ASSUME ClaimInv, TypeOK', Restart
  PROVE  ClaimInv'
  <1>1. \A q \in Pipelines : call'[q] = NoCall /\ got'[q] = {}
    BY DEF Restart
  <1>2. \A q \in Pipelines, e \in Guarded : ~Lists(q, e)' /\ ~CallClaim(q, e)'
    BY <1>1 DEF Lists, CallClaim, NoCall
  <1>3. \A q \in Pipelines, e \in Guarded :
          OrphanClaim(q, e)' => OrphanClaim(q, e) \/ CallClaim(q, e)
    BY AbandonClaims DEF Restart
  <1>4. \A q \in Pipelines, e \in Guarded : Claims(q, e)' => Claims(q, e)
    BY <1>2, <1>3 DEF Claims
  <1>5. ClaimsAreSingle'
    BY <1>2 DEF ClaimsAreSingle
  <1>6. UNCHANGED holder
    BY DEF Restart
  <1> QED  BY <1>4, <1>5, <1>6, DerivedClaims

-----------------------------------------------------------------------------
(***************************************************************************)
(* The gateway.  A lease that succeeds creates a claim, on a node nobody   *)
(* claimed; a release that succeeds consumes the only claim on its node.   *)
(***************************************************************************)
LEMMA ServesClaims ==
  ASSUME ClaimInv, TypeOK', NEW p \in Pipelines, GatewayServes(p)
  PROVE  ClaimInv'
  <1> DEFINE d == call[p].dev
  <1>1. call \in [Pipelines -> Calls] /\ holder \in [Devices -> Accounts \cup {Nobody}]
    BY DEF ClaimInv, TypeOK, LeaseTypeOK
  <1>2. /\ call[p] \in [op : Ops, dev : Devices, st : {"sent", "ok", "refused"}]
        /\ call[p].st = "sent"
    BY <1>1 DEF GatewayServes, Awaiting, Calls
  <1>3. d \in Devices
    BY <1>2
  <1>4. UNCHANGED <<got, orphans>>
    BY DEF GatewayServes
  <1>5. \A q \in Pipelines, e \in Guarded :
          /\ Lists(q, e)' <=> Lists(q, e)
          /\ OrphanClaim(q, e)' <=> OrphanClaim(q, e)
    BY <1>4 DEF Lists, OrphanClaim
  <1>6. \A q \in Pipelines, e \in Guarded : q # p => (CallClaim(q, e)' <=> CallClaim(q, e))
    <2> TAKE q \in Pipelines, e \in Guarded
    <2> HAVE q # p
    <2>1. call'[q] = call[q]
      BY <1>1 DEF GatewayServes
    <2> QED  BY <2>1 DEF CallClaim
  <1>7. CASE /\ Transact(call[p].op, d, TRUE)
             /\ call' = [call EXCEPT ![p].st = "ok"]
    <2>1. call'[p] = [op |-> call[p].op, dev |-> d, st |-> "ok"]
      BY <1>1, <1>2, <1>7
    <2>2. CASE call[p].op = "lease" /\ Lease(Gateway, d)
      <3>1. holder[d] = Nobody /\ holder' = [holder EXCEPT ![d] = Gateway]
        BY <2>2 DEF Lease, Leasable
      <3>2. d \in Guarded => \A q \in Pipelines : ~Claims(q, d)
        BY <1>3, <3>1, NoClaimUnlessHeld, GatewayIsSomebody
      <3>3. \A e \in Guarded : CallClaim(p, e)' => e = d
        BY <2>1 DEF CallClaim
      <3>4. \A q \in Pipelines, e \in Guarded :
              Claims(q, e)' => Claims(q, e) \/ (q = p /\ e = d)
        BY <1>5, <1>6, <3>3 DEF Claims
      <3>5. ClaimsAreHeld'
        BY <1>1, <1>3, <3>1, <3>4 DEF ClaimInv, ClaimsAreHeld
      <3>6. ClaimsAreDisjoint'
        BY <3>2, <3>4 DEF ClaimInv, ClaimsAreDisjoint
      <3>7. ClaimsAreSingle'
        BY <1>3, <1>5, <1>6, <3>2, <3>3 DEF ClaimInv, ClaimsAreSingle, Claims
      <3> QED  BY <3>5, <3>6, <3>7 DEF ClaimInv
    <2>3. CASE call[p].op = "release" /\ Release(Gateway, d)
      <3>1. holder' = [holder EXCEPT ![d] = Nobody]
        BY <2>3 DEF Release
      <3>2. CallClaim(p, d)
        BY <1>2, <2>3 DEF CallClaim
      <3>3. \A e \in Guarded : ~CallClaim(p, e)'
        BY <2>1, <2>3 DEF CallClaim
      <3>4. \A q \in Pipelines, e \in Guarded : Claims(q, e)' => Claims(q, e)
        BY <1>5, <1>6, <3>3 DEF Claims
      <3>5. \A q \in Pipelines, e \in Guarded : Claims(q, e)' => e # d
        <4>1. ASSUME NEW q \in Pipelines, NEW e \in Guarded, Claims(q, e)', e = d
              PROVE  FALSE
          <5>1. Claims(q, d) /\ Claims(p, d)
            BY <3>2, <3>4, <4>1 DEF Claims
          <5>2. q = p
            BY <4>1, <5>1 DEF ClaimInv, ClaimsAreDisjoint
          <5>3. Lists(p, d) \/ OrphanClaim(p, d)
            BY <1>5, <3>3, <4>1, <5>2 DEF Claims
          <5> QED  BY <3>2, <4>1, <5>3 DEF ClaimInv, ClaimsAreSingle
        <4> QED  BY <4>1
      <3>6. \A q \in Pipelines, e \in Guarded : Claims(q, e)' => holder'[e] = holder[e]
        BY <1>1, <3>1, <3>5
      <3>7. ClaimsAreSingle'
        BY <1>5, <1>6, <3>3 DEF ClaimInv, ClaimsAreSingle
      <3> QED  BY <3>4, <3>6, <3>7, DerivedClaims
    <2> QED  BY <1>7, <2>2, <2>3 DEF Transact
  <1>8. CASE /\ Transact(call[p].op, d, FALSE)
             /\ call' = [call EXCEPT ![p].st = "refused"]
    <2>1. call'[p] = [op |-> call[p].op, dev |-> d, st |-> "refused"]
      BY <1>1, <1>2, <1>8
    <2>2. \A e \in Guarded : ~CallClaim(p, e)'
      BY <2>1 DEF CallClaim
    <2>3. UNCHANGED holder
      BY <1>8 DEF Transact, leaseVars
    <2>4. \A q \in Pipelines, e \in Guarded : Claims(q, e)' => Claims(q, e)
      BY <1>5, <1>6, <2>2 DEF Claims
    <2>5. ClaimsAreSingle'
      BY <1>5, <1>6, <2>2 DEF ClaimInv, ClaimsAreSingle
    <2> QED  BY <2>3, <2>4, <2>5, DerivedClaims
  <1>9. \/ Transact(call[p].op, d, TRUE) /\ call' = [call EXCEPT ![p].st = "ok"]
        \/ Transact(call[p].op, d, FALSE) /\ call' = [call EXCEPT ![p].st = "refused"]
    <2>1. PICK success \in BOOLEAN :
            /\ Transact(call[p].op, d, success)
            /\ call' = [call EXCEPT ![p].st = IF success THEN "ok" ELSE "refused"]
      BY DEF GatewayServes
    <2>2. CASE success = TRUE
      BY <2>1, <2>2
    <2>3. CASE success = FALSE
      BY <2>1, <2>3
    <2> QED  BY <2>2, <2>3
  <1> QED  BY <1>7, <1>8, <1>9

LEMMA ServesOrphanClaims ==
  ASSUME ClaimInv, TypeOK', NEW o \in orphans, GatewayServesOrphan(o)
  PROVE  ClaimInv'
  <1>1. holder \in [Devices -> Accounts \cup {Nobody}] /\ o \in Orphans
    BY DEF ClaimInv, TypeOK, LeaseTypeOK
  <1>2. o.dev \in Devices /\ o.by \in Pipelines
    BY <1>1 DEF Orphans
  <1>3. orphans' = orphans \ {o} /\ UNCHANGED <<got, call>>
    BY DEF GatewayServesOrphan
  <1>4. \A q \in Pipelines, e \in Guarded :
          /\ Lists(q, e)' <=> Lists(q, e)
          /\ CallClaim(q, e)' <=> CallClaim(q, e)
          /\ OrphanClaim(q, e)' => OrphanClaim(q, e)
    BY <1>3 DEF Lists, CallClaim, OrphanClaim
  <1>5. \A q \in Pipelines, e \in Guarded : Claims(q, e)' => Claims(q, e)
    BY <1>4 DEF Claims
  <1>6. ClaimsAreSingle'
    BY <1>4 DEF ClaimInv, ClaimsAreSingle
  <1>7. CASE Transact(o.op, o.dev, TRUE)
    <2>1. CASE o.op = "lease" /\ Lease(Gateway, o.dev)
      <3>1. holder[o.dev] = Nobody /\ holder' = [holder EXCEPT ![o.dev] = Gateway]
        BY <2>1 DEF Lease, Leasable
      <3>2. o.dev \in Guarded => \A q \in Pipelines : ~Claims(q, o.dev)
        BY <1>2, <3>1, NoClaimUnlessHeld, GatewayIsSomebody
      <3>3. \A q \in Pipelines, e \in Guarded : Claims(q, e)' => holder'[e] = holder[e]
        BY <1>1, <1>5, <3>1, <3>2
      <3> QED  BY <1>5, <1>6, <3>3, DerivedClaims
    <2>2. CASE o.op = "release" /\ Release(Gateway, o.dev)
      <3>1. holder' = [holder EXCEPT ![o.dev] = Nobody]
        BY <2>2 DEF Release
      <3>2. o = [op |-> "release", dev |-> o.dev, by |-> o.by]
        BY <1>1, <2>2 DEF Orphans
      <3>3. OrphanClaim(o.by, o.dev) /\ ~OrphanClaim(o.by, o.dev)'
        BY <1>3, <3>2 DEF OrphanClaim
      <3>4. o.dev \in Guarded => \A q \in Pipelines : ~Claims(q, o.dev)'
        BY <1>2, <1>4, <3>3 DEF ClaimInv, ClaimsAreDisjoint, ClaimsAreSingle, Claims
      <3>5. \A q \in Pipelines, e \in Guarded : Claims(q, e)' => holder'[e] = holder[e]
        BY <1>1, <3>1, <3>4
      <3> QED  BY <1>5, <1>6, <3>5, DerivedClaims
    <2> QED  BY <1>7, <2>1, <2>2 DEF Transact
  <1>8. CASE Transact(o.op, o.dev, FALSE)
    <2>1. UNCHANGED holder
      BY <1>8 DEF Transact, leaseVars
    <2> QED  BY <1>5, <1>6, <2>1, DerivedClaims
  <1>9. Transact(o.op, o.dev, TRUE) \/ Transact(o.op, o.dev, FALSE)
    <2>1. PICK success \in BOOLEAN : Transact(o.op, o.dev, success)
      BY DEF GatewayServesOrphan
    <2>2. CASE success = TRUE
      BY <2>1, <2>2
    <2>3. CASE success = FALSE
      BY <2>1, <2>3
    <2> QED  BY <2>2, <2>3
  <1> QED  BY <1>7, <1>8, <1>9

-----------------------------------------------------------------------------
LEMMA ClaimInvInit == Init => ClaimInv
  <1> SUFFICES ASSUME Init PROVE ClaimInv
    OBVIOUS
  <1>1. \A p \in Pipelines, d \in Guarded : ~Lists(p, d) /\ ~CallClaim(p, d) /\ ~OrphanClaim(p, d)
    BY NoCallIsNoClaim DEF Init, Lists, OrphanClaim, Guarded
  <1> QED  BY <1>1, TypeInit DEF ClaimInv, ClaimsAreHeld, ClaimsAreDisjoint, ClaimsAreSingle, Claims

LEMMA ClaimInvNext == ClaimInv /\ [Next]_vars => ClaimInv'
  <1> SUFFICES ASSUME ClaimInv, [Next]_vars PROVE ClaimInv'
    OBVIOUS
  <1>1. TypeOK'
    BY TypeNext DEF ClaimInv
  <1>2. CASE UNCHANGED vars
    BY <1>1, <1>2, QuietStep DEF vars
  <1>3. ASSUME NEW p \in Pipelines, Handler(p) PROVE ClaimInv'
    <2>1. CASE ListBoards(p)
      BY <1>1, <2>1, QuietStep DEF ListBoards
    <2>2. CASE Register(p)
      BY <1>1, <2>2, QuietStep DEF Register
    <2>3. CASE StartRollback(p)
      BY <1>1, <2>3, QuietStep DEF StartRollback
    <2>4. CASE GaveBack(p)
      BY <1>1, <2>4, QuietStep DEF GaveBack
    <2> QED  BY <1>1, <1>3, <2>1, <2>2, <2>3, <2>4, TryLeaseClaims, GiveBackClaims,
                ServesClaims, AnswerClaims DEF Handler
  <1>4. ASSUME NEW p \in Pipelines, NEW n \in 1 .. MaxCount, RequestLease(p, n)
        PROVE  ClaimInv'
    BY <1>1, <1>4, QuietStep DEF RequestLease
  <1>5. ASSUME NEW p \in Pipelines, RequestRelease(p) PROVE ClaimInv'
    BY <1>1, <1>5, QuietStep DEF RequestRelease
  <1>6. ASSUME NEW d \in Devices, NEW a \in Accounts \ {Gateway}, OthersLease(a, d)
        PROVE  ClaimInv'
    <2>1. holder[d] # Gateway
      BY <1>6, GatewayIsSomebody DEF OthersLease, Lease, Leasable, Release
    <2>2. \A e \in Guarded : e # d => holder'[e] = holder[e]
      BY <1>6 DEF OthersLease, Lease, Release, ClaimInv, TypeOK, LeaseTypeOK, Guarded
    <2>3. UNCHANGED <<got, call, orphans>>
      BY <1>6 DEF OthersLease, satVars
    <2> QED  BY <1>1, <2>1, <2>2, <2>3, NoClaimUnlessHeld, UnclaimedStep
  <1>7. ASSUME NEW d \in Devices, ChainTrust(d) PROVE ClaimInv'
    BY <1>1, <1>7, QuietStep DEF ChainTrust, TrustChange, satVars
  <1>8. ASSUME NEW d \in Devices, DirectCall(d) PROVE ClaimInv'
    <2>1. d \notin Guarded
      BY <1>8 DEF DirectCall, Guarded
    <2>2. \A e \in Guarded : e # d => holder'[e] = holder[e]
      BY <1>8 DEF DirectCall, Lease, Release, ClaimInv, TypeOK, LeaseTypeOK, Guarded
    <2>3. UNCHANGED <<got, call, orphans>>
      BY <1>8 DEF DirectCall, satVars
    <2> QED  BY <1>1, <2>1, <2>2, <2>3, UnclaimedStep
  <1> QED  BY <1>1, <1>2, <1>3, <1>4, <1>5, <1>6, <1>7, <1>8,
              CallFailsClaims, ServesOrphanClaims, RestartClaims
           DEF Next, Environment

LEMMA ClaimsInvariant == Spec => []ClaimInv
  <1>1. ClaimInv /\ [Next]_vars => ClaimInv'
    BY ClaimInvNext
  <1> QED  BY <1>1, ClaimInvInit, PTL DEF Spec

\* No two pipelines ever hold the same node, whatever calls time out, get lost
\* or run late and however often the satellite restarts, unless other clients
\* of the gateway lease and release it, too.
THEOREM PipelinesAreDisjoint == Spec => []DisjointPipelines
  <1>1. ClaimInv => DisjointPipelines
    BY DEF ClaimInv, TypeOK, ClaimsAreDisjoint, Claims, Lists, Guarded, DisjointPipelines
  <1> QED  BY <1>1, ClaimsInvariant, PTL

\* A node a pipeline lists is leased on the chain in the gateway's name, with
\* the same exception: no late or abandoned release frees a node in use.
THEOREM PipelineNodesAreHeld == Spec => []HeldOnChain
  <1>1. ClaimInv => HeldOnChain
    BY DEF ClaimInv, TypeOK, ClaimsAreHeld, Claims, Lists, Guarded, HeldOnChain
  <1> QED  BY <1>1, ClaimsInvariant, PTL

-----------------------------------------------------------------------------
(***************************************************************************)
(* The other direction, when no call fails and the satellite keeps         *)
(* running: what the gateway holds is known to some handler, so nothing is *)
(* leaked and the rollback is complete.                                    *)
(***************************************************************************)
Calm == CallsMayFail = FALSE /\ MayRestart = FALSE

Knows(p, d) == Lists(p, d) \/ CallClaim(p, d)

HeldIsKnown ==
  \A d \in Guarded : holder[d] = Gateway => \E p \in Pipelines : Knows(p, d)

\* A handler that has not begun or has answered awaits no call, and one that
\* holds nothing lists nothing.
AtRest ==
  \A p \in Pipelines :
    /\ pc[p] \in {"idle", "listing", "active", "failed", "released"} => call[p] = NoCall
    /\ pc[p] \in {"idle", "listing", "failed", "released"} => got[p] = {}

CalmInv == TypeOK /\ orphans = {} /\ HeldIsKnown /\ AtRest

LEMMA CalmInvInit == Init => CalmInv
  <1> SUFFICES ASSUME Init PROVE CalmInv
    OBVIOUS
  <1>1. HeldIsKnown
    BY GatewayIsSomebody DEF Init, HeldIsKnown, Guarded
  <1>2. AtRest
    BY DEF Init, AtRest
  <1> QED  BY <1>1, <1>2, TypeInit DEF CalmInv, Init

\* A step that gives the gateway no node and loses track of none.
LEMMA KeepsTrack ==
  ASSUME HeldIsKnown,
         \A d \in Guarded : holder'[d] = Gateway =>
           /\ holder[d] = Gateway
           /\ \A p \in Pipelines : Knows(p, d) => \E q \in Pipelines : Knows(q, d)'
  PROVE  HeldIsKnown'
  BY DEF HeldIsKnown

LEMMA UnseenStep ==
  ASSUME HeldIsKnown, UNCHANGED <<got, call>>,
         \A d \in Guarded : holder'[d] = Gateway => holder[d] = Gateway
  PROVE  HeldIsKnown'
  BY DEF HeldIsKnown, Knows, Lists, CallClaim

LEMMA TryLeaseKnown ==
  ASSUME CalmInv, NEW p \in Pipelines, TryLease(p)
  PROVE  HeldIsKnown'
  <1>1. /\ call \in [Pipelines -> Calls]
        /\ call[p] = NoCall
        /\ UNCHANGED <<holder, got>>
        /\ \A q \in Pipelines : q # p => call'[q] = call[q]
    BY DEF TryLease, Send, Awaiting, CalmInv, TypeOK
  <1>2. \A q \in Pipelines, d \in Guarded : Knows(q, d) => Knows(q, d)'
    <2> TAKE q \in Pipelines, d \in Guarded
    <2>1. CASE q = p
      BY <1>1, <2>1, NoCallIsNoClaim DEF Knows, Lists, Guarded
    <2>2. CASE q # p
      BY <1>1, <2>2 DEF Knows, Lists, CallClaim
    <2> QED  BY <2>1, <2>2
  <1> QED  BY <1>1, <1>2, KeepsTrack DEF CalmInv

LEMMA GiveBackKnown ==
  ASSUME CalmInv, NEW p \in Pipelines, GiveBack(p)
  PROVE  HeldIsKnown'
  <1>1. PICK d \in got[p] :
          /\ call' = [call EXCEPT ![p] = [op |-> "release", dev |-> d, st |-> "sent"]]
          /\ got' = [got EXCEPT ![p] = @ \ {d}]
    BY DEF GiveBack, Send
  <1>2. /\ call \in [Pipelines -> Calls] /\ got \in [Pipelines -> SUBSET Devices]
        /\ call[p] = NoCall /\ UNCHANGED holder
    BY DEF GiveBack, Awaiting, CalmInv, TypeOK
  <1>3. \A q \in Pipelines, e \in Guarded : Knows(q, e) => Knows(q, e)'
    <2> TAKE q \in Pipelines, e \in Guarded
    <2>1. CASE q # p
      BY <1>1, <1>2, <2>1 DEF Knows, Lists, CallClaim
    <2>2. CASE q = p
      <3>1. ~CallClaim(q, e)
        BY <1>2, <2>2, NoCallIsNoClaim DEF Guarded
      <3>2. CallClaim(p, d)'
        BY <1>1, <1>2 DEF CallClaim
      <3>3. Lists(q, e) /\ e # d => Lists(q, e)'
        BY <1>1, <1>2, <2>2 DEF Lists
      <3> QED  BY <2>2, <3>1, <3>2, <3>3 DEF Knows
    <2> QED  BY <2>1, <2>2
  <1> QED  BY <1>2, <1>3, KeepsTrack DEF CalmInv

LEMMA AnswerKnown ==
  ASSUME CalmInv, NEW p \in Pipelines, Answer(p)
  PROVE  HeldIsKnown'
  <1>1. /\ call \in [Pipelines -> Calls] /\ got \in [Pipelines -> SUBSET Devices]
        /\ call[p].st # "sent" /\ UNCHANGED holder
        /\ call' = [call EXCEPT ![p] = NoCall]
        /\ got' = IF call[p].st = "ok" /\ call[p].op = "lease"
                  THEN [got EXCEPT ![p] = @ \cup {call[p].dev}] ELSE got
    BY DEF Answer, Resume, CalmInv, TypeOK
  <1>2. \A q \in Pipelines, e \in Guarded : Knows(q, e) => Knows(q, e)'
    <2> TAKE q \in Pipelines, e \in Guarded
    <2>1. Lists(q, e) => Lists(q, e)'
      BY <1>1 DEF Lists
    <2>2. CASE q # p
      BY <1>1, <2>1, <2>2 DEF Knows, CallClaim
    <2>3. CASE q = p
      <3>1. ASSUME CallClaim(p, e) PROVE Lists(p, e)'
        <4>1. call[p].st = "ok" /\ call[p].op = "lease" /\ call[p].dev = e
          BY <1>1, <3>1 DEF CallClaim
        <4> QED  BY <1>1, <4>1 DEF Lists
      <3> QED  BY <2>1, <2>3, <3>1 DEF Knows
    <2> QED  BY <2>2, <2>3
  <1> QED  BY <1>1, <1>2, KeepsTrack DEF CalmInv

\* The gateway serves a call: a lease it takes is known by the answer on its
\* way, a release it makes ends what was known of the node.
LEMMA ServesKnown ==
  ASSUME CalmInv, NEW p \in Pipelines, GatewayServes(p)
  PROVE  HeldIsKnown'
  <1>1. /\ call \in [Pipelines -> Calls] /\ holder \in [Devices -> Accounts \cup {Nobody}]
        /\ UNCHANGED got
    BY DEF GatewayServes, CalmInv, TypeOK, LeaseTypeOK
  <1>2. /\ call[p] \in [op : Ops, dev : Devices, st : {"sent", "ok", "refused"}]
        /\ call[p].st = "sent"
    BY <1>1 DEF GatewayServes, Awaiting, Calls
  <1>3. PICK d \in Devices : d = call[p].dev
    BY <1>2
  <1>4. PICK success \in BOOLEAN :
          /\ Transact(call[p].op, d, success)
          /\ call' = [call EXCEPT ![p].st = IF success THEN "ok" ELSE "refused"]
    BY <1>3 DEF GatewayServes
  <1>5. \A e \in Devices : CallClaim(p, e) => e = d
    BY <1>3 DEF CallClaim
  <1>6. \A q \in Pipelines, e \in Guarded : Knows(q, e) /\ e # d => Knows(q, e)'
    <2> TAKE q \in Pipelines, e \in Guarded
    <2>1. CASE q # p
      BY <1>1, <1>4, <2>1 DEF Knows, Lists, CallClaim
    <2>2. CASE q = p
      BY <1>1, <1>5, <2>2 DEF Knows, Lists, Guarded
    <2> QED  BY <2>1, <2>2
  <1>7. CASE success = TRUE /\ call[p].op = "lease"
    <2>1. holder' = [holder EXCEPT ![d] = Gateway]
      BY <1>4, <1>7 DEF Transact, Lease
    <2>2. call'[p] = [op |-> "lease", dev |-> d, st |-> "ok"]
      BY <1>3, <1>1, <1>2, <1>4, <1>7
    <2>3. CallClaim(p, d)'
      BY <2>2 DEF CallClaim
    <2>4. ASSUME NEW e \in Guarded, holder'[e] = Gateway
          PROVE  \E q \in Pipelines : Knows(q, e)'
      <3>1. CASE e = d
        BY <2>3, <3>1 DEF Knows
      <3>2. CASE e # d
        BY <1>1, <1>6, <2>1, <2>4, <3>2 DEF CalmInv, HeldIsKnown, Guarded
      <3> QED  BY <3>1, <3>2
    <2> QED  BY <2>4 DEF HeldIsKnown
  <1>8. CASE success = TRUE /\ call[p].op = "release"
    <2>1. holder' = [holder EXCEPT ![d] = Nobody]
      BY <1>4, <1>8 DEF Transact, Release
    <2>2. ASSUME NEW e \in Guarded, holder'[e] = Gateway
          PROVE  e # d /\ holder[e] = Gateway
      BY <1>1, <2>1, <2>2, GatewayIsSomebody DEF Guarded
    <2> QED  BY <1>6, <2>2, KeepsTrack DEF CalmInv
  <1>9. CASE success = FALSE
    <2>1. UNCHANGED holder
      BY <1>4, <1>9 DEF Transact, leaseVars
    <2>2. call[p].op = "release" => holder[d] # Gateway
      BY <1>4, <1>9 DEF Transact
    <2>3. \A q \in Pipelines : q # p => call'[q] = call[q]
      BY <1>1, <1>4
    <2>4. call[p].op = "lease" => \A e \in Devices : ~CallClaim(p, e)
      BY <1>2 DEF CallClaim
    <2>5. \A q \in Pipelines, e \in Guarded :
            Knows(q, e) /\ holder[e] = Gateway => Knows(q, e)'
      <3> TAKE q \in Pipelines, e \in Guarded
      <3>1. CASE q # p
        BY <1>1, <2>3, <3>1 DEF Knows, Lists, CallClaim
      <3>2. CASE q = p
        BY <1>1, <1>2, <1>5, <2>2, <2>4, <3>2 DEF Knows, Lists, Guarded, Ops
      <3> QED  BY <3>1, <3>2
    <2> QED  BY <2>1, <2>5, KeepsTrack DEF CalmInv
  <1> QED  BY <1>2, <1>7, <1>8, <1>9 DEF Ops

LEMMA HandlerKeepsCalm ==
  ASSUME CalmInv, TypeOK', NEW p \in Pipelines, Handler(p)
  PROVE  CalmInv'
  <1>1. /\ pc \in [Pipelines -> Phases] /\ call \in [Pipelines -> Calls]
        /\ got \in [Pipelines -> SUBSET Devices]
    BY DEF CalmInv, TypeOK
  <1>2. orphans' = {}
    BY DEF CalmInv, Handler, ListBoards, TryLease, Register, StartRollback, GiveBack, GaveBack,
           GatewayServes, Answer
  <1>3. CASE ListBoards(p) \/ Register(p) \/ StartRollback(p) \/ GaveBack(p)
    <2>1. UNCHANGED <<holder, got, call>>
      BY <1>3 DEF ListBoards, Register, StartRollback, GaveBack
    <2>2. AtRest'
      BY <1>1, <1>3, <2>1 DEF CalmInv, AtRest, ListBoards, Register, StartRollback, GaveBack,
                              Goto, Awaiting
    <2> QED  BY <1>2, <2>1, <2>2, UnseenStep DEF CalmInv
  <1>4. CASE TryLease(p)
    <2>1. AtRest'
      BY <1>1, <1>4 DEF CalmInv, AtRest, TryLease, Send
    <2> QED  BY <1>2, <1>4, <2>1, TryLeaseKnown DEF CalmInv
  <1>5. CASE GiveBack(p)
    <2>1. AtRest'
      BY <1>1, <1>5 DEF CalmInv, AtRest, GiveBack, Send
    <2> QED  BY <1>2, <1>5, <2>1, GiveBackKnown DEF CalmInv
  <1>6. CASE GatewayServes(p)
    <2>1. AtRest'
      BY <1>1, <1>6 DEF CalmInv, AtRest, GatewayServes, Awaiting
    <2> QED  BY <1>2, <1>6, <2>1, ServesKnown DEF CalmInv
  <1>7. CASE Answer(p)
    <2>1. AtRest'
      BY <1>1, <1>7 DEF CalmInv, AtRest, Answer, Resume, Awaiting
    <2> QED  BY <1>2, <1>7, <2>1, AnswerKnown DEF CalmInv
  <1> QED  BY <1>3, <1>4, <1>5, <1>6, <1>7 DEF Handler

LEMMA CalmInvNext ==
  ASSUME Calm, CalmInv, [Next]_vars
  PROVE  CalmInv'
  <1>1. TypeOK'
    BY TypeNext DEF CalmInv
  <1>2. CASE UNCHANGED vars
    BY <1>1, <1>2, UnseenStep DEF vars, CalmInv, AtRest
  <1>3. ASSUME NEW p \in Pipelines, Handler(p) PROVE CalmInv'
    BY <1>1, <1>3, HandlerKeepsCalm
  <1>4. ASSUME NEW p \in Pipelines,
               RequestRelease(p) \/ \E n \in 1 .. MaxCount : RequestLease(p, n)
        PROVE  CalmInv'
    <2>1. UNCHANGED <<holder, got, call, orphans>>
      BY <1>4 DEF RequestRelease, RequestLease
    <2>2. AtRest'
      BY <1>4, <2>1 DEF CalmInv, TypeOK, AtRest, RequestRelease, RequestLease, Goto
    <2> QED  BY <1>1, <2>1, <2>2, UnseenStep DEF CalmInv
  <1>5. ASSUME NEW p \in Pipelines PROVE ~CallFails(p)
    BY DEF Calm, CallFails
  <1>6. ~Restart
    BY DEF Calm, Restart
  <1>7. ASSUME NEW o \in orphans PROVE FALSE
    BY <1>7 DEF CalmInv
  <1>8. ASSUME NEW d \in Devices,
               \/ DirectCall(d) \/ ChainTrust(d)
               \/ \E a \in Accounts \ {Gateway} : OthersLease(a, d)
        PROVE  CalmInv'
    <2>1. UNCHANGED satVars
      BY <1>8 DEF DirectCall, ChainTrust, OthersLease
    <2>2. \A e \in Guarded : holder'[e] = Gateway => holder[e] = Gateway
      BY <1>8, GatewayIsSomebody
         DEF DirectCall, ChainTrust, TrustChange, OthersLease, Lease, Release, Guarded,
             CalmInv, TypeOK, LeaseTypeOK
    <2>3. AtRest' /\ orphans' = {} /\ UNCHANGED <<got, call>>
      BY <2>1 DEF satVars, CalmInv, AtRest
    <2> QED  BY <1>1, <2>2, <2>3, UnseenStep DEF CalmInv
  <1> QED  BY <1>2, <1>3, <1>4, <1>5, <1>6, <1>7, <1>8 DEF Next, Environment

LEMMA CalmIsTight == CalmInv => NoLeak
  <1> SUFFICES ASSUME CalmInv, NEW d \in Guarded, holder[d] = Gateway
               PROVE  Claimed(d)
    BY DEF NoLeak, Guarded
  <1>1. PICK p \in Pipelines : Lists(p, d) \/ CallClaim(p, d)
    BY DEF CalmInv, HeldIsKnown, Knows
  <1>2. CASE Lists(p, d)
    BY <1>2 DEF Lists, Claimed, PipelineClaims
  <1>3. CASE CallClaim(p, d)
    <2>1. Awaiting(p)
      BY <1>3, NoCallIsNoClaim DEF Awaiting, Guarded
    <2>2. p \in CallClaims(d)
      BY <1>3, <2>1 DEF CallClaim, CallClaims
    <2> QED  BY <2>2 DEF Claimed
  <1> QED  BY <1>1, <1>2, <1>3

\* When no call fails and the satellite is not restarted, every node the gateway
\* holds is listed by a pipeline or in a call under way: no lease is leaked.
THEOREM NoLeakWithoutFaults == Calm => (Spec => []NoLeak)
  <1> SUFFICES ASSUME Calm PROVE Spec => []NoLeak
    OBVIOUS
  <1>1. CalmInv /\ [Next]_vars => CalmInv'
    BY CalmInvNext
  <1> QED  BY <1>1, CalmIsTight, CalmInvInit, PTL DEF Spec

\* So it is in the calm one of the two worlds that TLC visits in one run.
THEOREM CalmWorldLeaksNothing == Calm => (MCSpec => []NoLeakWhenCalm)
  <1> SUFFICES ASSUME Calm PROVE MCSpec => []NoLeakWhenCalm
    OBVIOUS
  <1> DEFINE WorldInv == world = "calm" => CalmInv
  <1>1. MCInit => WorldInv
    BY CalmInvInit DEF MCInit
  <1>2. WorldInv /\ [MCNext]_<<vars, world>> => WorldInv'
    <2> SUFFICES ASSUME WorldInv, [MCNext]_<<vars, world>>, world' = "calm"
                 PROVE  CalmInv'
      OBVIOUS
    <2>1. world = "calm" /\ CalmInv
      BY DEF MCNext
    <2>2. [Next]_vars
      BY <2>1 DEF MCNext
    <2> QED  BY <2>1, <2>2, CalmInvNext
  <1>3. WorldInv => NoLeakWhenCalm
    BY CalmIsTight DEF NoLeakWhenCalm
  <1> HIDE DEF WorldInv
  <1> QED  BY <1>1, <1>2, <1>3, PTL DEF MCSpec

\* Then the rollback is complete, too: once no request is under way and no
\* pipeline is left, the gateway holds nothing.  A faulty call is all it takes to
\* lose that, as the run shows.
THEOREM RollbackWithoutFaults == Calm => (Spec => []RollbackIsComplete)
  <1>1. CalmInv => RollbackIsComplete
    <2> SUFFICES ASSUME CalmInv, Quiet, NEW d \in Guarded, holder[d] = Gateway
                 PROVE  FALSE
      BY DEF RollbackIsComplete, Guarded
    <2>1. PICK p \in Pipelines : Lists(p, d) \/ CallClaim(p, d)
      BY DEF CalmInv, HeldIsKnown, Knows
    <2>2. got[p] = {} /\ call[p] = NoCall
      BY DEF Quiet, CalmInv, AtRest
    <2> QED  BY <2>1, <2>2, NoCallIsNoClaim DEF Lists, Guarded
  <1>2. Calm /\ CalmInv /\ [Next]_vars => CalmInv'
    BY CalmInvNext
  <1>3. SUFFICES ASSUME Calm PROVE Spec => []RollbackIsComplete
    OBVIOUS
  <1>4. CalmInv /\ [Next]_vars => CalmInv'
    BY <1>2, <1>3
  <1> QED  BY <1>1, <1>4, CalmInvInit, PTL DEF Spec
=============================================================================
