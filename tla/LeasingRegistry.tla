--------------------------- MODULE LeasingRegistry ---------------------------
(***************************************************************************)
(* The contract chain/contracts/LeasingRegistry.sol, deployed beside       *)
(* OnboardingTrust and calling its getDeviceStatus.  As there, one action  *)
(* is one successful transaction and a reverted one is a stuttering step.  *)
(***************************************************************************)
EXTENDS OnboardingTrust

CONSTANT MaxLeaseEvents  \* bound of the model: lease transactions ever made

ASSUME LeaseEventsAssumption == MaxLeaseEvents \in Nat

VARIABLES
  leases,   \* deviceId -> LeaseInfo
  leaseLog  \* NodeLeased and NodeReleased events emitted so far

vars == <<requests, nextRequestId, log, leases, leaseLog>>

LeaseInfo == [isLeased : BOOLEAN, leasedBy : Accounts \cup {ZeroAddress}]

LeaseEvent == [event : {"NodeLeased", "NodeReleased"},
               deviceId : Devices, leaser : Accounts]

TypeOK ==
  /\ TrustTypeOK
  /\ leases \in [Devices -> LeaseInfo]
  /\ leaseLog \in Seq(LeaseEvent)

Init ==
  /\ TrustInit
  /\ leases = [d \in Devices |-> [isLeased |-> FALSE, leasedBy |-> ZeroAddress]]
  /\ leaseLog = <<>>

EmitLease(name, d, sender) ==
  /\ Len(leaseLog) < MaxLeaseEvents
  /\ leaseLog' = Append(leaseLog, [event |-> name, deviceId |-> d, leaser |-> sender])

\* Faulty variants: no check of the approval, no check of the lease.
LeaseUnapproved(sender, d) ==
  /\ ~leases[d].isLeased
  /\ leases' = [leases EXCEPT ![d] = [isLeased |-> TRUE, leasedBy |-> sender]]
  /\ EmitLease("NodeLeased", d, sender)
  /\ UNCHANGED trustVars

LeaseTwice(sender, d) ==
  /\ HasStatus(d, "Approved")
  /\ leases' = [leases EXCEPT ![d] = [isLeased |-> TRUE, leasedBy |-> sender]]
  /\ EmitLease("NodeLeased", d, sender)
  /\ UNCHANGED trustVars

\* Approval is looked up when the lease is taken, and at no other time.
LeaseNode(sender, d) ==
  /\ ~leases[d].isLeased
  /\ HasStatus(d, "Approved")
  /\ leases' = [leases EXCEPT ![d] = [isLeased |-> TRUE, leasedBy |-> sender]]
  /\ EmitLease("NodeLeased", d, sender)
  /\ UNCHANGED trustVars

\* Faulty variant: no check of the leaser.
ReleaseByAnyone(sender, d) ==
  /\ leases[d].isLeased
  /\ leases' = [leases EXCEPT ![d] = [isLeased |-> FALSE, leasedBy |-> ZeroAddress]]
  /\ EmitLease("NodeReleased", d, sender)
  /\ UNCHANGED trustVars

ReleaseNode(sender, d) ==
  /\ leases[d].isLeased
  /\ leases[d].leasedBy = sender
  /\ leases' = [leases EXCEPT ![d] = [isLeased |-> FALSE, leasedBy |-> ZeroAddress]]
  /\ EmitLease("NodeReleased", d, sender)
  /\ UNCHANGED trustVars

Next ==
  \/ TrustNext /\ UNCHANGED <<leases, leaseLog>>
  \/ \E sender \in Accounts, d \in Devices :
       LeaseNode(sender, d) \/ ReleaseNode(sender, d)

Spec == Init /\ [][Next]_vars

-----------------------------------------------------------------------------
(***************************************************************************)
(* Refinement: the contracts implement the lease board.                    *)
(***************************************************************************)
ApprovedDevices == {d \in Devices : HasStatus(d, "Approved")}

HolderOf == [d \in Devices |-> leases[d].leasedBy]

Board == INSTANCE NodeLease
           WITH approved <- ApprovedDevices, holder <- HolderOf, Nobody <- ZeroAddress

\* The two contracts behave as an exclusive lease board: no transaction order
\* hands a device to a second account, leases an unapproved one, or lets an
\* approval transaction touch a lease.
ImplementsBoard == Board!LeaseSpec

-----------------------------------------------------------------------------
(***************************************************************************)
(* Properties.                                                             *)
(***************************************************************************)

\* A leased device has been approved by its owner at some time: some request
\* for it is Approved or was and is now Revoked.  (It need not be approved
\* NOW: neither a revocation nor a newer request ends a lease.)
LeasedWasApproved ==
  \A d \in Devices : leases[d].isLeased =>
    \E id \in RequestIds :
      /\ id < nextRequestId
      /\ requests[id].deviceId = d
      /\ requests[id].status \in {"Approved", "Revoked"}

\* The two fields of LeaseInfo never disagree, so a public read of `leases`
\* cannot show a free node with a leaser or a leased one without.
LeaseFieldsAgree ==
  \A d \in Devices : leases[d].isLeased <=> leases[d].leasedBy \in Accounts

IsLastLeaseEvent(k, d) ==
  /\ leaseLog[k].deviceId = d
  /\ \A j \in k + 1 .. Len(leaseLog) : leaseLog[j].deviceId # d

\* The lease events of a device tell its holder: the last one names it, and a
\* NodeReleased is always by the account of the NodeLeased before it.
LeaseLogTellsHolder ==
  /\ \A d \in Devices :
       leases[d].isLeased <=>
         \E k \in 1 .. Len(leaseLog) :
           /\ IsLastLeaseEvent(k, d)
           /\ leaseLog[k].event = "NodeLeased"
           /\ leaseLog[k].leaser = leases[d].leasedBy
  /\ \A k \in 1 .. Len(leaseLog) : leaseLog[k].event = "NodeReleased" =>
       \E j \in 1 .. k - 1 :
         /\ leaseLog[j] = [leaseLog[k] EXCEPT !.event = "NodeLeased"]
         /\ \A i \in j + 1 .. k - 1 : leaseLog[i].deviceId # leaseLog[k].deviceId
=============================================================================
