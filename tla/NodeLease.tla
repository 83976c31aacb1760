------------------------------ MODULE NodeLease ------------------------------
(***************************************************************************)
(* What the two contracts together promise to the services above them: a   *)
(* board of exclusive leases on devices.  A device is free or held by one  *)
(* account; a free device can be leased while it is approved; only its     *)
(* holder gives it back.  Approval comes and goes, one device at a time,   *)
(* without regard to leases.                                               *)
(*                                                                         *)
(* LeasingRegistry implements this specification; SatelliteLeasing is      *)
(* built on it.                                                            *)
(***************************************************************************)
CONSTANTS
  Devices,   \* device identifiers
  Accounts,  \* accounts that lease
  Nobody     \* holder of a free device

ASSUME LeaseAssumption == Nobody \notin Accounts

VARIABLES
  approved,  \* devices whose latest onboarding request is Approved
  holder     \* device -> the account that leases it, or Nobody

leaseVars == <<approved, holder>>

LeaseTypeOK ==
  /\ approved \in SUBSET Devices
  /\ holder \in [Devices -> Accounts \cup {Nobody}]

LeaseInit ==
  /\ approved = {}
  /\ holder = [d \in Devices |-> Nobody]

Leasable(d) == holder[d] = Nobody /\ d \in approved

Lease(a, d) ==
  /\ Leasable(d)
  /\ holder' = [holder EXCEPT ![d] = a]
  /\ UNCHANGED approved

Release(a, d) ==
  /\ holder[d] = a
  /\ holder' = [holder EXCEPT ![d] = Nobody]
  /\ UNCHANGED approved

TrustChange(d) ==
  /\ approved' \in {approved \cup {d}, approved \ {d}}
  /\ UNCHANGED holder

LeaseNext ==
  \E d \in Devices :
    \/ TrustChange(d)
    \/ \E a \in Accounts : Lease(a, d) \/ Release(a, d)

LeaseSpec == LeaseInit /\ [][LeaseNext]_leaseVars
=============================================================================
