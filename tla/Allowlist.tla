------------------------------ MODULE Allowlist ------------------------------
(***************************************************************************)
(* What the routes /trust/stacks of the gateway promise: a list of trusted *)
(* stacks, each known by its id, to which one stack at a time is added or  *)
(* from which one is removed.                                              *)
(***************************************************************************)
CONSTANTS
  StackIds,
  Devices,
  Unlisted   \* in place of the devices of a stack that is not on the list

VARIABLE listed   \* stack id -> the devices its prefixes match, or Unlisted

Init == listed \in [StackIds -> {Unlisted} \cup SUBSET Devices]

Add(id, devices) ==
  /\ listed[id] = Unlisted
  /\ listed' = [listed EXCEPT ![id] = devices]

Remove(id) ==
  /\ listed[id] # Unlisted
  /\ listed' = [listed EXCEPT ![id] = Unlisted]

Next == \E id \in StackIds : Remove(id) \/ \E devices \in SUBSET Devices : Add(id, devices)

Spec == Init /\ [][Next]_listed
=============================================================================
