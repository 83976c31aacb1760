-------------------------- MODULE MCLeasingRegistry --------------------------
(* TLC instance of LeasingRegistry: devices and accounts are interchangeable. *)
EXTENDS LeasingRegistry, TLC

Symmetry == Permutations(Devices) \cup Permutations(Accounts)
=============================================================================
