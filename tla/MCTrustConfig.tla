---------------------------- MODULE MCTrustConfig ----------------------------
(* A TLC instance of TrustConfig.                                           *)
EXTENDS TrustConfig, TLC

CONSTANTS a, b, d1, d2

\* Two versions of one stack and another stack that trusts the same device.
SomeStacks == {[stackId |-> a, devices |-> {d1}], [stackId |-> a, devices |-> {d1, d2}],
               [stackId |-> b, devices |-> {d1}]}

OnFile == {[stackId |-> a, devices |-> {d1}]}

Symmetry == Permutations(Forms)
=============================================================================
