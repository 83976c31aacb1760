------------------------- MODULE MCStartupOnboarding -------------------------
(* TLC instances of StartupOnboarding: two workers and another device.      *)
EXTENDS StartupOnboarding

CONSTANTS w1, w2, edge

TwoWorkers == <<w1, w2>>
=============================================================================
