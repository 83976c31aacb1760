------------------------- MODULE MCSatelliteLeasing -------------------------
(***************************************************************************)
(* TLC instance of SatelliteLeasing: one run checks two worlds, each of    *)
(* them at the bounds the other would make too large.  In the calm one,    *)
(* whose constants the configuration gives, no call fails, but trust       *)
(* moves and others use the board and the gateway.  In the faulty one      *)
(* calls fail and the satellite restarts, and it has the board for itself. *)
(***************************************************************************)
EXTENDS SatelliteLeasingProps

VARIABLE world

Faulty == INSTANCE SatelliteLeasingProps
            WITH Accounts <- {Gateway}, CallsMayFail <- TRUE, MayRestart <- TRUE,
                 DirectNodes <- {}, TrustMoves <- FALSE

MCInit == Init /\ world \in {"calm", "faulty"}

MCNext ==
  /\ \/ world = "calm" /\ Next
     \/ world = "faulty" /\ Faulty!Next
  /\ UNCHANGED world

MCHandler(p) ==
  /\ \/ world = "calm" /\ Handler(p)
     \/ world = "faulty" /\ (Faulty!Handler(p) \/ Faulty!CallFails(p))
  /\ UNCHANGED world

MCSpec ==
  /\ MCInit /\ [][MCNext]_<<vars, world>>
  /\ \A p \in Pipelines : WF_<<vars, world>>(MCHandler(p))

\* In the faulty world the two nodes are alike, so that the safety properties,
\* which spare the node of the direct clients, lose nothing there.
NoLeakWhenCalm == world = "calm" => NoLeak

\* IoTronic may report any boards online.
AnyOnline == SUBSET Devices
=============================================================================
