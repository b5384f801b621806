------------------------------ MODULE MCGateway ------------------------------
(* Instances of the gateway for TLC: the symmetry of the safety runs.      *)
EXTENDS GatewayRefinement, GatewayClaims, TLC

Symmetry == Permutations(Ext) \cup Permutations(BSid) \cup Permutations(Frontend)
              \cup Permutations(Backend) \cup Permutations(Task)

=============================================================================
