--------------------- MODULE MCMultiNetworkPolicySuite ----------------------
(* Instances of MultiNetworkPolicySuite for TLC.                           *)
EXTENDS MultiNetworkPolicySuite

AllSpecs == [i \in 1..Len(Bodies) |-> i]
=============================================================================
