----------------------------- MODULE MCPlatform -----------------------------
(***************************************************************************)
(* Instances of Platform for TLC: the registry and the callers.            *)
(***************************************************************************)
EXTENDS PlatformInvariant, PlatformLeaseRefinement, TLC

CONSTANTS t1, t2, vm1, vm2, z1, z2, ext4, bogus

ControllerOf(t) == [role |-> "controller", owner |-> t, inst |-> None]
NodeOf(t, i) == [role |-> "node", owner |-> t, inst |-> i]

\* Two VMs of one cluster, in one zone.
OneClusterOwner == [i \in InstanceID |-> t1]
OneZone == [i \in InstanceID |-> z1]
OneClusterPrincipal ==
  {ControllerOf(t1)} \cup {NodeOf(t1, i) : i \in InstanceID}

\* Two clusters with a VM each, in two zones, and a certificate of the second
\* cluster that names the first one's VM.
TwoClusterOwner == [i \in InstanceID |-> IF i = vm1 THEN t1 ELSE t2]
TwoClusterZone == [i \in InstanceID |-> IF i = vm1 THEN z1 ELSE z2]
TwoClusterPrincipal ==
  {ControllerOf(t1), ControllerOf(t2), NodeOf(t1, vm1), NodeOf(t2, vm2),
   NodeOf(t2, vm1)}

\* What the checks tell apart is not which identifier was drawn.
IdSymmetry ==
  Permutations(VolumeID) \cup Permutations(AttachmentID) \cup Permutations(UseID)
=============================================================================
