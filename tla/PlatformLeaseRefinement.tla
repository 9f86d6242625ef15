---------------------- MODULE PlatformLeaseRefinement -----------------------
(***************************************************************************)
(* Platform implements WriterLease, for every volume, as long as nobody    *)
(* changes the cloud behind its back.                                      *)
(***************************************************************************)
EXTENDS Platform

LiveOf(v) == CHOOSE a \in DOMAIN att : att[a].vol = v /\ IsLive(a)

LeaseOf(v) ==
  LET gen   == IF v \in DOMAIN vol THEN vol[v].gen ELSE 0
      cloud == IF Attached(v) THEN disk[v].inst ELSE None
  IN IF \E a \in DOMAIN att : att[a].vol = v /\ IsLive(a)
     THEN [gen |-> gen, holder |-> att[LiveOf(v)].inst,
           open |-> ~att[LiveOf(v)].del, uses |-> att[LiveOf(v)].uses,
           cloud |-> cloud]
     ELSE [gen |-> gen, holder |-> None, open |-> FALSE, uses |-> {},
           cloud |-> cloud]

Abstract(v) == INSTANCE WriterLease WITH
  VM <- InstanceID, NoVM <- None, lease <- LeaseOf(v)

\* Calls, reconcile passes, crashes and lost provider replies amount to the
\* seven steps of a lease (engine.go:151-178, 199-202, 242-255, 320-359):
\* grant, attach, use, release, close, detach, retire.  This is
\* \A v \in VolumeID : Abstract(v)!Spec with the quantifier moved inside.
ImplementsLease ==
  /\ \A v \in VolumeID : Abstract(v)!Init
  /\ [][\A v \in VolumeID : [Abstract(v)!Next]_(LeaseOf(v))]_vars
=============================================================================
