---------------------------- MODULE CsiInvariant -----------------------------
(***************************************************************************)
(* The inductive invariant of CsiController: what the sidecars' objects    *)
(* and the calls on their way say of the cluster's records.                *)
(***************************************************************************)
EXTENDS CsiController, PlatformInvariant

\* No other caller has the role of controller for the cluster.
OneController ==
  \A p \in Principal : p.role = "controller" /\ p.owner = Self.owner => p = Self

\* A call on its way was sent for an object: a deletion for a claim that was
\* released, a detach for one VM.
LateOK ==
  /\ IsFiniteSet(late)
  /\ \A q \in late :
       /\ q.op = "create" => q.name \in Name
       /\ q.op = "unpublish" => q.inst # None
       /\ q.op = "delete" =>
            \E n \in Name : /\ claim[n].phase \in {"released", "gone"}
                            /\ claim[n].id = q.vol

\* The claim's volume is the cluster's volume of its name, from the first OK
\* on; what is asked for before that is a request.
ClaimOK ==
  \A n \in Name :
    /\ claim[n].phase \in {"wanted", "bound"} =>
         claim[n].req \in Wants[n] /\ claim[n].size \in 1 .. MaxSize
    /\ claim[n].phase \in {"bound", "released", "gone"} =>
         Owned(Self, claim[n].id) /\ vol[claim[n].id].name = n
    /\ claim[n].phase = "gone" => Deleted(claim[n].id)

\* The publish context names the attachment of that volume for that VM.
VAOK ==
  \A v \in VolumeID, i \in InstanceID :
    va[v][i].phase = "attached" =>
      LET a == va[v][i].att
      IN /\ Owned(Self, v)
         /\ a \in DOMAIN att /\ att[a].vol = v /\ att[a].inst = i
         /\ att[a].gen = va[v][i].gen

CsiInv == CsiTypeOK /\ LateOK /\ ClaimOK /\ VAOK
=============================================================================
