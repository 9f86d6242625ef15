------------------------- MODULE CsiControllerProofs -------------------------
(***************************************************************************)
(* What an OK of the CSI controller promises, for every value of the       *)
(* constants: any number of claims, volumes and VMs, other clusters and    *)
(* their controllers beside this one, and any troubles but drift.          *)
(***************************************************************************)
EXTENDS CsiInvariant, PlatformLeaseProofs, ProvisioningProofs, FiniteSetTheorems

(***************************************************************************)
(* The calls: what is sent, and what of the platform an accepted one       *)
(* changes.                                                                *)
(***************************************************************************)
\* What the provisioner and the resizer send for a claim,
LEMMA ClaimCallKinds ==
  ASSUME NEW n \in Name, NEW q \in ClaimCalls(n)
  PROVE  \/ claim[n].phase = "wanted" /\ q = CreateCall(n)
         \/ claim[n].phase = "bound" /\ claim[n].told < claim[n].size
            /\ q = ExpandCall(n)
         \/ claim[n].phase = "released" /\ q = DeleteCall(n)
  BY DEF ClaimCalls

\* and the attacher for a VolumeAttachment.
LEMMA VACallKinds ==
  ASSUME NEW v \in VolumeID, NEW i \in InstanceID, NEW q \in VACalls(v, i)
  PROVE  \/ va[v][i].phase = "wanted" /\ q = PublishCall(v, i)
         \/ va[v][i].phase = "ending" /\ q = UnpublishCall(v, i)
  BY DEF VACalls

\* What a call is sent for: an object that still says so, unless it is late.
SentFor(q) ==
  /\ q.op = "create" => q.name \in Name
  /\ q.op = "delete" =>
       \E n \in Name :
         claim[n].phase \in {"released", "gone"} /\ claim[n].id = q.vol
  /\ q.op = "publish" =>
       \/ "publish" \in Losable
       \/ /\ q.vol \in VolumeID /\ q.inst \in InstanceID
          /\ va[q.vol][q.inst].phase = "wanted"
  /\ q.op = "unpublish" =>
       /\ q.inst # None
       /\ \/ "unpublish" \in Losable
          \/ /\ q.vol \in VolumeID /\ q.inst \in InstanceID
             /\ va[q.vol][q.inst].phase = "ending"

\* Every call of a sidecar is sent for its object (controller.go:97-187).
LEMMA CallsAreSent ==
  ASSUME NEW q \in Calls
  PROVE  SentFor(q)
  <1>1. CASE \E n \in Name : q \in ClaimCalls(n)
    BY <1>1, ClaimCallKinds DEF SentFor, CreateCall, ExpandCall, DeleteCall
  <1>2. CASE \E v \in VolumeID, i \in InstanceID : q \in VACalls(v, i)
    BY <1>2, VACallKinds, ProviderAssumption DEF SentFor, PublishCall, UnpublishCall
  <1> QED
    BY <1>1, <1>2 DEF Calls

\* So is one that is executed late, as far as it may be late.
LEMMA LateIsSent ==
  ASSUME CsiInv, NEW q \in late
  PROVE  SentFor(q)
  BY DEF CsiInv, CsiTypeOK, LateOK, SentFor

\* An accepted call is a call of the platform by the cluster's controller
\* (controller.go:97, 111, 126, 151, 181).
LEMMA AcceptedIsCall ==
  ASSUME TypeOK, NEW q, SentFor(q), Accepted(q)
  PROVE  Self \in Principal /\ CallBy(Self)
  <1>0. Self \in Principal
    BY CsiControllerAssumption
  <1>1. CASE q.op = "create" /\ \E v \in VolumeID :
               CreateVolume(Self, v, q.name, Size(q.req), Place(q.req),
                            Meaning(q.req.caps[1]))
    <2>1. PICK v \in VolumeID :
            CreateVolume(Self, v, q.name, Size(q.req), Place(q.req),
                         Meaning(q.req.caps[1]))
      BY <1>1
    <2> DEFINE size == Size(q.req)
               zone == Place(q.req)
               cap == Meaning(q.req.caps[1])
    <2>2. size \in 1 .. MaxSize /\ zone \in Zone /\ cap \in Capability /\ q.name \in Name
      BY <1>1, <2>1, PlatformAssumption DEF CreateVolume, Supports, SentFor
    <2>3. CreateVolume(Self, v, q.name, size, zone, cap)
      BY <2>1
    <2> HIDE DEF size, zone, cap
    <2> QED
      BY <1>0, <2>2, <2>3 DEF CallBy, ControllerCall
  <1>2. CASE ResizeVolume(Self, q.vol, q.size)
    <2>1. q.vol \in VolumeID /\ vol[q.vol] \in Volume
      BY <1>2 DEF ResizeVolume, Owned, TypeOK
    <2>2. q.size \in 1 .. MaxSize
      BY <1>2, <2>1, ProviderAssumption DEF ResizeVolume, Volume
    <2> QED
      BY <1>0, <1>2, <2>1, <2>2 DEF CallBy, ControllerCall
  <1>3. CASE DeleteVolume(Self, q.vol)
    BY <1>0, <1>3 DEF DeleteVolume, Owned, TypeOK, CallBy, ControllerCall
  <1>4. CASE \E a \in AttachmentID : CreateAttachment(Self, q.vol, q.inst, a)
    BY <1>0, <1>4
       DEF CreateAttachment, Owned, ActiveInstance, TypeOK, CallBy, ControllerCall
  <1>5. CASE DeleteLatestAttachment(Self, q.vol, q.inst)
    <2>1. q.vol \in VolumeID /\ q.inst \in InstanceID \cup {None}
      BY <1>5 DEF DeleteLatestAttachment, Latest, Matches, TypeOK, Attachment
    <2> QED
      BY <1>0, <1>5, <2>1 DEF CallBy, ControllerCall
  <1> QED
    BY <1>1, <1>2, <1>3, <1>4, <1>5 DEF Accepted

\* Only a publish adds an attachment, and the one it asks for.
LEMMA AcceptedAttaches ==
  ASSUME TypeOK, NEW q, Accepted(q), NEW a \in DOMAIN att', a \notin DOMAIN att
  PROVE  q.op = "publish" /\ att'[a].vol = q.vol /\ att'[a].inst = q.inst
  <1>1. PICK b : CreateAttachment(Self, q.vol, q.inst, b) /\ q.op = "publish"
    BY DEF Accepted, CreateVolume, ResizeVolume, DeleteVolume,
           DeleteLatestAttachment, CloseGate, Write
  <1>2. att' = With(att, b,
                    [owner |-> vol[q.vol].owner, vol |-> q.vol, inst |-> q.inst,
                     gen |-> NextGeneration(q.vol), state |-> "ATTACHING",
                     del |-> FALSE, err |-> FALSE, uses |-> {}])
    BY <1>1 DEF CreateAttachment, Write
  <1> QED
    BY <1>1, <1>2 DEF With

\* Only an unpublish closes an attachment, and only one it asks for.
LEMMA AcceptedDetaches ==
  ASSUME TypeOK, NEW q, Accepted(q), SentFor(q),
         NEW a \in DOMAIN att, ~att[a].del, att'[a].del
  PROVE  q.op = "unpublish" /\ att[a].vol = q.vol /\ att[a].inst = q.inst
  <1>1. CASE q.op = "unpublish" /\ DeleteLatestAttachment(Self, q.vol, q.inst)
    <2>1. PICK b \in DOMAIN att : Latest(b, q.vol, q.inst) /\ CloseGate(Self, b)
      BY <1>1 DEF DeleteLatestAttachment
    <2>2. a = b
      BY <2>1 DEF CloseGate, Write
    <2> QED
      BY <1>1, <2>1, <2>2 DEF Latest, Matches, SentFor
  <1>2. CASE q.op = "publish" /\ \E b \in AttachmentID :
               CreateAttachment(Self, q.vol, q.inst, b)
    BY <1>2 DEF CreateAttachment, Write, With
  <1>3. CASE att' = att
    BY <1>3
  <1> QED
    BY <1>1, <1>2, <1>3 DEF Accepted, CreateVolume, ResizeVolume, DeleteVolume, Write

\* Only a delete asks for a volume's end, and for that volume's.
LEMMA AcceptedDeletes ==
  ASSUME TypeOK, NEW q, Accepted(q), NEW v \in DOMAIN vol, ~vol[v].del, vol'[v].del
  PROVE  q.op = "delete" /\ q.vol = v
  <1>0. vol[v] \in Volume
    BY DEF TypeOK
  <1>1. CASE \E w \in VolumeID :
               CreateVolume(Self, w, q.name, Size(q.req), Place(q.req),
                            Meaning(q.req.caps[1]))
    BY <1>1 DEF CreateVolume, Write, With
  <1>2. CASE ResizeVolume(Self, q.vol, q.size)
    BY <1>0, <1>2 DEF ResizeVolume, Write
  <1>3. CASE q.op = "delete" /\ DeleteVolume(Self, q.vol)
    BY <1>0, <1>3 DEF DeleteVolume, Write
  <1>4. CASE \E b \in AttachmentID : CreateAttachment(Self, q.vol, q.inst, b)
    BY <1>0, <1>4 DEF CreateAttachment, Write
  <1>5. CASE DeleteLatestAttachment(Self, q.vol, q.inst)
    BY <1>5 DEF DeleteLatestAttachment, CloseGate, Write
  <1> QED
    BY <1>1, <1>2, <1>3, <1>4, <1>5 DEF Accepted

(***************************************************************************)
(* Every step of the CSI controller is a step of the platform or none.     *)
(***************************************************************************)
\* The cluster's calls, those of others, and what is no call.
LEMMA CsiStepKinds ==
  ASSUME CsiInv, [CsiNext]_csiVars
  PROVE  \/ \E q : SentFor(q) /\ Accepted(q)
         \/ \E p \in Principal \ {Self} : CallBy(p)
         \/ ReconcileStep \/ TroubleStep \/ UNCHANGED vars
  <1>2. CASE UserStep
    BY <1>2 DEF UserStep, RequestVolume, Reschedule, Grow, ReleaseClaim,
                WantAttachment, Withdraw
  <1>3. ASSUME NEW n \in Name, ClaimStep(n)
        PROVE  UNCHANGED vars \/ \E q : SentFor(q) /\ Accepted(q)
    <2>1. CASE \E q \in ClaimCalls(n) : Pend(q)
      BY <2>1, CallsAreSent DEF Pend, Calls
    <2>2. CASE CreateOK(n)
      BY <2>2 DEF CreateOK
    <2>3. CASE ExpandOK(n)
      <3>1. Accepted(ExpandCall(n)) /\ SentFor(ExpandCall(n))
        BY <2>3 DEF ExpandOK, Accepted, ExpandCall, SentFor
      <3> QED
        BY <3>1
    <2>4. CASE DeleteOK(n)
      <3>1. Accepted(DeleteCall(n)) /\ SentFor(DeleteCall(n))
        BY <2>4 DEF DeleteOK, Accepted, DeleteCall, SentFor
      <3> QED
        BY <3>1
    <2> QED
      BY <1>3, <2>1, <2>2, <2>3, <2>4 DEF ClaimStep
  <1>4. ASSUME NEW v \in VolumeID, NEW i \in InstanceID, VAStep(v, i)
        PROVE  UNCHANGED vars \/ \E q : SentFor(q) /\ Accepted(q)
    <2>1. CASE \E q \in VACalls(v, i) : Pend(q)
      BY <2>1, CallsAreSent DEF Pend, Calls
    <2>2. CASE PublishOK(v, i) \/ UnpublishOK(v, i)
      BY <2>2 DEF PublishOK, UnpublishOK
    <2> QED
      BY <1>4, <2>1, <2>2 DEF VAStep
  <1>5. CASE \E q \in Calls : TimeOut(q)
    BY <1>5 DEF TimeOut
  <1>6. CASE \E q \in late : Deliver(q)
    BY <1>6, LateIsSent DEF Deliver
  <1>7. CASE PassStep \/ NodeStep \/ (TroubleStep /\ UNCHANGED csi)
    BY <1>7 DEF PassStep, NodeStep
  <1>8. CASE UNCHANGED csiVars
    BY <1>8 DEF csiVars
  <1> QED
    BY <1>2, <1>3, <1>4, <1>5, <1>6, <1>7, <1>8 DEF CsiNext

\* So the platform's lemmas about its steps hold of every step here.
LEMMA CsiStepIsPlatformStep ==
  ASSUME TypeOK, CsiInv, [CsiNext]_csiVars
  PROVE  [Next]_vars
  BY CsiStepKinds, AcceptedIsCall DEF Next

(***************************************************************************)
(* What the cluster's records go through.                                  *)
(***************************************************************************)
\* What is no call leaves the tables, or commits the copies of the pass.
LEMMA PassTables ==
  ASSUME ReconcileStep \/ TroubleStep \/ UNCHANGED vars
  PROVE  \/ vol' = vol /\ att' = att
         \/ vol' = wvol /\ att' = watt
  <1>1. CASE BeginReconcile \/ VolumesDone \/ CommitReconcile \/ UNCHANGED vars
    BY <1>1 DEF BeginReconcile, VolumesDone, CommitReconcile, durable, vars
  <1>2. CASE \E v \in VolumeID :
               ReconcileDelete(v) \/ ObserveVolume(v) \/ ReconcileEnsure(v)
    BY <1>2 DEF ReconcileDelete, ObserveVolume, ReconcileEnsure, SetVolume, durable
  <1>3. CASE \E a \in AttachmentID :
               ReconcileDetach(a) \/ ObserveAttachment(a) \/ ReconcileAttach(a)
    BY <1>3 DEF ReconcileDetach, ObserveAttachment, ReconcileAttach,
                SetAttachment, durable
  <1>4. CASE TroubleStep
    BY <1>4 DEF TroubleStep, Crash, RestartWithRegistry, Rollback, Drift, durable
  <1> QED
    BY <1>1, <1>2, <1>3, <1>4 DEF ReconcileStep

\* A volume keeps its owner, name and zone, and an attachment its volume, VM
\* and generation; neither is ever removed from its table.
LEMMA RecordsStay ==
  ASSUME RecordInv, [Next]_vars
  PROVE  /\ \A v \in DOMAIN vol :
              /\ v \in DOMAIN vol' /\ vol'[v].owner = vol[v].owner
              /\ vol'[v].name = vol[v].name /\ vol'[v].zone = vol[v].zone
         /\ \A a \in DOMAIN att :
              /\ a \in DOMAIN att' /\ att'[a].vol = att[a].vol
              /\ att'[a].inst = att[a].inst /\ att'[a].gen = att[a].gen
  <1>1. CASE \E p \in Principal : CallBy(p) /\ CallEffect(p)
    BY <1>1, CallFields DEF RecordInv
  <1>2. CASE vol' = vol /\ att' = att
    BY <1>2
  <1>3. CASE vol' = wvol /\ att' = watt
    <2>1. DOMAIN wvol = DOMAIN vol /\ DOMAIN watt = DOMAIN att
      BY DEF RecordInv, IInv, TypeOK
    <2> QED
      BY <1>3, <2>1, Fields DEF RecordInv, SameIntent, SameClaim
  <1> QED
    BY <1>1, <1>2, <1>3, TableSteps

\* Another caller is a node, or a controller of another cluster.
LEMMA OthersKeepOut ==
  ASSUME RecordInv, OneController, NEW p \in Principal \ {Self}, CallBy(p)
  PROVE  /\ \A v \in DOMAIN vol :
              vol[v].owner = Self.owner /\ ~vol[v].del => ~vol'[v].del
         /\ \A a \in DOMAIN att :
              att[a].owner = Self.owner /\ ~att[a].del => ~att'[a].del
         /\ \A a \in DOMAIN att' \ DOMAIN att :
              att'[a].vol \in DOMAIN vol /\ vol[att'[a].vol].owner # Self.owner
  <1>1. CallEffect(p)
    BY AnyCallEffect DEF RecordInv
  <1>2. p.role = "node" \/ p.owner # Self.owner
    BY PlatformAssumption DEF OneController
  <1>3. ASSUME NEW v \in DOMAIN vol, vol[v].owner = Self.owner, ~vol[v].del
        PROVE  ~vol'[v].del
    <2>0. vol[v] \in Volume
      BY DEF RecordInv, IInv, TypeOK
    <2>1. CASE vol'[v] = vol[v]
      BY <1>3, <2>1
    <2>2. CASE VolumeEdit(p, v, vol'[v])
      <3>1. vol'[v] = [vol[v] EXCEPT !.allowFormat = FALSE]
        BY <1>2, <1>3, <2>2 DEF VolumeEdit
      <3>2. vol'[v].del = vol[v].del
        BY <2>0, <3>1 DEF Volume
      <3> QED
        BY <1>3, <3>2
    <2>3. CASE vol'[v] = GrantedVolume(v)
      BY <1>3, <2>0, <2>3 DEF GrantedVolume, Volume
    <2> QED
      BY <1>1, <2>1, <2>2, <2>3 DEF CallEffect
  <1>4. ASSUME NEW a \in DOMAIN att, att[a].owner = Self.owner, ~att[a].del
        PROVE  ~att'[a].del
    <2>1. CASE att'[a] = att[a]
      BY <1>4, <2>1
    <2>2. CASE AttachmentEdit(p, a, att'[a])
      BY <1>2, <1>4, <2>2 DEF AttachmentEdit
    <2> QED
      BY <1>1, <2>1, <2>2 DEF CallEffect
  <1>5. ASSUME NEW a \in DOMAIN att' \ DOMAIN att
        PROVE  att'[a].vol \in DOMAIN vol /\ vol[att'[a].vol].owner # Self.owner
    <2>1. PICK v \in DOMAIN vol, i \in InstanceID :
            CreateAttachment(p, v, i, a) /\ att'[a] = GrantedAttachment(v, i)
      BY <1>1 DEF CallEffect
    <2>2. att'[a].vol = v /\ vol[v].owner = p.owner /\ p.role = "controller"
      BY <2>1 DEF GrantedAttachment, CreateAttachment, Controller, Owned
    <2> QED
      BY <1>2, <2>2
  <1> QED
    BY <1>3, <1>4, <1>5

\* The end of one of the cluster's volumes is asked for on behalf of a claim
\* that was released (controller.go:103-114).
LEMMA EndOfVolume ==
  ASSUME RecordInv, CsiInv, OneController, [CsiNext]_csiVars,
         NEW v \in DOMAIN vol, Owned(Self, v), ~vol[v].del, vol'[v].del
  PROVE  \E n \in Name :
           claim[n].phase \in {"released", "gone"} /\ claim[n].id = v
  <1>1. CASE \E q : SentFor(q) /\ Accepted(q)
    BY <1>1, AcceptedDeletes DEF SentFor, RecordInv, IInv
  <1>2. CASE \E p \in Principal \ {Self} : CallBy(p)
    BY <1>2, OthersKeepOut DEF Owned
  <1>3. CASE vol' = vol \/ vol' = wvol
    BY <1>3, Fields DEF RecordInv, SameIntent
  <1> QED
    BY <1>1, <1>2, <1>3, CsiStepKinds, PassTables

\* The end of one of the cluster's attachments is asked for on behalf of a
\* VolumeAttachment that was withdrawn (controller.go:144-155).
LEMMA EndOfAttachment ==
  ASSUME RecordInv, CsiInv, OneController, "unpublish" \notin Losable,
         [CsiNext]_csiVars,
         NEW a \in DOMAIN att, Owned(Self, att[a].vol), ~att[a].del, att'[a].del
  PROVE  va[att[a].vol][att[a].inst].phase = "ending"
  <1>1. CASE \E q : SentFor(q) /\ Accepted(q)
    BY <1>1, AcceptedDetaches DEF SentFor, RecordInv, IInv
  <1>2. CASE \E p \in Principal \ {Self} : CallBy(p)
    BY <1>2, OthersKeepOut DEF Owned, RecordInv, OneScope
  <1>3. CASE att' = att \/ att' = watt
    BY <1>3, Fields DEF RecordInv, SameClaim
  <1> QED
    BY <1>1, <1>2, <1>3, CsiStepKinds, PassTables

\* An attachment of one of the cluster's volumes is made on behalf of a
\* VolumeAttachment that is wanted (controller.go:116-142).
LEMMA StartOfAttachment ==
  ASSUME RecordInv, CsiInv, OneController, "publish" \notin Losable,
         [CsiNext]_csiVars,
         NEW a \in DOMAIN att', a \notin DOMAIN att,
         att'[a].vol \in DOMAIN vol, Owned(Self, att'[a].vol)
  PROVE  va[att'[a].vol][att'[a].inst].phase = "wanted"
  <1>1. CASE \E q : SentFor(q) /\ Accepted(q)
    BY <1>1, AcceptedAttaches DEF SentFor, RecordInv, IInv
  <1>2. CASE \E p \in Principal \ {Self} : CallBy(p)
    BY <1>2, OthersKeepOut DEF Owned
  <1>3. CASE att' = att \/ att' = watt
    BY <1>3 DEF RecordInv, IInv, TypeOK
  <1> QED
    BY <1>1, <1>2, <1>3, CsiStepKinds, PassTables

(***************************************************************************)
(* What the objects of the sidecars go through.                            *)
(***************************************************************************)
\* A step writes one object at most.
LEMMA ObjectWrites ==
  ASSUME [CsiNext]_csiVars
  PROVE  /\ claim' = claim \/ \E n \in Name : \E rec : SetClaim(n, rec)
         /\ \/ va' = va
            \/ \E v \in VolumeID, i \in InstanceID : \E rec : SetVA(v, i, rec)
  <1>1. ASSUME NEW n \in Name, NEW rec, SetClaim(n, rec)
        PROVE  va' = va
    BY <1>1 DEF SetClaim
  <1>2. ASSUME NEW v \in VolumeID, NEW i \in InstanceID, NEW rec, SetVA(v, i, rec)
        PROVE  claim' = claim
    BY <1>2 DEF SetVA
  <1>3. CASE UserStep
    BY <1>1, <1>2, <1>3 DEF UserStep, RequestVolume, Reschedule, Grow, ReleaseClaim,
                            WantAttachment, Withdraw
  <1>4. CASE \E n \in Name : ClaimStep(n)
    BY <1>1, <1>4 DEF ClaimStep, Pend, csi, CreateOK, ExpandOK, DeleteOK
  <1>5. CASE \E v \in VolumeID, i \in InstanceID : VAStep(v, i)
    BY <1>2, <1>5 DEF VAStep, Pend, csi, PublishOK, UnpublishOK
  <1>6. CASE \/ \E q \in Calls : TimeOut(q)
             \/ \E q \in late : Deliver(q)
             \/ PassStep \/ NodeStep \/ (TroubleStep /\ UNCHANGED csi)
             \/ UNCHANGED csiVars
    BY <1>6 DEF TimeOut, Deliver, PassStep, NodeStep, csi, csiVars
  <1> QED
    BY <1>3, <1>4, <1>5, <1>6 DEF CsiNext

\* How a step may move a claim (the fields of the new object).
AskedAgain(n) ==
  /\ claim[n].phase \in {"none", "wanted"}
  /\ claim'[n].phase = "wanted"
  /\ claim'[n].req \in Wants[n] /\ claim'[n].size \in 1 .. MaxSize
Kept(n) ==
  /\ claim'[n].id = claim[n].id /\ claim'[n].req = claim[n].req
GrownOrReleased(n) ==
  /\ claim[n].phase = "bound" /\ claim'[n].phase \in {"bound", "released"}
  /\ Kept(n) /\ claim'[n].told = claim[n].told
  /\ claim'[n].size \in 1 .. MaxSize
Bound(n, v) ==
  /\ claim[n].phase = "wanted" /\ claim'[n].phase = "bound"
  /\ claim'[n].req = claim[n].req /\ claim'[n].size = claim[n].size
  /\ claim'[n].id = v /\ claim'[n].told = vol[v].size
  /\ Owned(Self, v) /\ vol[v].name = n
  /\ Asks(CreateCall(n).req) /\ SameConfiguration(v, CreateCall(n).req)
  /\ Provisioned(v) /\ UNCHANGED vars
Expanded(n) ==
  /\ claim[n].phase = "bound" /\ claim'[n].phase = "bound"
  /\ Kept(n) /\ claim'[n].size = claim[n].size
  /\ claim'[n].told = claim[n].size
  /\ Grown(claim[n].id, claim[n].size)
  /\ ResizeVolume(Self, claim[n].id, claim[n].size)
Ended(n) ==
  /\ claim[n].phase = "released" /\ claim'[n].phase = "gone"
  /\ Kept(n) /\ claim'[n].told = claim[n].told
  /\ Deleted(claim[n].id)
ClaimMove(n) ==
  /\ claim'[n] \in Claim
  /\ \/ claim'[n] = claim[n]
     \/ AskedAgain(n) \/ GrownOrReleased(n) \/ Expanded(n) \/ Ended(n)
     \/ \E v \in DOMAIN vol : Bound(n, v)

\* Which action it was.
LEMMA ClaimSteps ==
  ASSUME claim \in [Name -> Claim], [CsiNext]_csiVars, NEW n \in Name
  PROVE  \/ claim'[n] = claim[n]
         \/ \E r \in Wants[n], size \in 1 .. MaxSize : RequestVolume(n, r, size)
         \/ \E r \in Wants[n] : Reschedule(n, r)
         \/ \E size \in 1 .. MaxSize : Grow(n, size)
         \/ ReleaseClaim(n) \/ CreateOK(n) \/ ExpandOK(n) \/ DeleteOK(n)
  <1>1. ASSUME NEW m \in Name, NEW rec, SetClaim(m, rec)
        PROVE  m # n => claim'[n] = claim[n]
    BY <1>1 DEF SetClaim
  <1>2. CASE UserStep
    <2>1. CASE \E v \in VolumeID, i \in InstanceID :
                 WantAttachment(v, i) \/ Withdraw(v, i)
      BY <2>1 DEF WantAttachment, Withdraw, SetVA
    <2>2. ASSUME NEW m \in Name,
                 \/ \E r \in Wants[m], size \in 1 .. MaxSize : RequestVolume(m, r, size)
                 \/ \E r \in Wants[m] : Reschedule(m, r)
                 \/ \E size \in 1 .. MaxSize : Grow(m, size)
                 \/ ReleaseClaim(m)
          PROVE  m # n => claim'[n] = claim[n]
      BY <1>1, <2>2 DEF RequestVolume, Reschedule, Grow, ReleaseClaim
    <2> QED
      BY <1>2, <2>1, <2>2 DEF UserStep
  <1>3. ASSUME NEW m \in Name, ClaimStep(m)
        PROVE  \/ claim'[n] = claim[n]
               \/ m = n /\ (CreateOK(m) \/ ExpandOK(m) \/ DeleteOK(m))
    <2>1. CASE \E q \in ClaimCalls(m) : Pend(q)
      BY <2>1 DEF Pend, csi
    <2>2. CASE CreateOK(m) \/ ExpandOK(m) \/ DeleteOK(m)
      <3>1. PICK rec : SetClaim(m, rec)
        BY <2>2 DEF CreateOK, ExpandOK, DeleteOK
      <3> QED
        BY <1>1, <2>2, <3>1
    <2> QED
      BY <1>3, <2>1, <2>2 DEF ClaimStep
  <1>4. CASE \E v \in VolumeID, i \in InstanceID : VAStep(v, i)
    BY <1>4 DEF VAStep, Pend, csi, PublishOK, UnpublishOK, SetVA
  <1>5. CASE \/ \E q \in Calls : TimeOut(q)
             \/ \E q \in late : Deliver(q)
             \/ PassStep \/ NodeStep \/ (TroubleStep /\ UNCHANGED csi)
             \/ UNCHANGED csiVars
    BY <1>5 DEF TimeOut, Deliver, PassStep, NodeStep, csi, csiVars
  <1> QED
    BY <1>2, <1>3, <1>4, <1>5 DEF CsiNext

\* What the action does to the claim.
LEMMA ClaimMoves ==
  ASSUME RecordInv, CsiInv, [CsiNext]_csiVars, NEW n \in Name
  PROVE  ClaimMove(n)
  <1>0. /\ claim[n] \in Claim /\ claim \in [Name -> Claim]
        /\ \A r \in Wants[n] : r \in (UNION {Wants[m] : m \in Name}) \cup {None}
    BY DEF CsiInv, CsiTypeOK
  <1>1. CASE claim'[n] = claim[n]
    BY <1>0, <1>1 DEF ClaimMove
  <1>2. ASSUME NEW r \in Wants[n], NEW size \in 1 .. MaxSize, RequestVolume(n, r, size)
        PROVE  ClaimMove(n)
    <2>1. claim'[n] = [phase |-> "wanted", id |-> None, req |-> r,
                       size |-> size, told |-> 0]
      BY <1>0, <1>2 DEF RequestVolume, SetClaim, Unclaimed
    <2>2. claim'[n] \in Claim
      BY <1>0, <2>1, ProviderAssumption DEF Claim, ClaimPhase
    <2>3. AskedAgain(n)
      BY <1>2, <2>1 DEF RequestVolume, AskedAgain
    <2> QED
      BY <2>2, <2>3 DEF ClaimMove
  <1>3. ASSUME NEW r \in Wants[n], Reschedule(n, r)
        PROVE  ClaimMove(n)
    <2>1. claim'[n] = [claim[n] EXCEPT !.req = r] /\ claim[n].phase = "wanted"
      BY <1>0, <1>3 DEF Reschedule, SetClaim
    <2>2. claim'[n] \in Claim
      BY <1>0, <2>1 DEF Claim
    <2>3. claim'[n].req = r /\ claim'[n].size = claim[n].size
          /\ claim'[n].phase = claim[n].phase
      BY <1>0, <2>1 DEF Claim
    <2>4. claim[n].size \in 1 .. MaxSize
      BY <2>1 DEF CsiInv, ClaimOK
    <2> QED
      BY <2>1, <2>2, <2>3, <2>4 DEF ClaimMove, AskedAgain
  <1>4. ASSUME NEW size \in 1 .. MaxSize, Grow(n, size)
        PROVE  ClaimMove(n)
    <2>1. claim'[n] = [claim[n] EXCEPT !.size = size] /\ claim[n].phase = "bound"
      BY <1>0, <1>4 DEF Grow, SetClaim
    <2>2. claim'[n] \in Claim
      BY <1>0, <2>1, ProviderAssumption DEF Claim
    <2>3. /\ claim'[n].id = claim[n].id /\ claim'[n].req = claim[n].req
          /\ claim'[n].told = claim[n].told /\ claim'[n].phase = claim[n].phase
          /\ claim'[n].size = size
      BY <1>0, <2>1 DEF Claim
    <2> QED
      BY <2>1, <2>2, <2>3 DEF ClaimMove, GrownOrReleased, Kept
  <1>5. ASSUME ReleaseClaim(n)
        PROVE  ClaimMove(n)
    <2>1. claim'[n] = [claim[n] EXCEPT !.phase = "released"] /\ claim[n].phase = "bound"
      BY <1>0, <1>5 DEF ReleaseClaim, SetClaim
    <2>2. claim'[n] \in Claim
      BY <1>0, <2>1 DEF Claim, ClaimPhase
    <2>3. /\ claim'[n].id = claim[n].id /\ claim'[n].req = claim[n].req
          /\ claim'[n].told = claim[n].told /\ claim'[n].phase = "released"
          /\ claim'[n].size = claim[n].size
      BY <1>0, <2>1 DEF Claim
    <2>4. claim[n].size \in 1 .. MaxSize
      BY <2>1 DEF CsiInv, ClaimOK
    <2> QED
      BY <2>1, <2>2, <2>3, <2>4 DEF ClaimMove, GrownOrReleased, Kept
  <1>6. ASSUME CreateOK(n)
        PROVE  ClaimMove(n)
    <2>1. PICK v \in VolumeID :
            /\ Owned(Self, v) /\ vol[v].name = n
            /\ Asks(CreateCall(n).req) /\ SameConfiguration(v, CreateCall(n).req)
            /\ Provisioned(v) /\ UNCHANGED vars
            /\ claim[n].phase = "wanted"
            /\ SetClaim(n, [claim[n] EXCEPT !.phase = "bound", !.id = v,
                                            !.told = vol[v].size])
      BY <1>6 DEF CreateOK
    <2>2. v \in DOMAIN vol /\ vol[v].size \in 0 .. MaxSize
      BY <2>1 DEF Owned, RecordInv, IInv, TypeOK, Volume
    <2>3. claim'[n] = [claim[n] EXCEPT !.phase = "bound", !.id = v,
                                       !.told = vol[v].size]
      BY <1>0, <2>1 DEF SetClaim
    <2> DEFINE size == vol[v].size
    <2>4. size \in 0 .. MaxSize /\ claim'[n] = [claim[n] EXCEPT !.phase = "bound", !.id = v,
                                       !.told = size]
      BY <2>2, <2>3
    <2> HIDE DEF size
    <2>5. /\ claim'[n] \in Claim
          /\ claim'[n].id = v /\ claim'[n].req = claim[n].req
          /\ claim'[n].told = size /\ claim'[n].phase = "bound"
          /\ claim'[n].size = claim[n].size
      BY <1>0, <2>4, <2>1 DEF Claim, ClaimPhase
    <2> QED
      BY <2>1, <2>2, <2>5 DEF ClaimMove, Bound, size
  <1>7. ASSUME ExpandOK(n)
        PROVE  ClaimMove(n)
    <2> DEFINE size == claim[n].size
    <2>1. claim'[n] = [claim[n] EXCEPT !.told = size] /\ claim[n].phase = "bound"
          /\ size \in 0 .. MaxSize
      BY <1>0, <1>7 DEF ExpandOK, SetClaim, Claim
    <2> HIDE DEF size
    <2>2. /\ claim'[n] \in Claim
          /\ claim'[n].id = claim[n].id /\ claim'[n].req = claim[n].req
          /\ claim'[n].told = size /\ claim'[n].phase = claim[n].phase
          /\ claim'[n].size = claim[n].size
      BY <1>0, <2>1 DEF Claim
    <2> QED
      BY <1>7, <2>1, <2>2 DEF ClaimMove, Expanded, Kept, size, ExpandOK
  <1>8. ASSUME DeleteOK(n)
        PROVE  ClaimMove(n)
    <2>1. claim'[n] = [claim[n] EXCEPT !.phase = "gone"] /\ claim[n].phase = "released"
      BY <1>0, <1>8 DEF DeleteOK, SetClaim
    <2>2. /\ claim'[n] \in Claim
          /\ claim'[n].id = claim[n].id /\ claim'[n].req = claim[n].req
          /\ claim'[n].told = claim[n].told /\ claim'[n].phase = "gone"
      BY <1>0, <2>1 DEF Claim, ClaimPhase
    <2> QED
      BY <1>8, <2>1, <2>2 DEF ClaimMove, Ended, Kept, DeleteOK
  <1> QED
    BY <1>0, <1>1, <1>2, <1>3, <1>4, <1>5, <1>6, <1>7, <1>8, ClaimSteps

\* How a step may move a VolumeAttachment.
VAMove(v, i) ==
  \/ va'[v][i] = va[v][i]
  \/ va'[v][i] \in {[NoVA EXCEPT !.phase = "wanted"], [NoVA EXCEPT !.phase = "ending"]}
  \/ PublishOK(v, i) \/ UnpublishOK(v, i)

\* Which action it was.
LEMMA VAMoves ==
  ASSUME va \in [VolumeID -> [InstanceID -> VA]], [CsiNext]_csiVars,
         NEW v \in VolumeID, NEW i \in InstanceID
  PROVE  VAMove(v, i)
  <1>1. ASSUME NEW w \in VolumeID, NEW j \in InstanceID, NEW rec, SetVA(w, j, rec)
        PROVE  /\ va'[w][j] = rec
               /\ v # w \/ i # j => va'[v][i] = va[v][i]
    BY <1>1 DEF SetVA
  <1>2. CASE \E w \in VolumeID, j \in InstanceID : WantAttachment(w, j) \/ Withdraw(w, j)
    BY <1>1, <1>2 DEF WantAttachment, Withdraw, VAMove
  <1>3. CASE \E w \in VolumeID, j \in InstanceID : VAStep(w, j)
    <2>1. PICK w \in VolumeID, j \in InstanceID : VAStep(w, j)
      BY <1>3
    <2>2. CASE \E q \in VACalls(w, j) : Pend(q)
      BY <2>2 DEF Pend, csi, VAMove
    <2>3. CASE PublishOK(w, j) \/ UnpublishOK(w, j)
      <3>1. PICK rec : SetVA(w, j, rec)
        BY <2>3 DEF PublishOK, UnpublishOK
      <3> QED
        BY <1>1, <2>3, <3>1 DEF VAMove
    <2> QED
      BY <2>1, <2>2, <2>3 DEF VAStep
  <1>4. CASE va' = va
    BY <1>4 DEF VAMove
  <1>5. CASE \E n \in Name : ClaimStep(n)
    BY <1>4, <1>5 DEF ClaimStep, Pend, csi, CreateOK, ExpandOK, DeleteOK, SetClaim
  <1>6. CASE \E n \in Name :
               \/ \E r \in Wants[n], size \in 1 .. MaxSize : RequestVolume(n, r, size)
               \/ \E r \in Wants[n] : Reschedule(n, r)
               \/ \E size \in 1 .. MaxSize : Grow(n, size)
               \/ ReleaseClaim(n)
    BY <1>4, <1>6 DEF RequestVolume, Reschedule, Grow, ReleaseClaim, SetClaim
  <1>7. CASE \/ \E q \in Calls : TimeOut(q)
             \/ \E q \in late : Deliver(q)
             \/ PassStep \/ NodeStep \/ (TroubleStep /\ UNCHANGED csi)
             \/ UNCHANGED csiVars
    BY <1>4, <1>7 DEF TimeOut, Deliver, PassStep, NodeStep, csi, csiVars
  <1> QED
    BY <1>2, <1>3, <1>5, <1>6, <1>7 DEF CsiNext, UserStep

\* How a step may move the queue of late calls.
LEMMA LateMoves ==
  ASSUME [CsiNext]_csiVars
  PROVE  \/ late' = late
         \/ \E q \in late : late' = late \ {q}
         \/ \E q \in Calls :
              /\ q.op \in Losable /\ Cardinality(late) < MaxLate
              /\ late' = late \cup {q} /\ claim' = claim
  <1>1. CASE UserStep
    BY <1>1 DEF UserStep, RequestVolume, Reschedule, Grow, ReleaseClaim, SetClaim,
                WantAttachment, Withdraw, SetVA
  <1>2. CASE \E n \in Name : ClaimStep(n)
    BY <1>2 DEF ClaimStep, Pend, csi, CreateOK, ExpandOK, DeleteOK, SetClaim
  <1>3. CASE \E v \in VolumeID, i \in InstanceID : VAStep(v, i)
    BY <1>3 DEF VAStep, Pend, csi, PublishOK, UnpublishOK, SetVA
  <1>4. CASE \E q \in Calls : TimeOut(q)
    BY <1>4 DEF TimeOut
  <1>5. CASE \E q \in late : Deliver(q)
    BY <1>5 DEF Deliver
  <1>6. CASE PassStep \/ NodeStep \/ (TroubleStep /\ UNCHANGED csi) \/ UNCHANGED csiVars
    BY <1>6 DEF PassStep, NodeStep, csi, csiVars
  <1> QED
    BY <1>1, <1>2, <1>3, <1>4, <1>5, <1>6 DEF CsiNext

(***************************************************************************)
(* What the objects say of the records is inductive.                       *)
(***************************************************************************)
\* There is nothing to say at first.
LEMMA InitCsi == CsiInit => CsiInv
  <1> SUFFICES ASSUME CsiInit PROVE CsiInv
    OBVIOUS
  <1>1. Unclaimed \in Claim /\ NoVA \in VA
    <2>1. 0 \in 0 .. MaxSize
      BY ProviderAssumption
    <2>2. None \in (UNION {Wants[n] : n \in Name}) \cup {None}
      OBVIOUS
    <2>3. Unclaimed \in Claim
      BY <2>1, <2>2 DEF Unclaimed, Claim, ClaimPhase
    <2> QED
      BY <2>3 DEF NoVA, VA, VAPhase
  <1>2. \A n \in Name : claim[n].phase = "none"
    BY DEF CsiInit, Unclaimed
  <1>3. \A v \in VolumeID, i \in InstanceID :
          va[v][i].phase = "none" /\ va[v][i].att = None
    BY DEF CsiInit, NoVA
  <1>4. late = {} /\ IsFiniteSet(late) /\ Cardinality(late) = 0
    BY FS_EmptySet DEF CsiInit
  <1>5. CsiTypeOK
    BY <1>1, <1>2, <1>3, <1>4, CsiControllerAssumption DEF CsiInit, CsiTypeOK
  <1> QED
    BY <1>2, <1>3, <1>4, <1>5 DEF CsiInv, LateOK, ClaimOK, VAOK

\* The claims keep to their volumes,
LEMMA NextClaims ==
  ASSUME RecordInv, CsiInv, [Next]_vars, [CsiNext]_csiVars
  PROVE  /\ claim' \in [Name -> Claim] /\ ClaimOK'
         /\ \A n \in Name :
              claim'[n].phase \notin {"none", "wanted"} =>
                claim'[n].id \in DOMAIN vol' /\ claim'[n].told > 0
  <1> DEFINE SaysOf(n) ==
        /\ claim'[n].phase \in {"wanted", "bound"} =>
             claim'[n].req \in Wants[n] /\ claim'[n].size \in 1 .. MaxSize
        /\ claim'[n].phase \notin {"none", "wanted"} =>
             /\ claim'[n].id \in DOMAIN vol
             /\ vol[claim'[n].id].owner = Self.owner /\ vol[claim'[n].id].name = n
             /\ claim'[n].told > 0
        /\ claim'[n].phase = "gone" => vol[claim'[n].id].state = "DELETED"
  <1>1. ASSUME NEW n \in Name
        PROVE  claim'[n] \in Claim /\ SaysOf(n)
    <2>0. /\ ClaimMove(n) /\ claim[n] \in Claim
          /\ claim[n].phase \in {"wanted", "bound"} =>
               claim[n].req \in Wants[n] /\ claim[n].size \in 1 .. MaxSize
          /\ claim[n].phase \notin {"none", "wanted"} =>
               /\ claim[n].id \in DOMAIN vol
               /\ vol[claim[n].id].owner = Self.owner /\ vol[claim[n].id].name = n
               /\ claim[n].told > 0
          /\ claim[n].phase = "gone" => vol[claim[n].id].state = "DELETED"
      BY ClaimMoves DEF CsiInv, CsiTypeOK, ClaimOK, Claim, ClaimPhase, Owned, Deleted
    <2>1. CASE claim'[n] = claim[n]
      BY <2>0, <2>1
    <2>2. CASE AskedAgain(n)
      BY <2>0, <2>2 DEF AskedAgain, ClaimMove
    <2>3. CASE GrownOrReleased(n)
      BY <2>0, <2>3 DEF GrownOrReleased, Kept, ClaimMove
    <2>4. CASE Expanded(n)
      BY <2>0, <2>4, ProviderAssumption DEF Expanded, Kept, ClaimMove
    <2>5. CASE Ended(n)
      BY <2>0, <2>5 DEF Ended, Kept, ClaimMove, Deleted
    <2>6. CASE \E v \in DOMAIN vol : Bound(n, v)
      <3>1. PICK v \in DOMAIN vol : Bound(n, v)
        BY <2>6
      <3>2. vol[v].size > 0
        <4>1. vol[v] \in Volume /\ SizesOK(vol[v])
          BY DEF RecordInv, IInv, TypeOK, DiskSizes
        <4> QED
          BY <3>1, <4>1, ProviderAssumption DEF Bound, Provisioned, SizesOK, Volume
      <3> QED
        BY <2>0, <3>1, <3>2 DEF Bound, ClaimMove, Owned
    <2> QED
      BY <2>0, <2>1, <2>2, <2>3, <2>4, <2>5, <2>6 DEF ClaimMove
  <1>2. claim' \in [Name -> Claim]
    <2>0. claim \in [Name -> Claim]
      BY DEF CsiInv, CsiTypeOK
    <2>1. ASSUME NEW n \in Name, NEW rec, SetClaim(n, rec)
          PROVE  claim' \in [Name -> Claim]
      <3>1. rec = claim'[n] /\ claim' = [claim EXCEPT ![n] = rec]
        BY <2>0, <2>1 DEF SetClaim
      <3> QED
        BY <1>1, <2>0, <3>1
    <2> QED
      BY <2>0, <2>1, ObjectWrites
  <1>3. ASSUME NEW v \in DOMAIN vol
        PROVE  /\ v \in DOMAIN vol' /\ vol'[v].owner = vol[v].owner
               /\ vol'[v].name = vol[v].name
               /\ vol[v].state = "DELETED" => vol'[v].state = "DELETED"
    BY RecordsStay, VolumeOneWay
  <1>4. ClaimOK'
    BY <1>1, <1>3 DEF ClaimOK, Owned, Deleted
  <1> QED
    BY <1>1, <1>2, <1>3, <1>4

\* the VolumeAttachments to the attachments they were told of,
LEMMA NextVAs ==
  ASSUME RecordInv, CsiInv, [Next]_vars, [CsiNext]_csiVars
  PROVE  /\ va' \in [VolumeID -> [InstanceID -> VA]] /\ VAOK'
         /\ \A v \in VolumeID, i \in InstanceID :
              va'[v][i].att # None => va'[v][i].att \in DOMAIN att'
  <1> DEFINE SaysOf(v, i) ==
        /\ va'[v][i].phase = "attached" =>
             /\ v \in DOMAIN vol /\ vol[v].owner = Self.owner
             /\ va'[v][i].att \in DOMAIN att
             /\ att[va'[v][i].att].vol = v /\ att[va'[v][i].att].inst = i
             /\ att[va'[v][i].att].gen = va'[v][i].gen
        /\ va'[v][i].att # None => va'[v][i].att \in DOMAIN att
  <1>0. va \in [VolumeID -> [InstanceID -> VA]]
    BY DEF CsiInv, CsiTypeOK
  <1>1. ASSUME NEW v \in VolumeID, NEW i \in InstanceID
        PROVE  va'[v][i] \in VA /\ SaysOf(v, i)
    <2>0. VAMove(v, i)
      BY <1>0, VAMoves
    <2>1. CASE va'[v][i] = va[v][i]
      BY <1>0, <2>1 DEF CsiInv, CsiTypeOK, VAOK, Owned
    <2>2. CASE va'[v][i] \in {[NoVA EXCEPT !.phase = "wanted"],
                              [NoVA EXCEPT !.phase = "ending"]}
      BY <2>2 DEF NoVA, VA, VAPhase
    <2>3. CASE PublishOK(v, i)
      <3>1. PICK a \in DOMAIN att :
              /\ att[a].vol = v /\ att[a].inst = i /\ Owned(Self, v)
              /\ SetVA(v, i, [phase |-> "attached", att |-> a, gen |-> att[a].gen])
        BY <2>3 DEF PublishOK
      <3>2. va'[v][i] = [phase |-> "attached", att |-> a, gen |-> att[a].gen]
        BY <1>0, <3>1 DEF SetVA
      <3>3. a \in AttachmentID /\ att[a].gen \in Nat
        BY DEF RecordInv, IInv, TypeOK, Attachment
      <3> QED
        BY <3>1, <3>2, <3>3 DEF VA, VAPhase, Owned
    <2>4. CASE UnpublishOK(v, i)
      <3>1. va'[v][i] = NoVA
        BY <1>0, <2>4 DEF UnpublishOK, SetVA
      <3> QED
        BY <3>1 DEF NoVA, VA, VAPhase
    <2> QED
      BY <2>0, <2>1, <2>2, <2>3, <2>4 DEF VAMove
  <1>2. va' \in [VolumeID -> [InstanceID -> VA]]
    <2>1. ASSUME NEW v \in VolumeID, NEW i \in InstanceID, NEW rec, SetVA(v, i, rec)
          PROVE  va' \in [VolumeID -> [InstanceID -> VA]]
      <3>1. rec = va'[v][i] /\ va' = [va EXCEPT ![v][i] = rec]
        BY <1>0, <2>1 DEF SetVA
      <3>2. rec \in VA
        BY <1>1, <3>1
      <3> QED
        BY <1>0, <3>1, <3>2
    <2> QED
      BY <1>0, <2>1, ObjectWrites
  <1>3. VAOK'
    BY <1>1, RecordsStay DEF VAOK, Owned
  <1>4. ASSUME NEW v \in VolumeID, NEW i \in InstanceID, va'[v][i].att # None
        PROVE  va'[v][i].att \in DOMAIN att'
    BY <1>1, <1>4, RecordsStay
  <1> QED
    BY <1>2, <1>3, <1>4

\* and the late calls to what they were sent for.
LEMMA NextLate ==
  ASSUME RecordInv, CsiInv, [CsiNext]_csiVars
  PROVE  /\ LateOK' /\ Cardinality(late)' <= MaxLate
         /\ \A q \in late' : q.op \in Losable
  <1>1. /\ IsFiniteSet(late) /\ Cardinality(late) <= MaxLate /\ MaxLate \in Nat
        /\ Cardinality(late) \in Nat
    BY CsiControllerAssumption, FS_CardinalityType DEF CsiInv, CsiTypeOK, LateOK
  <1>2. /\ IsFiniteSet(late)' /\ Cardinality(late)' <= MaxLate
        /\ late' \subseteq late \cup {q \in Calls : q.op \in Losable}
    <2>1. CASE late' = late
      BY <1>1, <2>1
    <2>2. CASE \E q \in late : late' = late \ {q}
      <3>1. PICK q \in late : late' = late \ {q}
        BY <2>2
      <3>2. IsFiniteSet(late \ {q}) /\ Cardinality(late \ {q}) = Cardinality(late) - 1
        BY <1>1, FS_RemoveElement
      <3> QED
        BY <1>1, <3>1, <3>2
    <2>3. CASE \E q \in Calls :
                 /\ q.op \in Losable /\ Cardinality(late) < MaxLate
                 /\ late' = late \cup {q}
      <3>1. PICK q \in Calls : /\ q.op \in Losable /\ Cardinality(late) < MaxLate
                               /\ late' = late \cup {q}
        BY <2>3
      <3>2. /\ IsFiniteSet(late \cup {q})
            /\ \/ Cardinality(late \cup {q}) = Cardinality(late)
               \/ Cardinality(late \cup {q}) = Cardinality(late) + 1
        BY <1>1, FS_AddElement
      <3> QED
        BY <1>1, <3>1, <3>2
    <2> QED
      BY <2>1, <2>2, <2>3, LateMoves
  <1>3. ASSUME NEW q \in late'
        PROVE  q.op \in Losable /\ SentFor(q)
    BY <1>2, CallsAreSent, LateIsSent DEF CsiInv, CsiTypeOK
  <1>4. ASSUME NEW n \in Name, claim[n].phase \in {"released", "gone"}
        PROVE  claim'[n].phase \in {"released", "gone"} /\ claim'[n].id = claim[n].id
    BY <1>4, ClaimMoves
       DEF ClaimMove, AskedAgain, GrownOrReleased, Expanded, Ended, Bound, Kept
  <1>5. ASSUME NEW q \in late'
        PROVE  /\ q.op = "create" => q.name \in Name
               /\ q.op = "unpublish" => q.inst # None
               /\ q.op = "delete" =>
                    \E n \in Name : /\ claim'[n].phase \in {"released", "gone"}
                                    /\ claim'[n].id = q.vol
    BY <1>3, <1>4 DEF SentFor
  <1> QED
    BY <1>2, <1>3, <1>5 DEF LateOK

\* Together: every step keeps the invariant.
LEMMA NextCsi ==
  ASSUME RecordInv, CsiInv, [CsiNext]_csiVars
  PROVE  CsiInv'
  <1>1. [Next]_vars
    BY CsiStepIsPlatformStep DEF RecordInv, IInv
  <1>2. CsiTypeOK'
    BY <1>1, NextClaims, NextVAs, NextLate DEF CsiTypeOK
  <1> QED
    BY <1>1, <1>2, NextClaims, NextVAs, NextLate DEF CsiInv

\* What the objects say of the records is so in every state.
LEMMA ObjectsInductive == CsiSpec => [](RecordInv /\ CsiInv)
  <1>1. CsiInit => RecordInv /\ CsiInv
    BY InitCsi, InitRecords DEF CsiInit
  <1>2. ASSUME RecordInv, CsiInv, [CsiNext]_csiVars
        PROVE  RecordInv' /\ CsiInv'
    BY <1>2, NextCsi, CsiStepIsPlatformStep, NextRecords DEF RecordInv, IInv
  <1> QED
    BY <1>1, <1>2, PTL DEF CsiSpec

\* The controller and its sidecars ask of the platform only what Platform
\* allows a caller, late or not: every theorem about the platform holds with
\* them (controller.go:97-187).
THEOREM CsiImplementsPlatform == CsiSpec => Spec
  <1>1. CsiInit => Init
    BY DEF CsiInit
  <1>2. RecordInv /\ CsiInv /\ [CsiNext]_csiVars => [Next]_vars
    BY CsiStepIsPlatformStep DEF RecordInv, IInv
  <1> QED
    BY <1>1, <1>2, ObjectsInductive, PTL DEF CsiSpec, Spec

\* The objects of the sidecars say what is so of the records, in every state,
\* and so do the calls that are still on their way (controller.go:97-187).
THEOREM CsiInvHolds == CsiSpec => []CsiInv
  <1>1. RecordInv /\ CsiInv => CsiInv
    OBVIOUS
  <1> QED
    BY <1>1, ObjectsInductive, PTL

(***************************************************************************)
(* What an OK promises.                                                    *)
(***************************************************************************)
\* A claim that is gone leaves no volume and no disk behind, and a call that
\* is executed afterwards makes none, whatever may be late and whatever the
\* cloud does (controller.go:103-114, engine.go:109).
THEOREM GoneStaysGone == CsiSpec => []GoneIsGone
  <1>1. ASSUME RecordInv, CsiInv, NamesUnique
        PROVE  GoneIsGone
    <2>1. ASSUME NEW n \in Name, claim[n].phase = "gone",
                 NEW v \in DOMAIN vol, Owned(Self, v), vol[v].name = n
          PROVE  Deleted(v) /\ ~Exists(v)
      <3>1. /\ Owned(Self, claim[n].id) /\ vol[claim[n].id].name = n
            /\ Deleted(claim[n].id)
        BY <1>1, <2>1 DEF CsiInv, ClaimOK
      <3>2. claim[n].id = v
        BY <1>1, <2>1, <3>1 DEF NamesUnique, Owned
      <3> QED
        BY <1>1, <3>1, <3>2 DEF RecordInv, IInv, CloudFollows, Deleted
    <2> QED
      BY <2>1 DEF GoneIsGone
  <1> QED
    BY <1>1, ObjectsInductive, CsiImplementsPlatform, NamesStayUnique, PTL

\* A volume whose end was not asked for keeps its disk.
LEMMA DiskIsKept ==
  ASSUME Troubles \cap {"drift", "window"} = {}, RecordInv, [Next]_vars,
         NEW v \in DOMAIN vol, ~vol[v].del, Exists(v)
  PROVE  Exists(v)'
  <1>1. wvol[v].del = vol[v].del
    BY Fields DEF RecordInv, SameIntent
  <1>2. CASE \E p \in Principal : CallBy(p)
    BY <1>2, AnyCallEffect DEF RecordInv, CallEffect, Exists
  <1>3. CASE \E w \in VolumeID : VolumeVisitEffect(w)
    BY <1>1, <1>3 DEF VolumeVisitEffect, DiskStep, Exists
  <1>4. CASE \E a \in AttachmentID : AttachmentVisitEffect(a)
    BY <1>4 DEF AttachmentVisitEffect, Exists
  <1>5. CASE BeginReconcile \/ VolumesDone \/ CommitReconcile \/ UNCHANGED vars
    BY <1>5 DEF BeginReconcile, VolumesDone, CommitReconcile, vars, Exists
  <1>6. CASE TroubleStep
    BY <1>6 DEF TroubleStep, Crash, RestartWithRegistry, Rollback, Drift, Suffer, Exists
  <1> QED
    BY <1>2, <1>3, <1>4, <1>5, <1>6, StepKinds DEF RecordInv

\* What CreateVolume confirms: the request answered, at whatever size it is
\* repeated, lets its Pod run where the volume is.
LEMMA BoundIsReachable ==
  ASSUME NEW n \in Name, claim[n] \in Claim, claim[n].req \in Wants[n],
         NEW v, Asks(CreateCall(n).req), SameConfiguration(v, CreateCall(n).req)
  PROVE  Reachable(claim[n].req, vol[v].zone)
  <1> DEFINE r == claim[n].req
             s == [r EXCEPT !.required = claim[n].size]
  <1>1. r \in Request /\ claim[n].size \in Nat
    BY CsiControllerAssumption, ProviderAssumption DEF Claim
  <1>2. s \in Request /\ s.requisite = r.requisite
    BY <1>1 DEF Request
  <1>3. HasPlace(s) /\ vol[v].zone = Place(s)
    BY DEF CreateCall, Asks, SameConfiguration
  <1> HIDE DEF r, s
  <1>4. Reachable(s, vol[v].zone)
    BY <1>2, <1>3, PlaceIsReachable
  <1>5. Reachable(r, vol[v].zone)
    BY <1>2, <1>4 DEF Reachable
  <1> QED
    BY <1>5 DEF r

\* A volume backs what a bound claim was told.
Backs(v, n, r, told) ==
  /\ Owned(Self, v) /\ vol[v].name = n /\ ~vol[v].del
  /\ Reachable(r, vol[v].zone)
  /\ Exists(v) /\ disk[v].size >= told
PromiseOf(n) == Backs(claim[n].id, n, claim[n].req, claim[n].told)

\* What is confirmed is so.
LEMMA ConfirmedIsBacked ==
  ASSUME RecordInv, CsiInv, DiskStays, PromiseKept, NEW n \in Name,
         ClaimMove(n), claim'[n].phase = "bound"
  PROVE  /\ Backs(claim'[n].id, n, claim'[n].req, claim'[n].told)
         /\ claim'[n].told \in Nat
         /\ claim[n].phase \in {"wanted", "bound"}
  <1>0. claim[n] \in Claim /\ claim'[n] \in Claim /\ claim'[n].told \in Nat
    BY ProviderAssumption DEF CsiInv, CsiTypeOK, ClaimMove, Claim
  <1>1. claim[n].phase = "bound" => PromiseOf(n)
    BY DEF PromiseKept, PromiseOf, Backs
  <1>2. ASSUME NEW v, Owned(Self, v), Exists(v)
        PROVE  /\ vol[v].size <= disk[v].size
               /\ disk[v].size \in Nat /\ vol[v].size \in Nat
    BY <1>2, Fields DEF RecordInv, DiskSizes, Exists, Owned
  <1>3. CASE claim'[n] = claim[n] \/ GrownOrReleased(n)
    BY <1>0, <1>1, <1>3 DEF GrownOrReleased, Kept, PromiseOf
  <1>4. CASE Expanded(n)
    <2>1. PromiseOf(n) /\ vol[claim[n].id].size >= claim[n].size
      BY <1>1, <1>4 DEF Expanded, Grown
    <2>2. disk[claim[n].id].size >= claim[n].size
      BY <1>0, <1>2, <2>1, ProviderAssumption DEF PromiseOf, Backs, Claim
    <2> QED
      BY <1>0, <1>4, <2>1, <2>2 DEF Expanded, Kept, PromiseOf, Backs
  <1>5. CASE \E v \in DOMAIN vol : Bound(n, v)
    <2>1. PICK v \in DOMAIN vol : Bound(n, v)
      BY <1>5
    <2>2. Owned(Self, v) /\ vol[v].name = n /\ ~vol[v].del
      BY <2>1 DEF Bound, SameConfiguration
    <2>3. Reachable(claim[n].req, vol[v].zone)
      BY <1>0, <2>1, BoundIsReachable DEF Bound, CsiInv, ClaimOK
    <2>4. Exists(v)
      BY <2>1, <2>2 DEF Bound, Provisioned, DiskStays
    <2> QED
      BY <1>0, <1>2, <2>1, <2>2, <2>3, <2>4 DEF Bound, Backs
  <1> QED
    BY <1>0, <1>3, <1>4, <1>5 DEF ClaimMove, AskedAgain, Ended

\* What backs a claim goes on to do so, until the end of its volume is asked
\* for on behalf of a claim.
LEMMA BackedStays ==
  ASSUME OneController, Troubles \cap {"drift", "window"} = {},
         RecordInv, CsiInv, RecordInv', [CsiNext]_csiVars,
         NEW v, NEW n, NEW r, NEW told \in Nat, Backs(v, n, r, told),
         \A m \in Name :
           claim[m].phase \in {"released", "gone"} => claim[m].id # v
  PROVE  Backs(v, n, r, told)'
  <1>0. [Next]_vars /\ v \in DOMAIN vol
    BY CsiStepIsPlatformStep DEF RecordInv, IInv, Backs, Owned
  <1>1. /\ v \in DOMAIN vol' /\ vol'[v].owner = vol[v].owner
        /\ vol'[v].name = vol[v].name /\ vol'[v].zone = vol[v].zone
    BY <1>0, RecordsStay
  <1>2. ~vol'[v].del
    BY <1>0, EndOfVolume DEF Backs
  <1>3. v \in DOMAIN disk /\ v \in DOMAIN disk'
    BY <1>0, DiskIsKept DEF Backs, Exists
  <1>4. disk[v].size <= disk'[v].size
    BY <1>0, <1>3, DiskKeepsSize
  <1>5. disk[v].size \in Nat /\ disk'[v].size \in Nat
    <2>1. disk[v] \in Disk /\ disk'[v] \in Disk
      BY <1>3 DEF RecordInv, IInv, TypeOK, ProviderTypeOK
    <2> QED
      BY <2>1, ProviderAssumption DEF Disk
  <1>6. disk'[v].size >= told
    BY <1>4, <1>5 DEF Backs
  <1> QED
    BY <1>1, <1>2, <1>3, <1>6 DEF Backs, Owned, Exists

\* What CreateVolume and ControllerExpandVolume confirmed is there for as
\* long as the claim is bound (controller.go:97-101, 184-187), whatever calls
\* of other claims, late ones included, passes and crashes come between.
THEOREM PromisesAreKept ==
  ASSUME OneController, Troubles \cap {"drift", "window"} = {}
  PROVE  CsiSpec => []PromiseKept
  <1>1. CsiInit => PromiseKept
    BY DEF CsiInit, Unclaimed, PromiseKept
  <1>2. ASSUME RecordInv, CsiInv, DiskStays, PromiseKept, RecordInv',
               [CsiNext]_csiVars
        PROVE  PromiseKept'
    <2>1. ASSUME NEW n \in Name, claim'[n].phase = "bound"
          PROVE  PromiseOf(n)'
      <3>1. PICK v, r, told :
              /\ v = claim'[n].id /\ r = claim'[n].req /\ told = claim'[n].told
        OBVIOUS
      <3>2. /\ Backs(v, n, r, told) /\ told \in Nat
            /\ claim[n].phase \in {"wanted", "bound"}
        BY <1>2, <2>1, <3>1, ClaimMoves, ConfirmedIsBacked
      <3>3. ASSUME NEW m \in Name, claim[m].phase \in {"released", "gone"}
            PROVE  claim[m].id # v
        BY <1>2, <3>2, <3>3 DEF CsiInv, ClaimOK, Backs
      <3>4. Backs(v, n, r, told)'
        BY <1>2, <3>2, <3>3, BackedStays
      <3> QED
        BY <3>1, <3>4 DEF PromiseOf, Backs
    <2> QED
      BY <2>1 DEF PromiseKept, PromiseOf, Backs
  <1> QED
    BY <1>1, <1>2, ObjectsInductive, CsiImplementsPlatform, DisksStay, PTL DEF CsiSpec

\* The attachment of a publish context is open and its VM has the disk.
Serves(a, v) == a \in DOMAIN att /\ ~att[a].del /\ AttachedTo(v, a)

\* That is all there is to say: the rest follows from the order of the
\* generations and from what the cloud attaches.
LEMMA ServedIsEnough ==
  ASSUME RecordInv, CsiInv, NEW v \in VolumeID, NEW i \in InstanceID,
         va[v][i].phase = "attached", Serves(va[v][i].att, v)
  PROVE  LET a == va[v][i].att
         IN /\ att[a].vol = v /\ att[a].inst = i
            /\ att[a].gen = va[v][i].gen /\ vol[v].gen = va[v][i].gen
            /\ IsLive(a) /\ ~att[a].del
            /\ HeldBy(v, i, a)
  <1> DEFINE a == va[v][i].att
  <1>1. /\ a \in DOMAIN att /\ att[a].vol = v /\ att[a].inst = i
        /\ att[a].gen = va[v][i].gen
    BY DEF CsiInv, VAOK
  <1> HIDE DEF a
  <1>2. ~att[a].del /\ AttachedTo(v, a)
    BY DEF Serves, a
  <1>3. IsLive(a)
    BY <1>1, <1>2 DEF RecordInv, IInv, StatesOK, AttachmentStateOK, IsLive
  <1>4. vol[v].gen = va[v][i].gen
    BY <1>1, <1>3 DEF RecordInv, IInv, GenerationOrder
  <1>5. HeldBy(v, i, a)
    BY <1>1, <1>2, <1>3, ProviderAssumption
       DEF RecordInv, IInv, CloudFollows, HeldBy, AttachedTo, Attached, Exists,
           TypeOK
  <1> QED
    BY <1>1, <1>2, <1>3, <1>4, <1>5 DEF a

\* An OK of ControllerPublishVolume holds until the VolumeAttachment is
\* withdrawn (controller.go:138-142): no pass, crash or call of anybody else
\* takes the disk away or the attachment down.
THEOREM AttachmentsAreServed ==
  ASSUME OneController, Troubles \cap {"drift", "window"} = {},
         "unpublish" \notin Losable
  PROVE  CsiSpec => []AttachedIsServed
  <1> DEFINE AllServed == \A v \in VolumeID, i \in InstanceID :
               va[v][i].phase = "attached" => Serves(va[v][i].att, v)
  <1>1. CsiInit => AllServed
    BY DEF CsiInit, NoVA
  <1>2. ASSUME RecordInv, CsiInv, ConfirmedIsHeld, AllServed, [CsiNext]_csiVars
        PROVE  AllServed'
    <2>0. [Next]_vars
      BY <1>2, CsiStepIsPlatformStep DEF RecordInv, IInv
    <2>1. ASSUME NEW v \in VolumeID, NEW i \in InstanceID,
                 va'[v][i].phase = "attached"
          PROVE  Serves(va[v][i].att, v)'
      <3>0. VAMove(v, i)
        BY <1>2, VAMoves DEF CsiInv, CsiTypeOK
      <3>1. ASSUME va'[v][i] = va[v][i]
            PROVE  Serves(va[v][i].att, v)'
        <4>1. PICK a : a = va[v][i].att
          OBVIOUS
        <4>2. /\ Serves(a, v) /\ Owned(Self, v)
              /\ att[a].vol = v /\ att[a].inst = i /\ va[v][i].phase = "attached"
          BY <1>2, <2>1, <3>1, <4>1 DEF CsiInv, VAOK
        <4>3. a \in DOMAIN att' /\ ~att'[a].del
          BY <1>2, <2>0, <4>2, RecordsStay, EndOfAttachment DEF Serves
        <4>4. ~LosesDisk(v)
          <5>1. ~Drift(v)
            BY DEF Drift, Suffer
          <5>2. disk[v].att = a
            BY <4>2 DEF Serves, AttachedTo, Exists
          <5> QED
            BY <1>2, <2>0, <4>2, <5>1, <5>2, StepLoses
               DEF RecordInv, IInv, MayLose, Serves
        <4>5. AttachedTo(v, a)'
          <5>1. v \in DOMAIN disk /\ disk[v].att = a /\ a # None
            BY <1>2, <4>2, ProviderAssumption
               DEF Serves, AttachedTo, Exists, RecordInv, IInv, TypeOK
          <5>2. disk[v].inst # None
            BY <1>2, <5>1 DEF RecordInv, IInv, CloudFollows
          <5>3. v \in DOMAIN disk' /\ disk'[v].att = a
            BY <4>4, <5>1, <5>2 DEF LosesDisk, Attached, Exists
          <5> QED
            BY <5>3 DEF AttachedTo, Exists
        <4> QED
          BY <3>1, <4>1, <4>3, <4>5 DEF Serves
      <3>2. ASSUME PublishOK(v, i)
            PROVE  Serves(va[v][i].att, v)'
        <4>1. PICK a \in DOMAIN att :
                /\ att[a].vol = v /\ ~att[a].del /\ AttachConfirmed(a)
                /\ SetVA(v, i, [phase |-> "attached", att |-> a, gen |-> att[a].gen])
                /\ UNCHANGED vars
          BY <3>2 DEF PublishOK
        <4>2. va'[v][i].att = a
          BY <1>2, <4>1 DEF SetVA, CsiInv, CsiTypeOK
        <4>3. AttachedTo(v, a)
          BY <1>2, <4>1 DEF ConfirmedIsHeld, Confirmed, AttachConfirmed
        <4> QED
          BY <4>1, <4>2, <4>3 DEF Serves, AttachedTo, Exists, vars
      <3> QED
        BY <1>2, <2>1, <3>0, <3>1, <3>2
           DEF VAMove, NoVA, UnpublishOK, SetVA, CsiInv, CsiTypeOK
    <2> QED
      BY <2>1
  <1>3. RecordInv /\ CsiInv /\ AllServed => AttachedIsServed
    BY ServedIsEnough DEF AttachedIsServed
  <1> QED
    BY <1>1, <1>2, <1>3, ObjectsInductive, CsiImplementsPlatform, ConfirmedStays, PTL
       DEF CsiSpec

\* The live attachment of a volume and VM is the latest of them.
LEMMA LiveIsLatest ==
  ASSUME IInv, NEW a \in DOMAIN att, IsLive(a)
  PROVE  Latest(a, att[a].vol, att[a].inst)
  BY DEF IInv, GenerationOrder, Latest, Matches

\* An attachment is made of a volume that is there.
LEMMA NewAttachmentOfVolume ==
  ASSUME RecordInv, [Next]_vars, NEW a \in DOMAIN att', a \notin DOMAIN att
  PROVE  att'[a].vol \in DOMAIN vol
  <1>1. CASE \E p \in Principal : CallBy(p) /\ CallEffect(p)
    BY <1>1 DEF CallEffect, GrantedAttachment
  <1>2. CASE att' = att \/ att' = watt
    BY <1>2 DEF RecordInv, IInv, TypeOK
  <1> QED
    BY <1>1, <1>2, TableSteps

\* What DetachedIsFree says of the tables; the cloud follows them.
NoLiveWithout ==
  \A a \in DOMAIN att :
    /\ Owned(Self, att[a].vol) /\ IsLive(a)
    => va[att[a].vol][att[a].inst].phase # "none"

\* A VM without a VolumeAttachment of one of the cluster's volumes has no
\* attachment of it, in the tables or in the cloud, whatever the cloud does
\* and whoever else calls (controller.go:144-155).
THEOREM DetachedStaysFree ==
  ASSUME OneController, "publish" \notin Losable
  PROVE  CsiSpec => []DetachedIsFree
  <1>1. CsiInit => NoLiveWithout
    BY DEF CsiInit, Init, NoEntries, NoLiveWithout
  <1>2. ASSUME RecordInv, CsiInv, NoLiveWithout, RecordInv', [CsiNext]_csiVars
        PROVE  NoLiveWithout'
    <2>0. [Next]_vars
      BY <1>2, CsiStepIsPlatformStep DEF RecordInv, IInv
    <2>1. ASSUME NEW a \in DOMAIN att', NEW v, NEW i, v = att'[a].vol, i = att'[a].inst,
                 Owned(Self, v)', IsLive(a)'
          PROVE  va'[v][i].phase # "none"
      <3>0. v \in VolumeID /\ i \in InstanceID /\ va \in [VolumeID -> [InstanceID -> VA]]
        BY <1>2, <2>1 DEF RecordInv, IInv, TypeOK, Attachment, CsiInv, CsiTypeOK
      <3>1. va[v][i].phase # "none"
        <4>1. CASE a \in DOMAIN att
          <5>1. /\ att[a].vol = v /\ att[a].inst = i /\ IsLive(a)
                /\ v \in DOMAIN vol
            BY <1>2, <2>0, <2>1, <4>1, RecordsStay, AttachmentOneWay
               DEF IsLive, RecordInv, IInv, GenerationOrder
          <5>2. Owned(Self, v)
            BY <1>2, <2>0, <2>1, <5>1, RecordsStay DEF Owned
          <5> QED
            BY <1>2, <4>1, <5>1, <5>2 DEF NoLiveWithout
        <4>2. CASE a \notin DOMAIN att
          <5>1. v \in DOMAIN vol
            BY <1>2, <2>0, <2>1, <4>2, NewAttachmentOfVolume
          <5>2. Owned(Self, v)
            BY <1>2, <2>0, <2>1, <5>1, RecordsStay DEF Owned
          <5> QED
            BY <1>2, <2>1, <4>2, <5>1, <5>2, StartOfAttachment
        <4> QED
          BY <4>1, <4>2
      <3>2. CASE va'[v][i] = va[v][i]
        BY <3>1, <3>2
      <3>3. CASE UnpublishOK(v, i)
        <4>1. a \in DOMAIN att /\ att[a].vol = v /\ att[a].inst = i /\ IsLive(a)
          BY <2>1, <3>3 DEF UnpublishOK, vars, IsLive
        <4>2. Latest(a, v, i)
          BY <1>2, <3>0, <4>1, LiveIsLatest DEF RecordInv
        <4> QED
          BY <3>3, <4>1, <4>2 DEF UnpublishOK, Detached, IsLive
      <3>4. CASE PublishOK(v, i)
        BY <3>0, <3>4 DEF PublishOK, SetVA
      <3> QED
        BY <1>2, <3>0, <3>2, <3>3, <3>4, VAMoves DEF VAMove, NoVA
    <2> QED
      BY <2>1 DEF NoLiveWithout
  <1>3. ASSUME RecordInv, NoLiveWithout
        PROVE  DetachedIsFree
    <2>1. ASSUME NEW v \in VolumeID, NEW i \in InstanceID, Owned(Self, v),
                 va[v][i].phase = "none", NEW a \in DOMAIN att, Matches(a, v, i)
          PROVE  ~IsLive(a)
      BY <1>3, <2>1, ProviderAssumption DEF NoLiveWithout, Matches
    <2>2. ASSUME NEW v \in VolumeID, NEW i \in InstanceID, Owned(Self, v),
                 va[v][i].phase = "none", Exists(v), disk[v].inst = i
          PROVE  FALSE
      <3>1. PICK a \in DOMAIN att :
              watt[a].state # "DETACHED" /\ att[a].vol = v /\ att[a].inst = i
        BY <1>3, <2>2, ProviderAssumption DEF RecordInv, IInv, CloudFollows, Exists
      <3>2. IsLive(a)
        BY <1>3, <3>1 DEF RecordInv, IInv, PassKeepsIntent
      <3> QED
        BY <1>3, <2>2, <3>1, <3>2 DEF NoLiveWithout
    <2> QED
      BY <2>1, <2>2 DEF DetachedIsFree
  <1> QED
    BY <1>1, <1>2, <1>3, ObjectsInductive, PTL DEF CsiSpec
=============================================================================
