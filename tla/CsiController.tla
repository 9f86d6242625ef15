--------------------------- MODULE CsiController ----------------------------
(***************************************************************************)
(* The CSI controller of internal/driver/controller.go on top of Platform, *)
(* with the external sidecars that call it.  The controller itself keeps   *)
(* nothing: each RPC is one storage API call and a reading of its answer.  *)
(* The sidecars keep Kubernetes' objects and repeat a call until it says   *)
(* OK, and what an OK made them believe is what this module is about.      *)
(*                                                                         *)
(* A call whose answer is an error or is lost leaves the sidecar where it  *)
(* was, whatever it did to the platform.  A call whose client gave up      *)
(* waiting may in addition be executed later, when the sidecar has already *)
(* gone on.                                                                *)
(***************************************************************************)
EXTENDS Platform, Provisioning, FiniteSets

CONSTANTS
  Self,      \* the principal of the cluster's controller
  Wants,     \* what the provisioner may ask for on behalf of a claim
  Losable,   \* the calls that may be executed after their client gave up
  MaxLate    \* bound on how many of those are on their way

CallKind == {"create", "delete", "publish", "unpublish", "expand"}

ASSUME CsiControllerAssumption ==
  /\ Self \in Principal /\ Self.role = "controller"
  /\ \A n \in Name : Wants[n] \subseteq Request
  /\ Losable \subseteq CallKind
  /\ MaxLate \in Nat

VARIABLES
  claim,     \* for each volume name: what the provisioner and resizer know
  va,        \* for each volume and VM: its VolumeAttachment object
  late       \* the calls that are still to be executed

csi == <<claim, va, late>>
csiVars == <<vars, csi>>

ClaimPhase == {"none", "wanted", "bound", "released", "gone"}
VAPhase == {"none", "wanted", "attached", "ending"}

\* size is what the claim asks for, told what an OK has confirmed of it.
\* req is the CreateVolume request, but for the size.
Claim == [phase : ClaimPhase, id : VolumeID \cup {None},
          req : (UNION {Wants[n] : n \in Name}) \cup {None},
          size : 0 .. MaxSize, told : 0 .. MaxSize]
Unclaimed ==
  [phase |-> "none", id |-> None, req |-> None, size |-> 0, told |-> 0]

\* att and gen are the publish context.
VA == [phase : VAPhase, att : AttachmentID \cup {None}, gen : Nat]
NoVA == [phase |-> "none", att |-> None, gen |-> 0]

CsiInit ==
  /\ Init
  /\ claim = [n \in Name |-> Unclaimed]
  /\ va = [v \in VolumeID |-> [i \in InstanceID |-> NoVA]]
  /\ late = {}

SetClaim(n, rec) ==
  claim' = [claim EXCEPT ![n] = rec] /\ UNCHANGED <<va, late>>
SetVA(v, i, rec) ==
  va' = [va EXCEPT ![v][i] = rec] /\ UNCHANGED <<claim, late>>

(***************************************************************************)
(* Users and schedulers.                                                   *)
(***************************************************************************)
RequestVolume(n, r, size) ==
  /\ claim[n].phase = "none"
  /\ SetClaim(n, [Unclaimed EXCEPT !.phase = "wanted",
                                   !.req = r, !.size = size])
  /\ UNCHANGED vars

\* The Pod is scheduled again, or the nodes change: other topology terms.
Reschedule(n, r) ==
  /\ claim[n].phase = "wanted" /\ claim[n].req # r
  /\ SetClaim(n, [claim[n] EXCEPT !.req = r])
  /\ UNCHANGED vars

Grow(n, size) ==
  /\ claim[n].phase = "bound" /\ claim[n].size < size
  /\ SetClaim(n, [claim[n] EXCEPT !.size = size])
  /\ UNCHANGED vars

ReleaseClaim(n) ==
  /\ claim[n].phase = "bound"
  /\ SetClaim(n, [claim[n] EXCEPT !.phase = "released"])
  /\ UNCHANGED vars

BoundTo(n, v) == claim[n].phase = "bound" /\ claim[n].id = v

WantAttachment(v, i) ==
  /\ va[v][i].phase = "none" /\ \E n \in Name : BoundTo(n, v)
  /\ SetVA(v, i, [NoVA EXCEPT !.phase = "wanted"])
  /\ UNCHANGED vars

Withdraw(v, i) ==
  /\ va[v][i].phase \in {"wanted", "attached"}
  /\ SetVA(v, i, [NoVA EXCEPT !.phase = "ending"])
  /\ UNCHANGED vars

(***************************************************************************)
(* The calls the sidecars send, and what each asks of the platform.        *)
(***************************************************************************)
CreateCall(n) ==
  [op |-> "create", name |-> n,
   req |-> [claim[n].req EXCEPT !.required = claim[n].size]]
ExpandCall(n) ==
  [op |-> "expand", vol |-> claim[n].id, size |-> claim[n].size]
DeleteCall(n) == [op |-> "delete", vol |-> claim[n].id]
PublishCall(v, i) == [op |-> "publish", vol |-> v, inst |-> i]
UnpublishCall(v, i) == [op |-> "unpublish", vol |-> v, inst |-> i]

ClaimCalls(n) ==
  CASE claim[n].phase = "wanted" -> {CreateCall(n)}
    [] claim[n].phase = "bound" /\ claim[n].told < claim[n].size ->
         {ExpandCall(n)}
    [] claim[n].phase = "released" -> {DeleteCall(n)}
    [] OTHER -> {}
VACalls(v, i) ==
  CASE va[v][i].phase = "wanted" -> {PublishCall(v, i)}
    [] va[v][i].phase = "ending" -> {UnpublishCall(v, i)}
    [] OTHER -> {}

\* The call is accepted.
Accepted(q) ==
  \/ /\ q.op = "create"
     /\ Asks(q.req)
     /\ \E v \in VolumeID :
          CreateVolume(Self, v, q.name, Size(q.req), Place(q.req),
                       Meaning(q.req.caps[1]))
  \/ q.op = "expand" /\ ResizeVolume(Self, q.vol, q.size)
  \/ q.op = "delete" /\ DeleteVolume(Self, q.vol)
  \/ /\ q.op = "publish"
     /\ \E a \in AttachmentID : CreateAttachment(Self, q.vol, q.inst, a)
  \/ q.op = "unpublish" /\ DeleteLatestAttachment(Self, q.vol, q.inst)

\* Accepted, and answered "pending" or not at all.
Pend(q) == Accepted(q) /\ UNCHANGED csi

\* The client gives up; its request is already in the server's queue.
TimeOut(q) ==
  /\ q.op \in Losable /\ Cardinality(late) < MaxLate
  /\ late' = late \cup {q}
  /\ UNCHANGED <<vars, claim, va>>

\* It is executed, or refused, or dropped with its connection.
Deliver(q) ==
  /\ Accepted(q) \/ UNCHANGED vars
  /\ late' = late \ {q}
  /\ UNCHANGED <<claim, va>>

(***************************************************************************)
(* The answer OK.                                                          *)
(***************************************************************************)
\* Slip: an error of the last pass is not looked at, nor the state.
ProvisionedWhenKnown(v) == ~vol[v].del
Provisioned(v) == vol[v].state = "AVAILABLE" /\ ~vol[v].err

\* Slip: the name decides.
AnyConfiguration(v, r) == ~vol[v].del
\* A repeated CreateVolume finds the volume of that name, but one that was
\* created from another request is a refusal.
SameConfiguration(v, r) ==
  /\ ~vol[v].del
  /\ vol[v].init = Size(r) /\ vol[v].zone = Place(r)
  /\ vol[v].cap = Meaning(r.caps[1])

CreateOK(n) ==
  /\ Unlocked /\ claim[n].phase = "wanted"
  /\ LET r == CreateCall(n).req
     IN /\ Asks(r)
        /\ \E v \in VolumeID :
             /\ Owned(Self, v) /\ vol[v].name = n
             /\ SameConfiguration(v, r)
             /\ Provisioned(v)
             /\ SetClaim(n, [claim[n] EXCEPT !.phase = "bound", !.id = v,
                                             !.told = vol[v].size])
  /\ UNCHANGED vars

\* Slip: the capacity the volume has is not looked at.
GrownWhenAccepted(v, size) == ~vol[v].err
Grown(v, size) == vol[v].size >= size /\ ~vol[v].err

ExpandOK(n) ==
  /\ claim[n].phase = "bound" /\ claim[n].told < claim[n].size
  /\ ResizeVolume(Self, claim[n].id, claim[n].size)
  /\ Grown(claim[n].id, claim[n].size)
  /\ SetClaim(n, [claim[n] EXCEPT !.told = claim[n].size])

Deleted(v) == vol[v].state = "DELETED"

DeleteOK(n) ==
  /\ claim[n].phase = "released"
  /\ DeleteVolume(Self, claim[n].id)
  /\ Deleted(claim[n].id)
  /\ SetClaim(n, [claim[n] EXCEPT !.phase = "gone"])

\* Slip: a live attachment is one the cloud has confirmed.
AttachConfirmedWhenLive(a) == att[a].state # "DETACHED"
AttachConfirmed(a) == att[a].state = "ATTACHED" /\ ~att[a].err

\* A repeated CreateAttachment finds the live attachment of that VM, but
\* only after the checks of a new one.
PublishOK(v, i) ==
  /\ Unlocked /\ va[v][i].phase = "wanted"
  /\ Owned(Self, v) /\ ActiveInstance(Self, i)
  /\ ~vol[v].del /\ vol[v].state = "AVAILABLE" /\ ~vol[v].err
  /\ \E a \in DOMAIN att :
       /\ att[a].vol = v /\ att[a].inst = i /\ IsLive(a) /\ ~att[a].del
       /\ AttachConfirmed(a)
       /\ SetVA(v, i, [phase |-> "attached", att |-> a, gen |-> att[a].gen])
  /\ UNCHANGED vars

\* Slip: an accepted detach is a done one.
DetachedWhenAccepted(a) == att[a].del
Detached(a) == att[a].state = "DETACHED"

UnpublishOK(v, i) ==
  /\ Unlocked /\ va[v][i].phase = "ending"
  /\ \A a \in DOMAIN att : Latest(a, v, i) => Detached(a)
  /\ SetVA(v, i, NoVA)
  /\ UNCHANGED vars

-----------------------------------------------------------------------------
UserStep ==
  \/ \E n \in Name :
       \/ \E r \in Wants[n], size \in 1 .. MaxSize : RequestVolume(n, r, size)
       \/ \E r \in Wants[n] : Reschedule(n, r)
       \/ \E size \in 1 .. MaxSize : Grow(n, size)
       \/ ReleaseClaim(n)
  \/ \E v \in VolumeID, i \in InstanceID :
       WantAttachment(v, i) \/ Withdraw(v, i)

\* Provisioner and resizer, for one claim; attacher, for one VolumeAttachment.
ClaimStep(n) ==
  \/ \E q \in ClaimCalls(n) : Pend(q)
  \/ CreateOK(n) \/ ExpandOK(n) \/ DeleteOK(n)
VAStep(v, i) ==
  \/ \E q \in VACalls(v, i) : Pend(q)
  \/ PublishOK(v, i) \/ UnpublishOK(v, i)

Calls ==
  UNION ({ClaimCalls(n) : n \in Name}
           \cup {VACalls(v, i) : v \in VolumeID, i \in InstanceID})

PassStep == ReconcileStep /\ UNCHANGED csi
NodeStep == (\E p \in Principal \ {Self} : CallBy(p)) /\ UNCHANGED csi

CsiNext ==
  \/ UserStep
  \/ \E n \in Name : ClaimStep(n)
  \/ \E v \in VolumeID, i \in InstanceID : VAStep(v, i)
  \/ \E q \in Calls : TimeOut(q)
  \/ \E q \in late : Deliver(q)
  \/ PassStep
  \/ NodeStep
  \/ TroubleStep /\ UNCHANGED csi

CsiSpec == CsiInit /\ [][CsiNext]_csiVars

\* What the node agents do for a detach: see DrainCompletes of NodeAgent.
NodeReleases(i) ==
  /\ \E p \in Principal, a \in AttachmentID, u \in UseID :
       /\ p.inst = i /\ a \in DOMAIN att
       /\ ReleaseUse(p, a, att[a].vol, att[a].gen, u)
  /\ UNCHANGED csi

\* The ticker runs passes for ever; a queued request is executed or dropped;
\* a sidecar repeats the call of an object until it is OK.  A call waits for
\* the writer lock, which passes take again and again: bbolt's mutex is fair.
CsiFairness ==
  /\ WF_csiVars(PassStep)
  /\ WF_csiVars(\E q \in late : Deliver(q))
  /\ \A n \in Name : SF_csiVars(ClaimStep(n))
  /\ \A v \in VolumeID, i \in InstanceID : SF_csiVars(VAStep(v, i))
  /\ \A i \in InstanceID : SF_csiVars(NodeReleases(i))
CsiFairSpec == CsiSpec /\ CsiFairness
-----------------------------------------------------------------------------
\* The type invariant.  What the sidecars are told names real records, and
\* a capacity.
CsiTypeOK ==
  /\ claim \in [Name -> Claim]
  /\ va \in [VolumeID -> [InstanceID -> VA]]
  /\ \A n \in Name :
       claim[n].phase \notin {"none", "wanted"} =>
         claim[n].id \in DOMAIN vol /\ claim[n].told > 0
  /\ \A v \in VolumeID, i \in InstanceID :
       va[v][i].att # None => va[v][i].att \in DOMAIN att
  /\ \A q \in late : q.op \in Losable
  /\ Cardinality(late) <= MaxLate

\* "attached" with a publish context (controller.go:138-142) is so until the
\* VolumeAttachment is withdrawn: the attachment of that generation is open,
\* is the live one of the volume, and its VM has the disk.  Without drift.
AttachedIsServed ==
  \A v \in VolumeID, i \in InstanceID :
    va[v][i].phase = "attached" =>
      LET a == va[v][i].att
      IN /\ att[a].vol = v /\ att[a].inst = i
         /\ att[a].gen = va[v][i].gen /\ vol[v].gen = va[v][i].gen
         /\ IsLive(a) /\ ~att[a].del
         /\ HeldBy(v, i, a)

\* A VM without a VolumeAttachment of one of the cluster's volumes has no
\* attachment of it, in the tables or in the cloud (controller.go:144-155):
\* nobody would end it.
DetachedIsFree ==
  \A v \in VolumeID, i \in InstanceID :
    Owned(Self, v) /\ va[v][i].phase = "none" =>
      /\ \A a \in DOMAIN att : Matches(a, v, i) => ~IsLive(a)
      /\ Exists(v) => disk[v].inst # i

\* What CreateVolume and ControllerExpandVolume confirmed is there for as
\* long as the claim is bound (controller.go:97-101, 184-187): the volume of
\* that name, where the request answered lets its Pod run, with a disk of
\* that capacity.  Without drift.
PromiseKept ==
  \A n \in Name :
    claim[n].phase = "bound" =>
      LET v == claim[n].id
      IN /\ Owned(Self, v) /\ vol[v].name = n /\ ~vol[v].del
         /\ Reachable(claim[n].req, vol[v].zone)
         /\ Exists(v) /\ disk[v].size >= claim[n].told

\* A claim that is gone leaves nothing behind, and a CreateVolume that is
\* executed afterwards makes nothing (controller.go:103-114, engine.go:109).
GoneIsGone ==
  \A n \in Name :
    claim[n].phase = "gone" =>
      \A v \in DOMAIN vol :
        Owned(Self, v) /\ vol[v].name = n => Deleted(v) /\ ~Exists(v)

\* Repeated calls come to an end (controller.go): a wanted claim is bound,
ClaimBinds ==
  \A n \in Name : claim[n].phase = "wanted" ~> claim[n].phase # "wanted"

\* a released claim is gone, unless it is still attached somewhere,
ReleaseCompletes ==
  \A n \in Name :
    claim[n].phase = "released"
      ~> \/ claim[n].phase = "gone"
         \/ \E v \in VolumeID, i \in InstanceID :
              claim[n].id = v /\ va[v][i].phase # "none"

\* and a withdrawn VolumeAttachment goes, whatever the attach it cancels has
\* reached (docs/architecture.ru.md:280).
WithdrawalCompletes ==
  \A v \in VolumeID, i \in InstanceID :
    va[v][i].phase = "ending" ~> va[v][i].phase = "none"

\* A wanted VolumeAttachment is attached, unless it is withdrawn, the claim
\* is released, or the volume has one for another VM.
AttachmentServed ==
  \A v \in VolumeID, i \in InstanceID :
    va[v][i].phase = "wanted"
      ~> \/ va[v][i].phase # "wanted"
         \/ \A n \in Name : ~BoundTo(n, v)
         \/ \E j \in InstanceID \ {i} : va[v][j].phase # "none"
         \/ DOMAIN att = AttachmentID    \* no identifier is left
=============================================================================
