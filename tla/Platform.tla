------------------------------ MODULE Platform ------------------------------
(***************************************************************************)
(* The storage platform of internal/platform/engine.go.  Controllers and   *)
(* node agents change the durable intent through calls; the reconcile loop *)
(* drives the provider towards it.                                         *)
(*                                                                         *)
(* A call is one bbolt transaction, so one action.  A reconcile pass is    *)
(* one transaction too, but the provider acts in the middle of it: its     *)
(* changes are made on the working copies wvol and watt, become durable    *)
(* only when the pass commits, and are dropped when it does not, while     *)
(* the provider keeps what it did.  The pass holds the writer lock, so no  *)
(* call runs inside it.                                                    *)
(***************************************************************************)
EXTENDS Provider

CONSTANTS
  Owner,         \* the (tenant, cluster) pairs
  Name,          \* volume names
  Zone,          \* the (region, zone) pairs of the configuration
  Capability,    \* the (mode, filesystem) pairs of requests
  ValidCapability, \* those the platform supports
  UseID,         \* the use identifiers of the node agents
  Principal,     \* the authenticated callers
  InstOwner,     \* the registry: whose VM it is,
  InstZone,      \* and where it runs
  Troubles,      \* the kinds of trouble of this instance
  MaxTrouble     \* bound on the number of troubles

\* "fail" and "lost" are the provider's outcomes; "crash" is a pass that does
\* not commit; "registry" is a restart with another configuration; "drift" is
\* the cloud changing between two passes, "window" in the middle of one.
TroubleKind == {"fail", "lost", "crash", "registry", "drift", "window"}

ASSUME PlatformAssumption ==
  /\ None \notin Owner \cup Name \cup Zone \cup Capability \cup UseID
  /\ VolumeID \cap AttachmentID = {}
  /\ ValidCapability \subseteq Capability
  /\ Principal \subseteq [role : {"controller", "node"},
                          owner : Owner,
                          inst : InstanceID \cup {None}]
  /\ InstOwner \in [InstanceID -> Owner]
  /\ InstZone \in [InstanceID -> Zone]
  /\ Troubles \subseteq TroubleKind
  /\ MaxTrouble \in Nat

VARIABLES
  vol, att,      \* durable: the tables of volumes and attachments
  wvol, watt,    \* the copies the open reconcile pass works on
  phase,         \* where the pass is: "idle", "volumes" or "attachments"
  todo,          \* what the loop of this phase has still to visit
  pending,       \* the one visited whose mutating call is due
  active,        \* the registry: the VMs marked active
  trouble        \* the number of troubles so far

durable == <<vol, att>>
working == <<wvol, watt>>
loop == <<phase, todo, pending>>
vars == <<disk, vol, att, wvol, watt, phase, todo, pending, active, trouble>>

VolumeState == {"CREATING", "AVAILABLE", "RESIZING", "DELETING", "DELETED"}
AttachmentState == {"ATTACHING", "ATTACHED", "DETACHING", "DETACHED"}

\* LastError is kept as whether there is one.
Volume == [owner : Owner, name : Name, zone : Zone, cap : ValidCapability,
           state : VolumeState, init : 1 .. MaxSize,
           size : 0 .. MaxSize, desired : 1 .. MaxSize, gen : Nat,
           allowFormat : BOOLEAN, del : BOOLEAN, err : BOOLEAN,
           key : {NoKey, PlatformKey, ForeignKey}]

Attachment == [owner : Owner, vol : VolumeID, inst : InstanceID, gen : Nat,
               state : AttachmentState, del : BOOLEAN, err : BOOLEAN,
               uses : SUBSET UseID]

Init ==
  /\ ProviderInit
  /\ vol = NoEntries /\ att = NoEntries
  /\ wvol = NoEntries /\ watt = NoEntries
  /\ phase = "idle" /\ todo = {} /\ pending = None
  /\ active = InstanceID
  /\ trouble = 0

(***************************************************************************)
(* Calls.                                                                  *)
(*                                                                         *)
(* A rejected call and a repeated one that finds its work done leave the   *)
(* tables as they are (the audit record is not modelled), so each action   *)
(* is an accepted call that changes something.                             *)
(***************************************************************************)
Unlocked == phase = "idle"

\* store.Write at the end of Engine.Call.
Write(newVol, newAtt) ==
  /\ vol' = newVol /\ wvol' = newVol
  /\ att' = newAtt /\ watt' = newAtt
  /\ UNCHANGED <<disk, loop, active, trouble>>

Controller(p) == p \in Principal /\ p.role = "controller"

\* Slip: the volume's owner is not compared.
OwnedByAnyone(p, v) == v \in DOMAIN vol
Owned(p, v) == v \in DOMAIN vol /\ vol[v].owner = p.owner

\* Slip: the VM's owner is not compared.
ActiveInstanceOfAnyone(p, i) == i \in active
ActiveInstance(p, i) == i \in active /\ InstOwner[i] = p.owner

\* Slip: an attachment on its way in or out is not counted.
LiveIfAttached(table, v) ==
  \E a \in DOMAIN table : table[a].vol = v /\ table[a].state = "ATTACHED"
Live(table, v) ==
  \E a \in DOMAIN table : table[a].vol = v /\ table[a].state # "DETACHED"

Supports(cap) == cap \in ValidCapability

\* Slip: the name of a deleted volume may be taken again.
TakenByLiving(p, name) ==
  \E w \in DOMAIN vol : Owned(p, w) /\ vol[w].name = name /\ ~vol[w].del
Taken(p, name) == \E w \in DOMAIN vol : Owned(p, w) /\ vol[w].name = name

\* A repeated call returns the volume of that name, or refuses.
CreateVolume(p, v, name, size, zone, cap) ==
  /\ Unlocked /\ Controller(p)
  /\ size \in 1 .. MaxSize /\ zone \in Zone /\ Supports(cap)
  /\ ~Taken(p, name)
  /\ v \notin DOMAIN vol
  /\ Write(With(vol, v,
                [owner |-> p.owner, name |-> name, zone |-> zone,
                 cap |-> cap, state |-> "CREATING", init |-> size,
                 size |-> 0, desired |-> size, gen |-> 0,
                 allowFormat |-> TRUE, del |-> FALSE, err |-> FALSE,
                 key |-> NoKey]), att)

DeleteVolume(p, v) ==
  /\ Unlocked /\ Controller(p) /\ Owned(p, v)
  /\ ~Live(att, v)
  /\ Write([vol EXCEPT
              ![v].del = TRUE,
              ![v].state = IF @ = "DELETED" THEN @ ELSE "DELETING"], att)

\* Slip: off by one.
ResizedOneLess(rec, size) == IF rec.size + 1 < size THEN "RESIZING" ELSE rec.state
Resized(rec, size) == IF rec.size < size THEN "RESIZING" ELSE rec.state

ResizeVolume(p, v, size) ==
  /\ Unlocked /\ Controller(p) /\ Owned(p, v)
  /\ ~vol[v].del /\ vol[v].state # "CREATING"
  /\ size \in vol[v].desired .. MaxSize
  /\ Write([vol EXCEPT
              ![v].desired = size,
              ![v].state = Resized(vol[v], size)], att)

\* Slip: the counter does not move.
SameGeneration(v) == vol[v].gen
NextGeneration(v) == vol[v].gen + 1

\* A repeated call for the same VM returns the live attachment; any other
\* live attachment of the volume is a refusal.
CreateAttachment(p, v, i, a) ==
  /\ Unlocked /\ Controller(p) /\ Owned(p, v) /\ ActiveInstance(p, i)
  /\ InstZone[i] = vol[v].zone
  /\ ~vol[v].del /\ vol[v].state = "AVAILABLE" /\ ~vol[v].err
  /\ ~Live(att, v)
  /\ a \notin DOMAIN att
  /\ Write([vol EXCEPT ![v].gen = NextGeneration(v)],
           With(att, a,
                [owner |-> vol[v].owner, vol |-> v, inst |-> i,
                 gen |-> NextGeneration(v), state |-> "ATTACHING",
                 del |-> FALSE, err |-> FALSE, uses |-> {}]))

\* Slip: a DETACHED attachment is detached again.
CloseGateAgain(p, a) ==
  /\ Unlocked /\ Controller(p) /\ att[a].owner = p.owner
  /\ Write(vol, [att EXCEPT ![a].del = TRUE, ![a].state = "DETACHING"])
CloseGate(p, a) ==
  /\ Unlocked /\ Controller(p)
  /\ att[a].owner = p.owner /\ att[a].state # "DETACHED"
  /\ Write(vol, [att EXCEPT ![a].del = TRUE, ![a].state = "DETACHING"])

\* The request names the attachment,
DeleteAttachment(p, a) == a \in DOMAIN att /\ CloseGate(p, a)

\* or its volume and perhaps its VM: then it is the latest that matches.
Matches(a, v, i) == att[a].vol = v /\ (i = None \/ att[a].inst = i)
Latest(a, v, i) ==
  /\ Matches(a, v, i)
  /\ \A b \in DOMAIN att : Matches(b, v, i) => att[b].gen <= att[a].gen
DeleteLatestAttachment(p, v, i) ==
  \E a \in DOMAIN att : Latest(a, v, i) /\ CloseGate(p, a)

\* What a node agent must prove about the attachment it mounts.
Authorized(p, a, v, g) ==
  /\ p \in Principal /\ p.role = "node"
  /\ p.inst \in InstanceID /\ ActiveInstance(p, p.inst)
  /\ a \in DOMAIN att
  /\ att[a].owner = p.owner
  /\ att[a].vol = v /\ att[a].inst = p.inst /\ att[a].gen = g

\* Slip: the attachment need not have been confirmed by the cloud.
HealthyWhenAttaching(a) ==
  /\ att[a].state \in {"ATTACHING", "ATTACHED"} /\ ~att[a].del /\ ~att[a].err
  /\ ~vol[att[a].vol].err /\ ~vol[att[a].vol].del
Healthy(a) ==
  /\ att[a].state = "ATTACHED" /\ ~att[a].del /\ ~att[a].err
  /\ att[a].vol \in DOMAIN vol
  /\ ~vol[att[a].vol].err /\ ~vol[att[a].vol].del

\* CheckUse and RecordPublish change nothing but need this.
HoldsUse(p, a, v, g, u) ==
  Authorized(p, a, v, g) /\ Healthy(a) /\ u \in att[a].uses

AcquireUse(p, a, v, g, u, cap) ==
  /\ Unlocked /\ Authorized(p, a, v, g) /\ Healthy(a)
  /\ cap = vol[v].cap
  /\ Write(vol, [att EXCEPT ![a].uses = @ \cup {u}])

ReleaseUse(p, a, v, g, u) ==
  /\ Unlocked /\ Authorized(p, a, v, g)
  /\ Write(vol, [att EXCEPT ![a].uses = @ \ {u}])

MarkInitialized(p, a, v, g, u) ==
  /\ Unlocked /\ HoldsUse(p, a, v, g, u)
  /\ Write([vol EXCEPT ![v].allowFormat = FALSE], att)

(***************************************************************************)
(* Reconcile.  The loops visit the tables in the order of a Go map: any.   *)
(* One visit makes at most two provider calls, GetVolume and then a        *)
(* mutating one, and anything may happen in the cloud between the two.     *)
(***************************************************************************)
Suffer(kind) ==
  IF kind = "ok"
  THEN UNCHANGED trouble
  ELSE /\ kind \in Troubles /\ trouble < MaxTrouble
       /\ trouble' = trouble + 1

\* Slip: what failed once is not tried again.
NewVolumesToVisit == {v \in DOMAIN vol : vol[v].state # "DELETED" /\ ~vol[v].err}
VolumesToVisit == {v \in DOMAIN vol : vol[v].state # "DELETED"}

BeginReconcile ==
  /\ phase = "idle"
  /\ phase' = "volumes"
  /\ todo' = VolumesToVisit
  /\ UNCHANGED <<disk, durable, working, pending, active, trouble>>

Visit(x, list) == phase = list /\ pending = None /\ x \in todo
Resume(x, list) == phase = list /\ pending = x
Done(x) == todo' = todo \ {x} /\ pending' = None /\ UNCHANGED phase
Await(x) == pending' = x /\ UNCHANGED <<phase, todo>>

SetVolume(v, rec) ==
  wvol' = [wvol EXCEPT ![v] = rec] /\ UNCHANGED <<durable, watt, active>>
SetAttachment(a, rec) ==
  watt' = [watt EXCEPT ![a] = rec] /\ UNCHANGED <<durable, wvol, active>>

Failed(rec) == [rec EXCEPT !.err = TRUE]
Cleared(rec) == [rec EXCEPT !.err = FALSE]
Reached(rec, state) == [rec EXCEPT !.err = FALSE, !.state = state]

ReconcileDelete(v) ==
  /\ Visit(v, "volumes") /\ wvol[v].del
  /\ IF Live(watt, v)
     THEN SetVolume(v, Cleared(wvol[v])) /\ UNCHANGED <<disk, trouble>>
     ELSE \E o \in Outcome :
            /\ Suffer(o)
            /\ DeleteDisk(v, o)
            /\ SetVolume(v, IF Succeeds(DeleteRefused(v), o)
                            THEN Reached(wvol[v], "DELETED")
                            ELSE Failed(wvol[v]))
  /\ Done(v)

\* Slip: the identity is not compared.
AdoptAnyDevice(rec, d) ==
  [Reached(rec, "AVAILABLE") EXCEPT !.size = d.size, !.key = d.key]
\* A disk large enough, or what EnsureVolume returned, is taken over unless
\* its identity is not the one recorded.
Adopt(rec, d) ==
  IF rec.key # NoKey /\ rec.key # d.key
  THEN Failed(rec)
  ELSE [Reached(rec, "AVAILABLE") EXCEPT !.size = d.size, !.key = d.key]

\* Slip: a missing disk is always one not created yet.
NeverGone(v) == FALSE
Gone(v) == ~Exists(v) /\ wvol[v].state # "CREATING"
Suffices(v) == Exists(v) /\ disk[v].size >= wvol[v].desired

ObserveVolume(v) ==
  /\ Visit(v, "volumes") /\ ~wvol[v].del
  /\ \/ /\ Suffer("fail")
        /\ SetVolume(v, Failed(wvol[v])) /\ Done(v)
     \/ /\ Gone(v)
        /\ SetVolume(v, Failed(wvol[v])) /\ Done(v) /\ Suffer("ok")
     \/ /\ Suffices(v)
        /\ SetVolume(v, Adopt(wvol[v], disk[v])) /\ Done(v) /\ Suffer("ok")
     \/ /\ ~Gone(v) /\ ~Suffices(v)
        /\ SetVolume(v, Cleared(wvol[v])) /\ Await(v) /\ Suffer("ok")
  /\ UNCHANGED disk

ReconcileEnsure(v) ==
  /\ Resume(v, "volumes")
  /\ \E o \in Outcome :
       /\ Suffer(o)
       /\ EnsureVolume(v, wvol[v].desired, o)
       /\ SetVolume(v, IF Succeeds(FALSE, o)
                       THEN Adopt(wvol[v], Ensured(v, wvol[v].desired))
                       ELSE Failed(wvol[v]))
  /\ Done(v)

\* Slip: what failed once is not tried again.
NewAttachmentsToVisit ==
  {a \in DOMAIN watt : watt[a].state # "DETACHED" /\ ~watt[a].err}
AttachmentsToVisit == {a \in DOMAIN watt : watt[a].state # "DETACHED"}

VolumesDone ==
  /\ phase = "volumes" /\ todo = {} /\ pending = None
  /\ phase' = "attachments"
  /\ todo' = AttachmentsToVisit
  /\ UNCHANGED <<disk, durable, working, pending, active, trouble>>

\* Slip: the uses are not looked at.
NeverInUse(rec) == FALSE
InUse(rec) == rec.uses # {}

ReconcileDetach(a) ==
  /\ Visit(a, "attachments") /\ watt[a].del
  /\ \/ /\ InUse(watt[a])
        /\ SetAttachment(a, Cleared(watt[a])) /\ Suffer("ok")
        /\ UNCHANGED disk
     \/ /\ ~InUse(watt[a])
        /\ \E o \in Outcome :
             LET v == watt[a].vol
                 i == watt[a].inst
             IN /\ Suffer(o)
                /\ EnsureDetached(v, i, a, o)
                /\ SetAttachment(a, IF Succeeds(DetachRefused(v, i, a), o)
                                    THEN Reached(watt[a], "DETACHED")
                                    ELSE Failed(watt[a]))
  /\ Done(a)

\* Slip: a disk that is there is taken for attached.
DriftedIfMissing(a) ==
  watt[a].state = "ATTACHED" /\ InUse(watt[a]) /\ ~Exists(watt[a].vol)
\* The cloud no longer agrees with an attachment whose uses are held.
Drifted(a) ==
  /\ watt[a].state = "ATTACHED" /\ InUse(watt[a])
  /\ ~HeldBy(watt[a].vol, watt[a].inst, a)

ObserveAttachment(a) ==
  /\ Visit(a, "attachments") /\ ~watt[a].del
  /\ \/ /\ watt[a].inst \notin active
        /\ SetAttachment(a, Failed(watt[a])) /\ Done(a) /\ Suffer("ok")
     \/ /\ watt[a].inst \in active
        /\ \/ /\ Suffer("fail")
              /\ SetAttachment(a, Failed(watt[a])) /\ Done(a)
           \/ /\ Drifted(a)
              /\ SetAttachment(a, Failed(watt[a])) /\ Done(a) /\ Suffer("ok")
           \/ /\ ~Drifted(a) /\ wvol[watt[a].vol].err
              /\ SetAttachment(a, Cleared(watt[a])) /\ Done(a) /\ Suffer("ok")
           \/ /\ ~Drifted(a) /\ ~wvol[watt[a].vol].err
              /\ SetAttachment(a, Cleared(watt[a])) /\ Await(a) /\ Suffer("ok")
  /\ UNCHANGED disk

ReconcileAttach(a) ==
  /\ Resume(a, "attachments")
  /\ \E o \in Outcome :
       LET v == watt[a].vol
           i == watt[a].inst
       IN /\ Suffer(o)
          /\ EnsureAttached(v, i, a, o)
          /\ SetAttachment(a, IF Succeeds(AttachRefused(v, i, a), o)
                              THEN Reached(watt[a], "ATTACHED")
                              ELSE Failed(watt[a]))
  /\ Done(a)

\* store.Write at the end of the pass.
CommitReconcile ==
  /\ phase = "attachments" /\ todo = {} /\ pending = None
  /\ vol' = wvol /\ att' = watt
  /\ phase' = "idle"
  /\ UNCHANGED <<disk, working, todo, pending, active, trouble>>

(***************************************************************************)
(* Trouble.  The process may stop anywhere: the open transaction is gone.  *)
(* Only a start reads the registry.                                        *)
(***************************************************************************)
Rollback ==
  /\ wvol' = vol /\ watt' = att
  /\ phase' = "idle" /\ todo' = {} /\ pending' = None
  /\ UNCHANGED <<disk, durable>>

Crash == phase # "idle" /\ Suffer("crash") /\ Rollback /\ UNCHANGED active

RestartWithRegistry ==
  /\ Suffer("registry") /\ Rollback
  /\ active' \in SUBSET InstanceID /\ active' # active

Drift(v) ==
  /\ Suffer(IF phase = "idle" THEN "drift" ELSE "window")
  /\ DiskDisappears(v) \/ DiskDetaches(v) \/ DiskReplaced(v)
  /\ UNCHANGED <<durable, working, loop, active>>

-----------------------------------------------------------------------------
ControllerCall(p) ==
  \/ \E v \in VolumeID :
       \/ \E name \in Name, size \in 1 .. MaxSize, zone \in Zone,
             cap \in Capability : CreateVolume(p, v, name, size, zone, cap)
       \/ DeleteVolume(p, v)
       \/ \E size \in 1 .. MaxSize : ResizeVolume(p, v, size)
       \/ \E i \in InstanceID, a \in AttachmentID : CreateAttachment(p, v, i, a)
       \/ \E i \in InstanceID \cup {None} : DeleteLatestAttachment(p, v, i)
  \/ \E a \in AttachmentID : DeleteAttachment(p, a)

NodeCall(p) ==
  \E a \in AttachmentID, v \in VolumeID, u \in UseID,
     g \in {att[b].gen : b \in DOMAIN att} :
    \/ \E cap \in Capability : AcquireUse(p, a, v, g, u, cap)
    \/ ReleaseUse(p, a, v, g, u)
    \/ MarkInitialized(p, a, v, g, u)

CallBy(p) == ControllerCall(p) \/ NodeCall(p)

ReconcileStep ==
  \/ BeginReconcile \/ VolumesDone \/ CommitReconcile
  \/ \E v \in VolumeID :
       ReconcileDelete(v) \/ ObserveVolume(v) \/ ReconcileEnsure(v)
  \/ \E a \in AttachmentID :
       ReconcileDetach(a) \/ ObserveAttachment(a) \/ ReconcileAttach(a)

TroubleStep ==
  Crash \/ RestartWithRegistry \/ \E v \in VolumeID : Drift(v)

Next ==
  \/ \E p \in Principal : CallBy(p)
  \/ ReconcileStep
  \/ TroubleStep

Spec == Init /\ [][Next]_vars

\* The ticker of cmd/storage-api runs Reconcile for ever.
Fairness == WF_vars(ReconcileStep)
FairSpec == Spec /\ Fairness
-----------------------------------------------------------------------------
(***************************************************************************)
(* Properties.  The invariants are about the durable tables: what a caller *)
(* or a restarted process can read.                                        *)
(***************************************************************************)
\* The type invariant.  A pass has exactly the durable tables' keys to work
\* on (engine.go:271-275) and never visits a record that is not there.
TypeOK ==
  /\ ProviderTypeOK
  /\ DOMAIN vol \subseteq VolumeID /\ vol \in [DOMAIN vol -> Volume]
  /\ DOMAIN att \subseteq AttachmentID /\ att \in [DOMAIN att -> Attachment]
  /\ wvol \in [DOMAIN vol -> Volume]
  /\ watt \in [DOMAIN att -> Attachment]
  /\ phase \in {"idle", "volumes", "attachments"}
  /\ todo \subseteq IF phase = "volumes" THEN DOMAIN vol ELSE DOMAIN att
  /\ pending \in todo \cup {None}
  /\ phase = "idle" => todo = {} /\ pending = None
  /\ active \subseteq InstanceID
  /\ trouble \in 0 .. MaxTrouble

IsLive(a) == att[a].state # "DETACHED"

\* Single writer (engine.go:166-174): a volume never has two attachments that
\* are not DETACHED, whatever VMs they are for, however calls, passes,
\* crashes and lost replies interleave.
SingleWriter ==
  \A a, b \in DOMAIN att :
    att[a].vol = att[b].vol /\ IsLive(a) /\ IsLive(b) => a = b

\* Generations fence incarnations (engine.go:175, 181-187, 233): no two
\* attachments of a volume share one, the counter is never behind, and the
\* live attachment is the latest, so that "latest matching" finds it.
GenerationOrder ==
  \A a \in DOMAIN att :
    /\ att[a].vol \in DOMAIN vol
    /\ att[a].gen <= vol[att[a].vol].gen
    /\ IsLive(a) => att[a].gen = vol[att[a].vol].gen
    /\ \A b \in DOMAIN att :
         att[a].vol = att[b].vol /\ att[a].gen = att[b].gen => a = b

\* "Durable IDs precede all provider effects" (engine.go:269): a disk that
\* is attached in the cloud is attached for a durable attachment of this
\* volume and VM that has not been given up, even when the pass that
\* attached it never committed.
CloudIntent ==
  \A v \in DOMAIN disk :
    Attached(v) =>
      /\ disk[v].att \in DOMAIN att
      /\ IsLive(disk[v].att)
      /\ att[disk[v].att].vol = v
      /\ att[disk[v].att].inst = disk[v].inst

\* The durable use barrier (engine.go:326-328): a node that holds a use holds
\* the disk, in the cloud, for its own attachment; nothing but drift may
\* take it away.  For instances without drift.
UseHoldsDisk ==
  \A a \in DOMAIN att :
    att[a].uses # {} => HeldBy(att[a].vol, att[a].inst, a)

\* Deletion (engine.go:134-140, 281-288): a volume whose deletion is
\* requested has no live attachment and gets none, and a DELETED one has left
\* no disk in the cloud.
DeletionIsFinal ==
  \A v \in DOMAIN vol :
    /\ vol[v].del => \A a \in DOMAIN att : att[a].vol = v => ~IsLive(a)
    /\ vol[v].del <=> vol[v].state \in {"DELETING", "DELETED"}
    /\ vol[v].state = "DELETED" => ~Exists(v)

\* Capacity (engine.go:142-149, 302-313): what AVAILABLE promises is backed by
\* what was observed, and what was observed by the disk that is there.
CapacityBacked ==
  \A v \in DOMAIN vol :
    /\ vol[v].state = "AVAILABLE" => vol[v].size >= vol[v].desired
    /\ vol[v].desired >= vol[v].init
    /\ Exists(v) => disk[v].size >= vol[v].size

\* An attachment stays within one tenant and one zone (engine.go:152-162):
\* its volume, its VM and itself have one owner.
OneScope ==
  \A a \in DOMAIN att :
    LET v == att[a].vol
        i == att[a].inst
    IN /\ att[a].owner = vol[v].owner
       /\ InstOwner[i] = vol[v].owner
       /\ InstZone[i] = vol[v].zone

\* The platform never recreates a disk it has observed (docs/api.md:64): a
\* disk only comes into being for a volume that is still CREATING.
NoImplicitRecreate ==
  [][\A v \in DOMAIN disk' :
       ~Exists(v) => vol[v].state = "CREATING" /\ ~vol[v].del]_vars

\* The platform takes a disk from a VM only for an attachment that is being
\* detached and has no use left, also in a pass that is rolled back.
LosesDisk(v) ==
  Attached(v) /\ ~(v \in DOMAIN disk' /\ disk'[v].att = disk[v].att)
DetachBarrier ==
  [][\A v \in VolumeID : LosesDisk(v) /\ ~Drift(v) =>
       att[disk[v].att].del /\ att[disk[v].att].uses = {}]_vars

\* The platform never gives a disk back to a VM that lost it while it held
\* uses (engine.go:344-347): the old mounts may still be there.
GainsDisk(v, a) ==
  ~AttachedTo(v, a) /\ v \in DOMAIN disk' /\ disk'[v].att = a
NoReattachUnderUse ==
  [][\A v \in VolumeID, a \in DOMAIN att :
       GainsDisk(v, a) => att[a].uses = {} /\ ~att[a].del]_vars

\* A device identity, once recorded, is for ever (engine.go:307-309).
DeviceKeyStable ==
  [][\A v \in DOMAIN vol :
       vol[v].key # NoKey => vol'[v].key = vol[v].key]_vars

\* Nobody reopens what was closed: deletion intents are never withdrawn, the
\* grant to format is never renewed, a volume never shrinks its promise, and
\* DETACHED and DELETED are the end (engine.go:137, 146, 200, 260).
OneWay ==
  [][/\ \A v \in DOMAIN vol :
          /\ vol[v].del => vol'[v].del
          /\ vol'[v].allowFormat => vol[v].allowFormat
          /\ vol'[v].desired >= vol[v].desired
          /\ vol[v].state = "DELETED" => vol'[v].state = "DELETED"
     /\ \A a \in DOMAIN att :
          /\ att[a].del => att'[a].del /\ att'[a].uses \subseteq att[a].uses
          /\ ~IsLive(a) => att'[a] = att[a]]_vars

\* A caller changes what is its own and nothing else (engine.go:38-47,
\* 209-238): a controller its cluster's volumes and attachments, a node only
\* the uses of its VM's attachments and the format grant of a volume it
\* holds a use of.
CallerScope ==
  [][\A p \in Principal : CallBy(p) =>
       /\ \A v \in DOMAIN vol : vol'[v] # vol[v] =>
            /\ vol[v].owner = p.owner
            /\ p.role = "node" =>
                 /\ vol'[v] = [vol[v] EXCEPT !.allowFormat = FALSE]
                 /\ \E a \in DOMAIN att :
                      /\ att[a].vol = v /\ att[a].inst = p.inst
                      /\ att[a].uses # {}
       /\ \A a \in DOMAIN att : att'[a] # att[a] =>
            /\ att[a].owner = p.owner
            /\ p.role = "node" =>
                 /\ att[a].inst = p.inst
                 /\ att'[a] = [att[a] EXCEPT !.uses = att'[a].uses]]_vars

(***************************************************************************)
(* Liveness, when trouble comes to an end and the registry stays.          *)
(***************************************************************************)
\* A detach no use holds up completes (engine.go:325-332).
DetachCompletes ==
  \A a \in AttachmentID :
    (a \in DOMAIN att /\ att[a].del /\ att[a].uses = {})
      ~> (a \in DOMAIN att /\ att[a].state = "DETACHED")

\* A volume gets the capacity asked for, or its deletion is requested
\* (engine.go:290-313).
CapacityConverges ==
  \A v \in VolumeID :
    (v \in DOMAIN vol /\ vol[v].state \in {"CREATING", "RESIZING"})
      ~> (v \in DOMAIN vol /\ vol[v].state \notin {"CREATING", "RESIZING"})
=============================================================================
