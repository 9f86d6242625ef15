--------------------------- MODULE PlatformProofs ---------------------------
(***************************************************************************)
(* IInv is an invariant of Platform, and the safety properties that follow *)
(* from it, for every value of the constants: any number of volumes, VMs,  *)
(* attachments and uses, any troubles, drift included.                     *)
(***************************************************************************)
EXTENDS PlatformInvariant, TLAPS

(***************************************************************************)
(* Tables and records.                                                     *)
(***************************************************************************)
\* Putting an entry into a table, as CreateVolume and CreateAttachment do.
LEMMA PutTable ==
  ASSUME NEW S, NEW f, f \in [DOMAIN f -> S], NEW k, NEW x \in S
  PROVE  /\ DOMAIN With(f, k, x) = DOMAIN f \cup {k}
         /\ With(f, k, x) \in [DOMAIN f \cup {k} -> S]
         /\ With(f, k, x)[k] = x
         /\ \A j \in DOMAIN f : j # k => With(f, k, x)[j] = f[j]
  BY DEF With

\* Deleting an entry from a table, as the provider does with a disk.
LEMMA DropTable ==
  ASSUME NEW S, NEW f, f \in [DOMAIN f -> S], NEW k
  PROVE  /\ DOMAIN Without(f, k) = DOMAIN f \ {k}
         /\ Without(f, k) \in [DOMAIN f \ {k} -> S]
         /\ \A j \in DOMAIN f : j # k => Without(f, k)[j] = f[j]
  BY DEF Without, Restrict

\* Changing the entry of a key that is there.
LEMMA SetTable ==
  ASSUME NEW D, NEW S, NEW f \in [D -> S], NEW k \in D, NEW x \in S
  PROVE  /\ [f EXCEPT ![k] = x] \in [D -> S]
         /\ DOMAIN [f EXCEPT ![k] = x] = D
         /\ [f EXCEPT ![k] = x][k] = x
         /\ \A j \in D : j # k => [f EXCEPT ![k] = x][j] = f[j]
  OBVIOUS

\* What a reconcile visit writes to a volume's record is a volume, and keeps
\* its intent.
LEMMA VolumeRecord ==
  ASSUME NEW rec \in Volume, NEW state \in VolumeState
  PROVE  /\ Failed(rec) \in Volume /\ SameIntent(Failed(rec), rec)
         /\ Failed(rec).state = rec.state
         /\ Cleared(rec) \in Volume /\ SameIntent(Cleared(rec), rec)
         /\ Cleared(rec).state = rec.state
         /\ Reached(rec, state) \in Volume /\ SameIntent(Reached(rec, state), rec)
         /\ Reached(rec, state).state = state
  BY DEF Volume, Failed, Cleared, Reached, SameIntent

\* The same for a disk taken over.
LEMMA AdoptRecord ==
  ASSUME NEW rec \in Volume, NEW d \in Disk
  PROVE  /\ Adopt(rec, d) \in Volume /\ SameIntent(Adopt(rec, d), rec)
         /\ Adopt(rec, d).state \in {rec.state, "AVAILABLE"}
  BY DEF Volume, Disk, Adopt, Failed, Reached, SameIntent, VolumeState,
         NoKey, PlatformKey, ForeignKey

\* What a reconcile visit writes to an attachment's record.
LEMMA AttachmentRecord ==
  ASSUME NEW rec \in Attachment, NEW state \in AttachmentState
  PROVE  /\ Failed(rec) \in Attachment /\ SameClaim(Failed(rec), rec)
         /\ Failed(rec).state = rec.state
         /\ Cleared(rec) \in Attachment /\ SameClaim(Cleared(rec), rec)
         /\ Cleared(rec).state = rec.state
         /\ Reached(rec, state) \in Attachment /\ SameClaim(Reached(rec, state), rec)
         /\ Reached(rec, state).state = state
  BY DEF Attachment, Failed, Cleared, Reached, SameClaim

\* The disk EnsureVolume makes or grows.
LEMMA EnsuredDisk ==
  ASSUME TypeOK, NEW v \in VolumeID, NEW desired \in 0 .. MaxSize
  PROVE  /\ Ensured(v, desired) \in Disk
         /\ Exists(v) => /\ Ensured(v, desired).inst = disk[v].inst
                         /\ Ensured(v, desired).att = disk[v].att
         /\ ~Exists(v) => /\ Ensured(v, desired).inst = None
                          /\ Ensured(v, desired).att = None
  BY ProviderAssumption
     DEF TypeOK, ProviderTypeOK, Ensured, Larger, Exists, Disk, PlatformKey,
         ForeignKey

(***************************************************************************)
(* Type correctness.                                                       *)
(***************************************************************************)
\* Unfoldings that the leaves below share.
LEMMA VolumeTable ==
  ASSUME TypeOK, NEW v \in DOMAIN vol
  PROVE  /\ v \in VolumeID /\ vol[v] \in Volume /\ wvol[v] \in Volume
         /\ wvol \in [DOMAIN vol -> Volume]
  BY DEF TypeOK

\* What a typed table of attachments gives for one entry.
LEMMA AttachmentTable ==
  ASSUME TypeOK, NEW a \in DOMAIN att
  PROVE  /\ a \in AttachmentID /\ att[a] \in Attachment /\ watt[a] \in Attachment
         /\ watt \in [DOMAIN att -> Attachment]
  BY DEF TypeOK

\* A call that leaves well-typed tables keeps the type invariant.
LEMMA WriteType ==
  ASSUME TypeOK, Unlocked, NEW newVol, NEW newAtt,
         newVol \in [DOMAIN newVol -> Volume],
         newAtt \in [DOMAIN newAtt -> Attachment],
         DOMAIN newVol \subseteq VolumeID,
         DOMAIN att \subseteq DOMAIN newAtt, DOMAIN newAtt \subseteq AttachmentID,
         Write(newVol, newAtt)
  PROVE  TypeOK'
  BY DEF TypeOK, ProviderTypeOK, Unlocked, Write, loop

\* So does a visit that rewrites the record of a volume,
LEMMA SetVolumeType ==
  ASSUME TypeOK, NEW v \in DOMAIN vol, NEW rec \in Volume, phase = "volumes",
         SetVolume(v, rec), ProviderTypeOK', trouble' \in 0 .. MaxTrouble,
         Done(v) \/ (Await(v) /\ v \in todo)
  PROVE  TypeOK'
  <1>1. wvol' \in [DOMAIN vol -> Volume]
    BY DEF TypeOK, SetVolume
  <1> QED
    BY <1>1 DEF TypeOK, SetVolume, Done, Await, durable

\* or of an attachment.
LEMMA SetAttachmentType ==
  ASSUME TypeOK, NEW a \in DOMAIN att, NEW rec \in Attachment,
         phase = "attachments",
         SetAttachment(a, rec), ProviderTypeOK', trouble' \in 0 .. MaxTrouble,
         Done(a) \/ (Await(a) /\ a \in todo)
  PROVE  TypeOK'
  <1>1. watt' \in [DOMAIN att -> Attachment]
    BY DEF TypeOK, SetAttachment
  <1> QED
    BY <1>1 DEF TypeOK, SetAttachment, Done, Await, durable

\* Counting a trouble keeps the counter within its bound.
LEMMA SufferType ==
  ASSUME TypeOK, NEW kind, Suffer(kind)
  PROVE  trouble' \in 0 .. MaxTrouble
  BY PlatformAssumption DEF TypeOK, Suffer

\* Who is visited is in its table.
LEMMA VisitType ==
  ASSUME TypeOK, NEW x
  PROVE  /\ Visit(x, "volumes") \/ (Resume(x, "volumes") /\ x # None)
              => x \in DOMAIN vol /\ phase = "volumes" /\ x \in todo
         /\ Visit(x, "attachments") \/ (Resume(x, "attachments") /\ x # None)
              => x \in DOMAIN att /\ phase = "attachments" /\ x \in todo
  BY DEF TypeOK, Visit, Resume

\* The provider's calls keep its table well typed.
LEMMA ProviderType ==
  ASSUME TypeOK, NEW v \in VolumeID, NEW o \in Outcome
  PROVE  /\ \A d \in 0 .. MaxSize : EnsureVolume(v, d, o) => ProviderTypeOK'
         /\ DeleteDisk(v, o) => ProviderTypeOK'
         /\ \A i \in InstanceID, a \in AttachmentID :
              /\ EnsureAttached(v, i, a, o) => ProviderTypeOK'
              /\ EnsureDetached(v, i, a, o) => ProviderTypeOK'
         /\ (DiskDisappears(v) \/ DiskDetaches(v) \/ DiskReplaced(v))
              => ProviderTypeOK'
  <1>0. disk \in [DOMAIN disk -> Disk] /\ DOMAIN disk \subseteq VolumeID
    BY DEF TypeOK, ProviderTypeOK
  <1>d. /\ DOMAIN Without(disk, v) \subseteq VolumeID
        /\ Without(disk, v) \in [DOMAIN Without(disk, v) -> Disk]
    BY <1>0 DEF Without, Restrict
  <1>1. ASSUME NEW d \in 0 .. MaxSize, EnsureVolume(v, d, o)
        PROVE  ProviderTypeOK'
    <2> DEFINE x == Ensured(v, d)
    <2>1. x \in Disk
      BY EnsuredDisk
    <2>2. disk' = disk \/ disk' = With(disk, v, x)
      BY <1>1 DEF EnsureVolume, Perform
    <2> HIDE DEF x
    <2>3. /\ DOMAIN With(disk, v, x) = DOMAIN disk \cup {v}
          /\ With(disk, v, x) \in [DOMAIN disk \cup {v} -> Disk]
      BY <1>0, <2>1 DEF With
    <2> QED
      BY <1>0, <2>2, <2>3 DEF ProviderTypeOK
  <1>2. ASSUME DeleteDisk(v, o)
        PROVE  ProviderTypeOK'
    BY <1>0, <1>2, <1>d DEF DeleteDisk, Perform, ProviderTypeOK
  <1>3. ASSUME NEW i \in InstanceID, NEW a \in AttachmentID,
               EnsureAttached(v, i, a, o)
        PROVE  ProviderTypeOK'
    <2>1. CASE disk' = disk
      BY <1>0, <2>1 DEF ProviderTypeOK
    <2>2. CASE disk' # disk
      <3>1. v \in DOMAIN disk
        BY <1>3, <2>2 DEF EnsureAttached, Perform, AttachRefused, Exists
      <3>2. disk' = [disk EXCEPT ![v] = [disk[v] EXCEPT !.inst = i, !.att = a]]
        BY <1>0, <1>3, <2>2, <3>1 DEF EnsureAttached, Perform
      <3>3. [disk[v] EXCEPT !.inst = i, !.att = a] \in Disk
        BY <1>0, <3>1 DEF Disk
      <3> QED
        BY <1>0, <3>1, <3>2, <3>3 DEF ProviderTypeOK
    <2> QED
      BY <2>1, <2>2
  <1>4. ASSUME NEW w \in VolumeID, Attached(w),
               disk' = [disk EXCEPT ![w].inst = None, ![w].att = None]
        PROVE  ProviderTypeOK'
    <2>1. w \in DOMAIN disk
      BY <1>4 DEF Attached, Exists
    <2>2. [disk[w] EXCEPT !.inst = None, !.att = None] \in Disk
      BY <1>0, <2>1 DEF Disk
    <2>3. disk' = [disk EXCEPT ![w] = [disk[w] EXCEPT !.inst = None, !.att = None]]
      BY <1>0, <1>4, <2>1
    <2> QED
      BY <1>0, <2>1, <2>2, <2>3 DEF ProviderTypeOK
  <1>5. ASSUME NEW i \in InstanceID, NEW a \in AttachmentID,
               EnsureDetached(v, i, a, o)
        PROVE  ProviderTypeOK'
    BY <1>0, <1>4, <1>5 DEF EnsureDetached, Perform, ProviderTypeOK
  <1>6. ASSUME DiskDisappears(v) \/ DiskDetaches(v) \/ DiskReplaced(v)
        PROVE  ProviderTypeOK'
    <2>1. CASE DiskDisappears(v)
      BY <2>1, <1>d DEF DiskDisappears, ProviderTypeOK
    <2>2. CASE DiskDetaches(v)
      BY <1>4, <2>2 DEF DiskDetaches
    <2>3. CASE DiskReplaced(v)
      <3>1. v \in DOMAIN disk
        BY <2>3 DEF DiskReplaced, Exists
      <3>2. [disk[v] EXCEPT !.key = ForeignKey] \in Disk
        BY <1>0, <3>1 DEF Disk, ForeignKey, PlatformKey
      <3>3. disk' = [disk EXCEPT ![v] = [disk[v] EXCEPT !.key = ForeignKey]]
        BY <1>0, <2>3, <3>1 DEF DiskReplaced
      <3> QED
        BY <1>0, <3>1, <3>2, <3>3 DEF ProviderTypeOK
    <2> QED
      BY <1>6, <2>1, <2>2, <2>3
  <1> QED
    BY <1>1, <1>2, <1>3, <1>5, <1>6

\* One call keeps the type invariant.
LEMMA CallType ==
  ASSUME TypeOK, NEW p \in Principal, CallBy(p)
  PROVE  TypeOK'
  <1>1. CASE \E v \in VolumeID, name \in Name, size \in 1 .. MaxSize,
                zone \in Zone, cap \in Capability :
               CreateVolume(p, v, name, size, zone, cap)
    <2>1. PICK v \in VolumeID, name \in Name, size \in 1 .. MaxSize,
               zone \in Zone, cap \in Capability :
                 CreateVolume(p, v, name, size, zone, cap)
      BY <1>1
    <2> DEFINE rec == [owner |-> p.owner, name |-> name, zone |-> zone,
                       cap |-> cap, state |-> "CREATING", init |-> size,
                       size |-> 0, desired |-> size, gen |-> 0,
                       allowFormat |-> TRUE, del |-> FALSE, err |-> FALSE,
                       key |-> NoKey]
    <2>2. Unlocked /\ Write(With(vol, v, rec), att) /\ cap \in ValidCapability
      BY <2>1 DEF CreateVolume, Supports
    <2>o. p.owner \in Owner
      BY PlatformAssumption
    <2>z. 0 \in 0 .. MaxSize /\ 0 \in Nat
      BY ProviderAssumption
    <2>3. rec \in Volume
      BY <2>2, <2>o, <2>z
         DEF Volume, VolumeState, NoKey, PlatformKey, ForeignKey
    <2> HIDE DEF rec
    <2>4. /\ With(vol, v, rec) \in [DOMAIN With(vol, v, rec) -> Volume]
          /\ DOMAIN With(vol, v, rec) \subseteq VolumeID
      BY <2>3 DEF With, TypeOK
    <2>5. att \in [DOMAIN att -> Attachment] /\ DOMAIN att \subseteq AttachmentID
      BY DEF TypeOK
    <2> QED
      BY <2>2, <2>4, <2>5, WriteType
  <1>2. ASSUME NEW v \in VolumeID, Unlocked, v \in DOMAIN vol, NEW rec \in Volume,
               Write([vol EXCEPT ![v] = rec], att)
        PROVE  TypeOK'
    <2>1. /\ [vol EXCEPT ![v] = rec] \in [DOMAIN vol -> Volume]
          /\ DOMAIN [vol EXCEPT ![v] = rec] = DOMAIN vol
          /\ DOMAIN vol \subseteq VolumeID
          /\ att \in [DOMAIN att -> Attachment] /\ DOMAIN att \subseteq AttachmentID
      BY <1>2 DEF TypeOK
    <2> QED
      BY <1>2, <2>1, WriteType
  <1>3. ASSUME NEW a \in AttachmentID, Unlocked, a \in DOMAIN att,
               NEW rec \in Attachment,
               Write(vol, [att EXCEPT ![a] = rec])
        PROVE  TypeOK'
    <2>1. /\ [att EXCEPT ![a] = rec] \in [DOMAIN att -> Attachment]
          /\ DOMAIN [att EXCEPT ![a] = rec] = DOMAIN att
          /\ DOMAIN att \subseteq AttachmentID
          /\ vol \in [DOMAIN vol -> Volume] /\ DOMAIN vol \subseteq VolumeID
      BY <1>3 DEF TypeOK
    <2> QED
      BY <1>3, <2>1, WriteType
  <1>4. CASE \E v \in VolumeID : DeleteVolume(p, v)
    <2>1. PICK v \in VolumeID : DeleteVolume(p, v)
      BY <1>4
    <2>2. v \in DOMAIN vol /\ Unlocked /\ vol[v] \in Volume
      BY <2>1, VolumeTable DEF DeleteVolume, Owned
    <2> DEFINE rec == [vol[v] EXCEPT !.del = TRUE,
                         !.state = IF @ = "DELETED" THEN @ ELSE "DELETING"]
    <2>3. rec \in Volume
      BY <2>2 DEF Volume, VolumeState
    <2>4. Write([vol EXCEPT ![v] = rec], att)
      BY <2>1, <2>2 DEF DeleteVolume, Volume
    <2> QED
      BY <1>2, <2>2, <2>3, <2>4
  <1>5. CASE \E v \in VolumeID, size \in 1 .. MaxSize : ResizeVolume(p, v, size)
    <2>1. PICK v \in VolumeID, size \in 1 .. MaxSize : ResizeVolume(p, v, size)
      BY <1>5
    <2>2. v \in DOMAIN vol /\ Unlocked /\ vol[v] \in Volume
      BY <2>1, VolumeTable DEF ResizeVolume, Owned
    <2> DEFINE rec == [vol[v] EXCEPT !.desired = size,
                                     !.state = Resized(vol[v], size)]
    <2>3. rec \in Volume
      BY <2>2 DEF Volume, VolumeState, Resized
    <2>4. Write([vol EXCEPT ![v] = rec], att)
      BY <2>1, <2>2 DEF ResizeVolume, Volume
    <2> QED
      BY <1>2, <2>2, <2>3, <2>4
  <1>6. CASE \E v \in VolumeID, i \in InstanceID, a \in AttachmentID :
               CreateAttachment(p, v, i, a)
    <2>1. PICK v \in VolumeID, i \in InstanceID, a \in AttachmentID :
                 CreateAttachment(p, v, i, a)
      BY <1>6
    <2>2. v \in DOMAIN vol /\ Unlocked /\ vol[v] \in Volume
      BY <2>1, VolumeTable DEF CreateAttachment, Owned
    <2> DEFINE vrec == [vol[v] EXCEPT !.gen = NextGeneration(v)]
               arec == [owner |-> vol[v].owner, vol |-> v, inst |-> i,
                        gen |-> NextGeneration(v), state |-> "ATTACHING",
                        del |-> FALSE, err |-> FALSE, uses |-> {}]
    <2>3. vrec \in Volume /\ arec \in Attachment
      BY <2>2 DEF Volume, Attachment, AttachmentState, NextGeneration
    <2>4. Write([vol EXCEPT ![v] = vrec], With(att, a, arec))
      BY <2>1, <2>2 DEF CreateAttachment, Volume
    <2> HIDE DEF vrec, arec
    <2>5. /\ [vol EXCEPT ![v] = vrec] \in [DOMAIN vol -> Volume]
          /\ DOMAIN [vol EXCEPT ![v] = vrec] = DOMAIN vol
          /\ DOMAIN vol \subseteq VolumeID
      BY <2>2, <2>3 DEF TypeOK
    <2>6. /\ With(att, a, arec) \in [DOMAIN With(att, a, arec) -> Attachment]
          /\ DOMAIN att \subseteq DOMAIN With(att, a, arec)
          /\ DOMAIN With(att, a, arec) \subseteq AttachmentID
      BY <2>3 DEF With, TypeOK
    <2> QED
      BY <2>2, <2>4, <2>5, <2>6, WriteType
  <1>7. ASSUME NEW a \in DOMAIN att, CloseGate(p, a)
        PROVE  TypeOK'
    <2>1. a \in AttachmentID /\ Unlocked /\ att[a] \in Attachment
      BY <1>7, AttachmentTable DEF CloseGate
    <2> DEFINE rec == [att[a] EXCEPT !.del = TRUE, !.state = "DETACHING"]
    <2>2. rec \in Attachment
      BY <2>1 DEF Attachment, AttachmentState
    <2>3. Write(vol, [att EXCEPT ![a] = rec])
      BY <1>7, <2>1 DEF CloseGate, Attachment
    <2> QED
      BY <1>3, <1>7, <2>1, <2>2, <2>3
  <1>8. CASE \/ \E v \in VolumeID, i \in InstanceID \cup {None} :
                  DeleteLatestAttachment(p, v, i)
             \/ \E a \in AttachmentID : DeleteAttachment(p, a)
    BY <1>7, <1>8 DEF DeleteLatestAttachment, DeleteAttachment
  <1>9. ASSUME NEW a \in AttachmentID, NEW v \in VolumeID, NEW u \in UseID, NEW g,
               \/ \E cap \in Capability : AcquireUse(p, a, v, g, u, cap)
               \/ ReleaseUse(p, a, v, g, u)
        PROVE  TypeOK'
    <2>1. a \in DOMAIN att /\ Unlocked /\ att[a] \in Attachment
      BY <1>9, AttachmentTable DEF AcquireUse, ReleaseUse, Authorized
    <2>2. PICK uses \in SUBSET UseID :
            Write(vol, [att EXCEPT ![a] = [att[a] EXCEPT !.uses = uses]])
      <3>1. att[a].uses \cup {u} \in SUBSET UseID /\ att[a].uses \ {u} \in SUBSET UseID
        BY <2>1 DEF Attachment
      <3> QED
        BY <1>9, <2>1, <3>1 DEF AcquireUse, ReleaseUse, Attachment
    <2>3. [att[a] EXCEPT !.uses = uses] \in Attachment
      BY <2>1 DEF Attachment
    <2> QED
      BY <1>3, <2>1, <2>2, <2>3
  <1>10. ASSUME NEW a \in AttachmentID, NEW v \in VolumeID, NEW u \in UseID, NEW g,
                MarkInitialized(p, a, v, g, u)
         PROVE  TypeOK'
    <2>1. v \in DOMAIN vol /\ Unlocked /\ vol[v] \in Volume
      BY <1>10, VolumeTable DEF MarkInitialized, HoldsUse, Authorized, Healthy
    <2>2. [vol[v] EXCEPT !.allowFormat = FALSE] \in Volume
      BY <2>1 DEF Volume
    <2>3. Write([vol EXCEPT ![v] = [vol[v] EXCEPT !.allowFormat = FALSE]], att)
      BY <1>10, <2>1 DEF MarkInitialized, Volume
    <2> QED
      BY <1>2, <2>1, <2>2, <2>3
  <1>11. CASE ControllerCall(p)
    BY <1>11, <1>1, <1>4, <1>5, <1>6, <1>8 DEF ControllerCall
  <1>12. CASE NodeCall(p)
    BY <1>12, <1>9, <1>10 DEF NodeCall
  <1> QED
    BY <1>11, <1>12 DEF CallBy

\* What the visits write, whatever the outcome, is well typed.
LEMMA PassType ==
  ASSUME TypeOK, ReconcileStep
  PROVE  TypeOK'
  <1>1. CASE BeginReconcile \/ VolumesDone \/ CommitReconcile
    <2>1. CASE BeginReconcile
      BY <2>1 DEF TypeOK, ProviderTypeOK, BeginReconcile, VolumesToVisit, durable, working
    <2>2. CASE VolumesDone
      BY <2>2 DEF TypeOK, ProviderTypeOK, VolumesDone, AttachmentsToVisit, durable, working
    <2>3. CASE CommitReconcile
      BY <2>3 DEF TypeOK, ProviderTypeOK, CommitReconcile, working
    <2> QED
      BY <1>1, <2>1, <2>2, <2>3
  <1>2. ASSUME NEW v \in VolumeID, ReconcileDelete(v)
        PROVE  TypeOK'
    <2>1. v \in DOMAIN vol /\ phase = "volumes" /\ v \in todo /\ wvol[v] \in Volume
      BY <1>2, VisitType, VolumeTable DEF ReconcileDelete
    <2>2. CASE Live(watt, v)
      <3>1. SetVolume(v, Cleared(wvol[v])) /\ UNCHANGED <<disk, trouble>> /\ Done(v)
        BY <1>2, <2>2 DEF ReconcileDelete
      <3>2. ProviderTypeOK' /\ trouble' \in 0 .. MaxTrouble
        BY <3>1 DEF TypeOK, ProviderTypeOK
      <3>3. Cleared(wvol[v]) \in Volume
        BY <2>1 DEF Cleared, Volume
      <3> QED
        BY <2>1, <3>1, <3>2, <3>3, SetVolumeType
    <2>3. CASE ~Live(watt, v)
      <3>1. PICK o \in Outcome :
              /\ Suffer(o) /\ DeleteDisk(v, o)
              /\ SetVolume(v, IF Succeeds(DeleteRefused(v), o)
                              THEN Reached(wvol[v], "DELETED")
                              ELSE Failed(wvol[v]))
        BY <1>2, <2>3 DEF ReconcileDelete
      <3>2. ProviderTypeOK' /\ trouble' \in 0 .. MaxTrouble /\ Done(v)
        BY <1>2, <3>1, ProviderType, SufferType DEF ReconcileDelete
      <3>3. Reached(wvol[v], "DELETED") \in Volume /\ Failed(wvol[v]) \in Volume
        BY <2>1 DEF Reached, Failed, Volume, VolumeState
      <3> QED
        BY <2>1, <3>1, <3>2, <3>3, SetVolumeType
    <2> QED
      BY <2>2, <2>3
  <1>3. ASSUME NEW v \in VolumeID, ObserveVolume(v)
        PROVE  TypeOK'
    <2>1. v \in DOMAIN vol /\ phase = "volumes" /\ v \in todo /\ wvol[v] \in Volume
      BY <1>3, VisitType, VolumeTable DEF ObserveVolume
    <2>2. ProviderTypeOK'
      BY <1>3 DEF ObserveVolume, TypeOK, ProviderTypeOK
    <2>3. trouble' \in 0 .. MaxTrouble
      BY <1>3, SufferType DEF ObserveVolume
    <2>4. PICK rec : /\ SetVolume(v, rec) /\ (Done(v) \/ Await(v))
                     /\ \/ rec \in {Failed(wvol[v]), Cleared(wvol[v])}
                        \/ Suffices(v) /\ rec = Adopt(wvol[v], disk[v])
      BY <1>3 DEF ObserveVolume
    <2>5. rec \in Volume
      <3>1. Failed(wvol[v]) \in Volume /\ Cleared(wvol[v]) \in Volume
        BY <2>1 DEF Failed, Cleared, Volume
      <3>2. ASSUME Suffices(v) PROVE Adopt(wvol[v], disk[v]) \in Volume
        <4>1. disk[v] \in Disk
          BY <3>2 DEF TypeOK, ProviderTypeOK, Suffices, Exists
        <4> QED
          BY <2>1, <4>1, AdoptRecord
      <3> QED
        BY <2>4, <3>1, <3>2
    <2> QED
      BY <2>1, <2>2, <2>3, <2>4, <2>5, SetVolumeType
  <1>4. ASSUME NEW v \in VolumeID, ReconcileEnsure(v)
        PROVE  TypeOK'
    <2>1. v # None
      BY ProviderAssumption
    <2>2. v \in DOMAIN vol /\ phase = "volumes" /\ wvol[v] \in Volume
      BY <1>4, <2>1, VisitType, VolumeTable DEF ReconcileEnsure
    <2>3. PICK o \in Outcome :
            /\ Suffer(o) /\ EnsureVolume(v, wvol[v].desired, o)
            /\ SetVolume(v, IF Succeeds(FALSE, o)
                            THEN Adopt(wvol[v], Ensured(v, wvol[v].desired))
                            ELSE Failed(wvol[v]))
      BY <1>4 DEF ReconcileEnsure
    <2>4. wvol[v].desired \in 0 .. MaxSize
      BY <2>2, ProviderAssumption DEF Volume
    <2>5. ProviderTypeOK' /\ trouble' \in 0 .. MaxTrouble /\ Done(v)
      BY <1>4, <2>3, <2>4, ProviderType, SufferType DEF ReconcileEnsure
    <2>6. Adopt(wvol[v], Ensured(v, wvol[v].desired)) \in Volume
      <3>1. Ensured(v, wvol[v].desired) \in Disk
        BY <2>4, EnsuredDisk
      <3> QED
        BY <2>2, <3>1, AdoptRecord
    <2>7. Failed(wvol[v]) \in Volume
      BY <2>2 DEF Failed, Volume
    <2> QED
      BY <2>2, <2>3, <2>5, <2>6, <2>7, SetVolumeType
  <1>5. ASSUME NEW a \in AttachmentID, ReconcileDetach(a)
        PROVE  TypeOK'
    <2>1. a \in DOMAIN att /\ phase = "attachments" /\ watt[a] \in Attachment
      BY <1>5, VisitType, AttachmentTable DEF ReconcileDetach
    <2>2. watt[a].vol \in VolumeID /\ watt[a].inst \in InstanceID
      BY <2>1 DEF Attachment
    <2>3. PICK kind \in {"ok"} \cup Outcome,
               rec \in {Cleared(watt[a]), Reached(watt[a], "DETACHED"),
                       Failed(watt[a])} :
            /\ Suffer(kind) /\ SetAttachment(a, rec) /\ Done(a)
            /\ \/ UNCHANGED disk
               \/ /\ kind \in Outcome
                  /\ EnsureDetached(watt[a].vol, watt[a].inst, a, kind)
      BY <1>5 DEF ReconcileDetach
    <2>4. ProviderTypeOK' /\ trouble' \in 0 .. MaxTrouble
      <3>1. CASE UNCHANGED disk
        BY <2>3, <3>1, SufferType DEF TypeOK, ProviderTypeOK
      <3>2. CASE kind \in Outcome /\ EnsureDetached(watt[a].vol, watt[a].inst, a, kind)
        BY <2>2, <2>3, <3>2, ProviderType, SufferType
      <3> QED
        BY <2>3, <3>1, <3>2
    <2>5. rec \in Attachment
      BY <2>1, <2>3 DEF Cleared, Reached, Failed, Attachment, AttachmentState
    <2> QED
      BY <2>1, <2>3, <2>4, <2>5, SetAttachmentType
  <1>6. ASSUME NEW a \in AttachmentID, ObserveAttachment(a)
        PROVE  TypeOK'
    <2>1. a \in DOMAIN att /\ phase = "attachments" /\ a \in todo /\ watt[a] \in Attachment
      BY <1>6, VisitType, AttachmentTable DEF ObserveAttachment
    <2>2. ProviderTypeOK'
      BY <1>6 DEF ObserveAttachment, TypeOK, ProviderTypeOK
    <2>3. trouble' \in 0 .. MaxTrouble
      BY <1>6, SufferType DEF ObserveAttachment
    <2>4. PICK rec \in {Cleared(watt[a]), Failed(watt[a])} :
            SetAttachment(a, rec) /\ (Done(a) \/ Await(a))
      BY <1>6 DEF ObserveAttachment
    <2>5. rec \in Attachment
      BY <2>1, <2>4 DEF Cleared, Failed, Attachment
    <2> QED
      BY <2>1, <2>2, <2>3, <2>4, <2>5, SetAttachmentType
  <1>7. ASSUME NEW a \in AttachmentID, ReconcileAttach(a)
        PROVE  TypeOK'
    <2>1. a # None
      BY ProviderAssumption
    <2>2. a \in DOMAIN att /\ phase = "attachments" /\ watt[a] \in Attachment
      BY <1>7, <2>1, VisitType, AttachmentTable DEF ReconcileAttach
    <2>3. watt[a].vol \in VolumeID /\ watt[a].inst \in InstanceID
      BY <2>2 DEF Attachment
    <2>4. PICK o \in Outcome, rec \in {Reached(watt[a], "ATTACHED"), Failed(watt[a])} :
            /\ Suffer(o) /\ EnsureAttached(watt[a].vol, watt[a].inst, a, o)
            /\ SetAttachment(a, rec)
      BY <1>7 DEF ReconcileAttach
    <2>5. ProviderTypeOK' /\ trouble' \in 0 .. MaxTrouble /\ Done(a)
      BY <1>7, <2>3, <2>4, ProviderType, SufferType DEF ReconcileAttach
    <2>6. rec \in Attachment
      BY <2>2, <2>4 DEF Reached, Failed, Attachment, AttachmentState
    <2> QED
      BY <2>2, <2>4, <2>5, <2>6, SetAttachmentType
  <1> QED
    BY <1>1, <1>2, <1>3, <1>4, <1>5, <1>6, <1>7 DEF ReconcileStep

\* Neither a crash, nor a restart, nor drift breaks a type.
LEMMA TroubleType ==
  ASSUME TypeOK, TroubleStep
  PROVE  TypeOK'
  <1>1. ASSUME Rollback, active' \subseteq InstanceID, trouble' \in 0 .. MaxTrouble
        PROVE  TypeOK'
    BY <1>1 DEF TypeOK, ProviderTypeOK, Rollback, durable
  <1>2. CASE Crash
    <2>1. trouble' \in 0 .. MaxTrouble
      BY <1>2, SufferType DEF Crash
    <2> QED
      BY <1>1, <1>2, <2>1 DEF Crash, TypeOK
  <1>3. CASE RestartWithRegistry
    <2>1. trouble' \in 0 .. MaxTrouble
      BY <1>3, SufferType DEF RestartWithRegistry
    <2> QED
      BY <1>1, <1>3, <2>1 DEF RestartWithRegistry
  <1>4. ASSUME NEW v \in VolumeID, Drift(v)
        PROVE  TypeOK'
    <2>1. trouble' \in 0 .. MaxTrouble
      BY <1>4, SufferType DEF Drift
    <2>2. ProviderTypeOK'
      BY <1>4, ProviderType DEF Drift, Outcome
    <2> QED
      BY <1>4, <2>1, <2>2 DEF Drift, TypeOK, durable, working, loop
  <1> QED
    BY <1>2, <1>3, <1>4 DEF TroubleStep

\* The tables are empty at first.
LEMMA InitType == Init => TypeOK
  BY PlatformAssumption
     DEF Init, TypeOK, ProviderInit, ProviderTypeOK, NoEntries

\* Every step keeps the types.
LEMMA NextType ==
  ASSUME TypeOK, [Next]_vars
  PROVE  TypeOK'
  <1>1. CASE UNCHANGED vars
    BY <1>1 DEF vars, TypeOK, ProviderTypeOK
  <1>2. CASE Next
    BY <1>2, CallType, PassType, TroubleType DEF Next
  <1> QED
    BY <1>1, <1>2

\* Type correctness: whatever the calls, passes, crashes and lost replies,
\* a pass works on copies of the tables the calls see and never visits or
\* resumes a record that is not there (engine.go:270-360).
THEOREM TypeCorrect == Spec => []TypeOK
  BY InitType, NextType, PTL DEF Spec

(***************************************************************************)
(* The inductive invariant.                                                *)
(***************************************************************************)
\* Every record as a reader of the tables sees it.
LEMMA Records ==
  ASSUME TypeOK
  PROVE  /\ \A v \in DOMAIN vol : vol[v] \in Volume /\ wvol[v] \in Volume
         /\ \A a \in DOMAIN att : att[a] \in Attachment /\ watt[a] \in Attachment
         /\ \A v \in DOMAIN disk : disk[v] \in Disk
         /\ DOMAIN wvol = DOMAIN vol /\ DOMAIN watt = DOMAIN att
  BY DEF TypeOK, ProviderTypeOK

(***************************************************************************)
(* Calls.  The pass is not open, so the copies are the tables, before and  *)
(* after; only what the tables and the cloud say to each other is left.    *)
(***************************************************************************)
LEMMA CallKeeps ==
  ASSUME IInv, TypeOK', Unlocked, NEW newVol, NEW newAtt, Write(newVol, newAtt),
         SingleWriter', GenerationOrder', DeletedHasNoWriter',
         \A v \in DOMAIN newVol : VolumeStateOK(newVol[v]),
         \A a \in DOMAIN newAtt : AttachmentStateOK(newAtt[a]),
         \A a \in DOMAIN att : /\ a \in DOMAIN newAtt
                               /\ newAtt[a].vol = att[a].vol
                               /\ newAtt[a].inst = att[a].inst
                               /\ newAtt[a].state = "DETACHED" => ~IsLive(a),
         \A v \in DOMAIN newVol :
            newVol[v].state = "DELETED" => v \in DOMAIN vol /\ vol[v].state = "DELETED"
  PROVE  IInv'
  <1>1. /\ vol' = newVol /\ wvol' = newVol /\ att' = newAtt /\ watt' = newAtt
        /\ disk' = disk /\ phase' = phase /\ pending' = pending /\ phase = "idle"
    BY DEF Write, Unlocked, loop
  <1>2. pending = None /\ watt = att /\ wvol = vol
    BY <1>1 DEF IInv, TypeOK, PassKeepsIntent
  <1>3. PassKeepsIntent'
    BY <1>1 DEF PassKeepsIntent, SameIntent, SameClaim, IsLive
  <1>4. StatesOK'
    BY <1>1 DEF StatesOK
  <1>5. PendingIsWanted'
    BY <1>1, <1>2 DEF PendingIsWanted
  <1>6. CloudFollows'
    BY <1>1, <1>2 DEF IInv, CloudFollows, IsLive, Exists
  <1> QED
    BY <1>3, <1>4, <1>5, <1>6 DEF IInv

\* A call that changes the state or the uses of one attachment.
LEMMA AttachmentCall ==
  ASSUME IInv, TypeOK', Unlocked, NEW a \in DOMAIN att, NEW rec \in Attachment,
         Write(vol, [att EXCEPT ![a] = rec]),
         rec.vol = att[a].vol, rec.inst = att[a].inst, rec.gen = att[a].gen,
         rec.state = "DETACHED" <=> ~IsLive(a),
         AttachmentStateOK(rec)
  PROVE  IInv'
  <1> DEFINE newAtt == [att EXCEPT ![a] = rec]
  <1>1. vol' = vol /\ att' = newAtt
    BY DEF Write
  <1>2. /\ DOMAIN newAtt = DOMAIN att
        /\ \A b \in DOMAIN att :
             /\ newAtt[b].vol = att[b].vol /\ newAtt[b].inst = att[b].inst
             /\ newAtt[b].gen = att[b].gen
             /\ newAtt[b].state = "DETACHED" <=> ~IsLive(b)
             /\ AttachmentStateOK(newAtt[b])
    BY DEF IInv, TypeOK, StatesOK, IsLive
  <1> HIDE DEF newAtt
  <1>3. SingleWriter'
    BY <1>1, <1>2 DEF IInv, SingleWriter, IsLive
  <1>4. GenerationOrder'
    BY <1>1, <1>2 DEF IInv, GenerationOrder, IsLive
  <1>5. DeletedHasNoWriter'
    BY <1>1, <1>2 DEF IInv, DeletedHasNoWriter, IsLive
  <1>6. \A v \in DOMAIN vol : VolumeStateOK(vol[v])
    BY DEF IInv, StatesOK
  <1> QED
    BY <1>2, <1>3, <1>4, <1>5, <1>6, CallKeeps DEF newAtt

\* A call that changes one volume.
LEMMA VolumeCall ==
  ASSUME IInv, TypeOK', Unlocked, NEW v \in DOMAIN vol, NEW rec \in Volume,
         Write([vol EXCEPT ![v] = rec], att),
         rec.gen = vol[v].gen, VolumeStateOK(rec),
         rec.del => vol[v].del \/ ~Live(att, v),
         rec.state = "DELETED" => vol[v].state = "DELETED"
  PROVE  IInv'
  <1> DEFINE newVol == [vol EXCEPT ![v] = rec]
  <1>1. vol' = newVol /\ att' = att
    BY DEF Write
  <1>2. /\ DOMAIN newVol = DOMAIN vol
        /\ \A w \in DOMAIN vol :
             /\ newVol[w].gen = vol[w].gen
             /\ VolumeStateOK(newVol[w])
             /\ newVol[w].del => vol[w].del \/ ~Live(att, w)
             /\ newVol[w].state = "DELETED" => vol[w].state = "DELETED"
    BY DEF IInv, TypeOK, StatesOK
  <1> HIDE DEF newVol
  <1>3. SingleWriter'
    BY <1>1 DEF IInv, SingleWriter, IsLive
  <1>4. GenerationOrder'
    BY <1>1, <1>2 DEF IInv, GenerationOrder, IsLive
  <1>5. DeletedHasNoWriter'
    <2>1. ASSUME NEW a \in DOMAIN att, IsLive(a)
          PROVE  ~newVol[att[a].vol].del
      <3>1. att[a].vol \in DOMAIN vol /\ ~vol[att[a].vol].del
        BY <2>1 DEF IInv, GenerationOrder, DeletedHasNoWriter
      <3>2. Live(att, att[a].vol)
        BY <2>1 DEF Live, IsLive
      <3> QED
        BY <1>2, <3>1, <3>2
    <2> QED
      BY <1>1, <2>1 DEF DeletedHasNoWriter, IsLive
  <1>6. \A a \in DOMAIN att : AttachmentStateOK(att[a])
    BY DEF IInv, StatesOK
  <1> QED
    BY <1>2, <1>3, <1>4, <1>5, <1>6, CallKeeps DEF newVol, IsLive

\* CreateVolume (engine.go:102-120) adds a volume without attachments and without a disk.
LEMMA CreateVolumeKeeps ==
  ASSUME IInv, TypeOK', NEW p, NEW v \in VolumeID, NEW name \in Name,
         NEW size \in 1 .. MaxSize, NEW zone \in Zone, NEW cap \in Capability,
         CreateVolume(p, v, name, size, zone, cap)
  PROVE  IInv'
  <1> DEFINE rec == [owner |-> p.owner, name |-> name, zone |-> zone,
                     cap |-> cap, state |-> "CREATING", init |-> size,
                     size |-> 0, desired |-> size, gen |-> 0,
                     allowFormat |-> TRUE, del |-> FALSE, err |-> FALSE,
                     key |-> NoKey]
             newVol == With(vol, v, rec)
  <1>1. Unlocked /\ v \notin DOMAIN vol /\ Write(newVol, att)
    BY DEF CreateVolume
  <1>2. VolumeStateOK(rec) /\ rec.state # "DELETED"
    BY DEF VolumeStateOK
  <1> HIDE DEF rec
  <1>3. /\ DOMAIN newVol = DOMAIN vol \cup {v} /\ newVol[v] = rec
        /\ \A w \in DOMAIN vol : newVol[w] = vol[w]
    BY <1>1 DEF With
  <1> HIDE DEF newVol
  <1>4. vol' = newVol /\ att' = att
    BY <1>1 DEF Write
  <1>5. SingleWriter'
    BY <1>4 DEF IInv, SingleWriter, IsLive
  <1>6. GenerationOrder'
    BY <1>3, <1>4 DEF IInv, GenerationOrder, IsLive
  <1>7. DeletedHasNoWriter'
    BY <1>3, <1>4 DEF IInv, GenerationOrder, DeletedHasNoWriter, IsLive
  <1>8. /\ \A w \in DOMAIN newVol : VolumeStateOK(newVol[w])
        /\ \A a \in DOMAIN att : AttachmentStateOK(att[a])
    BY <1>2, <1>3 DEF IInv, StatesOK
  <1>9. \A w \in DOMAIN newVol :
          newVol[w].state = "DELETED" => w \in DOMAIN vol /\ vol[w].state = "DELETED"
    BY <1>2, <1>3
  <1>10. \A a \in DOMAIN att : att[a].state = "DETACHED" => ~IsLive(a)
    BY DEF IsLive
  <1> QED
    BY <1>1, <1>5, <1>6, <1>7, <1>8, <1>9, <1>10, CallKeeps

\* DeleteVolume (engine.go:133-141) only accepts a volume without a live attachment.
LEMMA DeleteVolumeKeeps ==
  ASSUME IInv, TypeOK', NEW p, NEW v \in VolumeID, DeleteVolume(p, v)
  PROVE  IInv'
  <1>1. Unlocked /\ v \in DOMAIN vol /\ vol[v] \in Volume /\ ~Live(att, v)
    BY Records DEF IInv, DeleteVolume, Owned
  <1> DEFINE rec == [vol[v] EXCEPT !.del = TRUE,
                       !.state = IF @ = "DELETED" THEN @ ELSE "DELETING"]
  <1>2. Write([vol EXCEPT ![v] = rec], att)
    BY <1>1 DEF DeleteVolume, Volume
  <1>3. /\ rec \in Volume /\ rec.gen = vol[v].gen /\ VolumeStateOK(rec)
        /\ rec.state = "DELETED" => vol[v].state = "DELETED"
    BY <1>1 DEF Volume, VolumeState, VolumeStateOK
  <1> QED
    BY <1>1, <1>2, <1>3, VolumeCall

\* ResizeVolume (engine.go:142-150) touches neither attachments nor deletion intents.
LEMMA ResizeVolumeKeeps ==
  ASSUME IInv, TypeOK', NEW p, NEW v \in VolumeID, NEW size \in 1 .. MaxSize,
         ResizeVolume(p, v, size)
  PROVE  IInv'
  <1>1. /\ Unlocked /\ v \in DOMAIN vol /\ vol[v] \in Volume /\ ~vol[v].del
        /\ VolumeStateOK(vol[v])
    BY Records DEF IInv, StatesOK, ResizeVolume, Owned
  <1> DEFINE rec == [vol[v] EXCEPT !.desired = size,
                                   !.state = Resized(vol[v], size)]
  <1>2. Write([vol EXCEPT ![v] = rec], att)
    BY <1>1 DEF ResizeVolume, Volume
  <1>3. /\ rec \in Volume /\ rec.gen = vol[v].gen /\ VolumeStateOK(rec)
        /\ rec.state = "DELETED" => vol[v].state = "DELETED"
        /\ ~rec.del
    BY <1>1 DEF Volume, VolumeState, VolumeStateOK, Resized
  <1> QED
    BY <1>1, <1>2, <1>3, VolumeCall

\* MarkInitialized (engine.go:259-261) withdraws the format grant and nothing else.
LEMMA MarkInitializedKeeps ==
  ASSUME IInv, TypeOK', NEW p, NEW a, NEW v \in VolumeID, NEW g, NEW u,
         MarkInitialized(p, a, v, g, u)
  PROVE  IInv'
  <1>1. /\ Unlocked /\ v \in DOMAIN vol /\ vol[v] \in Volume
        /\ VolumeStateOK(vol[v])
    BY Records
       DEF IInv, StatesOK, MarkInitialized, HoldsUse, Authorized, Healthy
  <1> DEFINE rec == [vol[v] EXCEPT !.allowFormat = FALSE]
  <1>2. Write([vol EXCEPT ![v] = rec], att)
    BY <1>1 DEF MarkInitialized, Volume
  <1>3. /\ rec \in Volume /\ rec.gen = vol[v].gen /\ VolumeStateOK(rec)
        /\ rec.state = vol[v].state /\ rec.del = vol[v].del
    BY <1>1 DEF Volume, VolumeStateOK
  <1> QED
    BY <1>1, <1>2, <1>3, VolumeCall

\* DeleteAttachment (engine.go:179-202) closes an attachment that is live.
LEMMA CloseGateKeeps ==
  ASSUME IInv, TypeOK', NEW p, NEW a \in DOMAIN att, CloseGate(p, a)
  PROVE  IInv'
  <1>1. Unlocked /\ att[a] \in Attachment /\ IsLive(a)
    BY Records DEF IInv, CloseGate, IsLive
  <1> DEFINE rec == [att[a] EXCEPT !.del = TRUE, !.state = "DETACHING"]
  <1>2. Write(vol, [att EXCEPT ![a] = rec])
    BY <1>1 DEF CloseGate, Attachment
  <1>3. /\ rec \in Attachment /\ AttachmentStateOK(rec)
        /\ rec.vol = att[a].vol /\ rec.inst = att[a].inst /\ rec.gen = att[a].gen
        /\ rec.state # "DETACHED"
    BY <1>1 DEF Attachment, AttachmentState, AttachmentStateOK
  <1> QED
    BY <1>1, <1>2, <1>3, AttachmentCall

\* AcquireUse and ReleaseUse (engine.go:242-255) change the uses of one attachment.
LEMMA UseCallKeeps ==
  ASSUME IInv, TypeOK', NEW p, NEW a, NEW v, NEW g, NEW u \in UseID,
         \/ \E cap \in Capability : AcquireUse(p, a, v, g, u, cap)
         \/ ReleaseUse(p, a, v, g, u)
  PROVE  IInv'
  <1>1. /\ a \in DOMAIN att /\ Unlocked /\ att[a] \in Attachment
        /\ AttachmentStateOK(att[a])
    BY Records DEF IInv, StatesOK, AcquireUse, ReleaseUse, Authorized
  <1>2. PICK uses \in SUBSET UseID :
          /\ Write(vol, [att EXCEPT ![a] = [att[a] EXCEPT !.uses = uses]])
          /\ att[a].state = "ATTACHED" \/ uses \subseteq att[a].uses
    <2>1. att[a].uses \cup {u} \in SUBSET UseID /\ att[a].uses \ {u} \in SUBSET UseID
      BY <1>1 DEF Attachment
    <2>2. CASE \E cap \in Capability : AcquireUse(p, a, v, g, u, cap)
      BY <1>1, <2>1, <2>2 DEF AcquireUse, Healthy, Attachment
    <2>3. CASE ReleaseUse(p, a, v, g, u)
      BY <1>1, <2>1, <2>3 DEF ReleaseUse, Attachment
    <2> QED
      BY <2>2, <2>3
  <1> DEFINE rec == [att[a] EXCEPT !.uses = uses]
  <1>3. /\ rec \in Attachment /\ AttachmentStateOK(rec)
        /\ rec.vol = att[a].vol /\ rec.inst = att[a].inst /\ rec.gen = att[a].gen
        /\ rec.state = att[a].state
    BY <1>1, <1>2 DEF Attachment, AttachmentStateOK
  <1> HIDE DEF rec
  <1> QED
    BY <1>1, <1>2, <1>3, AttachmentCall DEF IsLive, rec

\* A new incarnation: nobody else is live, and its generation is above every
\* other one of the volume.
LEMMA CreateAttachmentKeeps ==
  ASSUME IInv, TypeOK', NEW p, NEW v \in VolumeID, NEW i \in InstanceID,
         NEW a \in AttachmentID, CreateAttachment(p, v, i, a)
  PROVE  IInv'
  <1>1. /\ Unlocked /\ v \in DOMAIN vol /\ vol[v] \in Volume /\ ~vol[v].del
        /\ ~Live(att, v) /\ a \notin DOMAIN att /\ VolumeStateOK(vol[v])
    BY Records DEF IInv, StatesOK, CreateAttachment, Owned
  <1> DEFINE g == NextGeneration(v)
             vrec == [vol[v] EXCEPT !.gen = g]
             arec == [owner |-> vol[v].owner, vol |-> v, inst |-> i,
                      gen |-> g, state |-> "ATTACHING",
                      del |-> FALSE, err |-> FALSE, uses |-> {}]
             newVol == [vol EXCEPT ![v] = vrec]
             newAtt == With(att, a, arec)
  <1>2. Write(newVol, newAtt)
    BY <1>1 DEF CreateAttachment, Volume
  <1>3. /\ g \in Nat /\ g > vol[v].gen
    BY <1>1 DEF Volume, NextGeneration
  <1>4. /\ vrec.gen = g /\ vrec.del = FALSE /\ VolumeStateOK(vrec)
        /\ vrec.state = vol[v].state
    BY <1>1 DEF Volume, VolumeStateOK
  <1>5. /\ arec.vol = v /\ arec.gen = g /\ arec.state = "ATTACHING"
        /\ AttachmentStateOK(arec)
    BY DEF AttachmentStateOK
  <1> HIDE DEF g, vrec, arec
  <1>6. /\ DOMAIN newVol = DOMAIN vol /\ newVol[v] = vrec
        /\ \A w \in DOMAIN vol : w # v => newVol[w] = vol[w]
    BY <1>1 DEF IInv, TypeOK
  <1>7. /\ DOMAIN newAtt = DOMAIN att \cup {a} /\ newAtt[a] = arec
        /\ \A b \in DOMAIN att : newAtt[b] = att[b]
    BY <1>1 DEF With
  <1> HIDE DEF newVol, newAtt
  <1>8. vol' = newVol /\ att' = newAtt
    BY <1>2 DEF Write
  <1>9. \A b \in DOMAIN att : att[b].vol = v => ~IsLive(b) /\ att[b].gen < g
    <2>1. SUFFICES ASSUME NEW b \in DOMAIN att, att[b].vol = v
                   PROVE  ~IsLive(b) /\ att[b].gen < g
      OBVIOUS
    <2>2. att[b].gen <= vol[v].gen /\ att[b].gen \in Nat /\ vol[v].gen \in Nat
      BY <1>1, <2>1, Records DEF IInv, GenerationOrder, Attachment, Volume
    <2> QED
      BY <1>1, <1>3, <2>1, <2>2 DEF Live, IsLive
  <1>10. SingleWriter'
    BY <1>5, <1>7, <1>8, <1>9 DEF IInv, SingleWriter, IsLive
  <1>11. GenerationOrder'
    <2> SUFFICES ASSUME NEW b \in DOMAIN newAtt
                 PROVE  /\ newAtt[b].vol \in DOMAIN newVol
                        /\ newAtt[b].gen <= newVol[newAtt[b].vol].gen
                        /\ newAtt[b].state # "DETACHED" =>
                             newAtt[b].gen = newVol[newAtt[b].vol].gen
                        /\ \A c \in DOMAIN newAtt :
                             newAtt[b].vol = newAtt[c].vol
                               /\ newAtt[b].gen = newAtt[c].gen => b = c
      BY <1>8 DEF GenerationOrder, IsLive
    <2>1. \A c \in DOMAIN att : att[c].gen \in Nat
      BY Records DEF IInv, Attachment
    <2>2. CASE b = a
      BY <1>1, <1>3, <1>4, <1>5, <1>6, <1>7, <1>9, <2>1, <2>2
    <2>3. CASE b \in DOMAIN att /\ att[b].vol = v
      <3>1. newAtt[b] = att[b] /\ newVol[v].gen = g /\ att[b].gen < g /\ ~IsLive(b)
        BY <1>4, <1>6, <1>7, <1>9, <2>3
      <3>2. \A c \in DOMAIN att : att[b].vol = att[c].vol /\ att[b].gen = att[c].gen => b = c
        BY <2>3 DEF IInv, GenerationOrder
      <3> QED
        BY <1>1, <1>3, <1>5, <1>6, <1>7, <2>1, <2>3, <3>1, <3>2 DEF IsLive
    <2>4. CASE b \in DOMAIN att /\ att[b].vol # v
      <3>1. /\ newAtt[b] = att[b] /\ att[b].vol \in DOMAIN vol
            /\ newVol[att[b].vol] = vol[att[b].vol]
        BY <1>6, <1>7, <2>4 DEF IInv, GenerationOrder
      <3>2. /\ att[b].gen <= vol[att[b].vol].gen
            /\ att[b].state # "DETACHED" => att[b].gen = vol[att[b].vol].gen
            /\ \A c \in DOMAIN att :
                 att[b].vol = att[c].vol /\ att[b].gen = att[c].gen => b = c
        BY <2>4 DEF IInv, GenerationOrder, IsLive
      <3> QED
        BY <1>5, <1>6, <1>7, <2>4, <3>1, <3>2
    <2> QED
      BY <1>7, <2>2, <2>3, <2>4
  <1>12. DeletedHasNoWriter'
    BY <1>1, <1>4, <1>5, <1>6, <1>7, <1>8
       DEF IInv, GenerationOrder, DeletedHasNoWriter, IsLive
  <1>13. /\ \A w \in DOMAIN newVol : VolumeStateOK(newVol[w])
         /\ \A b \in DOMAIN newAtt : AttachmentStateOK(newAtt[b])
    BY <1>4, <1>5, <1>6, <1>7 DEF IInv, StatesOK
  <1>14. \A w \in DOMAIN newVol :
           newVol[w].state = "DELETED" => w \in DOMAIN vol /\ vol[w].state = "DELETED"
    BY <1>4, <1>6
  <1>15. \A b \in DOMAIN att :
           /\ b \in DOMAIN newAtt /\ newAtt[b] = att[b]
           /\ newAtt[b].state = "DETACHED" => ~IsLive(b)
    BY <1>7 DEF IsLive
  <1> QED
    BY <1>1, <1>2, <1>10, <1>11, <1>12, <1>13, <1>14, <1>15, CallKeeps

\* Every accepted call, of any principal, keeps the invariant.
LEMMA CallInv ==
  ASSUME IInv, TypeOK', NEW p \in Principal, CallBy(p)
  PROVE  IInv'
  <1>1. CASE ControllerCall(p)
    BY <1>1, CreateVolumeKeeps, DeleteVolumeKeeps, ResizeVolumeKeeps,
       CreateAttachmentKeeps, CloseGateKeeps
       DEF ControllerCall, DeleteAttachment, DeleteLatestAttachment
  <1>2. CASE NodeCall(p)
    BY <1>2, UseCallKeeps, MarkInitializedKeeps DEF NodeCall
  <1> QED
    BY <1>1, <1>2 DEF CallBy

(***************************************************************************)
(* The reconcile pass.  The tables stay; what a visit writes to its copies *)
(* must fit what it did to the cloud.                                      *)
(***************************************************************************)
\* A visit of a volume.  It may make or delete this volume's disk, but
\* attaches and detaches nothing.
LEMMA VolumeVisit ==
  ASSUME IInv, TypeOK', NEW v \in DOMAIN vol, NEW rec, phase = "volumes",
         SetVolume(v, rec), Done(v) \/ (Await(v) /\ ~rec.del),
         SameIntent(rec, wvol[v]), VolumeStateOK(rec),
         \A w \in DOMAIN disk' : w \in DOMAIN disk =>
            disk'[w].inst = disk[w].inst /\ disk'[w].att = disk[w].att,
         \A w \in DOMAIN disk' : w \notin DOMAIN disk =>
            w = v /\ disk'[w].inst = None /\ disk'[w].att = None,
         v \in DOMAIN disk' => vol[v].state # "DELETED" /\ rec.state # "DELETED"
  PROVE  IInv'
  <1>1. /\ vol' = vol /\ att' = att /\ watt' = watt /\ phase' = phase
        /\ wvol' = [wvol EXCEPT ![v] = rec]
        /\ pending' = None \/ (pending' = v /\ ~rec.del)
    BY DEF SetVolume, Done, Await, durable
  <1>2. /\ wvol'[v] = rec
        /\ \A w \in DOMAIN vol : w # v => wvol'[w] = wvol[w]
    BY <1>1 DEF IInv, TypeOK
  <1>3. SingleWriter' /\ GenerationOrder' /\ DeletedHasNoWriter'
    BY <1>1 DEF IInv, SingleWriter, GenerationOrder, DeletedHasNoWriter, IsLive
  <1>4. PassKeepsIntent'
    BY <1>1, <1>2 DEF IInv, PassKeepsIntent, SameIntent, SameClaim, IsLive
  <1>5. StatesOK'
    BY <1>1, <1>2 DEF IInv, StatesOK
  <1>6. PendingIsWanted'
    BY <1>1, <1>2 DEF PendingIsWanted
  <1>7. CloudFollows'
    <2>1. ASSUME NEW w \in DOMAIN disk'
          PROVE  /\ disk'[w].inst = None <=> disk'[w].att = None
                 /\ disk'[w].inst # None =>
                      /\ disk'[w].att \in DOMAIN att
                      /\ watt[disk'[w].att].state # "DETACHED"
                      /\ att[disk'[w].att].vol = w
                      /\ att[disk'[w].att].inst = disk'[w].inst
      BY DEF IInv, CloudFollows
    <2>2. ASSUME NEW w \in DOMAIN vol,
                 wvol'[w].state = "DELETED" \/ vol[w].state = "DELETED"
          PROVE  w \notin DOMAIN disk'
      BY <1>2, <2>2 DEF IInv, CloudFollows, Exists
    <2> QED
      BY <1>1, <2>1, <2>2 DEF CloudFollows, Exists
  <1> QED
    BY <1>3, <1>4, <1>5, <1>6, <1>7 DEF IInv

\* A visit of an attachment.  It may attach or detach its volume's disk, for
\* itself.
LEMMA AttachmentVisit ==
  ASSUME IInv, TypeOK', NEW a \in DOMAIN att, NEW rec, phase = "attachments",
         SetAttachment(a, rec), Done(a) \/ (Await(a) /\ ~rec.del),
         SameClaim(rec, watt[a]), AttachmentStateOK(rec),
         rec.state # "DETACHED" => watt[a].state # "DETACHED",
         DOMAIN disk' = DOMAIN disk,
         \A w \in DOMAIN disk :
            \/ disk'[w].inst = disk[w].inst /\ disk'[w].att = disk[w].att
            \/ disk'[w].inst = None /\ disk'[w].att = None
            \/ disk'[w].inst = att[a].inst /\ disk'[w].att = a /\ att[a].vol = w,
         rec.state = "DETACHED" => \A w \in DOMAIN disk' : disk'[w].att # a
  PROVE  IInv'
  <1>1. /\ vol' = vol /\ att' = att /\ wvol' = wvol /\ phase' = phase
        /\ watt' = [watt EXCEPT ![a] = rec]
        /\ pending' = None \/ (pending' = a /\ ~rec.del)
    BY DEF SetAttachment, Done, Await, durable
  <1>2. /\ watt'[a] = rec
        /\ \A b \in DOMAIN att : b # a => watt'[b] = watt[b]
    BY <1>1 DEF IInv, TypeOK
  <1>3. SingleWriter' /\ GenerationOrder' /\ DeletedHasNoWriter'
    BY <1>1 DEF IInv, SingleWriter, GenerationOrder, DeletedHasNoWriter, IsLive
  <1>4. PassKeepsIntent'
    BY <1>1, <1>2 DEF IInv, PassKeepsIntent, SameIntent, SameClaim, IsLive
  <1>5. StatesOK'
    BY <1>1, <1>2 DEF IInv, StatesOK
  <1>6. PendingIsWanted'
    BY <1>1, <1>2 DEF PendingIsWanted
  <1>7. CloudFollows'
    <2>1. a # None /\ att[a].inst # None
      BY ProviderAssumption, Records DEF IInv, TypeOK, Attachment
    <2>2. ASSUME NEW w \in DOMAIN disk
          PROVE  /\ disk'[w].inst = None <=> disk'[w].att = None
                 /\ disk'[w].inst # None =>
                      /\ disk'[w].att \in DOMAIN att
                      /\ watt'[disk'[w].att].state # "DETACHED"
                      /\ att[disk'[w].att].vol = w
                      /\ att[disk'[w].att].inst = disk'[w].inst
      <3>1. /\ disk[w].inst = None <=> disk[w].att = None
            /\ disk[w].inst # None =>
                 /\ disk[w].att \in DOMAIN att
                 /\ watt[disk[w].att].state # "DETACHED"
                 /\ att[disk[w].att].vol = w
                 /\ att[disk[w].att].inst = disk[w].inst
        BY DEF IInv, CloudFollows
      <3> QED
        BY <1>2, <2>1, <3>1
    <2> QED
      BY <1>1, <2>2 DEF IInv, CloudFollows, Exists
  <1> QED
    BY <1>3, <1>4, <1>5, <1>6, <1>7 DEF IInv

\* What is visited is live in the copies: neither its record nor that of its
\* volume says DELETED unless the deletion was asked for.
LEMMA WantedVolume ==
  ASSUME IInv, NEW v \in DOMAIN vol, ~wvol[v].del
  PROVE  wvol[v].state # "DELETED" /\ vol[v].state # "DELETED"
  BY DEF IInv, StatesOK, VolumeStateOK, PassKeepsIntent, SameIntent

\* A visit to a volume to be deleted (engine.go:281-288) keeps it, whatever the
\* provider answers.
LEMMA ReconcileDeleteKeeps ==
  ASSUME IInv, TypeOK', NEW v \in VolumeID, ReconcileDelete(v)
  PROVE  IInv'
  <1>1. /\ v \in DOMAIN vol /\ phase = "volumes" /\ wvol[v] \in Volume
        /\ wvol[v].del /\ VolumeStateOK(wvol[v]) /\ Done(v)
    BY VisitType, Records DEF IInv, StatesOK, ReconcileDelete
  <1>2. /\ SameIntent(Cleared(wvol[v]), wvol[v]) /\ VolumeStateOK(Cleared(wvol[v]))
        /\ SameIntent(Failed(wvol[v]), wvol[v]) /\ VolumeStateOK(Failed(wvol[v]))
        /\ SameIntent(Reached(wvol[v], "DELETED"), wvol[v])
        /\ VolumeStateOK(Reached(wvol[v], "DELETED"))
        /\ Cleared(wvol[v]).state = wvol[v].state
        /\ Failed(wvol[v]).state = wvol[v].state
    BY <1>1 DEF Volume, SameIntent, VolumeStateOK, Cleared, Failed, Reached
  <1>3. v \in DOMAIN disk => vol[v].state # "DELETED" /\ wvol[v].state # "DELETED"
    BY <1>1 DEF IInv, CloudFollows, Exists
  <1>4. CASE Live(watt, v)
    <2>1. SetVolume(v, Cleared(wvol[v])) /\ UNCHANGED disk
      BY <1>4 DEF ReconcileDelete
    <2> QED
      BY <1>1, <1>2, <1>3, <2>1, VolumeVisit
  <1>5. CASE ~Live(watt, v)
    <2>1. PICK o \in Outcome :
            /\ DeleteDisk(v, o)
            /\ SetVolume(v, IF Succeeds(DeleteRefused(v), o)
                            THEN Reached(wvol[v], "DELETED")
                            ELSE Failed(wvol[v]))
      BY <1>5 DEF ReconcileDelete
    <2>2. /\ DOMAIN Without(disk, v) = DOMAIN disk \ {v}
          /\ \A w \in DOMAIN disk \ {v} : Without(disk, v)[w] = disk[w]
      BY DEF Without, Restrict
    <2>3. CASE Succeeds(DeleteRefused(v), o)
      <3>1. disk' = Without(disk, v) /\ SetVolume(v, Reached(wvol[v], "DELETED"))
        BY <2>1, <2>3 DEF Succeeds, DeleteDisk, Perform
      <3>2. /\ v \notin DOMAIN disk'
            /\ \A w \in DOMAIN disk' : w \in DOMAIN disk /\ disk'[w] = disk[w]
        BY <2>2, <3>1
      <3> QED
        BY <1>1, <1>2, <3>1, <3>2, VolumeVisit
    <2>4. CASE ~Succeeds(DeleteRefused(v), o)
      <3>1. SetVolume(v, Failed(wvol[v])) /\ disk' \in {disk, Without(disk, v)}
        BY <2>1, <2>4 DEF DeleteDisk, Perform
      <3>2. \A w \in DOMAIN disk' : w \in DOMAIN disk /\ disk'[w] = disk[w]
        BY <2>2, <3>1
      <3> QED
        BY <1>1, <1>2, <1>3, <3>1, <3>2, VolumeVisit
    <2> QED
      BY <2>3, <2>4
  <1> QED
    BY <1>4, <1>5

\* GetVolume and the decision on what it returned (engine.go:290-303) keep it.
LEMMA ObserveVolumeKeeps ==
  ASSUME IInv, TypeOK', NEW v \in VolumeID, ObserveVolume(v)
  PROVE  IInv'
  <1>1. /\ v \in DOMAIN vol /\ phase = "volumes" /\ wvol[v] \in Volume
        /\ ~wvol[v].del /\ VolumeStateOK(wvol[v]) /\ disk' = disk
    BY VisitType, Records DEF IInv, StatesOK, ObserveVolume
  <1>2. PICK rec : /\ SetVolume(v, rec) /\ (Done(v) \/ Await(v))
                   /\ \/ rec \in {Failed(wvol[v]), Cleared(wvol[v])}
                      \/ v \in DOMAIN disk /\ rec = Adopt(wvol[v], disk[v])
    BY DEF ObserveVolume, Suffices, Exists
  <1>3. wvol[v].state # "DELETED" /\ vol[v].state # "DELETED"
    BY <1>1, WantedVolume
  <1>4. /\ SameIntent(rec, wvol[v]) /\ rec.state # "DELETED" /\ ~rec.del
        /\ VolumeStateOK(rec)
    <2>1. CASE rec \in {Failed(wvol[v]), Cleared(wvol[v])}
      BY <1>1, <1>3, <2>1 DEF Volume, Failed, Cleared, SameIntent, VolumeStateOK
    <2>2. CASE v \in DOMAIN disk /\ rec = Adopt(wvol[v], disk[v])
      BY <1>1, <1>3, <2>2, Records, AdoptRecord DEF IInv, SameIntent, VolumeStateOK
    <2> QED
      BY <1>2, <2>1, <2>2
  <1> QED
    BY <1>1, <1>2, <1>3, <1>4, VolumeVisit

\* EnsureVolume and the adoption of its disk (engine.go:304-313) keep it.
LEMMA ReconcileEnsureKeeps ==
  ASSUME IInv, TypeOK', NEW v \in VolumeID, ReconcileEnsure(v)
  PROVE  IInv'
  <1>1. v # None
    BY ProviderAssumption
  <1>2. /\ v \in DOMAIN vol /\ phase = "volumes" /\ wvol[v] \in Volume
        /\ ~wvol[v].del /\ VolumeStateOK(wvol[v]) /\ Done(v)
    BY <1>1, VisitType, Records
       DEF IInv, StatesOK, PendingIsWanted, ReconcileEnsure, Resume
  <1> DEFINE d == Ensured(v, wvol[v].desired)
  <1>3. PICK o \in Outcome, rec \in {Adopt(wvol[v], d), Failed(wvol[v])} :
          EnsureVolume(v, wvol[v].desired, o) /\ SetVolume(v, rec)
    BY DEF ReconcileEnsure
  <1>4. wvol[v].state # "DELETED" /\ vol[v].state # "DELETED"
    BY <1>2, WantedVolume
  <1>5. /\ d \in Disk
        /\ v \in DOMAIN disk => d.inst = disk[v].inst /\ d.att = disk[v].att
        /\ v \notin DOMAIN disk => d.inst = None /\ d.att = None
    <2>1. wvol[v].desired \in 0 .. MaxSize
      BY <1>2, ProviderAssumption DEF Volume
    <2> QED
      BY <2>1, EnsuredDisk DEF IInv, Exists
  <1>6. disk' = disk \/ disk' = With(disk, v, d)
    BY <1>3 DEF EnsureVolume, Perform
  <1> HIDE DEF d
  <1>7. /\ SameIntent(rec, wvol[v]) /\ rec.state # "DELETED" /\ ~rec.del
        /\ VolumeStateOK(rec)
    <2>1. CASE rec = Failed(wvol[v])
      BY <1>2, <1>4, <2>1 DEF Volume, Failed, SameIntent, VolumeStateOK
    <2>2. CASE rec = Adopt(wvol[v], d)
      BY <1>2, <1>4, <1>5, <2>2, AdoptRecord DEF SameIntent, VolumeStateOK
    <2> QED
      BY <1>3, <2>1, <2>2
  <1>8. /\ \A w \in DOMAIN disk' : w \in DOMAIN disk =>
             disk'[w].inst = disk[w].inst /\ disk'[w].att = disk[w].att
        /\ \A w \in DOMAIN disk' : w \notin DOMAIN disk =>
             w = v /\ disk'[w].inst = None /\ disk'[w].att = None
    BY <1>5, <1>6 DEF With
  <1> QED
    BY <1>2, <1>3, <1>4, <1>7, <1>8, VolumeVisit

\* A visit to an attachment to be detached (engine.go:325-332) keeps it.
LEMMA ReconcileDetachKeeps ==
  ASSUME IInv, TypeOK', NEW a \in AttachmentID, ReconcileDetach(a)
  PROVE  IInv'
  <1>1. /\ a \in DOMAIN att /\ phase = "attachments" /\ watt[a] \in Attachment
        /\ watt[a].del /\ AttachmentStateOK(watt[a]) /\ Done(a)
        /\ watt[a].vol = att[a].vol /\ watt[a].inst = att[a].inst
    BY VisitType, Records
       DEF IInv, StatesOK, PassKeepsIntent, SameClaim, ReconcileDetach
  <1>2. \A rec \in {Cleared(watt[a]), Failed(watt[a])} :
          /\ SameClaim(rec, watt[a]) /\ AttachmentStateOK(rec)
          /\ rec.state = watt[a].state
    BY <1>1 DEF Attachment, SameClaim, AttachmentStateOK, Cleared, Failed
  <1>3. CASE SetAttachment(a, Cleared(watt[a])) /\ UNCHANGED disk
    <2>1. watt[a].state = "DETACHED" => \A w \in DOMAIN disk : disk[w].att # a
      BY ProviderAssumption DEF IInv, CloudFollows
    <2> QED
      BY <1>1, <1>2, <1>3, <2>1, AttachmentVisit
  <1>4. ASSUME ~InUse(watt[a]), NEW o \in Outcome,
               EnsureDetached(watt[a].vol, watt[a].inst, a, o),
               SetAttachment(a, IF Succeeds(DetachRefused(watt[a].vol, watt[a].inst, a), o)
                                THEN Reached(watt[a], "DETACHED")
                                ELSE Failed(watt[a]))
        PROVE  IInv'
    <2> DEFINE v == att[a].vol
               freed == [disk EXCEPT ![v].inst = None, ![v].att = None]
    <2>1. disk' = disk \/ (Attached(v) /\ disk' = freed)
      BY <1>1, <1>4 DEF EnsureDetached, Perform
    <2>2. Attached(v) =>
            /\ DOMAIN freed = DOMAIN disk
            /\ freed[v].inst = None /\ freed[v].att = None
            /\ \A w \in DOMAIN disk : w # v => freed[w] = disk[w]
      BY Records DEF IInv, Attached, Exists, Disk
    <2>3. /\ DOMAIN disk' = DOMAIN disk
          /\ \A w \in DOMAIN disk :
               \/ disk'[w].inst = disk[w].inst /\ disk'[w].att = disk[w].att
               \/ disk'[w].inst = None /\ disk'[w].att = None
      BY <2>1, <2>2
    <2>4. \A w \in DOMAIN disk : disk[w].att = a => w = v /\ watt[a].state # "DETACHED"
      BY ProviderAssumption DEF IInv, CloudFollows
    <2>5. CASE Succeeds(DetachRefused(watt[a].vol, watt[a].inst, a), o)
      <3>1. SetAttachment(a, Reached(watt[a], "DETACHED"))
        BY <1>4, <2>5
      <3>2. /\ SameClaim(Reached(watt[a], "DETACHED"), watt[a])
            /\ AttachmentStateOK(Reached(watt[a], "DETACHED"))
        BY <1>1, <1>4 DEF Attachment, SameClaim, AttachmentStateOK, Reached, InUse
      <3>3. Reached(watt[a], "DETACHED").state = "DETACHED"
        BY <1>1 DEF Attachment, Reached
      <3>4. Attached(v) => disk' = freed
        BY <1>1, <1>4, <2>5 DEF Succeeds, EnsureDetached, Perform
      <3>5. \A w \in DOMAIN disk' : disk'[w].att # a
        <4>1. SUFFICES ASSUME NEW w \in DOMAIN disk PROVE disk'[w].att # a
          BY <2>3
        <4>2. CASE disk[w].att = a
          <5>1. w = v /\ Attached(v)
            BY <2>4, <4>2, ProviderAssumption DEF IInv, CloudFollows, Attached, Exists
          <5> QED
            BY <2>2, <3>4, <5>1, ProviderAssumption
        <4>3. CASE disk[w].att # a
          BY <2>3, <4>3, ProviderAssumption
        <4> QED
          BY <4>2, <4>3
      <3> QED
        BY <1>1, <2>3, <3>1, <3>2, <3>3, <3>5, AttachmentVisit
    <2>6. CASE ~Succeeds(DetachRefused(watt[a].vol, watt[a].inst, a), o)
      <3>1. SetAttachment(a, Failed(watt[a]))
        BY <1>4, <2>6
      <3>2. watt[a].state = "DETACHED" => \A w \in DOMAIN disk' : disk'[w].att # a
        BY <2>3, <2>4, ProviderAssumption
      <3> QED
        BY <1>1, <1>2, <2>3, <3>1, <3>2, AttachmentVisit
    <2> QED
      BY <2>5, <2>6
  <1> QED
    BY <1>3, <1>4 DEF ReconcileDetach

\* The checks before EnsureAttached (engine.go:334-350) keep it.
LEMMA ObserveAttachmentKeeps ==
  ASSUME IInv, TypeOK', NEW a \in AttachmentID, ObserveAttachment(a)
  PROVE  IInv'
  <1>1. /\ a \in DOMAIN att /\ phase = "attachments" /\ watt[a] \in Attachment
        /\ ~watt[a].del /\ AttachmentStateOK(watt[a]) /\ disk' = disk
    BY VisitType, Records DEF IInv, StatesOK, ObserveAttachment
  <1>2. PICK rec \in {Cleared(watt[a]), Failed(watt[a])} :
          SetAttachment(a, rec) /\ (Done(a) \/ Await(a))
    BY DEF ObserveAttachment
  <1>3. /\ SameClaim(rec, watt[a]) /\ AttachmentStateOK(rec)
        /\ rec.state = watt[a].state /\ ~rec.del /\ rec.state # "DETACHED"
    BY <1>1, <1>2 DEF Attachment, SameClaim, AttachmentStateOK, Cleared, Failed
  <1> QED
    BY <1>1, <1>2, <1>3, AttachmentVisit

\* EnsureAttached (engine.go:351-358) keeps it, also when its reply is lost.
LEMMA ReconcileAttachKeeps ==
  ASSUME IInv, TypeOK', NEW a \in AttachmentID, ReconcileAttach(a)
  PROVE  IInv'
  <1>1. a # None
    BY ProviderAssumption
  <1>2. /\ a \in DOMAIN att /\ phase = "attachments" /\ watt[a] \in Attachment
        /\ ~watt[a].del /\ AttachmentStateOK(watt[a]) /\ Done(a)
        /\ watt[a].vol = att[a].vol /\ watt[a].inst = att[a].inst
    BY <1>1, VisitType, Records
       DEF IInv, StatesOK, PassKeepsIntent, SameClaim, PendingIsWanted,
           ReconcileAttach, Resume
  <1>3. PICK o \in Outcome, rec \in {Reached(watt[a], "ATTACHED"), Failed(watt[a])} :
          EnsureAttached(att[a].vol, att[a].inst, a, o) /\ SetAttachment(a, rec)
    BY <1>2 DEF ReconcileAttach
  <1>4. /\ SameClaim(rec, watt[a]) /\ AttachmentStateOK(rec)
        /\ rec.state # "DETACHED" /\ watt[a].state # "DETACHED"
    BY <1>2, <1>3 DEF Attachment, SameClaim, AttachmentStateOK, Reached, Failed
  <1> DEFINE v == att[a].vol
             held == [disk EXCEPT ![v].inst = att[a].inst, ![v].att = a]
  <1>5. disk' = disk \/ (Exists(v) /\ disk' = held)
    BY <1>3 DEF EnsureAttached, Perform, AttachRefused
  <1>6. Exists(v) =>
          /\ DOMAIN held = DOMAIN disk
          /\ held[v].inst = att[a].inst /\ held[v].att = a
          /\ \A w \in DOMAIN disk : w # v => held[w] = disk[w]
    BY Records DEF IInv, Exists, Disk
  <1>7. /\ DOMAIN disk' = DOMAIN disk
        /\ \A w \in DOMAIN disk :
             \/ disk'[w].inst = disk[w].inst /\ disk'[w].att = disk[w].att
             \/ disk'[w].inst = att[a].inst /\ disk'[w].att = a /\ att[a].vol = w
    BY <1>5, <1>6
  <1> QED
    BY <1>2, <1>3, <1>4, <1>7, AttachmentVisit

\* The pass begins, changes its list, ends.  At the commit the tables become
\* what the copies were.
LEMMA BracketKeeps ==
  ASSUME IInv, TypeOK', BeginReconcile \/ VolumesDone \/ CommitReconcile
  PROVE  IInv'
  <1>1. CASE BeginReconcile \/ VolumesDone
    <2>1. /\ UNCHANGED <<disk, vol, att, wvol, watt, pending>>
          /\ pending = None /\ phase' # "idle"
      BY <1>1 DEF BeginReconcile, VolumesDone, durable, working, IInv, TypeOK
    <2> QED
      BY <2>1
         DEF IInv, SingleWriter, GenerationOrder, DeletedHasNoWriter, IsLive,
             PassKeepsIntent, StatesOK, PendingIsWanted, CloudFollows, Exists
  <1>2. CASE CommitReconcile
    <2>1. /\ vol' = wvol /\ wvol' = wvol /\ att' = watt /\ watt' = watt
          /\ disk' = disk /\ pending' = None /\ pending = None
      BY <1>2 DEF CommitReconcile, working
    <2>2. DOMAIN wvol = DOMAIN vol /\ DOMAIN watt = DOMAIN att
      BY Records DEF IInv
    <2>3. /\ \A v \in DOMAIN vol : wvol[v].gen = vol[v].gen /\ wvol[v].del = vol[v].del
          /\ \A a \in DOMAIN att :
               /\ watt[a].vol = att[a].vol /\ watt[a].inst = att[a].inst
               /\ watt[a].gen = att[a].gen
               /\ watt[a].state # "DETACHED" => att[a].state # "DETACHED"
      BY DEF IInv, PassKeepsIntent, SameIntent, SameClaim, IsLive
    <2>4. SingleWriter'
      BY <2>1, <2>2, <2>3 DEF IInv, SingleWriter, IsLive
    <2>5. GenerationOrder'
      BY <2>1, <2>2, <2>3 DEF IInv, GenerationOrder, IsLive
    <2>6. DeletedHasNoWriter'
      BY <2>1, <2>2, <2>3 DEF IInv, GenerationOrder, DeletedHasNoWriter, IsLive
    <2>7. PassKeepsIntent'
      BY <2>1 DEF PassKeepsIntent, SameIntent, SameClaim, IsLive
    <2>8. StatesOK' /\ PendingIsWanted'
      BY <2>1, <2>2 DEF IInv, StatesOK, PendingIsWanted
    <2>9. CloudFollows'
      BY <2>1, <2>2, <2>3 DEF IInv, CloudFollows, Exists
    <2> QED
      BY <2>4, <2>5, <2>6, <2>7, <2>8, <2>9 DEF IInv
  <1> QED
    BY <1>1, <1>2

\* A pass that does not commit leaves in the cloud only what the tables had
\* already asked for.
LEMMA RollbackKeeps ==
  ASSUME IInv, TypeOK', Rollback
  PROVE  IInv'
  <1>1. /\ vol' = vol /\ wvol' = vol /\ att' = att /\ watt' = att
        /\ disk' = disk /\ pending' = None
    BY DEF Rollback, durable
  <1>2. SingleWriter' /\ GenerationOrder' /\ DeletedHasNoWriter'
    BY <1>1 DEF IInv, SingleWriter, GenerationOrder, DeletedHasNoWriter, IsLive
  <1>3. PassKeepsIntent'
    BY <1>1 DEF PassKeepsIntent, SameIntent, SameClaim, IsLive
  <1>4. StatesOK' /\ PendingIsWanted'
    BY <1>1 DEF IInv, StatesOK, PendingIsWanted
  <1>5. CloudFollows'
    BY <1>1 DEF IInv, CloudFollows, PassKeepsIntent, IsLive, Exists
  <1> QED
    BY <1>2, <1>3, <1>4, <1>5 DEF IInv

\* Drift only takes away.
LEMMA DriftKeeps ==
  ASSUME IInv, TypeOK', NEW v \in VolumeID, Drift(v)
  PROVE  IInv'
  <1>1. /\ UNCHANGED <<vol, att, wvol, watt, pending, phase>>
        /\ DiskDisappears(v) \/ DiskDetaches(v) \/ DiskReplaced(v)
    BY DEF Drift, durable, working, loop
  <1>2. \A w \in DOMAIN disk' :
          /\ w \in DOMAIN disk
          /\ \/ disk'[w].inst = disk[w].inst /\ disk'[w].att = disk[w].att
             \/ disk'[w].inst = None /\ disk'[w].att = None
    <2>1. CASE DiskDisappears(v)
      BY <2>1 DEF DiskDisappears, Without, Restrict
    <2>2. CASE DiskDetaches(v)
      BY <2>2, Records DEF IInv, DiskDetaches, Attached, Exists, Disk
    <2>3. CASE DiskReplaced(v)
      BY <2>3, Records DEF IInv, DiskReplaced, Exists, Disk
    <2> QED
      BY <1>1, <2>1, <2>2, <2>3
  <1>3. CloudFollows'
    BY <1>1, <1>2 DEF IInv, CloudFollows, Exists
  <1> QED
    BY <1>1, <1>3
       DEF IInv, SingleWriter, GenerationOrder, DeletedHasNoWriter, IsLive,
           PassKeepsIntent, StatesOK, PendingIsWanted

(***************************************************************************)
(* The theorems.                                                           *)
(***************************************************************************)
\* The empty platform.
LEMMA InitInv == Init => IInv
  BY InitType
     DEF Init, ProviderInit, NoEntries, IInv, SingleWriter, GenerationOrder,
         PassKeepsIntent, StatesOK, PendingIsWanted, CloudFollows,
         DeletedHasNoWriter

\* Every step keeps the invariant: calls, the pass, crashes, restarts and drift.
LEMMA NextInv ==
  ASSUME IInv, [Next]_vars
  PROVE  IInv'
  <1>1. TypeOK'
    BY NextType DEF IInv
  <1>2. CASE UNCHANGED vars
    BY <1>2
       DEF vars, IInv, TypeOK, ProviderTypeOK, SingleWriter, GenerationOrder,
           DeletedHasNoWriter, IsLive, PassKeepsIntent, StatesOK,
           PendingIsWanted, CloudFollows, Exists
  <1>3. CASE \E p \in Principal : CallBy(p)
    BY <1>1, <1>3, CallInv
  <1>4. CASE ReconcileStep
    BY <1>1, <1>4, BracketKeeps, ReconcileDeleteKeeps, ObserveVolumeKeeps,
       ReconcileEnsureKeeps, ReconcileDetachKeeps, ObserveAttachmentKeeps,
       ReconcileAttachKeeps
       DEF ReconcileStep
  <1>5. CASE TroubleStep
    BY <1>1, <1>5, RollbackKeeps, DriftKeeps
       DEF TroubleStep, Crash, RestartWithRegistry
  <1> QED
    BY <1>2, <1>3, <1>4, <1>5 DEF Next

\* The inductive invariant: what the open pass has done to its copies and to
\* the cloud never goes beyond the durable intent (engine.go:268-269).
THEOREM Inductive == Spec => []IInv
  BY InitInv, NextInv, PTL DEF Spec

\* Single writer: at most one attachment of a volume is not DETACHED
\* (engine.go:166-174).
THEOREM SingleWriterHolds == Spec => []SingleWriter
  <1>1. IInv => SingleWriter
    BY DEF IInv
  <1> QED
    BY Inductive, <1>1, PTL

\* Generations fence incarnations: the live attachment has the volume's
\* latest generation, and nobody else has it (engine.go:175-187, 233).
THEOREM GenerationsFence == Spec => []GenerationOrder
  <1>1. IInv => GenerationOrder
    BY DEF IInv
  <1> QED
    BY Inductive, <1>1, PTL

\* Durable intent precedes provider effects: what is attached in the cloud is
\* attached for a live durable attachment of that volume and VM, whatever
\* pass was rolled back, reply lost or disk drifted (engine.go:269, 351-360).
THEOREM CloudHasIntent == Spec => []CloudIntent
  <1>1. IInv => CloudIntent
    BY DEF IInv, CloudIntent, CloudFollows, PassKeepsIntent, Attached, Exists
  <1> QED
    BY Inductive, <1>1, PTL

\* Deletion is final: no attachment of a volume to be deleted is live, and a
\* DELETED volume has no disk (engine.go:134-140, 281-288).
THEOREM DeletionHolds == Spec => []DeletionIsFinal
  <1>1. IInv => DeletionIsFinal
    BY DEF IInv, DeletionIsFinal, DeletedHasNoWriter, StatesOK, VolumeStateOK,
           CloudFollows, GenerationOrder
  <1> QED
    BY Inductive, <1>1, PTL
=============================================================================
