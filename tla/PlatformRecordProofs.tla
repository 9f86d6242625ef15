------------------------ MODULE PlatformRecordProofs -------------------------
(***************************************************************************)
(* What one call and one visit make of a single record, and the properties *)
(* of Platform that are about records: who may change what, what is never  *)
(* taken back, which tenant and zone an attachment is of, and what a size  *)
(* and a device identity promise.                                          *)
(***************************************************************************)
EXTENDS PlatformProofs

(***************************************************************************)
(* Calls.                                                                  *)
(***************************************************************************)
\* An accepted call creates a volume,
NewVolume(p, rec) ==
  /\ rec \in Volume /\ rec.owner = p.owner /\ p.role = "controller"
  /\ rec.state = "CREATING" /\ rec.size = 0 /\ rec.desired = rec.init
  /\ rec.gen = 0 /\ ~rec.del /\ ~Taken(p, rec.name)

\* or changes one: its deletion or a larger size is asked for, or the grant to
\* format is withdrawn,
VolumeEdit(p, v, rec) ==
  /\ rec \in Volume /\ vol[v].owner = p.owner
  /\ rec.owner = vol[v].owner /\ rec.name = vol[v].name
  /\ rec.zone = vol[v].zone /\ rec.init = vol[v].init
  /\ rec.size = vol[v].size /\ rec.gen = vol[v].gen /\ rec.key = vol[v].key
  /\ vol[v].del => rec.del
  /\ rec.allowFormat => vol[v].allowFormat
  /\ vol[v].desired <= rec.desired
  /\ vol[v].state = "DELETED" => rec.state = "DELETED"
  /\ vol[v].state = "CREATING" => rec.state = "CREATING" \/ rec.del
  /\ rec.state = "AVAILABLE" =>
       \/ vol[v].state = "AVAILABLE" /\ rec.desired = vol[v].desired
       \/ rec.size >= rec.desired
  /\ p.role = "node" =>
       /\ rec = [vol[v] EXCEPT !.allowFormat = FALSE]
       /\ \E a \in DOMAIN att :
            att[a].vol = v /\ att[a].inst = p.inst /\ att[a].uses # {}

\* or changes an attachment: its gate is closed, a use comes or goes,
AttachmentEdit(p, a, rec) ==
  /\ rec \in Attachment /\ att[a].owner = p.owner
  /\ rec.owner = att[a].owner /\ rec.vol = att[a].vol
  /\ rec.inst = att[a].inst /\ rec.gen = att[a].gen
  /\ \/ /\ IsLive(a) /\ rec.state = "DETACHING" /\ rec.del
        /\ rec.uses = att[a].uses /\ p.role = "controller"
     \/ /\ p.role = "node" /\ att[a].inst = p.inst
        /\ rec = [att[a] EXCEPT !.uses = rec.uses]
        /\ rec.state = att[a].state /\ rec.del = att[a].del
        /\ \/ Healthy(a) /\ \E u \in UseID : rec.uses = att[a].uses \cup {u}
           \/ \E u \in UseID : rec.uses = att[a].uses \ {u}

\* or grants a new attachment.
GrantedVolume(v) == [vol[v] EXCEPT !.gen = NextGeneration(v)]
GrantedAttachment(v, i) ==
  [owner |-> vol[v].owner, vol |-> v, inst |-> i, gen |-> NextGeneration(v),
   state |-> "ATTACHING", del |-> FALSE, err |-> FALSE, uses |-> {}]

CallShape(p) ==
  \/ \E v \in VolumeID \ DOMAIN vol, rec \in Volume :
       NewVolume(p, rec) /\ Write(With(vol, v, rec), att)
  \/ \E v \in DOMAIN vol, rec \in Volume :
       VolumeEdit(p, v, rec) /\ Write([vol EXCEPT ![v] = rec], att)
  \/ \E a \in DOMAIN att, rec \in Attachment :
       AttachmentEdit(p, a, rec) /\ Write(vol, [att EXCEPT ![a] = rec])
  \/ \E v \in DOMAIN vol, i \in InstanceID, a \in AttachmentID :
       /\ CreateAttachment(p, v, i, a)
       /\ Write([vol EXCEPT ![v] = GrantedVolume(v)],
                With(att, a, GrantedAttachment(v, i)))

\* Calls that change one volume (engine.go:102-150, 259-261),
LEMMA VolumeCallShape ==
  ASSUME IInv, OneScope, NEW p \in Principal, NEW v \in VolumeID,
         \/ \E name \in Name, size \in 1 .. MaxSize, zone \in Zone,
               cap \in Capability : CreateVolume(p, v, name, size, zone, cap)
         \/ DeleteVolume(p, v)
         \/ \E size \in 1 .. MaxSize : ResizeVolume(p, v, size)
         \/ \E a \in AttachmentID, u \in UseID : \E g : MarkInitialized(p, a, v, g, u)
  PROVE  CallShape(p)
  <1>1. ASSUME NEW name \in Name, NEW size \in 1 .. MaxSize, NEW zone \in Zone,
               NEW cap \in Capability, CreateVolume(p, v, name, size, zone, cap)
        PROVE  CallShape(p)
    <2> DEFINE rec == [owner |-> p.owner, name |-> name, zone |-> zone,
                       cap |-> cap, state |-> "CREATING", init |-> size,
                       size |-> 0, desired |-> size, gen |-> 0,
                       allowFormat |-> TRUE, del |-> FALSE, err |-> FALSE,
                       key |-> NoKey]
    <2>1. /\ Write(With(vol, v, rec), att) /\ v \notin DOMAIN vol
          /\ cap \in ValidCapability /\ p.role = "controller"
          /\ ~Taken(p, name)
      BY <1>1 DEF CreateVolume, Supports, Controller
    <2>2. p.owner \in Owner /\ 0 \in 0 .. MaxSize /\ 0 \in Nat
      BY PlatformAssumption, ProviderAssumption
    <2>3. rec \in Volume
      BY <2>1, <2>2 DEF Volume, VolumeState, NoKey, PlatformKey, ForeignKey
    <2>4. NewVolume(p, rec)
      BY <2>1, <2>3 DEF NewVolume
    <2> HIDE DEF rec
    <2> QED
      BY <2>1, <2>3, <2>4 DEF CallShape
  <1>2. ASSUME v \in DOMAIN vol, NEW rec, VolumeEdit(p, v, rec),
               Write([vol EXCEPT ![v] = rec], att)
        PROVE  CallShape(p)
    BY <1>2 DEF CallShape, VolumeEdit
  <1>3. CASE DeleteVolume(p, v)
    <2>1. /\ v \in DOMAIN vol /\ vol[v] \in Volume /\ vol[v].owner = p.owner
          /\ p.role = "controller" /\ VolumeStateOK(vol[v])
      BY <1>3, Records DEF IInv, StatesOK, DeleteVolume, Owned, Controller
    <2> DEFINE rec == [vol[v] EXCEPT !.del = TRUE,
                         !.state = IF @ = "DELETED" THEN @ ELSE "DELETING"]
    <2>2. rec \in Volume
      BY <2>1 DEF Volume, VolumeState
    <2>4. /\ rec.owner = vol[v].owner /\ rec.zone = vol[v].zone
          /\ rec.name = vol[v].name /\ rec.init = vol[v].init /\ rec.size = vol[v].size
          /\ rec.gen = vol[v].gen /\ rec.key = vol[v].key /\ rec.del
          /\ rec.allowFormat = vol[v].allowFormat
          /\ rec.desired = vol[v].desired
          /\ rec.state = IF vol[v].state = "DELETED" THEN "DELETED" ELSE "DELETING"
      BY <2>1 DEF Volume
    <2>5. vol[v].desired <= vol[v].desired
      BY <2>1 DEF Volume
    <2>3. Write([vol EXCEPT ![v] = rec], att)
      BY <1>3, <2>1 DEF DeleteVolume, Volume
    <2> HIDE DEF rec
    <2>6. VolumeEdit(p, v, rec)
      BY <2>1, <2>2, <2>4, <2>5 DEF VolumeEdit
    <2> QED
      BY <1>2, <2>1, <2>3, <2>6
  <1>4. ASSUME NEW size \in 1 .. MaxSize, ResizeVolume(p, v, size)
        PROVE  CallShape(p)
    <2>1. /\ v \in DOMAIN vol /\ vol[v] \in Volume /\ vol[v].owner = p.owner
          /\ p.role = "controller" /\ ~vol[v].del /\ VolumeStateOK(vol[v])
          /\ vol[v].state # "CREATING"
          /\ size \in vol[v].desired .. MaxSize
      BY <1>4, Records DEF IInv, StatesOK, ResizeVolume, Owned, Controller
    <2> DEFINE rec == [vol[v] EXCEPT !.desired = size,
                                     !.state = Resized(vol[v], size)]
    <2>2. rec \in Volume
      BY <2>1 DEF Volume, VolumeState, Resized
    <2>4. /\ rec.owner = vol[v].owner /\ rec.zone = vol[v].zone
          /\ rec.name = vol[v].name /\ rec.init = vol[v].init /\ rec.size = vol[v].size
          /\ rec.gen = vol[v].gen /\ rec.key = vol[v].key
          /\ rec.allowFormat = vol[v].allowFormat
          /\ rec.desired = size /\ rec.state = Resized(vol[v], size)
      BY <2>1 DEF Volume
    <2>5. vol[v].desired <= size /\ vol[v].size \in Nat /\ size \in Nat
      BY <2>1 DEF Volume
    <2>3. Write([vol EXCEPT ![v] = rec], att)
      BY <1>4, <2>1 DEF ResizeVolume, Volume
    <2> HIDE DEF rec
    <2>6. rec.state = "AVAILABLE" => rec.size >= rec.desired
      BY <2>4, <2>5 DEF Resized
    <2>7. VolumeEdit(p, v, rec)
      BY <2>1, <2>2, <2>4, <2>5, <2>6 DEF VolumeEdit, VolumeStateOK
    <2> QED
      BY <1>2, <2>1, <2>3, <2>7
  <1>5. ASSUME NEW a \in AttachmentID, NEW g, NEW u \in UseID,
               MarkInitialized(p, a, v, g, u)
        PROVE  CallShape(p)
    <2>1. /\ a \in DOMAIN att /\ att[a].vol = v /\ att[a].inst = p.inst
          /\ att[a].uses # {} /\ p.role = "node"
          /\ v \in DOMAIN vol /\ vol[v] \in Volume /\ vol[v].owner = p.owner
      BY <1>5, Records
         DEF IInv, OneScope, MarkInitialized, HoldsUse, Authorized, Healthy
    <2> DEFINE rec == [vol[v] EXCEPT !.allowFormat = FALSE]
    <2>2. Write([vol EXCEPT ![v] = rec], att)
      BY <1>5, <2>1 DEF MarkInitialized, Volume
    <2>3. /\ rec \in Volume
          /\ rec.owner = vol[v].owner /\ rec.zone = vol[v].zone
          /\ rec.name = vol[v].name /\ rec.init = vol[v].init /\ rec.size = vol[v].size
          /\ rec.gen = vol[v].gen /\ rec.key = vol[v].key
          /\ rec.del = vol[v].del /\ ~rec.allowFormat
          /\ rec.desired = vol[v].desired /\ rec.state = vol[v].state
      BY <2>1 DEF Volume
    <2>5. vol[v].desired <= vol[v].desired
      BY <2>1 DEF Volume
    <2>4. VolumeEdit(p, v, rec)
      BY <2>1, <2>3, <2>5 DEF VolumeEdit
    <2> QED
      BY <1>2, <2>1, <2>2, <2>4
  <1> QED
    BY <1>1, <1>3, <1>4, <1>5

\* calls that close an attachment or move a use (engine.go:179-255),
LEMMA AttachmentCallShape ==
  ASSUME IInv, NEW p \in Principal, NEW a \in DOMAIN att,
         \/ CloseGate(p, a)
         \/ \E u \in UseID : \E v, g :
              \/ \E cap \in Capability : AcquireUse(p, a, v, g, u, cap)
              \/ ReleaseUse(p, a, v, g, u)
  PROVE  CallShape(p)
  <1>0. att[a] \in Attachment
    BY Records DEF IInv
  <1>1. CASE CloseGate(p, a)
    <2> DEFINE rec == [att[a] EXCEPT !.del = TRUE, !.state = "DETACHING"]
    <2>1. Write(vol, [att EXCEPT ![a] = rec])
      BY <1>0, <1>1 DEF CloseGate, Attachment
    <2>2. /\ rec \in Attachment /\ rec.owner = att[a].owner
          /\ rec.vol = att[a].vol /\ rec.inst = att[a].inst
          /\ rec.gen = att[a].gen /\ rec.uses = att[a].uses
          /\ rec.del /\ rec.state = "DETACHING"
      BY <1>0 DEF Attachment, AttachmentState
    <2> HIDE DEF rec
    <2>3. AttachmentEdit(p, a, rec)
      BY <1>1, <2>2 DEF CloseGate, Controller, AttachmentEdit, IsLive
    <2> QED
      BY <2>1, <2>2, <2>3 DEF CallShape
  <1>2. ASSUME NEW v, NEW g, NEW u \in UseID,
               \/ \E cap \in Capability : AcquireUse(p, a, v, g, u, cap)
               \/ ReleaseUse(p, a, v, g, u)
        PROVE  CallShape(p)
    <2>1. p.role = "node" /\ att[a].owner = p.owner /\ att[a].inst = p.inst
      BY <1>2 DEF AcquireUse, ReleaseUse, Authorized
    <2>2. PICK uses \in SUBSET UseID :
            /\ Write(vol, [att EXCEPT ![a] = [att[a] EXCEPT !.uses = uses]])
            /\ \/ Healthy(a) /\ \E w \in UseID : uses = att[a].uses \cup {w}
               \/ \E w \in UseID : uses = att[a].uses \ {w}
      <3>1. att[a].uses \cup {u} \in SUBSET UseID /\ att[a].uses \ {u} \in SUBSET UseID
        BY <1>0 DEF Attachment
      <3>2. CASE \E cap \in Capability : AcquireUse(p, a, v, g, u, cap)
        BY <1>0, <3>1, <3>2 DEF AcquireUse, Attachment
      <3>3. CASE ReleaseUse(p, a, v, g, u)
        BY <1>0, <3>1, <3>3 DEF ReleaseUse, Attachment
      <3> QED
        BY <1>2, <3>2, <3>3
    <2> DEFINE rec == [att[a] EXCEPT !.uses = uses]
    <2>3. /\ rec \in Attachment /\ rec.owner = att[a].owner
          /\ rec.vol = att[a].vol /\ rec.inst = att[a].inst
          /\ rec.gen = att[a].gen /\ rec.uses = uses
          /\ rec.del = att[a].del /\ rec.state = att[a].state
      BY <1>0 DEF Attachment
    <2>4. rec = [att[a] EXCEPT !.uses = rec.uses]
      BY <2>3
    <2> HIDE DEF rec
    <2>5. AttachmentEdit(p, a, rec)
      BY <2>1, <2>2, <2>3, <2>4 DEF AttachmentEdit
    <2>6. Write(vol, [att EXCEPT ![a] = rec])
      BY <2>2 DEF rec
    <2> QED
      BY <2>3, <2>5, <2>6 DEF CallShape
  <1> QED
    BY <1>1, <1>2

\* and a grant (engine.go:151-178): there is no other call.
LEMMA AnyCallShape ==
  ASSUME IInv, OneScope, NEW p \in Principal, CallBy(p)
  PROVE  CallShape(p)
  <1>1. ASSUME NEW v \in VolumeID, NEW i \in InstanceID, NEW a \in AttachmentID,
               CreateAttachment(p, v, i, a)
        PROVE  CallShape(p)
    <2>1. v \in DOMAIN vol /\ vol[v] \in Volume
      BY <1>1, Records DEF IInv, CreateAttachment, Owned
    <2>2. Write([vol EXCEPT ![v] = GrantedVolume(v)],
                With(att, a, GrantedAttachment(v, i)))
      BY <1>1, <2>1 DEF CreateAttachment, GrantedVolume, GrantedAttachment, Volume
    <2> QED
      BY <1>1, <2>1, <2>2 DEF CallShape
  <1>2. CASE ControllerCall(p)
    BY <1>1, <1>2, VolumeCallShape, AttachmentCallShape
       DEF ControllerCall, DeleteAttachment, DeleteLatestAttachment
  <1>3. CASE NodeCall(p)
    <2>1. PICK a \in AttachmentID, v \in VolumeID, u \in UseID,
               g \in {att[b].gen : b \in DOMAIN att} :
            \/ \E cap \in Capability : AcquireUse(p, a, v, g, u, cap)
            \/ ReleaseUse(p, a, v, g, u)
            \/ MarkInitialized(p, a, v, g, u)
      BY <1>3 DEF NodeCall
    <2>2. CASE MarkInitialized(p, a, v, g, u)
      BY <2>2, VolumeCallShape
    <2>3. CASE ~MarkInitialized(p, a, v, g, u)
      <3>1. a \in DOMAIN att
        BY <2>1, <2>3 DEF AcquireUse, ReleaseUse, Authorized
      <3> QED
        BY <2>1, <2>3, <3>1, AttachmentCallShape
    <2> QED
      BY <2>2, <2>3
  <1> QED
    BY <1>2, <1>3 DEF CallBy

\* What any call leaves, record by record.
CallEffect(p) ==
  /\ disk' = disk /\ wvol' = vol' /\ watt' = att'
  /\ phase' = "idle" /\ todo' = {} /\ pending' = None
  /\ \A v \in DOMAIN vol :
       /\ v \in DOMAIN vol'
       /\ \/ vol'[v] = vol[v]
          \/ VolumeEdit(p, v, vol'[v])
          \/ /\ p.role = "controller" /\ vol[v].owner = p.owner
             /\ vol'[v] = GrantedVolume(v)
  /\ \A v \in DOMAIN vol' : v \in DOMAIN vol \/ NewVolume(p, vol'[v])
  /\ \A v, w \in DOMAIN vol' \ DOMAIN vol : v = w
  /\ \A a \in DOMAIN att :
       /\ a \in DOMAIN att'
       /\ att'[a] = att[a] \/ AttachmentEdit(p, a, att'[a])
  /\ \A a \in DOMAIN att' :
       \/ a \in DOMAIN att
       \/ \E v \in DOMAIN vol, i \in InstanceID :
            CreateAttachment(p, v, i, a) /\ att'[a] = GrantedAttachment(v, i)

\* That is all a call does.
LEMMA AnyCallEffect ==
  ASSUME IInv, OneScope, NEW p \in Principal, CallBy(p)
  PROVE  CallEffect(p)
  <1>0. /\ \A newVol, newAtt : Write(newVol, newAtt) =>
             /\ vol' = newVol /\ wvol' = newVol /\ att' = newAtt /\ watt' = newAtt
             /\ UNCHANGED <<disk, loop>>
        /\ vol \in [DOMAIN vol -> Volume] /\ att \in [DOMAIN att -> Attachment]
    BY DEF Write, IInv, TypeOK
  <1>1. phase = "idle" /\ todo = {} /\ pending = None
    BY DEF IInv, TypeOK, CallBy, ControllerCall, NodeCall, CreateVolume,
           DeleteVolume, ResizeVolume, CreateAttachment, DeleteAttachment,
           DeleteLatestAttachment, CloseGate, AcquireUse, ReleaseUse,
           MarkInitialized, Unlocked
  <1>2. CASE \E v \in VolumeID \ DOMAIN vol, rec \in Volume :
               NewVolume(p, rec) /\ Write(With(vol, v, rec), att)
    <2>1. PICK v \in VolumeID \ DOMAIN vol, rec \in Volume :
            NewVolume(p, rec) /\ Write(With(vol, v, rec), att)
      BY <1>2
    <2>2. /\ vol' = With(vol, v, rec) /\ wvol' = vol' /\ att' = att /\ watt' = att
          /\ UNCHANGED <<disk, loop>>
      BY <1>0, <2>1
    <2>3. /\ DOMAIN vol' = DOMAIN vol \cup {v} /\ vol'[v] = rec
          /\ \A w \in DOMAIN vol : vol'[w] = vol[w]
      BY <2>2 DEF With
    <2> QED
      BY <1>1, <2>1, <2>2, <2>3 DEF CallEffect, loop
  <1>3. CASE \E v \in DOMAIN vol, rec \in Volume :
               VolumeEdit(p, v, rec) /\ Write([vol EXCEPT ![v] = rec], att)
    <2>1. PICK v \in DOMAIN vol, rec \in Volume :
            VolumeEdit(p, v, rec) /\ Write([vol EXCEPT ![v] = rec], att)
      BY <1>3
    <2>2. /\ vol' = [vol EXCEPT ![v] = rec] /\ wvol' = vol' /\ att' = att
          /\ watt' = att /\ UNCHANGED <<disk, loop>>
      BY <1>0, <2>1
    <2>3. /\ DOMAIN vol' = DOMAIN vol /\ vol'[v] = rec
          /\ \A w \in DOMAIN vol : w # v => vol'[w] = vol[w]
      BY <1>0, <2>2
    <2> QED
      BY <1>1, <2>1, <2>2, <2>3 DEF CallEffect, loop
  <1>4. CASE \E a \in DOMAIN att, rec \in Attachment :
               AttachmentEdit(p, a, rec) /\ Write(vol, [att EXCEPT ![a] = rec])
    <2>1. PICK a \in DOMAIN att, rec \in Attachment :
            AttachmentEdit(p, a, rec) /\ Write(vol, [att EXCEPT ![a] = rec])
      BY <1>4
    <2>2. /\ att' = [att EXCEPT ![a] = rec] /\ watt' = att' /\ vol' = vol
          /\ wvol' = vol /\ UNCHANGED <<disk, loop>>
      BY <1>0, <2>1
    <2>3. /\ DOMAIN att' = DOMAIN att /\ att'[a] = rec
          /\ \A b \in DOMAIN att : b # a => att'[b] = att[b]
      BY <1>0, <2>2
    <2> QED
      BY <1>1, <2>1, <2>2, <2>3 DEF CallEffect, loop
  <1>5. CASE \E v \in DOMAIN vol, i \in InstanceID, a \in AttachmentID :
               /\ CreateAttachment(p, v, i, a)
               /\ Write([vol EXCEPT ![v] = GrantedVolume(v)],
                        With(att, a, GrantedAttachment(v, i)))
    <2>1. PICK v \in DOMAIN vol, i \in InstanceID, a \in AttachmentID :
            /\ CreateAttachment(p, v, i, a)
            /\ Write([vol EXCEPT ![v] = GrantedVolume(v)],
                     With(att, a, GrantedAttachment(v, i)))
      BY <1>5
    <2>2. /\ vol' = [vol EXCEPT ![v] = GrantedVolume(v)] /\ wvol' = vol'
          /\ att' = With(att, a, GrantedAttachment(v, i)) /\ watt' = att'
          /\ UNCHANGED <<disk, loop>>
      BY <1>0, <2>1
    <2>3. /\ DOMAIN vol' = DOMAIN vol /\ vol'[v] = GrantedVolume(v)
          /\ \A w \in DOMAIN vol : w # v => vol'[w] = vol[w]
      BY <1>0, <2>2
    <2>4. /\ a \notin DOMAIN att /\ vol[v].owner = p.owner /\ p.role = "controller"
      BY <2>1 DEF CreateAttachment, Owned, Controller
    <2>5. /\ DOMAIN att' = DOMAIN att \cup {a}
          /\ att'[a] = GrantedAttachment(v, i)
          /\ \A b \in DOMAIN att : att'[b] = att[b]
      BY <2>2, <2>4 DEF With
    <2> QED
      BY <1>1, <2>1, <2>2, <2>3, <2>4, <2>5 DEF CallEffect, loop
  <1> QED
    BY <1>2, <1>3, <1>4, <1>5, AnyCallShape DEF CallShape

(***************************************************************************)
(* Visits.                                                                 *)
(***************************************************************************)
\* What the visit of a volume leaves: its copy is refreshed, taken over from
\* the disk that is there, or DELETED with the disk gone; no identity is
\* given up.
VolumeStep(v, rec) ==
  /\ rec \in Volume /\ SameIntent(rec, wvol[v])
  /\ wvol[v].key # NoKey => rec.key = wvol[v].key
  /\ \/ rec.state = wvol[v].state /\ rec.size = wvol[v].size
     \/ rec.state = "DELETED" /\ rec.size = wvol[v].size
     \/ /\ rec.state = "AVAILABLE" /\ v \in DOMAIN disk'
        /\ rec.size = disk'[v].size /\ rec.desired <= rec.size

\* EnsureVolume makes the disk, or grows it.
DiskStep(v) ==
  /\ \A w \in DOMAIN disk' : w \in DOMAIN disk =>
       \/ disk'[w] = disk[w]
       \/ /\ w = v
          /\ disk'[w].size = Larger(disk[w].size, wvol[v].desired)
          /\ disk'[w].att = disk[w].att
  /\ \A w \in DOMAIN disk : w \in DOMAIN disk' \/ (w = v /\ wvol[v].del)
  /\ \A w \in DOMAIN disk' : w \notin DOMAIN disk =>
       /\ w = v /\ pending = v /\ ~wvol[v].del
       /\ disk'[w].size = wvol[v].desired /\ disk'[w].att = None

\* The visit ends, or its mutating call is due.
Moves(x) ==
  /\ phase' = phase /\ x \in todo
  /\ \/ todo' = todo \ {x} /\ pending' = None
     \/ todo' = todo /\ pending' = x /\ pending = None

VolumeVisitEffect(v) ==
  /\ vol' = vol /\ att' = att /\ watt' = watt /\ v \in DOMAIN vol
  /\ phase = "volumes" /\ Moves(v)
  /\ DOMAIN wvol' = DOMAIN vol
  /\ \A w \in DOMAIN vol : w # v => wvol'[w] = wvol[w]
  /\ VolumeStep(v, wvol'[v]) /\ DiskStep(v)
  /\ pending' = v =>
       /\ disk' = disk /\ wvol'[v].state = wvol[v].state
       /\ Exists(v) \/ wvol[v].state = "CREATING"

\* A disk taken over, or refused for its identity (engine.go:302-313).
LEMMA AdoptEffect ==
  ASSUME NEW v, wvol[v] \in Volume, NEW d \in Disk, d.size >= wvol[v].desired,
         v \in DOMAIN disk', disk'[v].size = d.size
  PROVE  VolumeStep(v, Adopt(wvol[v], d))
  <1> DEFINE rec == wvol[v]
  <1>1. CASE rec.key # NoKey /\ rec.key # d.key
    BY <1>1 DEF VolumeStep, SameIntent, Volume, Adopt, Failed
  <1>2. CASE ~(rec.key # NoKey /\ rec.key # d.key)
    <2>1. Adopt(rec, d) = [Reached(rec, "AVAILABLE") EXCEPT !.size = d.size, !.key = d.key]
      BY <1>2 DEF Adopt
    <2>2. Adopt(rec, d) \in Volume /\ SameIntent(Adopt(rec, d), rec)
      BY AdoptRecord
    <2>3. /\ Adopt(rec, d).state = "AVAILABLE" /\ Adopt(rec, d).size = d.size
          /\ Adopt(rec, d).key = d.key
      BY <2>1 DEF Volume, Reached
    <2>4. rec.desired <= d.size
      BY DEF Volume, Disk
    <2> QED
      BY <1>2, <2>2, <2>3, <2>4 DEF VolumeStep, SameIntent
  <1> QED
    BY <1>1, <1>2

\* The copies after a visit, from the record it wrote.
LEMMA VolumeWritten ==
  ASSUME IInv, NEW v \in DOMAIN vol, NEW rec, SetVolume(v, rec),
         phase = "volumes", Moves(v), VolumeStep(v, rec), DiskStep(v),
         pending' = v => /\ disk' = disk /\ rec.state = wvol[v].state
                         /\ Exists(v) \/ wvol[v].state = "CREATING"
  PROVE  VolumeVisitEffect(v)
  <1>1. wvol \in [DOMAIN vol -> Volume]
    BY DEF IInv, TypeOK
  <1>2. /\ DOMAIN wvol' = DOMAIN vol /\ wvol'[v] = rec
        /\ \A w \in DOMAIN vol : w # v => wvol'[w] = wvol[w]
        /\ vol' = vol /\ att' = att /\ watt' = watt
    BY <1>1 DEF SetVolume, durable
  <1> QED
    BY <1>2 DEF VolumeVisitEffect

\* GetVolume and its decision (engine.go:290-303),
LEMMA ObserveVolumeEffect ==
  ASSUME IInv, NEW v \in VolumeID, ObserveVolume(v)
  PROVE  VolumeVisitEffect(v)
  <1>0. v # None
    BY ProviderAssumption
  <1>1. /\ v \in DOMAIN vol /\ v \in todo /\ phase = "volumes" /\ pending = None
        /\ wvol[v] \in Volume /\ disk' = disk
    BY VisitType, Records DEF IInv, ObserveVolume, Visit
  <1>2. DiskStep(v)
    BY <1>1 DEF DiskStep
  <1>3. /\ VolumeStep(v, Failed(wvol[v])) /\ VolumeStep(v, Cleared(wvol[v]))
        /\ Cleared(wvol[v]).state = wvol[v].state
    BY <1>1 DEF VolumeStep, SameIntent, Volume, Failed, Cleared
  <1>4. CASE /\ SetVolume(v, Failed(wvol[v])) /\ Done(v)
    BY <1>0, <1>1, <1>2, <1>3, <1>4, VolumeWritten DEF Moves, Done
  <1>5. CASE Suffices(v) /\ SetVolume(v, Adopt(wvol[v], disk[v])) /\ Done(v)
    <2>1. /\ disk[v] \in Disk /\ v \in DOMAIN disk'
          /\ disk[v].size >= wvol[v].desired
      BY <1>1, <1>5, Records DEF IInv, Suffices, Exists
    <2>2. VolumeStep(v, Adopt(wvol[v], disk[v]))
      BY <1>1, <2>1, AdoptEffect
    <2> QED
      BY <1>0, <1>1, <1>2, <1>5, <2>2, VolumeWritten DEF Moves, Done
  <1>6. CASE ~Gone(v) /\ SetVolume(v, Cleared(wvol[v])) /\ Await(v)
    BY <1>1, <1>2, <1>3, <1>6, VolumeWritten DEF Moves, Await, Gone
  <1> QED
    BY <1>4, <1>5, <1>6 DEF ObserveVolume

\* EnsureVolume and what it returned (engine.go:304-313),
LEMMA ReconcileEnsureEffect ==
  ASSUME IInv, NEW v \in VolumeID, ReconcileEnsure(v)
  PROVE  VolumeVisitEffect(v)
  <1>0. v # None
    BY ProviderAssumption
  <1>1. /\ v \in DOMAIN vol /\ v \in todo /\ phase = "volumes" /\ pending = v
        /\ wvol[v] \in Volume /\ ~wvol[v].del
    BY <1>0, VisitType, Records DEF IInv, PendingIsWanted, ReconcileEnsure, Resume
  <1> DEFINE d == Ensured(v, wvol[v].desired)
  <1>2. PICK o \in Outcome :
          /\ EnsureVolume(v, wvol[v].desired, o)
          /\ SetVolume(v, IF Succeeds(FALSE, o) THEN Adopt(wvol[v], d)
                                               ELSE Failed(wvol[v]))
    BY DEF ReconcileEnsure
  <1>3. Moves(v) /\ pending' = None
    BY <1>1 DEF ReconcileEnsure, Done, Moves
  <1>4. wvol[v].desired \in 0 .. MaxSize
    BY <1>1, ProviderAssumption DEF Volume
  <1>5. d \in Disk
    BY <1>4, EnsuredDisk DEF IInv
  <1>6. /\ Exists(v) => d.size = Larger(disk[v].size, wvol[v].desired)
                         /\ d.att = disk[v].att
        /\ ~Exists(v) => d.size = wvol[v].desired /\ d.att = None
    <2>1. Exists(v) => disk[v] \in Disk
      BY Records DEF IInv, Exists
    <2> QED
      BY <2>1 DEF Ensured, Disk
  <1>7. d.size >= wvol[v].desired
    <2>1. wvol[v].desired \in Nat
      BY <1>4
    <2>2. Exists(v) => disk[v].size \in Nat
      BY Records DEF IInv, Exists, Disk
    <2> QED
      BY <1>6, <2>1, <2>2 DEF Larger
  <1> HIDE DEF d
  <1>8. DiskStep(v) /\ (disk' = disk \/ (v \in DOMAIN disk' /\ disk'[v] = d))
    <2>1. disk' = disk \/ disk' = With(disk, v, d)
      BY <1>2 DEF d, EnsureVolume, Perform
    <2>2. CASE disk' = disk
      BY <2>2 DEF DiskStep
    <2>3. CASE disk' = With(disk, v, d)
      <3>1. /\ DOMAIN disk' = DOMAIN disk \cup {v} /\ disk'[v] = d
            /\ \A w \in DOMAIN disk : w # v => disk'[w] = disk[w]
        BY <2>3 DEF With
      <3> QED
        BY <1>1, <1>6, <3>1 DEF DiskStep, Exists
    <2> QED
      BY <2>1, <2>2, <2>3
  <1>9. CASE Succeeds(FALSE, o)
    <2>1. disk' = With(disk, v, d) /\ SetVolume(v, Adopt(wvol[v], d))
      BY <1>2, <1>9 DEF d, Succeeds, EnsureVolume, Perform
    <2>2. v \in DOMAIN disk' /\ disk'[v] = d
      BY <2>1 DEF With
    <2>3. VolumeStep(v, Adopt(wvol[v], d))
      BY <1>1, <1>5, <1>7, <2>2, AdoptEffect
    <2> QED
      BY <1>0, <1>1, <1>3, <1>8, <2>1, <2>3, VolumeWritten
  <1>10. CASE ~Succeeds(FALSE, o)
    <2>1. SetVolume(v, Failed(wvol[v]))
      BY <1>2, <1>10
    <2>2. VolumeStep(v, Failed(wvol[v]))
      BY <1>1 DEF VolumeStep, SameIntent, Volume, Failed
    <2> QED
      BY <1>0, <1>1, <1>3, <1>8, <2>1, <2>2, VolumeWritten
  <1> QED
    BY <1>9, <1>10

\* and a deletion (engine.go:281-288).
LEMMA ReconcileDeleteEffect ==
  ASSUME IInv, NEW v \in VolumeID, ReconcileDelete(v)
  PROVE  VolumeVisitEffect(v)
  <1>0. v # None
    BY ProviderAssumption
  <1>1. /\ v \in DOMAIN vol /\ v \in todo /\ phase = "volumes"
        /\ wvol[v] \in Volume /\ wvol[v].del
    BY VisitType, Records DEF IInv, ReconcileDelete
  <1>2. PICK rec \in {Cleared(wvol[v]), Failed(wvol[v]), Reached(wvol[v], "DELETED")} :
          SetVolume(v, rec)
    BY DEF ReconcileDelete
  <1>3. Moves(v) /\ pending' = None
    BY <1>1 DEF ReconcileDelete, Done, Moves
  <1>4. VolumeStep(v, rec)
    BY <1>1, <1>2 DEF VolumeStep, SameIntent, Volume, VolumeState, Cleared,
                      Failed, Reached
  <1>5. disk' \in {disk, Without(disk, v)}
    BY DEF ReconcileDelete, DeleteDisk, Perform
  <1>6. DiskStep(v)
    BY <1>1, <1>5 DEF DiskStep, Without, Restrict
  <1> QED
    BY <1>0, <1>1, <1>2, <1>3, <1>4, <1>6, VolumeWritten

\* What the visit of an attachment leaves: no disk comes or goes or changes
\* its size, and only EnsureAttached gives one to the attachment.
AttachmentVisitEffect(a) ==
  /\ vol' = vol /\ att' = att /\ wvol' = wvol /\ a \in DOMAIN att
  /\ phase = "attachments" /\ Moves(a)
  /\ DOMAIN watt' = DOMAIN att
  /\ \A b \in DOMAIN att : b # a => watt'[b] = watt[b]
  /\ SameClaim(watt'[a], watt[a])
  /\ DOMAIN disk' = DOMAIN disk
  /\ \A w \in DOMAIN disk :
       /\ disk'[w].size = disk[w].size
       /\ \/ disk'[w].att = disk[w].att
          \/ disk'[w].att = None /\ disk[w].att # None
          \/ pending = a /\ ~watt[a].del /\ w = watt[a].vol /\ disk'[w].att = a
  /\ pending' = a =>
       /\ disk' = disk
       /\ watt[a].uses # {} => AttachedTo(watt[a].vol, a)

\* The copies after a visit, from the record it wrote.
LEMMA AttachmentWritten ==
  ASSUME IInv, NEW a \in DOMAIN att, NEW rec, SetAttachment(a, rec),
         SameClaim(rec, watt[a])
  PROVE  /\ vol' = vol /\ att' = att /\ wvol' = wvol
         /\ DOMAIN watt' = DOMAIN att
         /\ \A b \in DOMAIN att : b # a => watt'[b] = watt[b]
         /\ SameClaim(watt'[a], watt[a])
  <1>1. watt \in [DOMAIN att -> Attachment]
    BY DEF IInv, TypeOK
  <1> QED
    BY <1>1 DEF SetAttachment, durable

\* A detachment (engine.go:325-332),
LEMMA ReconcileDetachEffect ==
  ASSUME IInv, NEW a \in AttachmentID, ReconcileDetach(a)
  PROVE  AttachmentVisitEffect(a)
  <1>0. a # None
    BY ProviderAssumption
  <1>1. /\ a \in DOMAIN att /\ a \in todo /\ phase = "attachments"
        /\ watt[a] \in Attachment
    BY VisitType, Records DEF IInv, ReconcileDetach
  <1>2. PICK rec \in {Cleared(watt[a]), Failed(watt[a]), Reached(watt[a], "DETACHED")} :
          SetAttachment(a, rec)
    BY DEF ReconcileDetach
  <1>3. Moves(a) /\ pending' = None
    BY <1>1 DEF ReconcileDetach, Done, Moves
  <1>4. SameClaim(rec, watt[a])
    BY <1>1, <1>2 DEF SameClaim, Attachment, Cleared, Failed, Reached
  <1> DEFINE v == watt[a].vol
             freed == [disk EXCEPT ![v].inst = None, ![v].att = None]
  <1>5. disk' = disk \/ (Attached(v) /\ disk' = freed)
    BY DEF ReconcileDetach, EnsureDetached, Perform
  <1>6. /\ DOMAIN disk' = DOMAIN disk
        /\ \A w \in DOMAIN disk :
             /\ disk'[w].size = disk[w].size
             /\ \/ disk'[w].att = disk[w].att
                \/ disk'[w].att = None /\ disk[w].att # None
    BY <1>5, Records DEF IInv, Attached, Exists, Disk
  <1> QED
    BY <1>0, <1>1, <1>2, <1>3, <1>4, <1>6, AttachmentWritten
       DEF AttachmentVisitEffect

\* the checks before an attachment (engine.go:334-350): a VM with uses is
\* only attached again when it has the disk,
LEMMA ObserveAttachmentEffect ==
  ASSUME IInv, NEW a \in AttachmentID, ObserveAttachment(a)
  PROVE  AttachmentVisitEffect(a)
  <1>0. a # None
    BY ProviderAssumption
  <1>1. /\ a \in DOMAIN att /\ a \in todo /\ phase = "attachments" /\ pending = None
        /\ watt[a] \in Attachment /\ ~watt[a].del /\ AttachmentStateOK(watt[a])
        /\ disk' = disk
    BY VisitType, Records DEF IInv, StatesOK, ObserveAttachment, Visit
  <1>2. PICK rec \in {Cleared(watt[a]), Failed(watt[a])} :
          /\ SetAttachment(a, rec) /\ (Done(a) \/ (Await(a) /\ ~Drifted(a)))
    BY DEF ObserveAttachment
  <1>3. SameClaim(rec, watt[a])
    BY <1>1, <1>2 DEF SameClaim, Attachment, Cleared, Failed
  <1>4. Moves(a)
    BY <1>1, <1>2 DEF Moves, Done, Await
  <1>5. pending' = a /\ watt[a].uses # {} => AttachedTo(watt[a].vol, a)
    BY <1>0, <1>1, <1>2
       DEF Done, Drifted, InUse, AttachmentStateOK, AttachmentState, Attachment,
           AttachedTo, HeldBy, Exists
  <1> QED
    BY <1>1, <1>2, <1>3, <1>4, <1>5, AttachmentWritten DEF AttachmentVisitEffect

\* and the attachment (engine.go:351-358).
LEMMA ReconcileAttachEffect ==
  ASSUME IInv, NEW a \in AttachmentID, ReconcileAttach(a)
  PROVE  AttachmentVisitEffect(a)
  <1>0. a # None
    BY ProviderAssumption
  <1>1. /\ a \in DOMAIN att /\ a \in todo /\ phase = "attachments" /\ pending = a
        /\ watt[a] \in Attachment /\ ~watt[a].del
    BY <1>0, VisitType, Records DEF IInv, PendingIsWanted, ReconcileAttach, Resume
  <1>2. PICK rec \in {Failed(watt[a]), Reached(watt[a], "ATTACHED")} :
          SetAttachment(a, rec)
    BY DEF ReconcileAttach
  <1>3. Moves(a) /\ pending' = None
    BY <1>1 DEF ReconcileAttach, Done, Moves
  <1>4. SameClaim(rec, watt[a])
    BY <1>1, <1>2 DEF SameClaim, Attachment, Failed, Reached
  <1> DEFINE v == watt[a].vol
             held == [disk EXCEPT ![v].inst = watt[a].inst, ![v].att = a]
  <1>5. disk' = disk \/ (Exists(v) /\ disk' = held)
    BY DEF ReconcileAttach, EnsureAttached, AttachRefused, Perform
  <1>6. /\ DOMAIN disk' = DOMAIN disk
        /\ \A w \in DOMAIN disk :
             /\ disk'[w].size = disk[w].size
             /\ disk'[w].att = disk[w].att \/ (w = v /\ disk'[w].att = a)
    BY <1>5, Records DEF IInv, Exists, Disk
  <1> QED
    BY <1>0, <1>1, <1>2, <1>3, <1>4, <1>6, AttachmentWritten
       DEF AttachmentVisitEffect

(***************************************************************************)
(* The invariant of the records, step by step.                             *)
(***************************************************************************)
\* Types of the fields the leaves below compare.
LEMMA Fields ==
  ASSUME IInv
  PROVE  /\ \A v \in DOMAIN vol :
              /\ vol[v].init \in Nat /\ vol[v].size \in Nat /\ vol[v].desired \in Nat
              /\ wvol[v].init \in Nat /\ wvol[v].size \in Nat /\ wvol[v].desired \in Nat
              /\ SameIntent(wvol[v], vol[v])
         /\ \A v \in DOMAIN disk : disk[v].size \in Nat
         /\ \A a \in DOMAIN att : SameClaim(watt[a], att[a]) /\ att[a].vol \in DOMAIN vol
  BY Records DEF IInv, Volume, Disk, PassKeepsIntent, GenerationOrder

\* What a call does to the fields of a volume and of an attachment.
LEMMA CallFields ==
  ASSUME IInv, NEW p, CallEffect(p)
  PROVE  /\ \A v \in DOMAIN vol :
              /\ v \in DOMAIN vol'
              /\ vol'[v].owner = vol[v].owner /\ vol'[v].zone = vol[v].zone
              /\ vol'[v].name = vol[v].name
              /\ vol'[v].init = vol[v].init /\ vol'[v].size = vol[v].size
              /\ vol'[v].key = vol[v].key
              /\ vol[v].desired <= vol'[v].desired /\ vol'[v].desired \in Nat
              /\ vol[v].del => vol'[v].del
              /\ vol'[v].allowFormat => vol[v].allowFormat
              /\ vol[v].state = "DELETED" => vol'[v].state = "DELETED"
              /\ vol[v].state = "CREATING" =>
                   vol'[v].state = "CREATING" \/ vol'[v].del
              /\ vol'[v].state = "AVAILABLE" =>
                   \/ vol[v].state = "AVAILABLE" /\ vol'[v].desired = vol[v].desired
                   \/ vol[v].size >= vol'[v].desired
         /\ \A a \in DOMAIN att :
              /\ a \in DOMAIN att'
              /\ att'[a].owner = att[a].owner /\ att'[a].vol = att[a].vol
              /\ att'[a].inst = att[a].inst /\ att'[a].gen = att[a].gen
  <1>1. ASSUME NEW v \in DOMAIN vol
        PROVE  /\ v \in DOMAIN vol'
               /\ vol'[v].owner = vol[v].owner /\ vol'[v].zone = vol[v].zone
               /\ vol'[v].name = vol[v].name
               /\ vol'[v].init = vol[v].init /\ vol'[v].size = vol[v].size
               /\ vol'[v].key = vol[v].key
               /\ vol[v].desired <= vol'[v].desired /\ vol'[v].desired \in Nat
               /\ vol[v].del => vol'[v].del
               /\ vol'[v].allowFormat => vol[v].allowFormat
               /\ vol[v].state = "DELETED" => vol'[v].state = "DELETED"
               /\ vol[v].state = "CREATING" =>
                    vol'[v].state = "CREATING" \/ vol'[v].del
               /\ vol'[v].state = "AVAILABLE" =>
                    \/ vol[v].state = "AVAILABLE" /\ vol'[v].desired = vol[v].desired
                    \/ vol[v].size >= vol'[v].desired
    <2>1. v \in DOMAIN vol' /\ vol[v] \in Volume /\ vol[v].desired \in Nat
      BY Fields, Records DEF IInv, CallEffect
    <2>2. CASE vol'[v] = vol[v]
      BY <2>1, <2>2
    <2>3. CASE VolumeEdit(p, v, vol'[v])
      <3>1. vol'[v].desired \in Nat
        BY <2>3 DEF VolumeEdit, Volume
      <3> QED
        BY <2>1, <2>3, <3>1 DEF VolumeEdit
    <2>4. CASE vol'[v] = GrantedVolume(v)
      BY <2>1, <2>4 DEF GrantedVolume, Volume
    <2> QED
      BY <2>2, <2>3, <2>4 DEF CallEffect
  <1>2. ASSUME NEW a \in DOMAIN att
        PROVE  /\ a \in DOMAIN att'
               /\ att'[a].owner = att[a].owner /\ att'[a].vol = att[a].vol
               /\ att'[a].inst = att[a].inst /\ att'[a].gen = att[a].gen
    BY DEF CallEffect, AttachmentEdit
  <1> QED
    BY <1>1, <1>2

\* A grant stays within the tenant and the zone of its volume.
LEMMA GrantScope ==
  ASSUME IInv, NEW p, NEW v \in DOMAIN vol, NEW i, NEW a, CreateAttachment(p, v, i, a)
  PROVE  /\ GrantedAttachment(v, i).owner = vol[v].owner
         /\ GrantedAttachment(v, i).vol = v /\ GrantedAttachment(v, i).inst = i
         /\ InstOwner[i] = vol[v].owner /\ InstZone[i] = vol[v].zone
  BY DEF GrantedAttachment, CreateAttachment, Owned, ActiveInstance

\* A call (engine.go:102-261),
LEMMA CallKeepsRecords ==
  ASSUME RecordInv, NEW p \in Principal, CallBy(p), IInv'
  PROVE  RecordInv'
  <1>1. CallEffect(p)
    BY AnyCallEffect DEF RecordInv
  <1>2. OneScope'
    <2>1. SUFFICES ASSUME NEW a \in DOMAIN att'
                   PROVE  /\ att'[a].owner = vol'[att'[a].vol].owner
                          /\ InstOwner[att'[a].inst] = vol'[att'[a].vol].owner
                          /\ InstZone[att'[a].inst] = vol'[att'[a].vol].zone
      BY DEF OneScope
    <2>2. CASE a \in DOMAIN att
      <3>1. att[a].vol \in DOMAIN vol
        BY <2>2, Fields DEF RecordInv
      <3>2. /\ att[a].owner = vol[att[a].vol].owner
            /\ InstOwner[att[a].inst] = vol[att[a].vol].owner
            /\ InstZone[att[a].inst] = vol[att[a].vol].zone
        BY <2>2 DEF RecordInv, OneScope
      <3>3. /\ att'[a].owner = att[a].owner /\ att'[a].vol = att[a].vol
            /\ att'[a].inst = att[a].inst
        BY <1>1, <2>2, CallFields DEF RecordInv
      <3>4. /\ vol'[att[a].vol].owner = vol[att[a].vol].owner
            /\ vol'[att[a].vol].zone = vol[att[a].vol].zone
        BY <1>1, <3>1, CallFields DEF RecordInv
      <3> QED
        BY <3>2, <3>3, <3>4
    <2>3. CASE a \notin DOMAIN att
      <3>1. PICK v \in DOMAIN vol, i \in InstanceID :
              CreateAttachment(p, v, i, a) /\ att'[a] = GrantedAttachment(v, i)
        BY <1>1, <2>3 DEF CallEffect
      <3>2. vol'[v].owner = vol[v].owner /\ vol'[v].zone = vol[v].zone
        BY <1>1, CallFields DEF RecordInv
      <3> QED
        BY <3>1, <3>2, GrantScope DEF RecordInv
    <2> QED
      BY <2>2, <2>3
  <1>3. PassLeavesDone'
    BY <1>1 DEF CallEffect, PassLeavesDone
  <1>4. DiskSizes'
    <2>1. ASSUME NEW v \in DOMAIN vol'
          PROVE  SizesOK(vol'[v])
      <3>1. CASE v \in DOMAIN vol
        <4>1. SizesOK(vol[v])
          BY <3>1 DEF RecordInv, DiskSizes
        <4> QED
          BY <1>1, <3>1, <4>1, CallFields, Fields DEF RecordInv, SizesOK
      <3>2. CASE v \notin DOMAIN vol
        <4>1. NewVolume(p, vol'[v])
          BY <1>1, <3>2 DEF CallEffect
        <4> QED
          BY <4>1, ProviderAssumption DEF NewVolume, SizesOK, Volume
      <3> QED
        BY <3>1, <3>2
    <2>2. ASSUME NEW v \in DOMAIN disk
          PROVE  /\ v \in DOMAIN vol'
                 /\ vol'[v].size <= disk[v].size /\ disk[v].size <= vol'[v].desired
      <3>1. /\ v \in DOMAIN vol /\ vol[v].size <= disk[v].size
            /\ disk[v].size <= vol[v].desired
        BY DEF RecordInv, DiskSizes
      <3> QED
        BY <1>1, <3>1, CallFields, Fields DEF RecordInv
    <2>3. disk' = disk /\ wvol' = vol'
      BY <1>1 DEF CallEffect
    <2> QED
      BY <2>1, <2>2, <2>3 DEF DiskSizes
  <1>5. PendingIsSeen'
    BY <1>1 DEF CallEffect, PendingIsSeen
  <1> QED
    BY <1>2, <1>3, <1>4, <1>5 DEF RecordInv

\* the visit of a volume (engine.go:278-317),
LEMMA VolumeVisitKeepsRecords ==
  ASSUME RecordInv, NEW v, VolumeVisitEffect(v), IInv'
  PROVE  RecordInv'
  <1>0. /\ vol' = vol /\ att' = att /\ watt' = watt /\ v \in DOMAIN vol
        /\ phase = "volumes" /\ phase' = phase /\ v \in todo
        /\ \A w \in DOMAIN vol : w # v => wvol'[w] = wvol[w]
        /\ VolumeStep(v, wvol'[v]) /\ DiskStep(v)
    BY DEF VolumeVisitEffect, Moves
  <1>1. OneScope'
    BY <1>0 DEF RecordInv, OneScope
  <1>2. vol[v].state # "DELETED" /\ wvol[v].state = vol[v].state
    BY <1>0 DEF RecordInv, PassLeavesDone
  <1>3. PassLeavesDone'
    <2>1. \A w \in DOMAIN vol :
            /\ vol[w].state = "DELETED" => wvol'[w].state = "DELETED"
            /\ vol[w].key # NoKey => wvol'[w].key = vol[w].key
      BY <1>0, <1>2 DEF RecordInv, PassLeavesDone, VolumeStep
    <2>2. \A w \in todo' : vol[w].state # "DELETED" /\ wvol'[w].state = vol[w].state
      <3>1. \A w \in todo : w \in DOMAIN vol /\ vol[w].state # "DELETED"
                             /\ wvol[w].state = vol[w].state
        BY <1>0 DEF RecordInv, PassLeavesDone, IInv, TypeOK
      <3>2. CASE todo' = todo \ {v}
        BY <1>0, <3>1, <3>2
      <3>3. CASE todo' = todo /\ pending' = v
        BY <1>0, <1>2, <3>1, <3>3 DEF VolumeVisitEffect
      <3> QED
        BY <3>2, <3>3 DEF VolumeVisitEffect, Moves
    <2> QED
      BY <1>0, <2>1, <2>2 DEF RecordInv, PassLeavesDone, IsLive
  <1>4. /\ vol[v].desired = wvol[v].desired /\ wvol'[v].desired = wvol[v].desired
        /\ wvol'[v].init = wvol[v].init
        /\ SizesOK(wvol[v]) /\ SizesOK(vol[v]) /\ wvol'[v].size \in Nat
        /\ wvol[v].desired \in Nat /\ wvol[v].size \in Nat /\ vol[v].size \in Nat
    BY <1>0, Fields
       DEF RecordInv, DiskSizes, VolumeStep, SameIntent, Volume
  <1>5. ASSUME NEW w \in DOMAIN disk'
        PROVE  /\ w \in DOMAIN vol /\ disk'[w].size \in Nat
               /\ vol[w].size <= disk'[w].size /\ wvol[w].size <= disk'[w].size
               /\ disk'[w].size <= vol[w].desired
    <2>1. CASE w \in DOMAIN disk
      <3>1. /\ w \in DOMAIN vol /\ disk[w].size \in Nat
            /\ vol[w].size <= disk[w].size /\ wvol[w].size <= disk[w].size
            /\ disk[w].size <= vol[w].desired
            /\ vol[w].size \in Nat /\ wvol[w].size \in Nat /\ vol[w].desired \in Nat
        BY <2>1, Fields DEF RecordInv, DiskSizes
      <3>2. \/ disk'[w].size = disk[w].size
            \/ w = v /\ disk'[w].size = Larger(disk[w].size, vol[v].desired)
        BY <1>0, <1>4, <2>1 DEF DiskStep
      <3> QED
        BY <3>1, <3>2 DEF Larger
    <2>2. CASE w \notin DOMAIN disk
      <3>1. w = v /\ disk'[w].size = vol[v].desired
        BY <1>0, <1>4, <2>2 DEF DiskStep
      <3> QED
        BY <1>0, <1>4, <3>1 DEF SizesOK
    <2> QED
      BY <2>1, <2>2
  <1>6. SizesOK(wvol'[v]) /\ (v \in DOMAIN disk' => wvol'[v].size <= disk'[v].size)
    <2>1. CASE wvol'[v].state \in {wvol[v].state, "DELETED"} /\ wvol'[v].size = wvol[v].size
      BY <1>4, <1>5, <2>1 DEF SizesOK
    <2>2. CASE /\ wvol'[v].state = "AVAILABLE" /\ v \in DOMAIN disk'
               /\ wvol'[v].size = disk'[v].size /\ wvol'[v].desired <= wvol'[v].size
      BY <1>4, <1>5, <2>2 DEF SizesOK
    <2> QED
      BY <1>0, <2>1, <2>2 DEF VolumeStep
  <1>7. DiskSizes'
    <2>1. \A w \in DOMAIN vol : SizesOK(vol[w]) /\ SizesOK(wvol'[w])
      BY <1>0, <1>6 DEF RecordInv, DiskSizes
    <2>2. \A w \in DOMAIN disk' : wvol'[w].size <= disk'[w].size
      BY <1>0, <1>5, <1>6
    <2> QED
      BY <1>0, <1>5, <2>1, <2>2 DEF DiskSizes
  <1>8. PendingIsSeen'
    BY <1>0 DEF VolumeVisitEffect, Moves, PendingIsSeen, Exists
  <1> QED
    BY <1>1, <1>3, <1>7, <1>8 DEF RecordInv

\* and of an attachment (engine.go:320-358) keep the invariant,
LEMMA AttachmentVisitKeepsRecords ==
  ASSUME RecordInv, NEW a, AttachmentVisitEffect(a), IInv'
  PROVE  RecordInv'
  <1>0. /\ vol' = vol /\ att' = att /\ wvol' = wvol /\ a \in DOMAIN att
        /\ phase = "attachments" /\ phase' = phase /\ a \in todo /\ todo' \subseteq todo
        /\ \A b \in DOMAIN att : b # a => watt'[b] = watt[b]
        /\ SameClaim(watt'[a], watt[a])
    BY DEF AttachmentVisitEffect, Moves
  <1>1. OneScope'
    BY <1>0 DEF RecordInv, OneScope
  <1>2. IsLive(a)
    BY <1>0 DEF RecordInv, PassLeavesDone
  <1>3. PassLeavesDone'
    BY <1>0, <1>2 DEF RecordInv, PassLeavesDone, IsLive
  <1>4. DiskSizes'
    BY <1>0 DEF RecordInv, DiskSizes, AttachmentVisitEffect
  <1>5. PendingIsSeen'
    BY <1>0 DEF AttachmentVisitEffect, Moves, SameClaim, PendingIsSeen,
               AttachedTo, Exists
  <1> QED
    BY <1>1, <1>3, <1>4, <1>5 DEF RecordInv

\* The pass begins, goes on to the attachments, commits.
LEMMA BracketKeepsRecords ==
  ASSUME RecordInv, BeginReconcile \/ VolumesDone \/ CommitReconcile, IInv'
  PROVE  RecordInv'
  <1>1. CASE BeginReconcile \/ VolumesDone
    <2>1. /\ UNCHANGED <<disk, vol, att, wvol, watt>> /\ pending' = None
      BY <1>1 DEF BeginReconcile, VolumesDone, durable, working, RecordInv,
                  IInv, TypeOK
    <2>2. PassLeavesDone'
      <3>1. CASE BeginReconcile
        <4>1. wvol = vol /\ phase' = "volumes" /\ todo' = VolumesToVisit
          BY <3>1 DEF BeginReconcile, RecordInv, IInv, PassKeepsIntent
        <4> QED
          BY <2>1, <4>1 DEF RecordInv, PassLeavesDone, IsLive, VolumesToVisit
      <3>2. CASE VolumesDone
        <4>1. /\ phase' = "attachments" /\ todo' = AttachmentsToVisit
              /\ DOMAIN watt = DOMAIN att
          BY <3>2, Records DEF VolumesDone, RecordInv, IInv
        <4>2. \A b \in todo' : IsLive(b)
          BY <4>1 DEF RecordInv, IInv, PassKeepsIntent, AttachmentsToVisit
        <4> QED
          BY <2>1, <4>1, <4>2 DEF RecordInv, PassLeavesDone, IsLive
      <3> QED
        BY <1>1, <3>1, <3>2
    <2> QED
      BY <2>1, <2>2 DEF RecordInv, OneScope, DiskSizes, PendingIsSeen
  <1>2. CASE CommitReconcile
    <2>1. /\ vol' = wvol /\ wvol' = wvol /\ att' = watt /\ watt' = watt
          /\ disk' = disk /\ pending' = None /\ todo' = {}
      BY <1>2 DEF CommitReconcile, working
    <2>2. DOMAIN wvol = DOMAIN vol /\ DOMAIN watt = DOMAIN att
      BY Records DEF RecordInv, IInv
    <2>3. OneScope'
      BY <2>1, <2>2, Fields
         DEF RecordInv, OneScope, SameIntent, SameClaim
    <2>4. PassLeavesDone'
      BY <2>1 DEF PassLeavesDone
    <2>5. DiskSizes'
      BY <2>1, <2>2, Fields DEF RecordInv, DiskSizes, SameIntent
    <2>6. PendingIsSeen'
      BY <2>1 DEF PendingIsSeen
    <2> QED
      BY <2>3, <2>4, <2>5, <2>6 DEF RecordInv
  <1> QED
    BY <1>1, <1>2

\* A rolled back pass, a restart, and drift.
LEMMA TroubleKeepsRecords ==
  ASSUME RecordInv, TroubleStep, IInv'
  PROVE  RecordInv'
  <1>1. CASE Rollback
    <2>1. /\ vol' = vol /\ wvol' = vol /\ att' = att /\ watt' = att
          /\ disk' = disk /\ pending' = None /\ todo' = {}
      BY <1>1 DEF Rollback, durable
    <2>2. PassLeavesDone'
      BY <2>1 DEF PassLeavesDone
    <2> QED
      BY <2>1, <2>2 DEF RecordInv, OneScope, DiskSizes, PendingIsSeen
  <1>2. ASSUME NEW v \in VolumeID, Drift(v)
        PROVE  RecordInv'
    <2>1. /\ UNCHANGED <<vol, att, wvol, watt, phase, todo, pending>>
          /\ DiskDisappears(v) \/ DiskDetaches(v) \/ DiskReplaced(v)
      BY <1>2 DEF Drift, durable, working, loop
    <2>2. \A w \in DOMAIN disk' : w \in DOMAIN disk /\ disk'[w].size = disk[w].size
      <3>1. CASE DiskDisappears(v)
        BY <3>1 DEF DiskDisappears, Without, Restrict
      <3>2. CASE DiskDetaches(v) \/ DiskReplaced(v)
        BY <3>2, Records DEF RecordInv, IInv, DiskDetaches, DiskReplaced, Attached,
                             Exists, Disk
      <3> QED
        BY <2>1, <3>1, <3>2
    <2>3. DiskSizes'
      BY <2>1, <2>2 DEF RecordInv, DiskSizes
    <2>4. "window" \notin Troubles => pending = None
      BY <1>2 DEF Drift, Suffer, RecordInv, IInv, TypeOK
    <2> QED
      BY <2>1, <2>3, <2>4 DEF RecordInv, OneScope, PassLeavesDone, IsLive,
                              PendingIsSeen
  <1> QED
    BY <1>1, <1>2 DEF TroubleStep, Crash, RestartWithRegistry

\* There is no other way to take part in a pass.
LEMMA StepKinds ==
  ASSUME IInv, Next
  PROVE  \/ \E p \in Principal : CallBy(p)
         \/ \E v \in VolumeID : VolumeVisitEffect(v)
         \/ \E a \in AttachmentID : AttachmentVisitEffect(a)
         \/ BeginReconcile \/ VolumesDone \/ CommitReconcile
         \/ TroubleStep
  BY ReconcileDeleteEffect, ObserveVolumeEffect, ReconcileEnsureEffect,
     ReconcileDetachEffect, ObserveAttachmentEffect, ReconcileAttachEffect
     DEF Next, ReconcileStep

\* Every step keeps the invariant of the records,
LEMMA NextRecords ==
  ASSUME RecordInv, [Next]_vars
  PROVE  RecordInv'
  <1>1. IInv /\ IInv'
    BY NextInv DEF RecordInv
  <1>2. CASE UNCHANGED vars
    BY <1>1, <1>2 DEF vars, RecordInv, OneScope, PassLeavesDone, IsLive,
                      DiskSizes, PendingIsSeen, AttachedTo, Exists
  <1>3. CASE Next
    BY <1>1, <1>3, StepKinds, CallKeepsRecords, VolumeVisitKeepsRecords,
       AttachmentVisitKeepsRecords, BracketKeepsRecords, TroubleKeepsRecords
  <1> QED
    BY <1>2, <1>3

\* and it holds of the empty platform.
LEMMA InitRecords == Init => RecordInv
  BY InitInv
     DEF Init, ProviderInit, NoEntries, RecordInv, OneScope, PassLeavesDone,
         DiskSizes, PendingIsSeen

(***************************************************************************)
(* The theorems.                                                           *)
(***************************************************************************)
\* The invariant of the records: a pass leaves alone what is over, no disk is
\* smaller than what was observed of it, and, unless the cloud changes in the
\* middle of a pass, what a visit saw is still so at its mutating call
\* (engine.go:269-360).
THEOREM RecordsInductive == Spec => []RecordInv
  BY InitRecords, NextRecords, PTL DEF Spec

\* An attachment, its volume and its VM are of one tenant, and the volume and
\* the VM are in one zone, for as long as the attachment exists
\* (engine.go:152-162).
THEOREM ScopeHolds == Spec => []OneScope
  <1>1. RecordInv => OneScope
    BY DEF RecordInv
  <1> QED
    BY RecordsInductive, <1>1, PTL

\* AVAILABLE is a promise a disk keeps: the size recorded was observed of the
\* disk that is there, and is no less than what was asked for
\* (engine.go:142-149, 302-313).
THEOREM CapacityHolds == Spec => []CapacityBacked
  <1>1. RecordInv => CapacityBacked
    BY Fields DEF RecordInv, DiskSizes, SizesOK, CapacityBacked, Exists
  <1> QED
    BY RecordsInductive, <1>1, PTL

\* A caller changes its own records and nothing else: a controller those of
\* its cluster, a node the uses of its VM's attachments and the format grant
\* of a volume it holds a use of (engine.go:38-47, 209-261).
THEOREM CallersKeepToTheirOwn == Spec => CallerScope
  <1>1. ASSUME RecordInv, NEW p \in Principal, CallBy(p)
        PROVE  /\ \A v \in DOMAIN vol : vol'[v] # vol[v] =>
                    /\ vol[v].owner = p.owner
                    /\ p.role = "node" =>
                         /\ vol'[v] = [vol[v] EXCEPT !.allowFormat = FALSE]
                         /\ \E a \in DOMAIN att :
                              /\ att[a].vol = v /\ att[a].inst = p.inst
                              /\ att[a].uses # {}
               /\ \A a \in DOMAIN att : att'[a] # att[a] =>
                    /\ att[a].owner = p.owner
                    /\ p.role = "node" =>
                         /\ att[a].inst = p.inst
                         /\ att'[a] = [att[a] EXCEPT !.uses = att'[a].uses]
    <2>1. CallEffect(p)
      BY <1>1, AnyCallEffect DEF RecordInv
    <2> QED
      BY <2>1 DEF CallEffect, VolumeEdit, AttachmentEdit
  <1>2. RecordInv /\ [Next]_vars =>
          [\A p \in Principal : CallBy(p) =>
             /\ \A v \in DOMAIN vol : vol'[v] # vol[v] =>
                  /\ vol[v].owner = p.owner
                  /\ p.role = "node" =>
                       /\ vol'[v] = [vol[v] EXCEPT !.allowFormat = FALSE]
                       /\ \E a \in DOMAIN att :
                            /\ att[a].vol = v /\ att[a].inst = p.inst
                            /\ att[a].uses # {}
             /\ \A a \in DOMAIN att : att'[a] # att[a] =>
                  /\ att[a].owner = p.owner
                  /\ p.role = "node" =>
                       /\ att[a].inst = p.inst
                       /\ att'[a] = [att[a] EXCEPT !.uses = att'[a].uses]]_vars
    BY <1>1
  <1> QED
    BY RecordsInductive, <1>2, PTL DEF Spec, CallerScope

\* What each kind of step leaves of the tables.  A commit makes them what the
\* copies were; visits, rollbacks and drift do not touch them.
LEMMA TableSteps ==
  ASSUME RecordInv, [Next]_vars
  PROVE  \/ \E p \in Principal : CallBy(p) /\ CallEffect(p)
         \/ vol' = vol /\ att' = att
         \/ vol' = wvol /\ att' = watt
  <1>1. CASE \E p \in Principal : CallBy(p)
    BY <1>1, AnyCallEffect DEF RecordInv
  <1>2. CASE UNCHANGED vars
    BY <1>2 DEF vars
  <1>3. CASE \E v \in VolumeID : VolumeVisitEffect(v)
    BY <1>3 DEF VolumeVisitEffect
  <1>4. CASE \E a \in AttachmentID : AttachmentVisitEffect(a)
    BY <1>4 DEF AttachmentVisitEffect
  <1>5. CASE BeginReconcile \/ VolumesDone \/ CommitReconcile
    BY <1>5 DEF BeginReconcile, VolumesDone, CommitReconcile, durable
  <1>6. CASE TroubleStep
    BY <1>6 DEF TroubleStep, Crash, RestartWithRegistry, Rollback, Drift, durable
  <1> QED
    BY <1>1, <1>2, <1>3, <1>4, <1>5, <1>6, StepKinds DEF RecordInv

\* A recorded device identity is for ever (engine.go:307-309).
THEOREM IdentityStays == Spec => DeviceKeyStable
  <1>1. ASSUME RecordInv, [Next]_vars, NEW v \in DOMAIN vol, vol[v].key # NoKey
        PROVE  vol'[v].key = vol[v].key
    BY <1>1, TableSteps, CallFields DEF RecordInv, PassLeavesDone
  <1>2. RecordInv /\ [Next]_vars =>
          [\A v \in DOMAIN vol :
             vol[v].key # NoKey => vol'[v].key = vol[v].key]_vars
    BY <1>1
  <1> QED
    BY RecordsInductive, <1>2, PTL DEF Spec, DeviceKeyStable

\* What a step never takes back of a volume,
LEMMA VolumeOneWay ==
  ASSUME RecordInv, [Next]_vars, NEW v \in DOMAIN vol
  PROVE  /\ vol[v].del => vol'[v].del
         /\ vol'[v].allowFormat => vol[v].allowFormat
         /\ vol'[v].desired >= vol[v].desired
         /\ vol[v].state = "DELETED" => vol'[v].state = "DELETED"
  <1>1. vol[v].desired \in Nat /\ SameIntent(wvol[v], vol[v])
    BY Fields DEF RecordInv
  <1>2. CASE \E p \in Principal : CallBy(p) /\ CallEffect(p)
    BY <1>1, <1>2, CallFields DEF RecordInv
  <1>3. CASE vol' = vol
    BY <1>1, <1>3
  <1>4. CASE vol' = wvol
    BY <1>1, <1>4 DEF SameIntent, RecordInv, PassLeavesDone
  <1> QED
    BY <1>2, <1>3, <1>4, TableSteps

\* and of an attachment.
LEMMA AttachmentOneWay ==
  ASSUME RecordInv, [Next]_vars, NEW a \in DOMAIN att
  PROVE  /\ att[a].del => att'[a].del /\ att'[a].uses \subseteq att[a].uses
         /\ ~IsLive(a) => att'[a] = att[a]
  <1>1. CASE \E p \in Principal : CallBy(p) /\ CallEffect(p)
    <2>1. PICK p \in Principal : CallEffect(p)
      BY <1>1
    <2>2. CASE att'[a] = att[a]
      BY <2>2
    <2>3. CASE AttachmentEdit(p, a, att'[a])
      <3>1. att[a] \in Attachment /\ AttachmentStateOK(att[a])
        BY Records DEF RecordInv, IInv, StatesOK
      <3>2. CASE /\ IsLive(a) /\ att'[a].del /\ att'[a].uses = att[a].uses
        BY <3>2
      <3>3. CASE /\ att'[a] = [att[a] EXCEPT !.uses = att'[a].uses]
                 /\ att'[a].del = att[a].del
                 /\ \/ Healthy(a)
                    \/ \E u \in UseID : att'[a].uses = att[a].uses \ {u}
        <4>1. CASE Healthy(a)
          BY <4>1 DEF Healthy, IsLive
        <4>2. CASE \E u \in UseID : att'[a].uses = att[a].uses \ {u}
          <5>1. att[a].del => att'[a].del /\ att'[a].uses \subseteq att[a].uses
            BY <3>3, <4>2
          <5>2. ASSUME ~IsLive(a) PROVE att'[a] = att[a]
            <6>1. att[a].uses = {}
              BY <3>1, <5>2 DEF AttachmentStateOK, IsLive
            <6>2. att'[a].uses = att[a].uses
              BY <4>2, <6>1
            <6>3. att'[a] = [att[a] EXCEPT !.uses = att[a].uses]
              BY <3>3, <6>2
            <6> QED
              BY <3>1, <6>3 DEF Attachment
          <5> QED
            BY <5>1, <5>2
        <4> QED
          BY <3>3, <4>1, <4>2
      <3> QED
        BY <2>3, <3>2, <3>3 DEF AttachmentEdit
    <2> QED
      BY <2>1, <2>2, <2>3 DEF CallEffect
  <1>2. CASE att' = att
    BY <1>2
  <1>3. CASE att' = watt
    BY <1>3, Fields DEF SameClaim, RecordInv, PassLeavesDone
  <1> QED
    BY <1>1, <1>2, <1>3, TableSteps

\* What a caller closed stays closed, for every later call, pass, crash and
\* restart: deletion intents, the end of the grant to format, the promise of
\* a size, DETACHED and DELETED (engine.go:137, 146, 200, 260).
THEOREM NothingIsReopened == Spec => OneWay
  <1>1. RecordInv /\ [Next]_vars =>
          [/\ \A v \in DOMAIN vol :
                /\ vol[v].del => vol'[v].del
                /\ vol'[v].allowFormat => vol[v].allowFormat
                /\ vol'[v].desired >= vol[v].desired
                /\ vol[v].state = "DELETED" => vol'[v].state = "DELETED"
           /\ \A a \in DOMAIN att :
                /\ att[a].del => att'[a].del /\ att'[a].uses \subseteq att[a].uses
                /\ ~IsLive(a) => att'[a] = att[a]]_vars
    BY VolumeOneWay, AttachmentOneWay
  <1> QED
    BY RecordsInductive, <1>1, PTL DEF Spec, OneWay

\* What each kind of step does to the table of disks.
LEMMA DiskSteps ==
  ASSUME RecordInv, [Next]_vars
  PROVE  \/ disk' = disk
         \/ \E v \in VolumeID : VolumeVisitEffect(v)
         \/ \E a \in AttachmentID : AttachmentVisitEffect(a)
         \/ \A w \in DOMAIN disk' :
              /\ w \in DOMAIN disk /\ disk'[w].att \in {disk[w].att, None}
              /\ disk'[w].size = disk[w].size
  <1>1. CASE \E p \in Principal : CallBy(p)
    BY <1>1, AnyCallEffect DEF RecordInv, CallEffect
  <1>2. CASE UNCHANGED vars
    BY <1>2 DEF vars
  <1>3. CASE BeginReconcile \/ VolumesDone \/ CommitReconcile
    BY <1>3 DEF BeginReconcile, VolumesDone, CommitReconcile
  <1>4. CASE TroubleStep
    <2>1. CASE Rollback
      BY <2>1 DEF Rollback
    <2>2. ASSUME NEW v \in VolumeID, Drift(v)
          PROVE  \A w \in DOMAIN disk' :
                   /\ w \in DOMAIN disk /\ disk'[w].att \in {disk[w].att, None}
                   /\ disk'[w].size = disk[w].size
      <3>1. CASE DiskDisappears(v)
        BY <3>1 DEF DiskDisappears, Without, Restrict
      <3>2. CASE DiskDetaches(v) \/ DiskReplaced(v)
        BY <3>2, Records DEF RecordInv, IInv, DiskDetaches, DiskReplaced, Attached,
                             Exists, Disk
      <3> QED
        BY <2>2, <3>1, <3>2 DEF Drift
    <2> QED
      BY <1>4, <2>1, <2>2 DEF TroubleStep, Crash, RestartWithRegistry
  <1> QED
    BY <1>1, <1>2, <1>3, <1>4, StepKinds DEF RecordInv

\* The platform makes a disk only for a volume that is still CREATING, so it
\* never replaces one it has observed, as long as the cloud does not change
\* between GetVolume and EnsureVolume (engine.go:296-304).
THEOREM NoDiskIsRemade ==
  ASSUME "window" \notin Troubles
  PROVE  Spec => NoImplicitRecreate
  <1>1. ASSUME RecordInv, [Next]_vars, NEW v \in DOMAIN disk', ~Exists(v)
        PROVE  vol[v].state = "CREATING" /\ ~vol[v].del
    <2>1. PICK w \in VolumeID : VolumeVisitEffect(w)
      BY <1>1, DiskSteps DEF Exists, AttachmentVisitEffect
    <2>2. /\ w = v /\ pending = v /\ ~wvol[v].del /\ v \in DOMAIN vol
          /\ v \in todo /\ phase = "volumes"
      BY <1>1, <2>1 DEF VolumeVisitEffect, DiskStep, Exists, Moves
    <2>3. v # None
      BY <2>1, <2>2, ProviderAssumption
    <2>4. wvol[v].state = "CREATING" /\ wvol[v].state = vol[v].state
      BY <1>1, <2>2, <2>3 DEF RecordInv, PendingIsSeen, PassLeavesDone
    <2> QED
      BY <1>1, <2>2, <2>4, Fields DEF RecordInv, SameIntent
  <1>2. RecordInv /\ [Next]_vars =>
          [\A v \in DOMAIN disk' :
             ~Exists(v) => vol[v].state = "CREATING" /\ ~vol[v].del]_vars
    BY <1>1
  <1> QED
    BY RecordsInductive, <1>2, PTL DEF Spec, NoImplicitRecreate

\* The platform gives a disk only to an attachment that is open and has no
\* use yet: never back to a VM that lost it with mounts on it, as long as the
\* cloud does not change between GetAttachment and EnsureAttached
\* (engine.go:344-351).
THEOREM NoDiskIsGivenBack ==
  ASSUME "window" \notin Troubles
  PROVE  Spec => NoReattachUnderUse
  <1>1. ASSUME RecordInv, [Next]_vars, NEW v \in VolumeID, NEW a \in DOMAIN att,
               GainsDisk(v, a)
        PROVE  att[a].uses = {} /\ ~att[a].del
    <2>1. a # None
      BY <1>1, ProviderAssumption DEF RecordInv, IInv, TypeOK
    <2>2. v \in DOMAIN disk' /\ disk'[v].att = a /\ ~AttachedTo(v, a)
      BY <1>1 DEF GainsDisk
    <2>3. \A w \in VolumeID : ~VolumeVisitEffect(w)
      BY <2>1, <2>2 DEF VolumeVisitEffect, DiskStep, AttachedTo, Exists
    <2>4. PICK b \in AttachmentID : AttachmentVisitEffect(b)
      BY <1>1, <2>1, <2>2, <2>3, DiskSteps DEF AttachedTo, Exists
    <2>5. /\ b = a /\ pending = a /\ ~watt[a].del /\ v = watt[a].vol
          /\ phase = "attachments"
      BY <2>1, <2>2, <2>4 DEF AttachmentVisitEffect, AttachedTo, Exists
    <2>6. watt[a].uses = {}
      BY <1>1, <2>1, <2>2, <2>5 DEF RecordInv, PendingIsSeen
    <2> QED
      BY <1>1, <2>5, <2>6, Fields DEF RecordInv, SameClaim
  <1>2. RecordInv /\ [Next]_vars =>
          [\A v \in VolumeID, a \in DOMAIN att :
             GainsDisk(v, a) => att[a].uses = {} /\ ~att[a].del]_vars
    BY <1>1
  <1> QED
    BY RecordsInductive, <1>2, PTL DEF Spec, NoReattachUnderUse

(***************************************************************************)
(* What clients of the platform rely on besides.                           *)
(***************************************************************************)
\* No step makes a disk smaller.
LEMMA DiskKeepsSize ==
  ASSUME RecordInv, [Next]_vars, NEW v \in DOMAIN disk, v \in DOMAIN disk'
  PROVE  disk[v].size <= disk'[v].size
  <1>1. disk[v].size \in Nat /\ \A w \in DOMAIN vol : wvol[w].desired \in Nat
    BY Fields DEF RecordInv
  <1>2. ASSUME NEW w \in VolumeID, VolumeVisitEffect(w)
        PROVE  disk[v].size <= disk'[v].size
    <2>1. /\ w \in DOMAIN vol
          /\ \/ disk'[v] = disk[v]
             \/ disk'[v].size = Larger(disk[v].size, wvol[w].desired)
      BY <1>2 DEF VolumeVisitEffect, DiskStep
    <2> QED
      BY <1>1, <2>1 DEF Larger
  <1>3. CASE \E a \in AttachmentID : AttachmentVisitEffect(a)
    BY <1>1, <1>3 DEF AttachmentVisitEffect
  <1> QED
    BY <1>1, <1>2, <1>3, DiskSteps

\* A cluster never has two volumes of one name, so a CreateVolume repeated
\* under the same name finds the volume of the first, whatever happened to
\* it, and makes no second (engine.go:109-127).
THEOREM NamesStayUnique == Spec => []NamesUnique
  <1>1. Init => NamesUnique
    BY DEF Init, NoEntries, NamesUnique
  <1>2. ASSUME RecordInv, NamesUnique, [Next]_vars
        PROVE  NamesUnique'
    <2>1. CASE vol' = vol \/ vol' = wvol
      BY <1>2, <2>1, Fields, Records DEF NamesUnique, SameIntent, RecordInv, IInv
    <2>2. ASSUME NEW p \in Principal, CallEffect(p)
          PROVE  NamesUnique'
      <3>1. SUFFICES ASSUME NEW v \in DOMAIN vol', NEW w \in DOMAIN vol',
                            vol'[v].owner = vol'[w].owner, vol'[v].name = vol'[w].name
                     PROVE  v = w
        BY DEF NamesUnique
      <3>2. \A x \in DOMAIN vol :
              vol'[x].owner = vol[x].owner /\ vol'[x].name = vol[x].name
        BY <1>2, <2>2, CallFields DEF RecordInv
      <3>3. ASSUME NEW x \in DOMAIN vol, NEW y \in DOMAIN vol' \ DOMAIN vol
            PROVE  ~(vol'[x].owner = vol'[y].owner /\ vol'[x].name = vol'[y].name)
        BY <2>2, <3>2, <3>3 DEF CallEffect, NewVolume, Taken, Owned
      <3>4. CASE v \in DOMAIN vol /\ w \in DOMAIN vol
        BY <1>2, <3>1, <3>2, <3>4 DEF NamesUnique
      <3>5. CASE v \notin DOMAIN vol /\ w \notin DOMAIN vol
        BY <2>2, <3>5 DEF CallEffect
      <3> QED
        BY <3>1, <3>3, <3>4, <3>5
    <2> QED
      BY <1>2, <2>1, <2>2, TableSteps
  <1> QED
    BY <1>1, <1>2, RecordsInductive, PTL DEF Spec

\* Without drift, a volume that is past its creation has its disk until its
\* deletion is asked for, also while a pass is open and after one that was
\* rolled back (engine.go:281-313).
THEOREM DisksStay ==
  ASSUME Troubles \cap {"drift", "window"} = {}
  PROVE  Spec => []DiskStays
  <1>1. Init => DiskStays
    BY DEF Init, NoEntries, DiskStays
  <1>2. ASSUME RecordInv, RecordInv', DiskStays, [Next]_vars
        PROVE  DiskStays'
    <2>1. CASE \E p \in Principal : CallBy(p)
      <3>1. PICK p \in Principal : CallEffect(p)
        BY <1>2, <2>1, AnyCallEffect DEF RecordInv
      <3>2. \A v \in DOMAIN vol :
              /\ vol[v].del => vol'[v].del
              /\ vol[v].state = "CREATING" => vol'[v].state = "CREATING" \/ vol'[v].del
        BY <1>2, <3>1, CallFields DEF RecordInv
      <3> QED
        BY <1>2, <3>1, <3>2 DEF CallEffect, NewVolume, DiskStays, Exists
    <2>2. ASSUME NEW w \in VolumeID, VolumeVisitEffect(w)
          PROVE  DiskStays'
      <3>1. /\ vol' = vol /\ w \in DOMAIN vol
            /\ \A v \in DOMAIN vol : v # w => wvol'[v] = wvol[v]
            /\ VolumeStep(w, wvol'[w]) /\ DiskStep(w)
        BY <2>2 DEF VolumeVisitEffect
      <3>2. wvol[w].del = vol[w].del /\ wvol'[w].del = vol[w].del
        BY <1>2, <3>1, Fields DEF RecordInv, SameIntent, VolumeStep
      <3>3. \A v \in DOMAIN vol : ~vol[v].del /\ Exists(v) => Exists(v)'
        BY <3>1, <3>2 DEF DiskStep, Exists
      <3>4. wvol'[w].state = "DELETED" => wvol'[w].del
        BY <1>2, <3>1 DEF RecordInv, IInv, StatesOK, VolumeStateOK
      <3>5. ~vol[w].del /\ wvol'[w].state # "CREATING" => Exists(w)'
        BY <1>2, <3>1, <3>2, <3>3, <3>4 DEF VolumeStep, DiskStays, Exists
      <3> QED
        BY <1>2, <3>1, <3>3, <3>5 DEF DiskStays
    <2>3. CASE \E a \in AttachmentID : AttachmentVisitEffect(a)
      BY <1>2, <2>3 DEF AttachmentVisitEffect, DiskStays, Exists
    <2>4. CASE BeginReconcile \/ VolumesDone \/ UNCHANGED vars
      BY <1>2, <2>4 DEF BeginReconcile, VolumesDone, DiskStays, Exists, vars,
                        durable, working
    <2>5. CASE CommitReconcile
      <3>1. /\ vol' = wvol /\ wvol' = wvol /\ disk' = disk
            /\ DOMAIN wvol = DOMAIN vol
        BY <1>2, <2>5, Records DEF CommitReconcile, working, RecordInv, IInv
      <3>2. \A v \in DOMAIN vol : wvol[v].del = vol[v].del
        BY <1>2, Fields DEF RecordInv, SameIntent
      <3> QED
        BY <1>2, <3>1, <3>2 DEF DiskStays, Exists
    <2>6. CASE TroubleStep
      <3>1. vol' = vol /\ wvol' = vol /\ disk' = disk
        BY <2>6 DEF TroubleStep, Crash, RestartWithRegistry, Rollback, Drift,
                    Suffer, durable
      <3> QED
        BY <1>2, <3>1 DEF DiskStays, Exists
    <2> QED
      BY <1>2, <2>1, <2>2, <2>3, <2>4, <2>5, <2>6, StepKinds DEF RecordInv
  <1> QED
    BY <1>1, <1>2, RecordsInductive, PTL DEF Spec
=============================================================================
