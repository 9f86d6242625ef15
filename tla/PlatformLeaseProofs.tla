-------------------------- MODULE PlatformLeaseProofs ------------------------
(***************************************************************************)
(* The durable use barrier: the platform takes a disk from a VM only when  *)
(* the last use of a closed attachment is gone, and so, unless the cloud   *)
(* drifts, a use is a use of a disk that is there.  And with it the        *)
(* refinement: for every volume the platform is a writer lease.            *)
(***************************************************************************)
EXTENDS PlatformRecordProofs, PlatformLeaseRefinement

\* The attachment that has the disk is closed and free.
MayLose(v) == att[disk[v].att].del /\ att[disk[v].att].uses = {}

\* A visit of a volume takes its disk from nobody: it deletes no attached
\* disk, and EnsureVolume keeps the attachment.
LEMMA VolumeVisitLosesNothing ==
  ASSUME IInv, NEW v \in VolumeID, NEW w \in VolumeID,
         ReconcileDelete(w) \/ ObserveVolume(w) \/ ReconcileEnsure(w)
  PROVE  ~LosesDisk(v)
  <1>1. CASE ObserveVolume(w)
    BY <1>1 DEF ObserveVolume, LosesDisk, Attached, Exists
  <1>2. CASE ReconcileDelete(w)
    <2>1. disk' = disk \/ (~Attached(w) /\ disk' = Without(disk, w))
      BY <1>2 DEF ReconcileDelete, DeleteDisk, DeleteRefused, Perform
    <2> QED
      BY <2>1 DEF LosesDisk, Attached, Exists, Without, Restrict
  <1>3. CASE ReconcileEnsure(w)
    <2> DEFINE d == Ensured(w, wvol[w].desired)
    <2>1. disk' = disk \/ disk' = With(disk, w, d)
      BY <1>3 DEF ReconcileEnsure, EnsureVolume, Perform
    <2>2. w # None
      BY ProviderAssumption
    <2>3. wvol[w].desired \in 0 .. MaxSize
      BY <1>3, <2>2, VisitType, Records, ProviderAssumption
         DEF IInv, ReconcileEnsure, Volume
    <2>4. Exists(w) => d.att = disk[w].att
      BY <2>3, EnsuredDisk DEF IInv
    <2> HIDE DEF d
    <2> QED
      BY <2>1, <2>4 DEF LosesDisk, Attached, Exists, With
  <1> QED
    BY <1>1, <1>2, <1>3

\* A visit of an attachment takes the disk only from that attachment, when it
\* is closed and free.
LEMMA AttachmentVisitLoses ==
  ASSUME IInv, NEW v \in VolumeID, NEW a \in AttachmentID,
         ReconcileDetach(a) \/ ObserveAttachment(a) \/ ReconcileAttach(a),
         LosesDisk(v)
  PROVE  MayLose(v)
  <1>1. CASE ObserveAttachment(a)
    BY <1>1 DEF ObserveAttachment, LosesDisk, Attached, Exists
  <1>2. CASE ReconcileDetach(a)
    <2>1. /\ a \in DOMAIN att /\ watt[a].del /\ SameClaim(watt[a], att[a])
      BY <1>2, VisitType DEF IInv, PassKeepsIntent, ReconcileDetach
    <2> DEFINE w == watt[a].vol
    <2>2. disk' # disk
      BY DEF LosesDisk, Attached, Exists
    <2>3. PICK o \in Outcome :
            ~InUse(watt[a]) /\ EnsureDetached(w, watt[a].inst, a, o)
      BY <1>2, <2>2 DEF ReconcileDetach
    <2>4. /\ disk' = [disk EXCEPT ![w].inst = None, ![w].att = None]
          /\ Attached(w) /\ disk[w].att = a
      BY <2>2, <2>3
         DEF EnsureDetached, DetachRefused, HeldBy, Attached, Perform
    <2>5. v = w
      BY <2>4 DEF LosesDisk, Attached, Exists
    <2> QED
      BY <2>1, <2>3, <2>4, <2>5 DEF MayLose, SameClaim, InUse
  <1>3. CASE ReconcileAttach(a)
    <2>1. a # None
      BY ProviderAssumption
    <2> DEFINE w == watt[a].vol
    <2>2. disk' # disk
      BY DEF LosesDisk, Attached, Exists
    <2>3. PICK o \in Outcome : EnsureAttached(w, watt[a].inst, a, o)
      BY <1>3 DEF ReconcileAttach
    <2>4. /\ disk' = [disk EXCEPT ![w].inst = watt[a].inst, ![w].att = a]
          /\ Exists(w) /\ (Attached(w) => disk[w].att = a)
      BY <2>2, <2>3 DEF EnsureAttached, AttachRefused, HeldBy, Perform
    <2>5. DOMAIN disk' = DOMAIN disk /\ disk'[w].att = a
          /\ \A x \in DOMAIN disk : x # w => disk'[x] = disk[x]
      BY <2>4, Records DEF IInv, Exists, Disk
    <2> QED
      BY <2>4, <2>5 DEF LosesDisk, Attached, Exists
  <1> QED
    BY <1>1, <1>2, <1>3

\* What a call leaves: the cloud as it is, every attachment in its place, and
\* nothing confirmed that was not.
CallLeaves ==
  /\ disk' = disk
  /\ \A a \in DOMAIN att : a \in DOMAIN att' /\ att'[a].vol = att[a].vol
  /\ \A a \in DOMAIN att' : Confirmed(a)' => a \in DOMAIN att /\ Confirmed(a)

\* No call of Engine.Call touches the cloud, whoever makes it.
LEMMA AnyCallLeaves ==
  ASSUME IInv, OneScope, NEW p \in Principal, CallBy(p)
  PROVE  CallLeaves
  <1>1. CallEffect(p)
    BY AnyCallEffect
  <1>2. watt = att
    BY <1>1 DEF IInv, PassKeepsIntent, CallBy, ControllerCall,
               NodeCall, CreateVolume, DeleteVolume, ResizeVolume,
               CreateAttachment, DeleteAttachment, DeleteLatestAttachment,
               CloseGate, AcquireUse, ReleaseUse, MarkInitialized, Unlocked
  <1>3. \A a \in DOMAIN att : a \in DOMAIN att' /\ att'[a].vol = att[a].vol
    BY <1>1, CallFields
  <1>4. ASSUME NEW a \in DOMAIN att', Confirmed(a)'
        PROVE  a \in DOMAIN att /\ Confirmed(a)
    <2>1. att'[a].state = "ATTACHED" \/ att'[a].uses # {}
      BY <1>1, <1>4 DEF CallEffect, Confirmed
    <2>2. a \in DOMAIN att
      BY <1>1, <2>1 DEF CallEffect, GrantedAttachment
    <2>3. att'[a] = att[a] \/ AttachmentEdit(p, a, att'[a])
      BY <1>1, <2>2 DEF CallEffect
    <2>4. ASSUME AttachmentEdit(p, a, att'[a])
          PROVE  att[a].state = "ATTACHED" \/ att[a].uses # {}
      BY <2>1, <2>4 DEF AttachmentEdit, Healthy
    <2> QED
      BY <2>1, <2>2, <2>3, <2>4 DEF Confirmed
  <1> QED
    BY <1>1, <1>3, <1>4 DEF CallLeaves, CallEffect

\* Everything else leaves the cloud alone, but drift.
LEMMA StepLoses ==
  ASSUME IInv, OneScope, [Next]_vars, NEW v \in VolumeID, LosesDisk(v), ~Drift(v)
  PROVE  MayLose(v)
  <1>1. disk' # disk
    BY DEF LosesDisk, Attached, Exists
  <1>2. CASE \E w \in VolumeID :
               ReconcileDelete(w) \/ ObserveVolume(w) \/ ReconcileEnsure(w)
    BY <1>2, VolumeVisitLosesNothing
  <1>3. CASE \E a \in AttachmentID :
               ReconcileDetach(a) \/ ObserveAttachment(a) \/ ReconcileAttach(a)
    BY <1>3, AttachmentVisitLoses
  <1>4. ASSUME NEW w \in VolumeID, Drift(w)
        PROVE  FALSE
    <2>1. w # v
      BY <1>4
    <2>2. v \in DOMAIN disk' /\ disk'[v] = disk[v]
      BY <1>4, <2>1
         DEF Drift, DiskDisappears, DiskDetaches, DiskReplaced, LosesDisk,
             Attached, Exists, Without, Restrict
    <2> QED
      BY <2>2 DEF LosesDisk
  <1>5. CASE \E p \in Principal : CallBy(p)
    BY <1>1, <1>5, AnyCallLeaves DEF CallLeaves
  <1>6. CASE BeginReconcile \/ VolumesDone \/ CommitReconcile \/ Crash
               \/ RestartWithRegistry \/ UNCHANGED vars
    BY <1>1, <1>6
       DEF BeginReconcile, VolumesDone, CommitReconcile, Crash,
           RestartWithRegistry, Rollback, vars
  <1> QED
    BY <1>2, <1>3, <1>4, <1>5, <1>6 DEF Next, ReconcileStep, TroubleStep

\* The detach barrier (engine.go:281-288, 325-332).
THEOREM BarrierHolds == Spec => DetachBarrier
  <1>1. RecordInv /\ [Next]_vars =>
          [\A v \in VolumeID : LosesDisk(v) /\ ~Drift(v) =>
             att[disk[v].att].del /\ att[disk[v].att].uses = {}]_vars
    BY StepLoses DEF MayLose, RecordInv
  <1> QED
    BY RecordsInductive, <1>1, PTL DEF Spec, DetachBarrier

(***************************************************************************)
(* Uses hold the disk.                                                     *)
(***************************************************************************)
\* Only a confirmation by the cloud confirms, and a commit or a rollback
\* confirms nothing new.
LEMMA ConfirmedOrigin ==
  ASSUME IInv, OneScope, [Next]_vars, NEW a \in DOMAIN att', Confirmed(a)'
  PROVE  \/ a \in DOMAIN att /\ Confirmed(a) /\ att'[a].vol = att[a].vol
         \/ AttachedTo(att[a].vol, a)'
  <1> DEFINE Same == a \in DOMAIN att /\ Confirmed(a) /\ att'[a].vol = att[a].vol
  <1>0. DOMAIN watt = DOMAIN att
    BY Records DEF IInv
  <1>1. CASE \E p \in Principal : CallBy(p)
    BY <1>1, AnyCallLeaves DEF CallLeaves
  <1>2. CASE UNCHANGED <<att, watt>>
    BY <1>2 DEF Confirmed
  <1>3. CASE BeginReconcile \/ VolumesDone \/ TroubleStep
    <2>1. att' = att /\ watt' \in {att, watt}
      BY <1>3 DEF BeginReconcile, VolumesDone, TroubleStep, Crash,
                  RestartWithRegistry, Rollback, Drift, durable, working
    <2> QED
      BY <2>1 DEF Confirmed
  <1>4. CASE CommitReconcile
    <2>1. att' = watt /\ watt' = watt
      BY <1>4 DEF CommitReconcile, working
    <2>2. SameClaim(watt[a], att[a])
      BY <1>0, <2>1 DEF IInv, PassKeepsIntent
    <2> QED
      BY <1>0, <2>1, <2>2 DEF Confirmed, SameClaim
  <1>5. CASE \E v \in VolumeID :
               ReconcileDelete(v) \/ ObserveVolume(v) \/ ReconcileEnsure(v)
    <2>1. att' = att /\ watt' = watt
      BY <1>5 DEF ReconcileDelete, ObserveVolume, ReconcileEnsure, SetVolume, durable
    <2> QED
      BY <1>2, <2>1
  <1>6. ASSUME NEW b \in AttachmentID, NEW rec,
               SetAttachment(b, rec), b \in DOMAIN att,
               \/ rec.state = "ATTACHED" => watt[b].state = "ATTACHED"
               \/ AttachedTo(att[b].vol, b)'
        PROVE  Same \/ AttachedTo(att[a].vol, a)'
    <2>1. att' = att /\ watt' = [watt EXCEPT ![b] = rec]
      BY <1>6 DEF SetAttachment, durable
    <2>2. watt'[b] = rec /\ \A c \in DOMAIN att : c # b => watt'[c] = watt[c]
      BY <1>0, <1>6, <2>1
    <2> QED
      BY <1>6, <2>1, <2>2 DEF Confirmed, AttachedTo, Exists
  <1>7. CASE \E b \in AttachmentID : ReconcileDetach(b) \/ ObserveAttachment(b)
    <2>1. PICK b \in AttachmentID : ReconcileDetach(b) \/ ObserveAttachment(b)
      BY <1>7
    <2>2. b \in DOMAIN att /\ watt[b] \in Attachment
      BY <2>1, VisitType, Records DEF IInv, ReconcileDetach, ObserveAttachment
    <2>3. PICK rec \in {Cleared(watt[b]), Failed(watt[b]),
                        Reached(watt[b], "DETACHED")} : SetAttachment(b, rec)
      BY <2>1 DEF ReconcileDetach, ObserveAttachment
    <2>4. rec.state = "ATTACHED" => watt[b].state = "ATTACHED"
      BY <2>2, <2>3 DEF Attachment, Cleared, Failed, Reached
    <2> QED
      BY <1>6, <2>2, <2>3, <2>4
  <1>8. CASE \E b \in AttachmentID : ReconcileAttach(b)
    <2>1. PICK b \in AttachmentID : ReconcileAttach(b)
      BY <1>8
    <2>2. /\ b \in DOMAIN att /\ watt[b] \in Attachment
          /\ watt[b].vol = att[b].vol
      BY <2>1, VisitType, Records, ProviderAssumption
         DEF IInv, PassKeepsIntent, SameClaim, ReconcileAttach
    <2> DEFINE v == att[b].vol
               i == watt[b].inst
    <2>3. PICK o \in Outcome :
            /\ EnsureAttached(v, i, b, o)
            /\ SetAttachment(b, IF Succeeds(AttachRefused(v, i, b), o)
                                THEN Reached(watt[b], "ATTACHED")
                                ELSE Failed(watt[b]))
      BY <2>1, <2>2 DEF ReconcileAttach
    <2>4. CASE Succeeds(AttachRefused(v, i, b), o)
      <3>1. /\ disk' = [disk EXCEPT ![v].inst = i, ![v].att = b] /\ v \in DOMAIN disk
            /\ SetAttachment(b, Reached(watt[b], "ATTACHED"))
        BY <2>3, <2>4
           DEF Succeeds, EnsureAttached, AttachRefused, Exists, Perform
      <3>2. att' = att /\ v \in DOMAIN disk' /\ disk'[v].att = b
        BY <3>1, Records DEF IInv, Disk, SetAttachment, durable
      <3> QED
        BY <1>6, <2>2, <3>1, <3>2 DEF AttachedTo, Exists
    <2>5. CASE ~Succeeds(AttachRefused(v, i, b), o)
      <3>1. SetAttachment(b, Failed(watt[b])) /\ Failed(watt[b]).state = watt[b].state
        BY <2>2, <2>3, <2>5 DEF Attachment, Failed
      <3> QED
        BY <1>6, <2>2, <3>1
    <2> QED
      BY <2>4, <2>5
  <1> QED
    BY <1>1, <1>2, <1>3, <1>4, <1>5, <1>7, <1>8 DEF Next, ReconcileStep, vars

\* What is confirmed is not up for detachment.
LEMMA ConfirmedIsKept ==
  ASSUME IInv, NEW a \in DOMAIN att, Confirmed(a)
  PROVE  ~(att[a].del /\ att[a].uses = {})
  BY DEF IInv, StatesOK, AttachmentStateOK, PassKeepsIntent, SameClaim, Confirmed

\* Where nobody changes the cloud, what was confirmed stays there.
LEMMA ConfirmedStays ==
  ASSUME Troubles \cap {"drift", "window"} = {}
  PROVE  Spec => []ConfirmedIsHeld
  <1>1. Init => ConfirmedIsHeld
    BY DEF Init, NoEntries, ConfirmedIsHeld
  <1>2. ASSUME RecordInv, ConfirmedIsHeld, [Next]_vars
        PROVE  ConfirmedIsHeld'
    <2>1. SUFFICES ASSUME NEW a \in DOMAIN att', Confirmed(a)'
                   PROVE  AttachedTo(att[a].vol, a)'
      BY DEF ConfirmedIsHeld
    <2>2. CASE AttachedTo(att[a].vol, a)'
      BY <2>2
    <2>3. CASE a \in DOMAIN att /\ Confirmed(a) /\ att'[a].vol = att[a].vol
      <3> DEFINE v == att[a].vol
      <3>1. /\ v \in VolumeID /\ a # None
        BY <1>2, <2>3, Records, ProviderAssumption DEF RecordInv, IInv, TypeOK, Attachment
      <3>2. v \in DOMAIN disk /\ disk[v].att = a /\ Attached(v)
        BY <1>2, <2>3, <3>1
           DEF ConfirmedIsHeld, AttachedTo, Exists, Attached, RecordInv, IInv, CloudFollows
      <3>3. ~Drift(v)
        BY DEF Drift, Suffer
      <3>4. ~LosesDisk(v)
        BY <1>2, <2>3, <3>1, <3>2, <3>3, StepLoses, ConfirmedIsKept DEF MayLose, RecordInv
      <3> QED
        BY <2>3, <3>2, <3>4 DEF LosesDisk, AttachedTo, Exists
    <2> QED
      BY <1>2, <2>1, <2>2, <2>3, ConfirmedOrigin DEF RecordInv
  <1> QED
    BY <1>1, <1>2, RecordsInductive, PTL DEF Spec

\* So a registered use is a use of a disk that is attached to the VM, for the
\* attachment the use is of (engine.go:246-253, 325-331, 344-354).
THEOREM UsesHold ==
  ASSUME Troubles \cap {"drift", "window"} = {}
  PROVE  Spec => []UseHoldsDisk
  <1>1. RecordInv /\ ConfirmedIsHeld => UseHoldsDisk
    BY ProviderAssumption
       DEF RecordInv, IInv, CloudFollows, ConfirmedIsHeld, Confirmed, UseHoldsDisk,
           AttachedTo, HeldBy, Exists, TypeOK
  <1> QED
    BY <1>1, ConfirmedStays, RecordsInductive, PTL

(***************************************************************************)
(* The refinement of WriterLease.                                          *)
(***************************************************************************)
Writer(v, a) == a \in DOMAIN att /\ att[a].vol = v /\ IsLive(a)
GenOf(v) == IF v \in DOMAIN vol THEN vol[v].gen ELSE 0
CloudOf(v) == IF Attached(v) THEN disk[v].inst ELSE None
LeaseRec(g, h, o, u, c) ==
  [gen |-> g, holder |-> h, open |-> o, uses |-> u, cloud |-> c]

\* The lease of a volume is its writer's; there is one at most.
LeaseShapes ==
  \A v \in VolumeID :
    /\ \A a : Writer(v, a) =>
         LeaseOf(v) = LeaseRec(GenOf(v), att[a].inst, ~att[a].del,
                               att[a].uses, CloudOf(v))
    /\ (\A a : ~Writer(v, a)) =>
         LeaseOf(v) = LeaseRec(GenOf(v), None, FALSE, {}, CloudOf(v))

\* Because of the single writer,
LEMMA LeaseShape == IInv => LeaseShapes
  <1> SUFFICES ASSUME IInv, NEW v \in VolumeID
               PROVE  /\ \A a : Writer(v, a) =>
                           LeaseOf(v) = LeaseRec(GenOf(v), att[a].inst, ~att[a].del,
                                                 att[a].uses, CloudOf(v))
                      /\ (\A a : ~Writer(v, a)) =>
                           LeaseOf(v) = LeaseRec(GenOf(v), None, FALSE, {}, CloudOf(v))
    BY DEF LeaseShapes
  <1>1. ASSUME NEW a, Writer(v, a)
        PROVE  LiveOf(v) = a
    <2>1. /\ LiveOf(v) \in DOMAIN att /\ att[LiveOf(v)].vol = v
          /\ IsLive(LiveOf(v))
      BY <1>1 DEF LiveOf, Writer
    <2> QED
      BY <1>1, <2>1 DEF IInv, SingleWriter, Writer
  <1> QED
    BY <1>1 DEF LeaseOf, LeaseRec, GenOf, CloudOf, Writer

\* in the next state as in this one.
LEMMA LeaseShapeNext == IInv' => LeaseShapes'
  BY LeaseShape, PTL

\* The seven steps of a lease, field by field (Lease.tla).
LEMMA LeaseMoves ==
  ASSUME NEW v, NEW g, NEW h, NEW o, NEW u, NEW c,
         NEW g2, NEW h2, NEW o2, NEW u2, NEW c2,
         LeaseOf(v) = LeaseRec(g, h, o, u, c),
         LeaseOf(v)' = LeaseRec(g2, h2, o2, u2, c2),
         \/ /\ h = None /\ c = None
            /\ g2 = g + 1 /\ h2 \in InstanceID /\ o2 = TRUE /\ u2 = u /\ c2 = c
         \/ o = TRUE /\ c2 = h /\ g2 = g /\ h2 = h /\ o2 = o /\ u2 = u
         \/ /\ o = TRUE /\ c = h /\ g2 = g /\ h2 = h /\ o2 = o /\ c2 = c
            /\ \E x \in u2 : u2 = u \cup {x}
         \/ (\E x \in u : u2 = u \ {x}) /\ g2 = g /\ h2 = h /\ o2 = o /\ c2 = c
         \/ o = TRUE /\ o2 = FALSE /\ g2 = g /\ h2 = h /\ u2 = u /\ c2 = c
         \/ /\ o = FALSE /\ u = {} /\ c2 = None
            /\ g2 = g /\ h2 = h /\ o2 = o /\ u2 = u
         \/ /\ o = FALSE /\ u = {} /\ c = None /\ h2 = None
            /\ g2 = g /\ o2 = o /\ u2 = u /\ c2 = c
  PROVE  Abstract(v)!Next
  <1> DEFINE l == LeaseRec(g, h, o, u, c)
             m == LeaseRec(g2, h2, o2, u2, c2)
  <1>0. /\ l.gen = g /\ l.holder = h /\ l.open = o /\ l.uses = u /\ l.cloud = c
        /\ m.uses = u2
    BY DEF LeaseRec
  <1>8. [l EXCEPT !.gen = g + 1, !.holder = h2, !.open = TRUE]
             = LeaseRec(g + 1, h2, TRUE, u, c)
    <2>1. ASSUME NEW x, NEW y
          PROVE  [l EXCEPT !.gen = y, !.holder = h2, !.open = x]
                   = LeaseRec(y, h2, x, u, c)
      <3> DEFINE n == [l EXCEPT !.gen = y, !.holder = h2, !.open = x]
      <3>1. l \in [gen : {g, y}, holder : {h, h2}, open : {o, x}, uses : {u}, cloud : {c}]
        BY DEF LeaseRec
      <3>2. n \in [gen : {g, y}, holder : {h, h2}, open : {o, x}, uses : {u}, cloud : {c}]
        BY <3>1
      <3>3. /\ n.gen = y /\ n.holder = h2 /\ n.open = x /\ n.uses = u
            /\ n.cloud = c
        BY <3>1 DEF LeaseRec
      <3> HIDE DEF n
      <3>4. n = LeaseRec(y, h2, x, u, c)
        BY <3>2, <3>3 DEF LeaseRec
      <3> QED
        BY <3>4 DEF n
    <2> HIDE DEF l
    <2> QED
      BY <2>1
  <1>9. [l EXCEPT !.cloud = h] = LeaseRec(g, h, o, u, h)
    BY DEF LeaseRec
  <1>10. ASSUME NEW x
         PROVE  /\ [l EXCEPT !.uses = u \cup {x}] = LeaseRec(g, h, o, u \cup {x}, c)
                /\ [l EXCEPT !.uses = u \ {x}] = LeaseRec(g, h, o, u \ {x}, c)
    BY DEF LeaseRec
  <1>11. [l EXCEPT !.open = FALSE] = LeaseRec(g, h, FALSE, u, c)
    <2>1. \A x : [l EXCEPT !.open = x] = LeaseRec(g, h, x, u, c)
      BY DEF LeaseRec
    <2> HIDE DEF l
    <2> QED
      BY <2>1
  <1>12. [l EXCEPT !.cloud = None] = LeaseRec(g, h, o, u, None)
    BY DEF LeaseRec
  <1>13. [l EXCEPT !.holder = None] = LeaseRec(g, None, o, u, c)
    BY DEF LeaseRec
  <1>1. CASE /\ h = None /\ c = None
             /\ g2 = g + 1 /\ h2 \in InstanceID /\ o2 = TRUE /\ u2 = u /\ c2 = c
    <2>1. m = [l EXCEPT !.gen = g + 1, !.holder = h2, !.open = TRUE]
      BY <1>1, <1>8
    <2> HIDE DEF l, m
    <2>2. Abstract(v)!LeaseStep(l, m)
      BY <1>0, <1>1, <2>1
         DEF Abstract!LeaseStep, Abstract!CanGrant, Abstract!Granted
    <2> QED
      BY <2>2 DEF l, m, Abstract!Next
  <1>2. CASE o = TRUE /\ c2 = h /\ g2 = g /\ h2 = h /\ o2 = o /\ u2 = u
    <2>1. m = [l EXCEPT !.cloud = h]
      BY <1>2, <1>9
    <2> HIDE DEF l, m
    <2>2. Abstract(v)!LeaseStep(l, m)
      BY <1>0, <1>2, <2>1
         DEF Abstract!LeaseStep, Abstract!CanTake, Abstract!DiskTaken
    <2> QED
      BY <2>2 DEF l, m, Abstract!Next
  <1>3. CASE /\ o = TRUE /\ c = h /\ g2 = g /\ h2 = h /\ o2 = o /\ c2 = c
             /\ \E x \in u2 : u2 = u \cup {x}
    <2>1. PICK x \in u2 : u2 = u \cup {x}
      BY <1>3
    <2>2. m = [l EXCEPT !.uses = u \cup {x}]
      BY <1>3, <2>1, <1>10
    <2> HIDE DEF l, m
    <2>3. Abstract(v)!LeaseStep(l, m)
      BY <1>0, <1>3, <2>1, <2>2
         DEF Abstract!LeaseStep, Abstract!CanAcquire, Abstract!Acquired
    <2> QED
      BY <2>3 DEF l, m, Abstract!Next
  <1>4. CASE (\E x \in u : u2 = u \ {x}) /\ g2 = g /\ h2 = h /\ o2 = o /\ c2 = c
    <2>1. PICK x \in u : u2 = u \ {x}
      BY <1>4
    <2>2. m = [l EXCEPT !.uses = u \ {x}]
      BY <1>4, <2>1, <1>10
    <2> HIDE DEF l, m
    <2>3. Abstract(v)!LeaseStep(l, m)
      BY <1>0, <2>2 DEF Abstract!LeaseStep, Abstract!Released
    <2> QED
      BY <2>3 DEF l, m, Abstract!Next
  <1>5. CASE o = TRUE /\ o2 = FALSE /\ g2 = g /\ h2 = h /\ u2 = u /\ c2 = c
    <2>1. m = [l EXCEPT !.open = FALSE]
      BY <1>5, <1>11
    <2> HIDE DEF l, m
    <2>2. Abstract(v)!LeaseStep(l, m)
      BY <1>0, <1>5, <2>1
         DEF Abstract!LeaseStep, Abstract!CanClose, Abstract!Closed
    <2> QED
      BY <2>2 DEF l, m, Abstract!Next
  <1>6. CASE /\ o = FALSE /\ u = {} /\ c2 = None
             /\ g2 = g /\ h2 = h /\ o2 = o /\ u2 = u
    <2>1. m = [l EXCEPT !.cloud = None]
      BY <1>6, <1>12
    <2> HIDE DEF l, m
    <2>2. Abstract(v)!LeaseStep(l, m)
      BY <1>0, <1>6, <2>1
         DEF Abstract!LeaseStep, Abstract!CanGive, Abstract!DiskGiven
    <2> QED
      BY <2>2 DEF l, m, Abstract!Next
  <1>7. CASE /\ o = FALSE /\ u = {} /\ c = None /\ h2 = None
             /\ g2 = g /\ o2 = o /\ u2 = u /\ c2 = c
    <2>1. m = [l EXCEPT !.holder = None]
      BY <1>7, <1>13
    <2> HIDE DEF l, m
    <2>2. Abstract(v)!LeaseStep(l, m)
      BY <1>0, <1>7, <2>1
         DEF Abstract!LeaseStep, Abstract!CanGive, Abstract!CanRetire, Abstract!Retired
    <2> QED
      BY <2>2 DEF l, m, Abstract!Next
  <1> QED
    BY <1>1, <1>2, <1>3, <1>4, <1>5, <1>6, <1>7

\* A lease whose writer, generation and disk stay is the same lease.
LEMMA LeaseKept ==
  ASSUME LeaseShapes, LeaseShapes', NEW v \in VolumeID,
         GenOf(v)' = GenOf(v), CloudOf(v)' = CloudOf(v),
         \A a : Writer(v, a)' <=> Writer(v, a),
         \A a : Writer(v, a) => /\ att'[a].inst = att[a].inst
                                /\ att'[a].del = att[a].del
                                /\ att'[a].uses = att[a].uses
  PROVE  LeaseOf(v)' = LeaseOf(v)
  <1>1. CASE \E a : Writer(v, a)
    <2>1. PICK a : Writer(v, a)
      BY <1>1
    <2>2. /\ LeaseOf(v) = LeaseRec(GenOf(v), att[a].inst, ~att[a].del,
                                   att[a].uses, CloudOf(v))
          /\ LeaseOf(v)' = LeaseRec(GenOf(v)', att'[a].inst, ~att'[a].del,
                                    att'[a].uses, CloudOf(v)')
      BY <2>1 DEF LeaseShapes, LeaseRec
    <2> QED
      BY <2>1, <2>2
  <1>2. CASE \A a : ~Writer(v, a)
    <2>1. \A a : ~Writer(v, a)'
      BY <1>2
    <2>2. LeaseOf(v)' = LeaseRec(GenOf(v)', None, FALSE, {}, CloudOf(v)')
      BY <2>1 DEF LeaseShapes, LeaseRec
    <2>3. LeaseOf(v) = LeaseRec(GenOf(v), None, FALSE, {}, CloudOf(v))
      BY <1>2 DEF LeaseShapes
    <2> QED
      BY <2>2, <2>3
  <1> QED
    BY <1>1, <1>2

\* Where the disk is follows from the attachment it is attached for.
LEMMA CloudSame ==
  ASSUME IInv, IInv', att' = att, NEW v \in VolumeID,
         Attached(v) \/ Attached(v)' =>
           v \in DOMAIN disk /\ v \in DOMAIN disk' /\ disk'[v].att = disk[v].att
  PROVE  CloudOf(v)' = CloudOf(v)
  BY DEF IInv, CloudFollows, CloudOf, Attached, Exists

\* A step of the lease of v, or none.
LeaseMovesOrStays(v) == Abstract(v)!Next \/ LeaseOf(v)' = LeaseOf(v)

\* Facts about a writer the cases below need.
LEMMA WriterFacts ==
  ASSUME IInv, NEW v \in VolumeID, NEW a, Writer(v, a)
  PROVE  /\ att[a] \in Attachment /\ att[a].inst \in InstanceID /\ att[a].inst # None
         /\ CloudOf(v) \in {None, att[a].inst}
         /\ \A b : Writer(v, b) => b = a
  <1>1. att[a] \in Attachment
    BY Records DEF IInv, Writer
  <1>2. att[a].inst \in InstanceID /\ att[a].inst # None
    BY <1>1, ProviderAssumption DEF Attachment
  <1>3. \A b : Writer(v, b) => b = a
    BY DEF IInv, SingleWriter, Writer
  <1>4. Attached(v) => disk[v].inst = att[a].inst
    <2> SUFFICES ASSUME Attached(v) PROVE disk[v].inst = att[a].inst
      OBVIOUS
    <2> DEFINE b == disk[v].att
    <2>1. /\ b \in DOMAIN att /\ watt[b].state # "DETACHED"
          /\ att[b].vol = v /\ att[b].inst = disk[v].inst
      BY DEF IInv, CloudFollows, Attached, Exists
    <2>2. Writer(v, b)
      BY <2>1 DEF IInv, PassKeepsIntent, Writer
    <2> QED
      BY <1>3, <2>1, <2>2
  <1> QED
    BY <1>1, <1>2, <1>3, <1>4 DEF CloudOf

\* A call that closes the gate or moves a use (engine.go:198-206, 240-255).
LEMMA EditMovesLease ==
  ASSUME IInv, LeaseShapes, LeaseShapes', ConfirmedIsHeld,
         NEW v \in VolumeID, NEW p, NEW a \in DOMAIN att, NEW rec,
         AttachmentEdit(p, a, rec), Write(vol, [att EXCEPT ![a] = rec])
  PROVE  LeaseMovesOrStays(v)
  <1>1. /\ DOMAIN att' = DOMAIN att /\ att'[a] = rec /\ vol' = vol /\ disk' = disk
        /\ \A b \in DOMAIN att : b # a => att'[b] = att[b]
    <2>1. att \in [DOMAIN att -> Attachment]
      BY DEF IInv, TypeOK
    <2> QED
      BY <2>1 DEF Write
  <1>2. GenOf(v)' = GenOf(v) /\ CloudOf(v)' = CloudOf(v)
    BY <1>1 DEF GenOf, CloudOf, Attached, Exists
  <1>3. /\ rec \in Attachment /\ att[a] \in Attachment
        /\ rec.vol = att[a].vol /\ rec.inst = att[a].inst
    BY Records DEF IInv, AttachmentEdit
  <1>4. /\ rec.state = "DETACHED" <=> att[a].state = "DETACHED"
    BY <1>3 DEF AttachmentEdit, IsLive, Attachment
  <1>5. \A b : Writer(v, b)' <=> Writer(v, b)
    BY <1>1, <1>3, <1>4 DEF Writer, IsLive
  <1>6. CASE ~Writer(v, a) \/ (rec.del = att[a].del /\ rec.uses = att[a].uses)
    <2>1. \A b : Writer(v, b) => /\ att'[b].inst = att[b].inst
                                 /\ att'[b].del = att[b].del
                                 /\ att'[b].uses = att[b].uses
      BY <1>1, <1>3, <1>6 DEF Writer
    <2> QED
      BY <1>2, <1>5, <2>1, LeaseKept DEF LeaseMovesOrStays
  <1>7. CASE /\ Writer(v, a)
             /\ ~(rec.del = att[a].del /\ rec.uses = att[a].uses)
    <2> DEFINE g == GenOf(v)
               h == att[a].inst
               c == CloudOf(v)
               o == ~att[a].del
               o2 == ~rec.del
    <2>1. LeaseOf(v) = LeaseRec(g, h, o, att[a].uses, c)
      BY <1>7 DEF LeaseShapes
    <2>2. LeaseOf(v)' = LeaseRec(g, h, o2, rec.uses, c)
      <3>1. Writer(v, a)'
        BY <1>5, <1>7
      <3>2. LeaseOf(v)' = LeaseRec(GenOf(v)', att'[a].inst, ~att'[a].del,
                                   att'[a].uses, CloudOf(v)')
        BY <3>1 DEF LeaseShapes, LeaseRec
      <3> QED
        BY <1>1, <1>2, <1>3, <3>2
    <2>3. CASE rec.del /\ rec.uses = att[a].uses /\ ~att[a].del
      <3>1. o = TRUE /\ o2 = FALSE
        BY <2>3
      <3> HIDE DEF g, h, c, o, o2
      <3> QED
        BY <2>1, <2>2, <2>3, <3>1, LeaseMoves DEF LeaseMovesOrStays
    <2>4. CASE /\ rec.del = att[a].del
               /\ Healthy(a) /\ \E u \in UseID : rec.uses = att[a].uses \cup {u}
      <3>1. o = TRUE /\ o2 = o
        BY <2>4 DEF Healthy
      <3>2. c = h
        <4>1. AttachedTo(v, a) /\ a # None
          BY <1>7, <2>4, ProviderAssumption
             DEF ConfirmedIsHeld, Confirmed, Healthy, Writer, IInv, TypeOK
        <4>2. Attached(v)
          BY <4>1 DEF IInv, CloudFollows, AttachedTo, Attached, Exists
        <4> QED
          BY <4>1, <4>2 DEF IInv, CloudFollows, AttachedTo, Attached, Exists, CloudOf
      <3>3. \E x \in rec.uses : rec.uses = att[a].uses \cup {x}
        BY <2>4
      <3> HIDE DEF g, h, c, o, o2
      <3> QED
        BY <2>1, <2>2, <3>1, <3>2, <3>3, LeaseMoves DEF LeaseMovesOrStays
    <2>5. CASE /\ rec.del = att[a].del
               /\ \E u \in UseID : rec.uses = att[a].uses \ {u}
      <3>1. o2 = o
        BY <2>5
      <3>2. \E x \in att[a].uses : rec.uses = att[a].uses \ {x}
        BY <1>7, <2>5
      <3> HIDE DEF g, h, c, o, o2
      <3> QED
        BY <2>1, <2>2, <3>1, <3>2, LeaseMoves DEF LeaseMovesOrStays
    <2> QED
      BY <1>3, <1>7, <2>3, <2>4, <2>5 DEF AttachmentEdit, Attachment
  <1> QED
    BY <1>6, <1>7

\* A grant (engine.go:151-178).
LEMMA GrantMovesLease ==
  ASSUME IInv, LeaseShapes, LeaseShapes', NEW v \in VolumeID,
         NEW p, NEW w \in DOMAIN vol, NEW i \in InstanceID, NEW a \in AttachmentID,
         CreateAttachment(p, w, i, a),
         Write([vol EXCEPT ![w] = GrantedVolume(w)],
               With(att, a, GrantedAttachment(w, i)))
  PROVE  LeaseMovesOrStays(v)
  <1>1. /\ a \notin DOMAIN att /\ phase = "idle" /\ \A b : ~Writer(w, b)
        /\ watt = att
    BY DEF CreateAttachment, Unlocked, Live, Writer, IsLive, IInv, PassKeepsIntent
  <1>2. vol[w] \in Volume /\ vol \in [DOMAIN vol -> Volume]
    BY Records DEF IInv, TypeOK
  <1>3. /\ vol' = [vol EXCEPT ![w] = GrantedVolume(w)]
        /\ att' = With(att, a, GrantedAttachment(w, i)) /\ disk' = disk
    BY DEF Write
  <1>4. /\ DOMAIN att' = DOMAIN att \cup {a} /\ att'[a] = GrantedAttachment(w, i)
        /\ \A b \in DOMAIN att : att'[b] = att[b]
    BY <1>1, <1>3 DEF With
  <1>5. /\ DOMAIN vol' = DOMAIN vol /\ vol'[w].gen = vol[w].gen + 1
        /\ \A x \in DOMAIN vol : x # w => vol'[x] = vol[x]
    BY <1>2, <1>3 DEF GrantedVolume, NextGeneration, Volume
  <1>6. CloudOf(v)' = CloudOf(v)
    BY <1>3 DEF CloudOf, Attached, Exists
  <1>7. /\ att'[a].vol = w /\ att'[a].inst = i /\ att'[a].state = "ATTACHING"
        /\ att'[a].del = FALSE /\ att'[a].uses = {}
    BY <1>4 DEF GrantedAttachment
  <1>8. CASE v # w
    <2>1. GenOf(v)' = GenOf(v)
      BY <1>5, <1>8 DEF GenOf
    <2>2. \A b : Writer(v, b)' <=> Writer(v, b)
      BY <1>1, <1>4, <1>7, <1>8 DEF Writer, IsLive
    <2>3. \A b : Writer(v, b) => /\ att'[b].inst = att[b].inst
                                 /\ att'[b].del = att[b].del
                                 /\ att'[b].uses = att[b].uses
      BY <1>4 DEF Writer
    <2> QED
      BY <1>6, <2>1, <2>2, <2>3, LeaseKept DEF LeaseMovesOrStays
  <1>9. CASE v = w
    <2>1. LeaseOf(v) = LeaseRec(GenOf(v), None, FALSE, {}, CloudOf(v))
      BY <1>1, <1>9 DEF LeaseShapes
    <2>2. CloudOf(v) = None
      <3>1. SUFFICES ASSUME Attached(v) PROVE FALSE
        BY DEF CloudOf
      <3>2. Writer(v, disk[v].att)
        BY <1>1, <3>1 DEF IInv, CloudFollows, Attached, Exists, Writer, IsLive
      <3> QED
        BY <1>1, <1>9, <3>2
    <2>3. Writer(v, a)'
      BY <1>4, <1>7, <1>9 DEF Writer, IsLive
    <2>4. LeaseOf(v)' = LeaseRec(GenOf(v)', att'[a].inst, ~att'[a].del,
                                 att'[a].uses, CloudOf(v)')
      BY <2>3 DEF LeaseShapes, LeaseRec
    <2> DEFINE o2 == ~att'[a].del
    <2>5. o2 = TRUE
      BY <1>7
    <2>6. LeaseOf(v)' = LeaseRec(GenOf(v) + 1, i, o2, {}, CloudOf(v))
      BY <1>5, <1>6, <1>7, <1>9, <2>4 DEF GenOf
    <2> HIDE DEF o2
    <2> QED
      BY <2>1, <2>2, <2>5, <2>6, LeaseMoves DEF LeaseMovesOrStays
  <1> QED
    BY <1>8, <1>9

\* Every other call leaves every lease.
LEMMA CallMovesLease ==
  ASSUME IInv, OneScope, LeaseShapes, LeaseShapes', ConfirmedIsHeld,
         NEW v \in VolumeID, NEW p \in Principal, CallBy(p)
  PROVE  LeaseMovesOrStays(v)
  <1>0. vol \in [DOMAIN vol -> Volume]
    BY DEF IInv, TypeOK
  <1>1. ASSUME att' = att, disk' = disk, GenOf(v)' = GenOf(v)
        PROVE  LeaseMovesOrStays(v)
    BY <1>1, LeaseKept
       DEF LeaseMovesOrStays, CloudOf, Attached, Exists, Writer, IsLive
  <1>2. ASSUME NEW w \in VolumeID \ DOMAIN vol, NEW rec \in Volume,
               NewVolume(p, rec), Write(With(vol, w, rec), att)
        PROVE  LeaseMovesOrStays(v)
    <2>1. /\ att' = att /\ disk' = disk /\ DOMAIN vol' = DOMAIN vol \cup {w}
          /\ vol'[w].gen = 0 /\ \A x \in DOMAIN vol : vol'[x] = vol[x]
      BY <1>2 DEF Write, With, NewVolume
    <2>2. GenOf(v)' = GenOf(v)
      BY <2>1 DEF GenOf
    <2> QED
      BY <1>1, <2>1, <2>2
  <1>3. ASSUME NEW w \in DOMAIN vol, NEW rec \in Volume,
               VolumeEdit(p, w, rec), Write([vol EXCEPT ![w] = rec], att)
        PROVE  LeaseMovesOrStays(v)
    <2>1. /\ att' = att /\ disk' = disk /\ DOMAIN vol' = DOMAIN vol
          /\ \A x \in DOMAIN vol : vol'[x].gen = vol[x].gen
      BY <1>0, <1>3 DEF Write, VolumeEdit
    <2>2. GenOf(v)' = GenOf(v)
      BY <2>1 DEF GenOf
    <2> QED
      BY <1>1, <2>1, <2>2
  <1> QED
    BY <1>2, <1>3, AnyCallShape, EditMovesLease, GrantMovesLease DEF CallShape

\* The visit of a volume leaves every lease: a disk that comes or goes is
\* nobody's (engine.go:281-313).
LEMMA VolumeVisitMovesLease ==
  ASSUME IInv, IInv', LeaseShapes, LeaseShapes', NEW v \in VolumeID,
         NEW w \in VolumeID, VolumeVisitEffect(w), ~LosesDisk(v)
  PROVE  LeaseMovesOrStays(v)
  <1>1. vol' = vol /\ att' = att /\ DiskStep(w)
    BY DEF VolumeVisitEffect
  <1>2. Attached(v) => v \in DOMAIN disk /\ v \in DOMAIN disk' /\ disk'[v].att = disk[v].att
    BY DEF LosesDisk, Attached, Exists
  <1>3. Attached(v)' => v \in DOMAIN disk /\ v \in DOMAIN disk' /\ disk'[v].att = disk[v].att
    <2>1. Attached(v)' => v \in DOMAIN disk' /\ disk'[v].att # None
      BY DEF IInv, CloudFollows, Attached, Exists
    <2> QED
      BY <1>1, <2>1 DEF DiskStep
  <1>4. CloudOf(v)' = CloudOf(v)
    BY <1>1, <1>2, <1>3, CloudSame
  <1> QED
    BY <1>1, <1>4, LeaseKept DEF LeaseMovesOrStays, GenOf, Writer, IsLive

\* The visit of an attachment gives a disk to an open lease, or takes one
\* from a closed lease without uses (engine.go:320-358).
LEMMA AttachmentVisitMovesLease ==
  ASSUME IInv, IInv', LeaseShapes, LeaseShapes', NEW v \in VolumeID,
         NEW a \in AttachmentID, AttachmentVisitEffect(a),
         LosesDisk(v) => MayLose(v)
  PROVE  LeaseMovesOrStays(v)
  <1>1. /\ vol' = vol /\ att' = att /\ DOMAIN disk' = DOMAIN disk
        /\ SameClaim(watt'[a], watt[a]) /\ a \in DOMAIN att
    BY DEF AttachmentVisitEffect
  <1>2. GenOf(v)' = GenOf(v) /\ \A b : Writer(v, b)' <=> Writer(v, b)
    BY <1>1 DEF GenOf, Writer, IsLive
  <1>3. CASE CloudOf(v)' = CloudOf(v)
    BY <1>1, <1>2, <1>3, LeaseKept DEF LeaseMovesOrStays
  <1>4. ASSUME NEW b, Writer(v, b), NEW o, o = ~att[b].del, o \in BOOLEAN
        PROVE  /\ LeaseOf(v) = LeaseRec(GenOf(v), att[b].inst, o,
                                        att[b].uses, CloudOf(v))
               /\ LeaseOf(v)' = LeaseRec(GenOf(v), att[b].inst, o,
                                         att[b].uses, CloudOf(v)')
    <2>1. LeaseOf(v) = LeaseRec(GenOf(v), att[b].inst, ~att[b].del,
                                att[b].uses, CloudOf(v))
      BY <1>4 DEF LeaseShapes
    <2>2. Writer(v, b)'
      BY <1>2, <1>4
    <2>3. LeaseOf(v)' = LeaseRec(GenOf(v)', att'[b].inst, ~att'[b].del,
                                 att'[b].uses, CloudOf(v)')
      BY <2>2 DEF LeaseShapes, LeaseRec
    <2> QED
      BY <1>1, <1>2, <1>4, <2>1, <2>3
  <1>5. CASE LosesDisk(v)
    <2> DEFINE b == disk[v].att
    <2>1. Attached(v) /\ v \in DOMAIN disk
      BY <1>5 DEF LosesDisk, Attached, Exists
    <2>2. /\ b \in DOMAIN att /\ watt[b].state # "DETACHED" /\ att[b].vol = v
          /\ att[b].del /\ att[b].uses = {}
      BY <1>5, <2>1 DEF MayLose, IInv, CloudFollows, Attached, Exists
    <2>3. Writer(v, b)
      BY <2>2 DEF IInv, PassKeepsIntent, Writer
    <2>4. CloudOf(v)' = None
      <3>1. ~(pending = a /\ ~watt[a].del /\ v = watt[a].vol /\ disk'[v].att = a)
        <4>1. SUFFICES ASSUME pending = a, ~watt[a].del, v = watt[a].vol, disk'[v].att = a
                       PROVE  FALSE
          OBVIOUS
        <4>2. ~att[a].del /\ att[a].vol = v
          BY <1>1, <4>1 DEF IInv, PassKeepsIntent, SameClaim
        <4>3. att[a].state # "DETACHED"
          BY <1>1, <4>2 DEF IInv, StatesOK, AttachmentStateOK
        <4>4. a = b
          BY <1>1, <2>3, <4>2, <4>3, WriterFacts DEF Writer, IsLive
        <4> QED
          BY <2>2, <4>2, <4>4
      <3>2. disk'[v].att = None
        BY <1>1, <1>5, <2>1, <3>1 DEF AttachmentVisitEffect, LosesDisk
      <3>3. ~Attached(v)'
        BY <1>1, <2>1, <3>2 DEF IInv, CloudFollows, Attached, Exists
      <3> QED
        BY <3>3 DEF CloudOf
    <2> DEFINE o == ~att[b].del
    <2>5. o = FALSE
      BY <2>2
    <2>6. o \in BOOLEAN
      OBVIOUS
    <2>7. /\ LeaseOf(v) = LeaseRec(GenOf(v), att[b].inst, o,
                                   att[b].uses, CloudOf(v))
          /\ LeaseOf(v)' = LeaseRec(GenOf(v), att[b].inst, o,
                                    att[b].uses, CloudOf(v)')
      BY <1>4, <2>3, <2>6
    <2> DEFINE h == att[b].inst
               u == att[b].uses
    <2>8. u = {}
      BY <2>2
    <2> HIDE DEF o, h, u, b
    <2>9. /\ LeaseOf(v) = LeaseRec(GenOf(v), h, o, u, CloudOf(v))
          /\ LeaseOf(v)' = LeaseRec(GenOf(v), h, o, u, CloudOf(v)')
      BY <2>7 DEF h, u
    <2> QED
      BY <2>4, <2>5, <2>8, <2>9, LeaseMoves DEF LeaseMovesOrStays
  <1>6. CASE ~LosesDisk(v) /\ CloudOf(v)' # CloudOf(v)
    <2>1. Attached(v)' /\ ~(v \in DOMAIN disk /\ disk'[v].att = disk[v].att)
      BY <1>1, <1>6, CloudSame DEF LosesDisk, Attached, Exists
    <2>2. v \in DOMAIN disk /\ v \in DOMAIN disk' /\ disk'[v].att # None
      BY <1>1, <2>1 DEF IInv, CloudFollows, Attached, Exists
    <2>3. pending = a /\ ~watt[a].del /\ v = watt[a].vol /\ disk'[v].att = a
      BY <2>1, <2>2 DEF AttachmentVisitEffect
    <2>4. att[a].del = FALSE /\ att[a].vol = v
      <3>1. SameClaim(watt[a], att[a]) /\ att[a] \in Attachment
        BY <1>1, Records DEF IInv, PassKeepsIntent
      <3> QED
        BY <2>3, <3>1 DEF SameClaim, Attachment
    <2>5. Writer(v, a)
      BY <1>1, <2>4 DEF IInv, StatesOK, AttachmentStateOK, Writer, IsLive
    <2>6. CloudOf(v)' = att[a].inst
      <3>1. disk'[v].inst = att'[disk'[v].att].inst
        BY <2>1, <2>2 DEF IInv, CloudFollows, Attached, Exists
      <3> QED
        BY <1>1, <2>1, <2>3, <3>1 DEF CloudOf
    <2> DEFINE o == ~att[a].del
    <2>7. o = TRUE
      BY <2>4
    <2>8. o \in BOOLEAN
      OBVIOUS
    <2>9. /\ LeaseOf(v) = LeaseRec(GenOf(v), att[a].inst, o,
                                   att[a].uses, CloudOf(v))
          /\ LeaseOf(v)' = LeaseRec(GenOf(v), att[a].inst, o,
                                    att[a].uses, CloudOf(v)')
      BY <1>4, <2>5, <2>8
    <2> HIDE DEF o
    <2> QED
      BY <2>6, <2>7, <2>9, LeaseMoves DEF LeaseMovesOrStays
  <1> QED
    BY <1>3, <1>5, <1>6

\* A commit makes detachments durable: the lease of each is retired
\* (engine.go:332, 359-361).
LEMMA CommitMovesLease ==
  ASSUME IInv, IInv', LeaseShapes, LeaseShapes', NEW v \in VolumeID, CommitReconcile
  PROVE  LeaseMovesOrStays(v)
  <1>1. /\ vol' = wvol /\ att' = watt /\ disk' = disk
        /\ DOMAIN wvol = DOMAIN vol /\ DOMAIN watt = DOMAIN att
    BY Records DEF IInv, CommitReconcile
  <1>2. GenOf(v)' = GenOf(v) /\ CloudOf(v)' = CloudOf(v)
    BY <1>1 DEF IInv, PassKeepsIntent, SameIntent, GenOf, CloudOf, Attached, Exists
  <1>3. \A a \in DOMAIN att : SameClaim(watt[a], att[a])
    BY DEF IInv, PassKeepsIntent
  <1>4. \A a : Writer(v, a)' <=> Writer(v, a) /\ watt[a].state # "DETACHED"
    BY <1>1, <1>3 DEF IInv, PassKeepsIntent, SameClaim, Writer, IsLive
  <1>5. CASE \A a : Writer(v, a) => watt[a].state # "DETACHED"
    BY <1>1, <1>2, <1>3, <1>4, <1>5, LeaseKept
       DEF LeaseMovesOrStays, SameClaim, Writer
  <1>6. ASSUME NEW a, Writer(v, a), watt[a].state = "DETACHED"
        PROVE  LeaseMovesOrStays(v)
    <2>1. att[a].del /\ att[a].uses = {}
      BY <1>3, <1>6 DEF IInv, StatesOK, AttachmentStateOK, SameClaim, Writer
    <2>2. \A b : ~Writer(v, b)'
      BY <1>4, <1>6, WriterFacts
    <2>3. CloudOf(v) = None
      <3>1. SUFFICES ASSUME Attached(v) PROVE FALSE
        BY DEF CloudOf
      <3>2. /\ Writer(v, disk[v].att) /\ watt[disk[v].att].state # "DETACHED"
        BY <3>1 DEF IInv, CloudFollows, PassKeepsIntent, Attached, Exists, Writer
      <3> QED
        BY <1>6, <3>2, WriterFacts
    <2> DEFINE o == ~att[a].del
    <2>4. o = FALSE
      BY <2>1
    <2>5. LeaseOf(v) = LeaseRec(GenOf(v), att[a].inst, o, att[a].uses, CloudOf(v))
      BY <1>6 DEF LeaseShapes
    <2>6. LeaseOf(v)' = LeaseRec(GenOf(v)', None, FALSE, {}, CloudOf(v)')
      BY <2>2 DEF LeaseShapes, LeaseRec
    <2> HIDE DEF o
    <2> QED
      BY <1>2, <2>1, <2>3, <2>4, <2>5, <2>6, LeaseMoves DEF LeaseMovesOrStays
  <1> QED
    BY <1>5, <1>6

\* Where nobody changes the cloud, every step of the platform is, for each
\* volume, a step of its lease or none.
LEMMA StepMovesLease ==
  ASSUME Troubles \cap {"drift", "window"} = {},
         IInv, IInv', OneScope, LeaseShapes, LeaseShapes', ConfirmedIsHeld,
         [Next]_vars, NEW v \in VolumeID
  PROVE  LeaseMovesOrStays(v)
  <1>0. \A w \in VolumeID : ~Drift(w)
    BY DEF Drift, Suffer
  <1>1. LosesDisk(v) => MayLose(v)
    BY <1>0, StepLoses
  <1>2. CASE \E p \in Principal : CallBy(p)
    BY <1>2, CallMovesLease
  <1>3. CASE \E w \in VolumeID :
               ReconcileDelete(w) \/ ObserveVolume(w) \/ ReconcileEnsure(w)
    <2>1. PICK w \in VolumeID :
            ReconcileDelete(w) \/ ObserveVolume(w) \/ ReconcileEnsure(w)
      BY <1>3
    <2>2. VolumeVisitEffect(w)
      BY <2>1, ObserveVolumeEffect, ReconcileEnsureEffect, ReconcileDeleteEffect
    <2>3. ~LosesDisk(v)
      BY <2>1, VolumeVisitLosesNothing
    <2> QED
      BY <2>2, <2>3, VolumeVisitMovesLease
  <1>4. CASE \E a \in AttachmentID :
               ReconcileDetach(a) \/ ObserveAttachment(a) \/ ReconcileAttach(a)
    BY <1>1, <1>4, ReconcileDetachEffect, ObserveAttachmentEffect,
       ReconcileAttachEffect, AttachmentVisitMovesLease
  <1>5. CASE CommitReconcile
    BY <1>5, CommitMovesLease
  <1>6. CASE BeginReconcile \/ VolumesDone \/ Crash \/ RestartWithRegistry
               \/ UNCHANGED vars
    <2>1. vol' = vol /\ att' = att /\ disk' = disk
      BY <1>6 DEF BeginReconcile, VolumesDone, Crash, RestartWithRegistry,
                  Rollback, vars, durable
    <2>2. /\ GenOf(v)' = GenOf(v) /\ CloudOf(v)' = CloudOf(v)
          /\ \A a : Writer(v, a)' <=> Writer(v, a)
      BY <2>1 DEF GenOf, CloudOf, Attached, Exists, Writer, IsLive
    <2> QED
      BY <2>1, <2>2, LeaseKept DEF LeaseMovesOrStays
  <1> QED
    BY <1>0, <1>2, <1>3, <1>4, <1>5, <1>6 DEF Next, ReconcileStep, TroubleStep

\* The platform implements the writer lease, for every volume and every value
\* of the constants, as long as nobody changes the cloud behind its back
\* (engine.go:151-178, 199-202, 242-255, 320-359).
THEOREM PlatformImplementsLease ==
  ASSUME Troubles \cap {"drift", "window"} = {}
  PROVE  Spec => ImplementsLease
  <1>1. Init => \A v \in VolumeID : Abstract(v)!Init
    BY DEF Init, NoEntries, ProviderInit, LeaseOf, Attached, Exists,
           Abstract!Init, Abstract!Unleased
  <1>2. ASSUME RecordInv, RecordInv', ConfirmedIsHeld, LeaseShapes, LeaseShapes',
               [Next]_vars
        PROVE  [\A v \in VolumeID : [Abstract(v)!Next]_(LeaseOf(v))]_vars
    BY <1>2, StepMovesLease DEF LeaseMovesOrStays, RecordInv
  <1>3. RecordInv => IInv
    BY DEF RecordInv
  <1> QED
    BY <1>1, <1>2, <1>3, LeaseShape, ConfirmedStays, RecordsInductive, PTL
       DEF Spec, ImplementsLease
=============================================================================
