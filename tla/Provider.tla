------------------------------ MODULE Provider ------------------------------
(***************************************************************************)
(* The cloud provider of internal/provider/provider.go: the table of the   *)
(* disks that really exist.  The provider keeps its own database, so what  *)
(* it holds survives a crash or a rollback of the platform, and a reply it *)
(* sends may be lost after the effect.                                     *)
(***************************************************************************)
EXTENDS Naturals, Tables

CONSTANTS
  VolumeID,      \* the identifiers newID("volume-") may return
  InstanceID,    \* the worker VMs
  AttachmentID,  \* the identifiers newID("attachment-") may return
  None,          \* the empty string of an identifier field
  MaxSize        \* the largest capacity, 1<<50 in the code

ASSUME ProviderAssumption ==
  /\ MaxSize \in Nat \ {0}
  /\ None \notin VolumeID \cup InstanceID \cup AttachmentID

VARIABLE disk    \* the "disks" bucket: a table from volume IDs to disks

Larger(m, n) == IF m < n THEN n ELSE m

\* The device identity the provider gives ("platform-" + ID), the identity of
\* a disk somebody put in its place, and the empty string.
PlatformKey == "platform"
ForeignKey == "foreign"
NoKey == ""

Disk == [key  : {PlatformKey, ForeignKey},
         size : 0 .. MaxSize,
         inst : InstanceID \cup {None},
         att  : AttachmentID \cup {None}]

ProviderTypeOK ==
  /\ DOMAIN disk \subseteq VolumeID
  /\ disk \in [DOMAIN disk -> Disk]

ProviderInit == disk = NoEntries

Exists(v) == v \in DOMAIN disk
AttachedTo(v, a) == Exists(v) /\ disk[v].att = a
HeldBy(v, i, a) == Exists(v) /\ disk[v].inst = i /\ disk[v].att = a
Attached(v) == Exists(v) /\ disk[v].inst # None

(***************************************************************************)
(* A mutating call has one of three outcomes.  "ok": the effect and its    *)
(* reply.  "fail": an error and no effect.  "lost": the effect, and an     *)
(* error for a reply, what a timeout after the provider's commit shows.    *)
(***************************************************************************)
Outcome == {"ok", "fail", "lost"}

Perform(refused, outcome, after) ==
  disk' = IF refused \/ outcome = "fail" THEN disk ELSE after

\* Slip: an error of the call itself is not looked at.
SucceedsUnlessRefused(refused, outcome) == ~refused
Succeeds(refused, outcome) == ~refused /\ outcome = "ok"

\* EnsureVolume: create the disk, or grow it; never shrink it.
Ensured(v, desired) ==
  IF Exists(v)
  THEN [disk[v] EXCEPT !.size = Larger(@, desired)]
  ELSE [key |-> PlatformKey, size |-> desired, inst |-> None, att |-> None]
EnsureVolume(v, desired, outcome) ==
  Perform(FALSE, outcome, With(disk, v, Ensured(v, desired)))

\* DeleteVolume: refused while the disk is attached, repeatable.
DeleteRefused(v) == Attached(v)
DeleteDisk(v, outcome) ==
  Perform(DeleteRefused(v), outcome,
          Without(disk, v))

\* EnsureAttached: refused when the disk is missing or held by another.
AttachRefused(v, i, a) == ~Exists(v) \/ (Attached(v) /\ ~HeldBy(v, i, a))
EnsureAttached(v, i, a, outcome) ==
  Perform(AttachRefused(v, i, a), outcome,
          [disk EXCEPT ![v].inst = i, ![v].att = a])

\* EnsureDetached: nothing to do when the disk is missing or free.
DetachRefused(v, i, a) == Attached(v) /\ ~HeldBy(v, i, a)
EnsureDetached(v, i, a, outcome) ==
  Perform(DetachRefused(v, i, a), outcome,
          IF Attached(v)
          THEN [disk EXCEPT ![v].inst = None, ![v].att = None]
          ELSE disk)

(***************************************************************************)
(* Drift: somebody changes the cloud behind the platform's back.  The disk *)
(* disappears, loses its attachment, or is replaced by another device.     *)
(***************************************************************************)
DiskDisappears(v) == Exists(v) /\ disk' = Without(disk, v)
DiskDetaches(v) ==
  /\ Attached(v)
  /\ disk' = [disk EXCEPT ![v].inst = None, ![v].att = None]
DiskReplaced(v) ==
  /\ Exists(v)
  /\ disk[v].key = PlatformKey
  /\ disk' = [disk EXCEPT ![v].key = ForeignKey]
=============================================================================
