------------------------- MODULE PlatformInvariant --------------------------
(***************************************************************************)
(* The inductive invariant of Platform.  The properties are about the      *)
(* durable tables; to be inductive they need what the open pass may have   *)
(* done to its copies, and what the cloud has already been told.           *)
(***************************************************************************)
EXTENDS Platform

\* The fields only a call changes.
SameIntent(r, s) ==
  /\ r.owner = s.owner /\ r.name = s.name /\ r.zone = s.zone /\ r.cap = s.cap
  /\ r.init = s.init /\ r.desired = s.desired /\ r.gen = s.gen
  /\ r.allowFormat = s.allowFormat /\ r.del = s.del
SameClaim(r, s) ==
  /\ r.owner = s.owner /\ r.vol = s.vol /\ r.inst = s.inst /\ r.gen = s.gen
  /\ r.del = s.del /\ r.uses = s.uses

\* A pass changes no intent, and an attachment it has not detached is live in
\* the durable table as well.
PassKeepsIntent ==
  /\ \A v \in DOMAIN vol : SameIntent(wvol[v], vol[v])
  /\ \A a \in DOMAIN att :
       /\ SameClaim(watt[a], att[a])
       /\ watt[a].state # "DETACHED" => IsLive(a)
  /\ phase = "idle" => wvol = vol /\ watt = att

\* The state says whether the end was requested, and only an attachment the
\* cloud has confirmed has uses.
VolumeStateOK(r) == r.del <=> r.state \in {"DELETING", "DELETED"}
AttachmentStateOK(r) ==
  /\ r.del <=> r.state \in {"DETACHING", "DETACHED"}
  /\ r.state \in {"ATTACHING", "DETACHED"} => r.uses = {}
StatesOK ==
  /\ \A v \in DOMAIN vol : VolumeStateOK(vol[v]) /\ VolumeStateOK(wvol[v])
  /\ \A a \in DOMAIN att : AttachmentStateOK(att[a]) /\ AttachmentStateOK(watt[a])

\* The mutating call of a visit is due only where nothing is to be taken down.
PendingIsWanted ==
  pending # None =>
    /\ phase = "volumes" => ~wvol[pending].del
    /\ phase = "attachments" => ~watt[pending].del

\* The cloud has a disk attached for an attachment the pass has not detached,
\* and no disk of a volume the pass has deleted.
CloudFollows ==
  /\ \A v \in DOMAIN disk :
       /\ disk[v].inst = None <=> disk[v].att = None
       /\ disk[v].inst # None =>
            /\ disk[v].att \in DOMAIN att
            /\ watt[disk[v].att].state # "DETACHED"
            /\ att[disk[v].att].vol = v
            /\ att[disk[v].att].inst = disk[v].inst
  /\ \A v \in DOMAIN vol :
       wvol[v].state = "DELETED" \/ vol[v].state = "DELETED" => ~Exists(v)

\* No attachment outlives the volume it is for.
DeletedHasNoWriter ==
  \A a \in DOMAIN att : IsLive(a) => ~vol[att[a].vol].del

IInv ==
  /\ TypeOK
  /\ SingleWriter /\ GenerationOrder
  /\ PassKeepsIntent /\ StatesOK /\ PendingIsWanted
  /\ CloudFollows /\ DeletedHasNoWriter

(***************************************************************************)
(* The invariant of the records: what single fields of a copy, and of a    *)
(* disk, may be.                                                           *)
(***************************************************************************)
\* A pass leaves alone what is over, visits only what is not, and finds an
\* unvisited volume as the tables have it.  A recorded identity stays.
PassLeavesDone ==
  /\ \A v \in DOMAIN vol :
       /\ vol[v].state = "DELETED" => wvol[v].state = "DELETED"
       /\ vol[v].key # NoKey => wvol[v].key = vol[v].key
  /\ \A a \in DOMAIN att : ~IsLive(a) => watt[a] = att[a]
  /\ phase = "volumes" =>
       \A v \in todo : vol[v].state # "DELETED" /\ wvol[v].state = vol[v].state
  /\ phase = "attachments" => \A a \in todo : IsLive(a)

\* No disk is larger than what was asked for, and none is smaller than what
\* was observed of it, by this pass or an earlier one.
SizesOK(r) ==
  /\ r.init <= r.desired /\ r.size <= r.desired
  /\ r.state = "AVAILABLE" => r.size >= r.desired
DiskSizes ==
  /\ DOMAIN disk \subseteq DOMAIN vol
  /\ \A v \in DOMAIN vol : SizesOK(vol[v]) /\ SizesOK(wvol[v])
  /\ \A v \in DOMAIN disk :
       /\ vol[v].size <= disk[v].size /\ wvol[v].size <= disk[v].size
       /\ disk[v].size <= vol[v].desired

\* What the visit saw before its mutating call is still so: there is a disk,
\* or there never was one; a VM with uses has its disk.  This is what a
\* change of the cloud in the middle of a pass takes away.
PendingIsSeen ==
  pending # None =>
    /\ phase = "volumes" => Exists(pending) \/ wvol[pending].state = "CREATING"
    /\ phase = "attachments" =>
         (watt[pending].uses # {} => AttachedTo(watt[pending].vol, pending))

RecordInv ==
  /\ IInv
  /\ OneScope /\ PassLeavesDone /\ DiskSizes
  /\ "window" \notin Troubles => PendingIsSeen

\* Without drift, what was confirmed to be attached stays attached until the
\* last use is gone.
Confirmed(a) ==
  att[a].state = "ATTACHED" \/ watt[a].state = "ATTACHED" \/ att[a].uses # {}
ConfirmedIsHeld ==
  \A a \in DOMAIN att : Confirmed(a) => AttachedTo(att[a].vol, a)

\* A cluster never has two volumes of one name, deleted ones included
\* (engine.go:109-127).
NamesUnique ==
  \A v, w \in DOMAIN vol :
    vol[v].owner = vol[w].owner /\ vol[v].name = vol[w].name => v = w

\* Without drift, a volume that is past its creation, in the tables or in the copies of the
\* open pass, has its disk until its deletion is asked for.
DiskStays ==
  \A v \in DOMAIN vol :
    /\ ~vol[v].del
    /\ vol[v].state # "CREATING" \/ wvol[v].state # "CREATING"
    => Exists(v)
=============================================================================
