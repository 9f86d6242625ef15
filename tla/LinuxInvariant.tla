--------------------------- MODULE LinuxInvariant ---------------------------
(***************************************************************************)
(* The inductive invariants of the Linux host: behind NoDataLost and       *)
(* GrantSpentOnFS, GrownIsThere, PublishedIsServed, StagedIsUsable, and    *)
(* LinuxTypeOK.                                                            *)
(***************************************************************************)
EXTENDS LinuxNode, NodeInvariant

LinuxType ==
  /\ device \in [Volume -> DeviceRecord]
  /\ granted \in [VM -> BOOLEAN]
  /\ published = [i \in VM |-> published[i]]

\* What somebody wrote is protected: it is no file system of the volume, or
\* the grant to format is withdrawn.
DataIsProtected ==
  \A v \in Volume :
    device[v].data => device[v].content = "other" \/ ~device[v].allowFormat

\* What is mounted from a device is a file system.
MountIsFS ==
  \A i \in VM : \A path \in DOMAIN mounts[i] :
    LET m == mounts[i][path]
    IN m.source = Device /\ ~Block(m.vol) => device[m.vol].content = "fs"

\* The agent's copy of the grant is as good as the platform's while it
\* matters; what it has seen of the device is still so.
GrantIsFresh(i) ==
  LET r == rpc[i]
  IN /\ r.at \in {"record", "mount", "mkfs"} /\ granted[i] =>
          device[r.vol].allowFormat
     /\ r.at = "mkfs" => granted[i] /\ device[r.vol].content = "blank"
     /\ r.at \in {"mkfs", "fsmount"} => ~Block(r.vol)
     /\ r.at = "mark" /\ ~Block(r.vol) => StageMounted(i, r.path, r.vol)
     /\ r.at = "ready" => ~device[r.vol].allowFormat

\* A stage is ready only once the grant is withdrawn.
ReadyIsMarked(i) ==
  \A v \in DOMAIN journal[i] : Entry(i, v).ready => ~device[v].allowFormat

\* What the kubelet relies on is tracked until it is torn down.
PublishedIsTracked(i) ==
  /\ \A t \in DOMAIN published[i] :
       \E v \in DOMAIN journal[i] : t \in DOMAIN Entry(i, v).targets
  /\ rpc[i].at \in UnpublishPoint => rpc[i].target \notin DOMAIN published[i]

LinuxOK(i) == GrantIsFresh(i) /\ ReadyIsMarked(i) /\ PublishedIsTracked(i)

LinuxInv ==
  /\ LinuxType /\ DataIsProtected /\ MountIsFS /\ GrantSpentOnFS
  /\ \A i \in VM : LinuxOK(i)

(***************************************************************************)
(* Growth, whatever the leases do.                                         *)
(***************************************************************************)
\* What a volume can be used for.
Usable(v) == IF Block(v) THEN device[v].seen ELSE device[v].fs

\* Each knows no more than the one it learns from, and what the kubelet is
\* told, or is about to be told, is usable.
SizesInv ==
  /\ device \in [Volume -> DeviceRecord]
  /\ grown \in [Volume -> 1 .. MaxCap]
  /\ \A v \in Volume :
       /\ device[v].fs <= device[v].seen /\ device[v].seen <= device[v].size
       /\ grown[v] > 1 => grown[v] <= Usable(v)
  /\ \A i \in VM :
       /\ rpc[i].at \in ExpandPoint => rpc[i].need \in 1 .. MaxCap
       /\ At(i, "note") => rpc[i].need <= Usable(rpc[i].vol)

(***************************************************************************)
(* What the kubelet relies on.                                             *)
(***************************************************************************)
\* The file system of what it has staged is mounted at its staging path.
StagedIsMounted(i) ==
  \A v \in staged[i] :
    /\ v \in DOMAIN journal[i]
    /\ ~Block(v) => StageMounted(i, Entry(i, v).path, v)

TargetServed(i, t, conf) ==
  /\ t \in DOMAIN mounts[i] /\ mounts[i][t].source # Directory
  /\ mounts[i][t].conf = conf
TargetsServed(i) ==
  \A t \in DOMAIN published[i] : TargetServed(i, t, published[i][t])

\* What a running RPC has done, and what it is about to undo.
HostAsSeen(i) ==
  LET r == rpc[i]
  IN /\ r.at \in {"mark", "ready"} /\ ~Block(r.vol) =>
          StageMounted(i, r.path, r.vol)
     /\ r.at \in PublishPoint => r.vol \in staged[i]
     /\ r.at = "remount" =>
          LET m == mounts[i][r.target]
          IN /\ r.conf = RO /\ r.target \notin DOMAIN published[i]
             /\ m = [vol |-> r.vol, source |-> m.source, conf |-> RW]
             /\ m.source # Directory
     /\ r.at = "answer" => TargetServed(i, r.target, r.conf)
     /\ r.at = "unbind" => r.target \in DOMAIN Entry(i, r.vol).targets
     /\ r.at \in UnstagePoint => r.vol \notin staged[i]

ServedOK(i) ==
  /\ StagedIsMounted(i) /\ TargetsServed(i) /\ HostAsSeen(i)
  /\ PublishedIsTracked(i)
ServedInv ==
  /\ published = [i \in VM |-> published[i]]
  /\ staged \in [VM -> SUBSET Volume]
  /\ \A i \in VM : ServedOK(i)

(***************************************************************************)
(* What keeps the disk of what is staged.                                  *)
(***************************************************************************)
\* Its use is on record, and no release of it is on its way; so it is when the
\* stage is about to be confirmed.  ReleasesInOrder is assumed.
StagedIsKept(i) ==
  LET r == rpc[i]
      sent == {q \in late : q.from = i /\ q.op = "ReleaseUse"}
  IN /\ \A v \in staged[i] :
          LET s == Entry(i, v)
          IN Staged(i, v) /\ s.ready /\ Backed(lease[v], i, s.path, s.gen)
     /\ \A q \in sent : q.vol \notin staged[i]
     /\ r.at = "ready" => Backed(lease[r.vol], i, r.path, r.gen) /\ sent = {}
KeptInv == \A i \in VM : StagedIsKept(i)

(***************************************************************************)
(* The bounds of the types, behind LinuxTypeOK.                            *)
(***************************************************************************)
\* A generation that is asked with, leased or recorded is one of those that
\* can be granted, from the first; what is mounted, and what the kubelet was
\* told, is of its type.
Generation == 1 .. MaxGen
LeaseBounded(l) == l.gen <= MaxGen /\ \A u \in l.uses : u[2] \in Generation
TypedOK(i) ==
  /\ rpc[i].at \notin UnpublishPoint \cup {"idle"} => rpc[i].gen \in Generation
  /\ rpc[i].at \in ExpandPoint => Staged(i, rpc[i].vol)
  /\ \A v \in DOMAIN journal[i] : Entry(i, v).gen \in Generation
  /\ \A path \in DOMAIN mounts[i] : mounts[i][path] \in Mount
  /\ \A t \in DOMAIN published[i] : t \in Path /\ published[i][t] \in Conf
TypedInv ==
  /\ \A v \in Volume : LeaseBounded(lease[v])
  /\ \A q \in late : q.gen \in Generation
  /\ trouble \in 0 .. MaxTrouble
  /\ mode \in [Volume -> Mode] /\ granted \in [VM -> BOOLEAN]
  /\ \A i \in VM : TypedOK(i)
=============================================================================
