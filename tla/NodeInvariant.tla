--------------------------- MODULE NodeInvariant ----------------------------
(***************************************************************************)
(* The inductive invariant behind MountHasUse, for the agents of NodeAgent *)
(* and, with the points of an RPC that only LinuxNode has, for those of    *)
(* LinuxNode.  Each part but the types is about one VM and the leases.     *)
(***************************************************************************)
EXTENDS NodeAgent

(***************************************************************************)
(* Types.                                                                  *)
(***************************************************************************)
LeaseRecord ==
  [gen : Nat, holder : VM \cup {NoVM}, open : BOOLEAN,
   uses : SUBSET (Path \X Nat), cloud : VM \cup {NoVM}]
TableOf(K, S) == UNION {[D -> S] : D \in SUBSET K}
TargetTable == TableOf(Path, Conf)
JournalEntry ==
  [path : Path, gen : Nat, ready : BOOLEAN, targets : TargetTable]
JournalTable == TableOf(Volume, JournalEntry)

StagePoint ==
  {"acquire", "record", "mount", "mkfs", "fsmount", "mark", "ready"}
PublishPoint == {"announce", "track", "bind", "remount", "answer"}
UnpublishPoint == {"unbind", "untrack"}
UnstagePoint == {"unmount", "release", "forget"}
ExpandPoint == {"check", "resize", "note"}

StageRPC == [at : StagePoint, vol : Volume, path : Path, gen : Nat]
PublishRPC == [at : PublishPoint, vol : Volume, path : Path, gen : Nat,
               target : Path, conf : Conf]
UnpublishRPC == [at : UnpublishPoint, vol : Volume, target : Path]
UnstageRPC == [at : UnstagePoint, vol : Volume, path : Path, gen : Nat]
ExpandRPC ==
  [at : ExpandPoint, vol : Volume, path : Path, gen : Nat, need : Nat]
RPC == {NoRPC} \cup StageRPC \cup PublishRPC \cup UnpublishRPC
         \cup UnstageRPC \cup ExpandRPC

LateRequest == [from : VM, op : {"AcquireUse", "ReleaseUse"},
                vol : Volume, path : Path, gen : Nat]

NodeType ==
  /\ lease \in [Volume -> LeaseRecord]
  /\ journal \in [VM -> JournalTable]
  /\ mounts = [i \in VM |-> mounts[i]]
  /\ rpc \in [VM -> RPC]
  /\ late \subseteq LateRequest
  /\ "release" \notin Losable => \A q \in late : q.op # "ReleaseUse"

(***************************************************************************)
(* One VM.                                                                 *)
(***************************************************************************)
\* The use of a stage is on record, for a disk that is attached.
Backed(l, i, path, g) ==
  /\ l.holder = i /\ l.cloud = i /\ l.gen = g
  /\ useID(path, g) \in l.uses

\* Releases are executed in order, or none outlives its client: without it
\* MountHasUse does not hold.
ReleasesInOrder == InOrder \/ "release" \notin Losable

NoMountOf(i, v) == \A path \in DOMAIN mounts[i] : mounts[i][path].vol # v

MountsBacked(i) ==
  ReleasesInOrder =>
  \A path \in DOMAIN mounts[i] :
    LET v == mounts[i][path].vol
    IN Staged(i, v) /\ Backed(lease[v], i, Entry(i, v).path, Entry(i, v).gen)

\* The clean-up calls find every mount of an entry before it goes.
MountsListed(i) ==
  \A path \in DOMAIN mounts[i] :
    LET v == mounts[i][path].vol
    IN /\ Staged(i, v)
       /\ path = Entry(i, v).path \/ path \in DOMAIN Entry(i, v).targets

\* What the running RPC has checked in the journal is still so.
JournalAsSeen(i) ==
  LET r == rpc[i]
  IN /\ r.at \in {"acquire", "record"} /\ Staged(i, r.vol) =>
          match(Entry(i, r.vol), r.path, r.gen)
     /\ r.at \in (StagePoint \ {"acquire", "record"}) \cup PublishPoint =>
          Staged(i, r.vol) /\ match(Entry(i, r.vol), r.path, r.gen)
     /\ r.at \in {"bind", "remount", "answer"} =>
          r.target \in DOMAIN Entry(i, r.vol).targets
     /\ r.at = "remount" => MountedFrom(i, r.target, r.vol)
     /\ r.at \in UnpublishPoint => Staged(i, r.vol)
     /\ r.at = "untrack" => ~Mounted(i, r.target)
     /\ r.at \in UnstagePoint =>
          /\ Staged(i, r.vol) /\ Entry(i, r.vol).path = r.path
          /\ DOMAIN Entry(i, r.vol).targets = {}
     /\ r.at \in {"release", "forget"} => NoMountOf(i, r.vol)

\* Between the platform's yes and the mount it is for.
Relying == {"record", "mount", "mkfs", "fsmount", "track", "bind"}
PromiseHolds(i) ==
  ReleasesInOrder /\ rpc[i].at \in Relying =>
    /\ Backed(lease[rpc[i].vol], i, rpc[i].path, rpc[i].gen)
    /\ \A q \in late : q.from = i => q.op # "ReleaseUse"

\* A release that is still to be executed is of a volume that is not mounted.
LateIsHarmless(i) ==
  ReleasesInOrder =>
  \A q \in late : q.from = i /\ q.op = "ReleaseUse" => NoMountOf(i, q.vol)

NodeOK(i) ==
  /\ MountsBacked(i) /\ MountsListed(i) /\ JournalAsSeen(i)
  /\ PromiseHolds(i) /\ LateIsHarmless(i)

NodeInv == NodeType /\ \A i \in VM : NodeOK(i)

(***************************************************************************)
(* What no API request and no mount is needed for.                         *)
(***************************************************************************)
\* Nobody asks for a path that is taken, and it stays free until it is
\* recorded.
PathsOwned(i) ==
  LET r == rpc[i]
  IN /\ \A v, w \in DOMAIN journal[i] :
          /\ Entry(i, v).path \notin DOMAIN Entry(i, w).targets
          /\ v # w =>
               /\ Entry(i, v).path # Entry(i, w).path
               /\ DOMAIN Entry(i, v).targets \cap DOMAIN Entry(i, w).targets = {}
     /\ r.at \in {"acquire", "record"} => ~PathTaken(i, r.vol, r.path)
     /\ r.at \in {"announce", "track"} => ~TargetTaken(i, r.vol, r.target)

\* Only what is ready is published.
TargetsAreReady(i) ==
  /\ \A v \in DOMAIN journal[i] :
       DOMAIN Entry(i, v).targets # {} => Entry(i, v).ready
  /\ rpc[i].at \in PublishPoint => Entry(i, rpc[i].vol).ready

JournalOK(i) == PathsOwned(i) /\ TargetsAreReady(i)
JournalInv == \A i \in VM : JournalOK(i)

(***************************************************************************)
(* Where the mounts come from (on the simulated host).                     *)
(***************************************************************************)
\* A staging path shows the device; a target shows what is at the staging
\* path, with the configuration that is tracked.
MountSourced(i, path) ==
  LET m == mounts[i][path]
      s == Entry(i, m.vol)
  IN \/ m.source = Device /\ path = s.path
     \/ /\ m.source # Device /\ m.source = s.path
        /\ path \in DOMAIN s.targets /\ m.conf = s.targets[path]
        /\ MountedFrom(i, s.path, m.vol)

\* A publish is for what is tracked of its target, an unpublish for a target.
TargetAsSeen(i) ==
  LET r == rpc[i]
      s == Entry(i, r.vol)
  IN /\ r.at \in {"announce", "track", "bind"} /\ r.target \in DOMAIN s.targets =>
          s.targets[r.target] = r.conf
     /\ r.at = "unbind" => r.target \in DOMAIN s.targets

SourceOK(i) ==
  (\A path \in DOMAIN mounts[i] : MountSourced(i, path)) /\ TargetAsSeen(i)
SourceInv == \A i \in VM : SourceOK(i)
=============================================================================
