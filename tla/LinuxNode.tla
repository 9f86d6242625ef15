----------------------------- MODULE LinuxNode ------------------------------
(***************************************************************************)
(* The node agents of NodeAgent on the host of internal/host/linux.go:     *)
(* devices with contents, the decision to format, bind mounts and their    *)
(* read-only flag, growth of a file system (NodeExpandVolume), and what    *)
(* the kubelet was told.                                                   *)
(*                                                                         *)
(* Each command the host runs is a step; the agent, or the deadline of the *)
(* RPC, may end it before any of them, and mkfs in the middle.             *)
(***************************************************************************)
EXTENDS NodeAgent

CONSTANTS
  RW, RO,        \* the read-only flag of a publish
  Mode,          \* the volume modes of this instance
  Content,       \* what the devices of this instance may hold at first
  MaxCap,        \* bound on the capacity of a volume
  HostBreakable, \* the points of a host operation where it may break
  Contract       \* whether the kubelet publishes only what it has staged

HostPoint ==
  {"mkfs", "fsmount", "remount", "answer", "check", "resize", "note"}

\* What is mounted is a device, a staged file system, or, if nothing is
\* mounted at the staging path, the directory of the VM's disk that is there.
Directory == "directory"

ASSUME LinuxNodeAssumption ==
  /\ RW # RO /\ Conf \subseteq {RW, RO} /\ Directory \notin Path
  /\ Mode \subseteq {"mount", "block"}
  /\ Content \subseteq {"blank", "other"}
  /\ MaxCap \in Nat \ {0}
  /\ HostBreakable \subseteq HostPoint
  /\ Contract \in BOOLEAN

VARIABLES
  mode,       \* the mode of each volume
  device,     \* the device of each volume
  granted,    \* for each VM: AllowFormat in the answer of its AcquireUse
  staged,     \* for each VM: the volumes whose stage the kubelet relies on
  published,  \* for each VM: the targets it relies on, and their flag
  grown       \* the capacity the kubelet was told the node has

host == <<mode, device, granted, staged, published, grown>>
linuxVars == <<vars, host>>

\* content: nothing wipefs knows, the volume's file system, a file system
\* whose mkfs did not end, or something else; data: whether it holds what
\* somebody wrote; size, noted, seen: the capacity in the cloud, in the
\* platform's table, and in the VM; fs: what the file system uses of it.
DeviceRecord == [content : {"blank", "fs", "broken", "other"}, data : BOOLEAN,
            allowFormat : BOOLEAN, size : 1 .. MaxCap, noted : 1 .. MaxCap,
            seen : 1 .. MaxCap, fs : 0 .. MaxCap]

LinuxInit ==
  /\ Init
  /\ mode \in [Volume -> Mode]
  /\ \E c \in [Volume -> Content] :
       device = [v \in Volume |->
                   [content |-> c[v], data |-> c[v] = "other",
                    allowFormat |-> TRUE, size |-> 1, noted |-> 1, seen |-> 1,
                    fs |-> 0]]
  /\ granted = [i \in VM |-> FALSE]
  /\ staged = [i \in VM |-> {}]
  /\ published = [i \in VM |-> NoEntries]
  /\ grown = [v \in Volume |-> 1]

\* Discovery: the device is there when the cloud has attached it.
Discovered(i, v) == lease[v].cloud = i
Block(v) == mode[v] = "block"
StageMounted(i, path, v) ==
  MountedFrom(i, path, v) /\ mounts[i][path].source = Device

\* The volume is to be seen at a path.
MountedOn(i, path) == Mounted(i, path) /\ mounts[i][path].source # Directory

Unchanged(rest) == UNCHANGED <<lease, journal, late, trouble, mode, rest>>
SetDevice(v, d) == device' = [device EXCEPT ![v] = d]

(***************************************************************************)
(* NodeStageVolume on Linux.                                               *)
(***************************************************************************)
LinuxAcquire(i) ==
  /\ StageAcquire(i)
  /\ granted' = [granted EXCEPT ![i] = device[rpc[i].vol].allowFormat]
  /\ UNCHANGED <<mode, device, staged, published, grown>>

\* formatRequired: no signature, and the grant.
FormatRequired(i, v) == device[v].content = "blank" /\ granted[i]
\* Only the volume's own signature: mount what is there.
Recognised(v) == device[v].content \in {"fs", "broken"}

\* Slip: whatever is at the staging path already is a collision.
NeverStagedBefore(i, path, v) == FALSE
\* An existing mount is the device's, with its file system, writable.
StagedBefore(i, path, v) == StageMounted(i, path, v)

StageProbe(i) ==
  LET v == rpc[i].vol
      path == rpc[i].path
  IN /\ At(i, "mount")
     /\ \/ /\ Discovered(i, v)
           /\ \/ Block(v) /\ Continue(i, "mark")
              \/ ~Block(v) /\ StagedBefore(i, path, v) /\ Continue(i, "mark")
              \/ ~Block(v) /\ ~Mounted(i, path) /\
                   \/ FormatRequired(i, v) /\ Continue(i, "mkfs")
                   \/ Recognised(v) /\ Continue(i, "fsmount")
                   \/ ~FormatRequired(i, v) /\ ~Recognised(v) /\ Finish(i)
              \/ /\ ~Block(v) /\ Mounted(i, path)
                 /\ ~StagedBefore(i, path, v) /\ Finish(i)
        \/ ~Discovered(i, v) /\ Finish(i)
     /\ Unchanged(<<mounts, device, granted, staged, published, grown>>)

Formatted(d) ==
  [d EXCEPT !.content = "fs", !.data = FALSE, !.fs = d.seen]
\* mkfs was killed: perhaps it wrote its signature, perhaps not.
HalfFormatted(d, c) == [d EXCEPT !.content = c, !.data = FALSE]

Mkfs(i) ==
  LET v == rpc[i].vol
  IN /\ At(i, "mkfs")
     /\ IF Discovered(i, v)
        THEN Continue(i, "fsmount") /\ SetDevice(v, Formatted(device[v]))
        ELSE Finish(i) /\ UNCHANGED device
     /\ Unchanged(<<mounts, granted, staged, published, grown>>)

MkfsKilled(i) ==
  LET v == rpc[i].vol
  IN /\ At(i, "mkfs") /\ Discovered(i, v)
     /\ "mkfs" \in HostBreakable /\ Suffer /\ Finish(i)
     /\ \E c \in {"blank", "broken"} :
          SetDevice(v, HalfFormatted(device[v], c))
     /\ UNCHANGED <<lease, journal, mounts, late, mode, granted, staged,
                    published, grown>>

\* Slip: an error of mount is not looked at.
StageMountUnchecked(i) ==
  /\ At(i, "fsmount") /\ Continue(i, "mark")
  /\ Unchanged(<<mounts, device, granted, staged, published, grown>>)
StageFsMount(i) ==
  LET v == rpc[i].vol
      path == rpc[i].path
  IN /\ At(i, "fsmount")
     /\ IF Discovered(i, v) /\ device[v].content = "fs"
        THEN /\ Continue(i, "mark")
             /\ SetMount(i, path, [vol |-> v, source |-> Device,
                                   conf |-> NoConf])
        ELSE Finish(i) /\ UNCHANGED mounts
     /\ Unchanged(<<device, granted, staged, published, grown>>)

\* Slip: the grant is not withdrawn.
GrantKept(i) == StageMark(i) /\ UNCHANGED host
LinuxMark(i) ==
  LET v == rpc[i].vol
      q == Request(i, "MarkInitialized", v, rpc[i].path, rpc[i].gen)
  IN /\ StageMark(i)
     /\ SetDevice(v, [device[v] EXCEPT !.allowFormat = @ /\ ~UseChecked(q)])
     /\ UNCHANGED <<mode, granted, staged, published, grown>>

LinuxReady(i) ==
  /\ StageReady(i)
  /\ staged' = [staged EXCEPT ![i] = @ \cup {rpc[i].vol}]
  /\ UNCHANGED <<mode, device, granted, published, grown>>

(***************************************************************************)
(* NodePublishVolume on Linux.                                             *)
(***************************************************************************)
Relied(i, v) == ~Contract \/ v \in staged[i]
LinuxPublishBegin(i, v, path, g, target, conf) ==
  /\ Relied(i, v)
  /\ PublishBegin(i, v, path, g, target, conf)
  /\ UNCHANGED host

Source(i, path, v) ==
  IF Block(v) THEN Device
  ELSE IF StageMounted(i, path, v) THEN path ELSE Directory
\* Slip: whatever is at the target already is a collision.
NeverMountedBefore(m, i, path, v) == FALSE
\* An existing target mount is of the same device or directory.
SameMount(m, i, path, v) == m.vol = v /\ m.source = Source(i, path, v)

\* Slip: the flag of an existing target is not looked at.
AnyFlag(m, conf) == TRUE
SameFlag(m, conf) == m.conf = conf

LinuxBind(i) ==
  LET v == rpc[i].vol
      path == rpc[i].path
      target == rpc[i].target
      conf == rpc[i].conf
  IN /\ At(i, "bind")
     /\ \/ /\ Block(v) /\ ~Discovered(i, v)
           /\ Finish(i) /\ UNCHANGED mounts
        \/ /\ Block(v) => Discovered(i, v)
           /\ Mounted(i, target)
           /\ IF /\ SameMount(mounts[i][target], i, path, v)
                 /\ SameFlag(mounts[i][target], conf)
              THEN Continue(i, "answer") ELSE Finish(i)
           /\ UNCHANGED mounts
        \/ /\ Block(v) => Discovered(i, v)
           /\ ~Mounted(i, target)
           /\ SetMount(i, target, [vol |-> v, source |-> Source(i, path, v),
                                   conf |-> RW])
           /\ Continue(i, IF conf = RO THEN "remount" ELSE "answer")
     /\ Unchanged(<<device, granted, staged, published, grown>>)

RemountReadOnly(i) ==
  /\ At(i, "remount")
  /\ SetMount(i, rpc[i].target, [mounts[i][rpc[i].target] EXCEPT !.conf = RO])
  /\ Continue(i, "answer")
  /\ Unchanged(<<device, granted, staged, published, grown>>)

\* The kubelet is told that the target is published.
PublishAnswer(i) ==
  /\ At(i, "answer") /\ Finish(i)
  /\ published' = [published EXCEPT
                     ![i] = With(@, rpc[i].target, rpc[i].conf)]
  /\ Unchanged(<<mounts, device, granted, staged, grown>>)

\* The remount fails and the target is unmounted again.
RemountFails(i) ==
  /\ At(i, "remount") /\ "remount" \in HostBreakable /\ Suffer
  /\ RemoveMount(i, rpc[i].target)
  /\ Finish(i)
  /\ UNCHANGED <<lease, journal, late, host>>

(***************************************************************************)
(* NodeUnpublishVolume and NodeUnstageVolume: what the kubelet tears down  *)
(* it no longer relies on.                                                 *)
(***************************************************************************)
LinuxUnpublishBegin(i, v, target) ==
  /\ UnpublishBegin(i, v, target)
  /\ published' = [published EXCEPT ![i] = Without(@, target)]
  /\ UNCHANGED <<mode, device, granted, staged, grown>>
LinuxUnstageBegin(i, v, path) ==
  /\ UnstageBegin(i, v, path)
  /\ staged' = [staged EXCEPT ![i] = @ \ {v}]
  /\ UNCHANGED <<mode, device, granted, published, grown>>

(***************************************************************************)
(* NodeExpandVolume.                                                       *)
(***************************************************************************)
ExpandBegin(i, v, path, need) ==
  /\ Staged(i, v) /\ Entry(i, v).ready
  /\ path = Entry(i, v).path \/ path \in DOMAIN Entry(i, v).targets
  /\ Start(i, [at |-> "check", vol |-> v, path |-> Entry(i, v).path,
               gen |-> Entry(i, v).gen, need |-> need])
  /\ UNCHANGED <<lease, journal, mounts, late, trouble, host>>

\* CheckUse answers with the volume, and so with the capacity noted.
ExpandCheck(i) ==
  LET v == rpc[i].vol
      q == Request(i, "CheckUse", v, rpc[i].path, rpc[i].gen)
  IN /\ At(i, "check") /\ MaySend(i)
     /\ IF UseChecked(q) /\ device[v].noted >= rpc[i].need
        THEN rpc' = [rpc EXCEPT ![i].at = "resize",
                                ![i].need = device[v].noted]
        ELSE Finish(i)
     /\ UNCHANGED <<lease, journal, mounts, late, trouble, host>>

\* Slip: the device's own size is not looked at.
AnySize(v, size) == TRUE
DeviceHas(v, size) == device[v].seen >= size

Enlarged(d) == [d EXCEPT !.fs = d.seen]
ExpandResize(i) ==
  LET v == rpc[i].vol
  IN /\ At(i, "resize")
     /\ IF /\ Discovered(i, v) /\ DeviceHas(v, rpc[i].need)
           /\ ~Block(v) => StageMounted(i, rpc[i].path, v)
        THEN /\ Continue(i, "note")
             /\ SetDevice(v, IF Block(v) THEN device[v]
                             ELSE Enlarged(device[v]))
        ELSE Finish(i) /\ UNCHANGED device
     /\ Unchanged(<<mounts, granted, staged, published, grown>>)

\* The journal's copy of the volume is saved, and the kubelet told.
ExpandNote(i) ==
  /\ At(i, "note") /\ Finish(i)
  /\ grown' = [grown EXCEPT ![rpc[i].vol] = rpc[i].need]
  /\ Unchanged(<<mounts, device, granted, staged, published>>)

(***************************************************************************)
(* The world around: Pods, the cloud, and what goes wrong.                 *)
(***************************************************************************)
\* A Pod writes through a target it was given writable.
PodWrites(i, target) ==
  /\ target \in DOMAIN published[i] /\ published[i][target] = RW
  /\ MountedOn(i, target)
  /\ LET v == mounts[i][target].vol
     IN SetDevice(v, [device[v] EXCEPT !.data = TRUE])
  /\ UNCHANGED <<vars, mode, granted, staged, published, grown>>

\* The signature of a file system that is not mounted is lost.
Damage(v) ==
  /\ device[v].content = "fs" /\ device[v].data
  /\ \A i \in VM : \A path \in DOMAIN mounts[i] : mounts[i][path].vol # v
  /\ SetDevice(v, [device[v] EXCEPT !.content = "blank"])
  /\ UNCHANGED <<vars, mode, granted, staged, published, grown>>

\* The disk grows, the platform notes it, the VM notices it.
CloudGrows(v) ==
  /\ device[v].size < MaxCap
  /\ SetDevice(v, [device[v] EXCEPT !.size = @ + 1])
  /\ UNCHANGED <<vars, mode, granted, staged, published, grown>>
PlatformNotes(v) ==
  /\ SetDevice(v, [device[v] EXCEPT !.noted = device[v].size])
  /\ UNCHANGED <<vars, mode, granted, staged, published, grown>>
VMNotices(v) ==
  /\ lease[v].cloud # NoVM
  /\ SetDevice(v, [device[v] EXCEPT !.seen = device[v].size])
  /\ UNCHANGED <<vars, mode, granted, staged, published, grown>>
LinuxTakeDisk(v) ==
  /\ TakeDisk(v)
  /\ SetDevice(v, [device[v] EXCEPT !.seen = device[v].size])
  /\ UNCHANGED <<mode, granted, staged, published, grown>>

HostBreak(i) ==
  /\ rpc[i].at \in HostBreakable /\ Suffer /\ Finish(i)
  /\ UNCHANGED <<lease, journal, mounts, late, host>>

LinuxReboot(i) ==
  /\ Reboot(i)
  /\ staged' = [staged EXCEPT ![i] = {}]
  /\ published' = [published EXCEPT ![i] = NoEntries]
  /\ UNCHANGED <<mode, device, granted, grown>>

-----------------------------------------------------------------------------
HostStep(i) ==
  \/ LinuxAcquire(i) \/ StageProbe(i) \/ Mkfs(i) \/ StageFsMount(i)
  \/ LinuxMark(i) \/ LinuxReady(i)
  \/ LinuxBind(i) \/ RemountReadOnly(i) \/ PublishAnswer(i)
  \/ ExpandCheck(i) \/ ExpandResize(i) \/ ExpandNote(i)
AgentStep(i) ==
  /\ \/ StageRecord(i) \/ PublishAnnounce(i) \/ PublishTrack(i)
     \/ UnpublishStep(i) \/ UnstageStep(i)
  /\ UNCHANGED host
LinuxRPCStep(i) == HostStep(i) \/ AgentStep(i)

LinuxStageBegin(i, v, path, g) == StageBegin(i, v, path, g) /\ UNCHANGED host

LinuxKubeletCall(i) ==
  \E v \in Volume, path \in Path :
    \/ \E g \in 1 .. lease[v].gen :
         \/ LinuxStageBegin(i, v, path, g)
         \/ \E target \in Path, conf \in Conf :
              LinuxPublishBegin(i, v, path, g, target, conf)
    \/ LinuxUnpublishBegin(i, v, path)
    \/ LinuxUnstageBegin(i, v, path)
    \/ \E need \in 2 .. MaxCap : ExpandBegin(i, v, path, need)

HostTrouble(i) ==
  \/ MkfsKilled(i) \/ RemountFails(i) \/ HostBreak(i) \/ LinuxReboot(i)
  \/ (Break(i) \/ TimeOut(i)) /\ UNCHANGED host

CloudStep(v) ==
  \/ /\ \/ \E i \in VM : Grant(v, i)
        \/ CloseGate(v) \/ GiveDisk(v) \/ Retire(v)
     /\ UNCHANGED host
  \/ LinuxTakeDisk(v)
  \/ CloudGrows(v) \/ PlatformNotes(v) \/ VMNotices(v)

LinuxNext ==
  \/ \E i \in VM : LinuxKubeletCall(i) \/ LinuxRPCStep(i) \/ HostTrouble(i)
  \/ \E i \in VM, target \in Path : PodWrites(i, target)
  \/ \E v \in Volume : CloudStep(v) \/ Damage(v)
  \/ \E q \in late : Deliver(q) /\ UNCHANGED host

LinuxSpec == LinuxInit /\ [][LinuxNext]_linuxVars

\* A running RPC goes on, a request on its way arrives, the platform's loop
\* runs; the kubelet repeats the stage of what is attached, the publish of a
\* Pod that is to run, and the clean-up of what it is to lose or has lost,
\* with a mutex that starves nobody.
ToLose(i, v) ==
  ~lease[v].open \/ (Staged(i, v) /\ Entry(i, v).gen # lease[v].gen)
LinuxFairness ==
  /\ \A i \in VM : WF_linuxVars(LinuxRPCStep(i))
  /\ WF_linuxVars(\E q \in late : Deliver(q) /\ UNCHANGED host)
  /\ \A v \in Volume : WF_linuxVars((GiveDisk(v) \/ Retire(v)) /\ UNCHANGED host)
  /\ \A i \in VM, v \in Volume, path \in Path :
       /\ SF_linuxVars(lease[v].holder = i
                         /\ LinuxStageBegin(i, v, path, lease[v].gen))
       /\ SF_linuxVars(ToLose(i, v) /\ LinuxUnpublishBegin(i, v, path))
       /\ SF_linuxVars(ToLose(i, v) /\ LinuxUnstageBegin(i, v, path))
  /\ \A i \in VM, v \in Volume, target \in Path, conf \in Conf :
       SF_linuxVars(\E path \in Path :
         /\ Staged(i, v) /\ target \in DOMAIN Entry(i, v).targets
         /\ LinuxPublishBegin(i, v, path, lease[v].gen, target, conf))
LinuxFairSpec == LinuxSpec /\ LinuxFairness

-----------------------------------------------------------------------------
\* The type invariant; a host operation works on an entry of the journal and
\* a remount on a target that is mounted (linux.go:232-240).
LinuxTypeOK ==
  /\ TypeOK
  /\ mode \in [Volume -> Mode]
  /\ device \in [Volume -> DeviceRecord]
  /\ granted \in [VM -> BOOLEAN]
  /\ staged \in [VM -> SUBSET Volume]
  /\ \A i \in VM :
       /\ DOMAIN published[i] \subseteq Path
       /\ \A t \in DOMAIN published[i] : published[i][t] \in Conf
       /\ At(i, "remount") => MountedFrom(i, rpc[i].target, rpc[i].vol)
       /\ rpc[i].at \in HostPoint => Staged(i, rpc[i].vol)
  /\ grown \in [Volume -> 1 .. MaxCap]

\* No device that holds what somebody wrote is ever formatted, whatever breaks
\* between mkfs, mount and MarkInitialized, and also when the file system's
\* signature is lost later (linux.go:146-161, node.go:129).
NoDataLost == [][\A v \in Volume : device[v].data => device'[v].data]_linuxVars

\* The grant to format is spent only on a device that has its file system: a
\* volume is never left with neither (node.go:126-131, linux.go:318).
GrantSpentOnFS ==
  \A v \in Volume :
    mode[v] = "mount" /\ ~device[v].allowFormat =>
      device[v].content = "fs" \/ device[v].data

\* A target the kubelet was told is published shows the volume, with the flag
\* that was asked for (linux.go:168-242), until it is unpublished.
PublishedIsServed ==
  \A i \in VM : \A t \in DOMAIN published[i] :
    /\ MountedOn(i, t)
    /\ mounts[i][t].conf = published[i][t]

\* What NodeStageVolume answered OK for stays usable until the unstage is asked
\* for or the VM restarts: the entry is ready, its use is on record for a disk
\* that is attached, and its file system is mounted (node.go:87-138).  The
\* kubelet may stage again meanwhile, and that may fail at any point, with the
\* gate closed; of a raw volume the use is all that keeps the disk.
StagedIsUsable ==
  \A i \in VM : \A v \in staged[i] :
    LET s == Entry(i, v)
    IN /\ Staged(i, v) /\ s.ready
       /\ lease[v].holder = i /\ lease[v].cloud = i /\ lease[v].gen = s.gen
       /\ useID(s.path, s.gen) \in lease[v].uses
       /\ mode[v] = "mount" => StageMounted(i, s.path, v)

\* The capacity NodeExpandVolume confirmed is usable (node.go:301-318,
\* linux.go:263-284): the file system, or the raw device, is that large.
GrownIsThere ==
  \A v \in Volume :
    grown[v] > 1 => grown[v] <= IF mode[v] = "block" THEN device[v].seen
                                ELSE device[v].fs

\* A device on which a stage can succeed.
Stageable(v) ==
  Block(v) \/ device[v].content = "fs"
    \/ (device[v].content = "blank" /\ device[v].allowFormat)

\* A repeated stage succeeds in the end, whatever an earlier attempt left
\* behind, unless the lease ends or the device cannot be staged
\* (node.go:100-138, linux.go:118-127).
StageRecovers ==
  \A i \in VM, v \in Volume :
    (lease[v].holder = i /\ lease[v].open /\ lease[v].cloud = i)
      ~> (~lease[v].open \/ ~Stageable(v) \/ v \in staged[i])

\* So does a repeated publish with the same parameters, unless the target is
\* unpublished, the lease ends or the stage is lost (node.go:181, linux.go:181-210).
PublishRecovers ==
  \A i \in VM, v \in Volume, t \in Path :
    (Staged(i, v) /\ t \in DOMAIN Entry(i, v).targets)
      ~> \/ t \in DOMAIN published[i]
         \/ ~lease[v].open \/ v \notin staged[i]
         \/ ~(Staged(i, v) /\ t \in DOMAIN Entry(i, v).targets)
=============================================================================
