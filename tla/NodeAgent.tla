----------------------------- MODULE NodeAgent ------------------------------
(***************************************************************************)
(* The node agents of internal/driver/node.go, one on each VM, with the    *)
(* mounts of their hosts (internal/host/host.go).  The kubelet calls them  *)
(* in any order; the storage API they call over the network is, for them,  *)
(* one writer lease for each volume: Platform implements WriterLease.      *)
(*                                                                         *)
(* An RPC holds the node's mutex, so a VM runs one at a time.  Between two *)
(* of its effects (an API call, a journal write, a mount) it may end with  *)
(* an error or the agent may crash; what it knew is then gone, while the   *)
(* journal and the mounts stay.                                            *)
(***************************************************************************)
EXTENDS Lease, Tables

CONSTANTS
  Volume,     \* volume IDs
  Path,       \* canonical paths below the kubelet root
  Conf,       \* what a publish asks for: Pod and read-only flag
  MaxGen,     \* bound on the grants of one volume
  MaxTrouble, \* bound on the number of troubles
  Breakable,  \* the points of an RPC where it may break
  Losable,    \* the API calls that may time out
  InOrder     \* whether a VM's API requests take effect in the order sent

VARIABLES
  lease,      \* the platform: the lease of each volume
  journal,    \* durable, for each VM: the table of its stages
  mounts,     \* for each VM: the table of its mounts
  rpc,        \* for each VM: the RPC it runs, and the point it has reached
  late,       \* API requests whose senders have given up waiting
  trouble     \* the number of troubles so far

vars == <<lease, journal, mounts, rpc, late, trouble>>

NoConf == "no conf"
\* A mount of a volume: from its device, or bound from its staging path.
Device == "device"
NoRPC == [at |-> "idle"]
Point == {"acquire", "record", "mount", "mark", "ready",
          "announce", "track", "bind", "unbind", "untrack",
          "unmount", "release", "forget"}

ASSUME NodeAgentAssumption ==
  /\ MaxGen \in Nat \ {0} /\ MaxTrouble \in Nat
  /\ Breakable \subseteq Point
  /\ Losable \subseteq {"acquire", "release"}
  /\ InOrder \in BOOLEAN
  /\ NoConf \notin Conf /\ Device \notin Path

\* A use is named by hashing volume, staging path and generation.
useID(path, g) == <<path, g>>

Stage == [path : Path, gen : 1 .. MaxGen, ready : BOOLEAN,
          targets : UNION {[T -> Conf] : T \in SUBSET Path}]
Mount == [vol : Volume, source : Path \cup {Device}, conf : Conf \cup {NoConf}]

Init ==
  /\ lease = [v \in Volume |-> Unleased]
  /\ journal = [i \in VM |-> NoEntries]
  /\ mounts = [i \in VM |-> NoEntries]
  /\ rpc = [i \in VM |-> NoRPC]
  /\ late = {}
  /\ trouble = 0

Staged(i, v) == v \in DOMAIN journal[i]
Entry(i, v) == journal[i][v]
Mounted(i, path) == path \in DOMAIN mounts[i]
MountedFrom(i, path, v) == Mounted(i, path) /\ mounts[i][path].vol = v
match(s, path, g) == s.path = path /\ s.gen = g

Save(i, v, s) == journal' = [journal EXCEPT ![i] = With(@, v, s)]
SetMount(i, path, m) == mounts' = [mounts EXCEPT ![i] = With(@, path, m)]
RemoveMount(i, path) ==
  mounts' = [mounts EXCEPT ![i] = Without(@, path)]

At(i, point) == rpc[i].at = point
Start(i, r) == At(i, "idle") /\ rpc' = [rpc EXCEPT ![i] = r]
Continue(i, point) == rpc' = [rpc EXCEPT ![i].at = point]
Finish(i) == rpc' = [rpc EXCEPT ![i] = NoRPC]

(***************************************************************************)
(* The storage API.                                                        *)
(***************************************************************************)
Request(i, op, v, path, g) ==
  [from |-> i, op |-> op, vol |-> v, path |-> path, gen |-> g]

\* Slip: any proof of a VM that once was granted will do.
HoldsOnce(q) == q.gen <= lease[q.vol].gen
Holds(q) == lease[q.vol].holder = q.from /\ lease[q.vol].gen = q.gen

\* AcquireUse, and the check every other node operation but ReleaseUse makes.
AcquireGranted(q) == Holds(q) /\ CanAcquire(lease[q.vol])
UseChecked(q) ==
  AcquireGranted(q) /\ useID(q.path, q.gen) \in lease[q.vol].uses

Executed(q) ==
  CASE q.op = "AcquireUse" /\ AcquireGranted(q) ->
         [lease EXCEPT ![q.vol] = Acquired(@, useID(q.path, q.gen))]
    [] q.op = "ReleaseUse" /\ Holds(q) ->
         [lease EXCEPT ![q.vol] = Released(@, useID(q.path, q.gen))]
    [] OTHER -> lease

\* A request overtakes an earlier one of the same VM only out of order.
MaySend(i) == InOrder => \A q \in late : q.from # i

(***************************************************************************)
(* NodeStageVolume.                                                        *)
(***************************************************************************)
\* Slip: the targets of the other volumes are not looked at.
PathTakenByStage(i, v, path) ==
  \E w \in DOMAIN journal[i] \ {v} : Entry(i, w).path = path
PathTaken(i, v, path) ==
  \E w \in DOMAIN journal[i] \ {v} :
    Entry(i, w).path = path \/ path \in DOMAIN Entry(i, w).targets

StageBegin(i, v, path, g) ==
  /\ Staged(i, v) => match(Entry(i, v), path, g)
  /\ ~PathTaken(i, v, path)
  /\ Start(i, [at |-> "acquire", vol |-> v, path |-> path, gen |-> g])
  /\ UNCHANGED <<lease, journal, mounts, late, trouble>>

\* Slip: the mount is made before the intent is persisted.
StageAcquireThenMount(i) ==
  LET q == Request(i, "AcquireUse", rpc[i].vol, rpc[i].path, rpc[i].gen)
  IN /\ At(i, "acquire") /\ MaySend(i)
     /\ IF AcquireGranted(q) THEN Continue(i, "mount") ELSE Finish(i)
     /\ lease' = Executed(q)
     /\ UNCHANGED <<journal, mounts, late, trouble>>
StageAcquire(i) ==
  LET q == Request(i, "AcquireUse", rpc[i].vol, rpc[i].path, rpc[i].gen)
  IN /\ At(i, "acquire") /\ MaySend(i)
     /\ IF AcquireGranted(q) THEN Continue(i, "record") ELSE Finish(i)
     /\ lease' = Executed(q)
     /\ UNCHANGED <<journal, mounts, late, trouble>>

\* "persist intent before mount"
NewStage(path, g) ==
  [path |-> path, gen |-> g, ready |-> FALSE, targets |-> NoEntries]
StageRecord(i) ==
  LET v == rpc[i].vol
  IN /\ At(i, "record")
     /\ Save(i, v, IF Staged(i, v) THEN Entry(i, v)
                                   ELSE NewStage(rpc[i].path, rpc[i].gen))
     /\ Continue(i, "mount")
     /\ UNCHANGED <<lease, mounts, late, trouble>>

StageMount(i) ==
  LET v == rpc[i].vol
      path == rpc[i].path
  IN /\ At(i, "mount")
     /\ IF Mounted(i, path) /\ ~MountedFrom(i, path, v)
        THEN Finish(i) /\ UNCHANGED mounts
        ELSE /\ Continue(i, "mark")
             /\ IF Mounted(i, path)
                THEN UNCHANGED mounts
                ELSE SetMount(i, path, [vol |-> v, source |-> Device,
                                        conf |-> NoConf])
     /\ UNCHANGED <<lease, journal, late, trouble>>

\* Slip: a stage that fails here gives up the use it has acquired.
StageMarkOrRelease(i) ==
  LET q == Request(i, "MarkInitialized", rpc[i].vol, rpc[i].path, rpc[i].gen)
  IN /\ At(i, "mark") /\ MaySend(i)
     /\ IF UseChecked(q)
        THEN Continue(i, "ready") /\ UNCHANGED lease
        ELSE Finish(i) /\ lease' = Executed([q EXCEPT !.op = "ReleaseUse"])
     /\ UNCHANGED <<journal, mounts, late, trouble>>
StageMark(i) ==
  LET q == Request(i, "MarkInitialized", rpc[i].vol, rpc[i].path, rpc[i].gen)
  IN /\ At(i, "mark") /\ MaySend(i)
     /\ IF UseChecked(q) THEN Continue(i, "ready") ELSE Finish(i)
     /\ UNCHANGED <<lease, journal, mounts, late, trouble>>

StageReady(i) ==
  LET v == rpc[i].vol
  IN /\ At(i, "ready")
     /\ Save(i, v, [Entry(i, v) EXCEPT !.ready = TRUE])
     /\ Finish(i)
     /\ UNCHANGED <<lease, mounts, late, trouble>>

(***************************************************************************)
(* NodePublishVolume.                                                      *)
(***************************************************************************)
TargetTaken(i, v, target) ==
  \E w \in DOMAIN journal[i] :
    \/ Entry(i, w).path = target
    \/ w # v /\ target \in DOMAIN Entry(i, w).targets

PublishBegin(i, v, path, g, target, conf) ==
  /\ path # target
  /\ Staged(i, v) /\ Entry(i, v).ready /\ match(Entry(i, v), path, g)
  /\ ~TargetTaken(i, v, target)
  /\ target \in DOMAIN Entry(i, v).targets => Entry(i, v).targets[target] = conf
  /\ Start(i, [at |-> "announce", vol |-> v, path |-> path, gen |-> g,
               target |-> target, conf |-> conf])
  /\ UNCHANGED <<lease, journal, mounts, late, trouble>>

PublishAnnounce(i) ==
  LET q == Request(i, "RecordPublish", rpc[i].vol, rpc[i].path, rpc[i].gen)
  IN /\ At(i, "announce") /\ MaySend(i)
     /\ IF UseChecked(q) THEN Continue(i, "track") ELSE Finish(i)
     /\ UNCHANGED <<lease, journal, mounts, late, trouble>>

PublishTrack(i) ==
  LET v == rpc[i].vol
  IN /\ At(i, "track")
     /\ Save(i, v, [Entry(i, v) EXCEPT
                      !.targets = With(@, rpc[i].target, rpc[i].conf)])
     /\ Continue(i, "bind")
     /\ UNCHANGED <<lease, mounts, late, trouble>>

\* Host.Publish: without the staging mount, or over another mount, an error.
PublishBind(i) ==
  LET v == rpc[i].vol
      path == rpc[i].path
      target == rpc[i].target
  IN /\ At(i, "bind") /\ Finish(i)
     /\ IF MountedFrom(i, path, v) /\ ~Mounted(i, target)
        THEN SetMount(i, target, [vol |-> v, source |-> path,
                                  conf |-> rpc[i].conf])
        ELSE UNCHANGED mounts
     /\ UNCHANGED <<lease, journal, late, trouble>>

(***************************************************************************)
(* NodeUnpublishVolume; an untracked target is already done.               *)
(***************************************************************************)
UnpublishBegin(i, v, target) ==
  /\ Staged(i, v) /\ target \in DOMAIN Entry(i, v).targets
  /\ Start(i, [at |-> "unbind", vol |-> v, target |-> target])
  /\ UNCHANGED <<lease, journal, mounts, late, trouble>>

UnpublishUnmount(i) ==
  /\ At(i, "unbind") /\ Continue(i, "untrack")
  /\ RemoveMount(i, rpc[i].target)
  /\ UNCHANGED <<lease, journal, late, trouble>>

UnpublishUntrack(i) ==
  LET v == rpc[i].vol
  IN /\ At(i, "untrack") /\ Finish(i)
     /\ Save(i, v, [Entry(i, v) EXCEPT
                      !.targets = Without(@, rpc[i].target)])
     /\ UNCHANGED <<lease, mounts, late, trouble>>

(***************************************************************************)
(* NodeUnstageVolume; a volume without a journal entry is already done.    *)
(***************************************************************************)
\* Slip: published targets do not keep the stage.
IgnoreTargets(i, v) == TRUE
NoTargets(i, v) == DOMAIN Entry(i, v).targets = {}

UnstageBegin(i, v, path) ==
  /\ Staged(i, v) /\ Entry(i, v).path = path
  /\ NoTargets(i, v)
  /\ Start(i, [at |-> "unmount", vol |-> v, path |-> path,
               gen |-> Entry(i, v).gen])
  /\ UNCHANGED <<lease, journal, mounts, late, trouble>>

\* Slip: the use is not released.
UnstageUnmountThenForget(i) ==
  /\ At(i, "unmount") /\ Continue(i, "forget")
  /\ RemoveMount(i, rpc[i].path)
  /\ UNCHANGED <<lease, journal, late, trouble>>
UnstageUnmount(i) ==
  /\ At(i, "unmount") /\ Continue(i, "release")
  /\ RemoveMount(i, rpc[i].path)
  /\ UNCHANGED <<lease, journal, late, trouble>>

UnstageRelease(i) ==
  /\ At(i, "release") /\ MaySend(i) /\ Continue(i, "forget")
  /\ lease' = Executed(Request(i, "ReleaseUse", rpc[i].vol, rpc[i].path,
                               rpc[i].gen))
  /\ UNCHANGED <<journal, mounts, late, trouble>>

UnstageForget(i) ==
  /\ At(i, "forget") /\ Finish(i)
  /\ journal' = [journal EXCEPT ![i] = Without(@, rpc[i].vol)]
  /\ UNCHANGED <<lease, mounts, late, trouble>>
(***************************************************************************)
(* The platform, and what goes wrong.                                      *)
(***************************************************************************)
SetLease(v, l) ==
  lease' = [lease EXCEPT ![v] = l] /\ UNCHANGED <<journal, mounts, rpc, late, trouble>>

Grant(v, i) ==
  CanGrant(lease[v]) /\ lease[v].gen < MaxGen /\ SetLease(v, Granted(lease[v], i))
TakeDisk(v) ==
  /\ CanTake(lease[v]) /\ lease[v].cloud # lease[v].holder
  /\ SetLease(v, DiskTaken(lease[v]))
CloseGate(v) == CanClose(lease[v]) /\ SetLease(v, Closed(lease[v]))
GiveDisk(v) ==
  /\ CanGive(lease[v]) /\ lease[v].cloud # NoVM
  /\ SetLease(v, DiskGiven(lease[v]))
Retire(v) ==
  /\ CanRetire(lease[v]) /\ lease[v].holder # NoVM
  /\ SetLease(v, Retired(lease[v]))

Suffer == trouble < MaxTrouble /\ trouble' = trouble + 1

\* The RPC ends with an error before its next effect, or the agent restarts.
Break(i) ==
  /\ rpc[i].at \in Breakable /\ Suffer /\ Finish(i)
  /\ UNCHANGED <<lease, journal, mounts, late>>

\* The client waits 15 s for an answer; the request may still take effect,
\* once, at any time: the server looks at the client's context only before
\* it queues for the writer lock.
TimeOut(i) ==
  /\ rpc[i].at \in Losable /\ MaySend(i) /\ Suffer /\ Finish(i)
  /\ late' = late \cup
       {Request(i, IF At(i, "acquire") THEN "AcquireUse" ELSE "ReleaseUse",
                rpc[i].vol, rpc[i].path, rpc[i].gen)}
  /\ UNCHANGED <<lease, journal, mounts>>
Deliver(q) ==
  /\ lease' = Executed(q) /\ late' = late \ {q}
  /\ UNCHANGED <<journal, mounts, rpc, trouble>>

\* The VM restarts: its mounts are gone.
Reboot(i) ==
  /\ mounts[i] # NoEntries /\ Suffer /\ Finish(i)
  /\ mounts' = [mounts EXCEPT ![i] = NoEntries]
  /\ UNCHANGED <<lease, journal, late>>

-----------------------------------------------------------------------------
StageStep(i) ==
  \/ StageAcquire(i) \/ StageRecord(i) \/ StageMount(i)
  \/ StageMark(i) \/ StageReady(i)
PublishStep(i) == PublishAnnounce(i) \/ PublishTrack(i) \/ PublishBind(i)
UnpublishStep(i) == UnpublishUnmount(i) \/ UnpublishUntrack(i)
UnstageStep(i) == UnstageUnmount(i) \/ UnstageRelease(i) \/ UnstageForget(i)
RPCStep(i) ==
  StageStep(i) \/ PublishStep(i) \/ UnpublishStep(i) \/ UnstageStep(i)

\* The kubelet calls with any proof it was ever given, in any order.
KubeletCall(i) ==
  \E v \in Volume, path \in Path :
    \/ \E g \in 1 .. lease[v].gen :
         \/ StageBegin(i, v, path, g)
         \/ \E target \in Path, conf \in Conf :
              PublishBegin(i, v, path, g, target, conf)
    \/ UnpublishBegin(i, v, path)
    \/ UnstageBegin(i, v, path)

PlatformStep(v) ==
  \/ \E i \in VM : Grant(v, i)
  \/ TakeDisk(v) \/ CloseGate(v) \/ GiveDisk(v) \/ Retire(v)

Next ==
  \/ \E i \in VM :
       KubeletCall(i) \/ RPCStep(i) \/ Break(i) \/ TimeOut(i) \/ Reboot(i)
  \/ \E v \in Volume : PlatformStep(v)
  \/ \E q \in late : Deliver(q)

Spec == Init /\ [][Next]_vars

\* A running RPC goes on, a request on its way arrives, the platform's
\* reconcile loop runs, and the kubelet repeats its clean-up calls until they
\* succeed, with a mutex that starves nobody.
Fairness ==
  /\ \A i \in VM : WF_vars(RPCStep(i))
  /\ WF_vars(\E q \in late : Deliver(q))
  /\ \A v \in Volume : WF_vars(GiveDisk(v)) /\ WF_vars(Retire(v))
  /\ \A i \in VM, v \in Volume, path \in Path :
       SF_vars(UnpublishBegin(i, v, path)) /\ SF_vars(UnstageBegin(i, v, path))
FairSpec == Spec /\ Fairness

-----------------------------------------------------------------------------
\* The type invariant; an RPC past its first effects works on an entry that
\* is in the journal (node.go:118-134, 192, 214-224).
TypeOK ==
  /\ lease \in [Volume -> [gen : 0 .. MaxGen, holder : VM \cup {NoVM},
                           open : BOOLEAN, uses : SUBSET (Path \X (1 .. MaxGen)),
                           cloud : VM \cup {NoVM}]]
  /\ \A i \in VM :
       /\ DOMAIN journal[i] \subseteq Volume
       /\ \A v \in DOMAIN journal[i] : Entry(i, v) \in Stage
       /\ DOMAIN mounts[i] \subseteq Path
       /\ \A path \in DOMAIN mounts[i] : mounts[i][path] \in Mount
       /\ rpc[i].at \notin {"idle", "acquire", "record"} => Staged(i, rpc[i].vol)
  /\ trouble \in 0 .. MaxTrouble

\* The use barrier, end to end (node.go:110, 253-256): whatever is mounted on
\* a VM is mounted under a use the platform has on record, of the current
\* generation, and so from a disk that is attached there.
MountHasUse ==
  \A i \in VM : \A path \in DOMAIN mounts[i] :
    LET v == mounts[i][path].vol
    IN /\ Staged(i, v)
       /\ lease[v].holder = i /\ lease[v].cloud = i
       /\ lease[v].gen = Entry(i, v).gen
       /\ useID(Entry(i, v).path, Entry(i, v).gen) \in lease[v].uses

\* No volume is mounted on two VMs.
MountedOnOneVM ==
  \A i, j \in VM : \A p \in DOMAIN mounts[i], q \in DOMAIN mounts[j] :
    mounts[i][p].vol = mounts[j][q].vol => i = j

\* No mount without an entry to clean it up by (node.go:118-126, 192-196): a
\* mount is at its volume's staging path or at one of its tracked targets,
\* whenever the agent stops.
MountTracked ==
  \A i \in VM : \A path \in DOMAIN mounts[i] :
    LET m == mounts[i][path]
    IN /\ Staged(i, m.vol)
       /\ m.source = Device => path = Entry(i, m.vol).path
       /\ m.source # Device =>
            /\ m.source = Entry(i, m.vol).path
            /\ path \in DOMAIN Entry(i, m.vol).targets
            /\ m.conf = Entry(i, m.vol).targets[path]

\* The staging mount outlives its targets (node.go:250-252).
TargetOnStage ==
  \A i \in VM : \A path \in DOMAIN mounts[i] :
    LET m == mounts[i][path]
    IN m.source # Device => MountedFrom(i, m.source, m.vol)

\* A path belongs to one volume and one role (node.go:105-109, 174-179).
PathHasOneOwner ==
  \A i \in VM : \A v, w \in DOMAIN journal[i] :
    /\ Entry(i, v).path \notin DOMAIN Entry(i, w).targets
    /\ v # w =>
         /\ Entry(i, v).path # Entry(i, w).path
         /\ DOMAIN Entry(i, v).targets \cap DOMAIN Entry(i, w).targets = {}

\* Once the gate of a lease is closed, the kubelet's clean-up gives the disk
\* back (node.go:201-264, engine.go:325-332).
DrainCompletes ==
  \A v \in Volume :
    (lease[v].holder # NoVM /\ ~lease[v].open) ~> (lease[v].holder = NoVM)
=============================================================================
