----------------------------- MODULE LinuxProofs -----------------------------
(***************************************************************************)
(* The Linux host, for every value of the constants: the agents' own       *)
(* invariants carry over from NodeAgent, no device that holds data is ever *)
(* formatted, what the kubelet was told of a capacity is there, what it    *)
(* was told is published is served, what it was told is staged is usable,  *)
(* and everything has its type.                                            *)
(***************************************************************************)
EXTENDS LinuxInvariant, NodeJournalProofs

(***************************************************************************)
(* The invariants of NodeAgent under the steps of the host.                *)
(***************************************************************************)
\* Where only one VM's RPC changes, and perhaps its mounts.
LEMMA OtherJournals ==
  ASSUME NodeType, JournalInv, NEW i \in VM, UNCHANGED journal,
         \A j \in VM : j # i => rpc'[j] = rpc[j], JournalOK(i)'
  PROVE  JournalInv'
<1> SUFFICES ASSUME NEW j \in VM, j # i PROVE JournalOK(j)'
  BY DEF JournalInv
<1> QED BY JournalSame DEF JournalInv

\* A host operation that ends its RPC touches nothing the agents rely on.
LEMMA HostEndKeeps ==
  ASSUME NodeInv, JournalInv, NEW i \in VM, Finish(i),
         UNCHANGED <<lease, journal, mounts, late>>
  PROVE  NodeInv' /\ JournalInv'
<1>1. NodeType
  BY DEF NodeInv
<1>2. JournalOK(i)' /\ \A j \in VM : j # i => rpc'[j] = rpc[j]
  BY <1>1, Ends, EndOwns DEF JournalInv
<1> QED BY <1>1, <1>2, EndKeeps, OtherJournals

\* The points between which a host operation moves.
HostMove(from, to) ==
  \/ from = "mount" /\ to \in {"mkfs", "fsmount", "mark"}
  \/ from = "mkfs" /\ to = "fsmount"
  \/ from = "fsmount" /\ to = "mark"
  \/ from = "bind" /\ to = "answer"
  \/ from = "resize" /\ to = "note"

\* Such a move changes the point and nothing else.
LEMMA HostMoves ==
  ASSUME NodeType, NEW i \in VM, NEW p, Continue(i, p), HostMove(rpc[i].at, p)
  PROVE  /\ rpc' \in [VM -> RPC]
         /\ rpc'[i].at = p /\ rpc'[i].vol = rpc[i].vol
         /\ rpc'[i].path = rpc[i].path /\ rpc'[i].gen = rpc[i].gen
         /\ p = "answer" => rpc'[i].target = rpc[i].target
         /\ \A j \in VM : j # i => rpc'[j] = rpc[j]
<1>1. /\ \/ rpc[i].at \in StagePoint /\ p \in StagePoint
         \/ rpc[i].at \in PublishPoint /\ p \in PublishPoint
         \/ rpc[i].at \in ExpandPoint /\ p \in ExpandPoint
      /\ rpc[i].at \notin UnpublishPoint
      /\ p = "answer" => rpc[i].at \in PublishPoint
  BY DEF HostMove, StagePoint, PublishPoint, ExpandPoint, UnpublishPoint
<1> QED BY <1>1, Continues

\* A point that is reached by such a move, what was seen being so still.
LEMMA HostMoveSeen ==
  ASSUME NodeInv, NEW i \in VM, NEW p, Continue(i, p), HostMove(rpc[i].at, p),
         UNCHANGED <<lease, journal, late>>
  PROVE  JournalAsSeen(i)' /\ PromiseHolds(i)'
<1>1. NodeType /\ NodeOK(i)
  BY DEF NodeInv
<1>2. /\ rpc'[i].at = p /\ rpc'[i].vol = rpc[i].vol
      /\ rpc'[i].path = rpc[i].path /\ rpc'[i].gen = rpc[i].gen
      /\ p = "answer" => rpc'[i].target = rpc[i].target
  BY <1>1, HostMoves
<1>3. JournalAsSeen(i)'
  BY <1>1, <1>2 DEF NodeOK, JournalAsSeen, HostMove, StagePoint, PublishPoint,
     UnpublishPoint, UnstagePoint, Staged, Entry, match
<1>4. PromiseHolds(i)'
  <2>1. p \in Relying => rpc[i].at \in Relying
    BY DEF HostMove, Relying
  <2> QED BY <1>1, <1>2, <2>1 DEF NodeOK, PromiseHolds, Backed
<1> QED BY <1>3, <1>4

\* Nothing is reserved at a point that is reached so.
LEMMA HostMoveOwns ==
  ASSUME NodeInv, JournalInv, NEW i \in VM, NEW p, Continue(i, p),
         HostMove(rpc[i].at, p), UNCHANGED journal
  PROVE  JournalInv'
<1>1. NodeType /\ JournalOK(i)
  BY DEF NodeInv, JournalInv
<1>2. \/ rpc[i].at \in StagePoint /\ p \in StagePoint \ {"acquire", "record"}
      \/ rpc[i].at \in PublishPoint /\ p \in {"bind", "remount", "answer"}
      \/ rpc[i].at \in ExpandPoint /\ p \in ExpandPoint
  BY DEF HostMove, StagePoint, PublishPoint, ExpandPoint
<1>3. JournalOK(i)'
  BY <1>1, <1>2, PointOwns
<1> QED BY <1>1, <1>3, HostMoves, OtherJournals

\* A host operation that goes on without a new mount.
LEMMA HostMoveKeeps ==
  ASSUME NodeInv, JournalInv, NEW i \in VM, NEW p, Continue(i, p),
         HostMove(rpc[i].at, p), UNCHANGED <<lease, journal, mounts, late>>
  PROVE  NodeInv' /\ JournalInv'
<1>1. NodeType
  BY DEF NodeInv
<1>2. rpc' \in [VM -> RPC] /\ \A j \in VM : j # i => rpc'[j] = rpc[j]
  BY <1>1, HostMoves
<1> QED BY <1>2, HostMoveSeen, HostMoveOwns, OnlyRPC

\* Linux.Stage.
LEMMA ProbeKeepsNode ==
  ASSUME NodeInv, JournalInv, NEW i \in VM, StageProbe(i)
  PROVE  NodeInv' /\ JournalInv'
<1>1. /\ rpc[i].at = "mount" /\ UNCHANGED <<lease, journal, mounts, late>>
      /\ \/ Finish(i) \/ Continue(i, "mark")
         \/ Continue(i, "mkfs") \/ Continue(i, "fsmount")
  BY DEF StageProbe, At, Unchanged
<1>2. /\ HostMove(rpc[i].at, "mark") /\ HostMove(rpc[i].at, "mkfs")
      /\ HostMove(rpc[i].at, "fsmount")
  BY <1>1 DEF HostMove
<1> QED BY <1>1, <1>2, HostEndKeeps, HostMoveKeeps

\* mkfs changes the device only.
LEMMA MkfsKeepsNode ==
  ASSUME NodeInv, JournalInv, NEW i \in VM, Mkfs(i)
  PROVE  NodeInv' /\ JournalInv'
<1>1. /\ rpc[i].at = "mkfs" /\ UNCHANGED <<lease, journal, mounts, late>>
      /\ Finish(i) \/ Continue(i, "fsmount")
  BY DEF Mkfs, At, Unchanged
<1>2. HostMove(rpc[i].at, "fsmount")
  BY <1>1 DEF HostMove
<1> QED BY <1>1, <1>2, HostEndKeeps, HostMoveKeeps

\* The file system is mounted at the staging path, under the use.
LEMMA FsMountKeepsNode ==
  ASSUME NodeInv, JournalInv, NEW i \in VM, StageFsMount(i)
  PROVE  NodeInv' /\ JournalInv'
<1> DEFINE v == rpc[i].vol
           path == rpc[i].path
           m == [vol |-> v, source |-> Device, conf |-> NoConf]
<1>1. /\ NodeType /\ NodeOK(i) /\ rpc[i].at = "fsmount"
      /\ UNCHANGED <<lease, journal, late>>
      /\ \/ Finish(i) /\ UNCHANGED mounts
         \/ Continue(i, "mark") /\ SetMount(i, path, m)
  BY DEF NodeInv, StageFsMount, At, Unchanged
<1>2. CASE Finish(i) /\ UNCHANGED mounts
  BY <1>1, <1>2, HostEndKeeps
<1>3. CASE Continue(i, "mark") /\ SetMount(i, path, m)
  <2>1. HostMove(rpc[i].at, "mark")
    BY <1>1 DEF HostMove
  <2>2. /\ JournalInv' /\ JournalAsSeen(i)' /\ PromiseHolds(i)'
        /\ rpc' \in [VM -> RPC] /\ \A j \in VM : j # i => rpc'[j] = rpc[j]
    BY <1>1, <1>3, <2>1, HostMoveOwns, HostMoveSeen, HostMoves
  <2>3. /\ Staged(i, v) /\ path = Entry(i, v).path /\ v = m.vol
        /\ ReleasesInOrder =>
             /\ Backed(lease[v], i, Entry(i, v).path, Entry(i, v).gen)
             /\ \A q \in late : q.from = i => q.op # "ReleaseUse"
    BY <1>1 DEF NodeOK, JournalAsSeen, PromiseHolds, Relying, StagePoint,
       UnstagePoint, match
  <2> HIDE DEF m, v, path
  <2>4. /\ mounts' = [j \in VM |-> mounts'[j]]
        /\ mounts'[i] = With(mounts[i], path, m)
        /\ \A j \in VM : j # i => mounts'[j] = mounts[j]
    BY <1>1, <1>3, MountTableWith
  <2>5. MountsBacked(i)' /\ MountsListed(i)' /\ LateIsHarmless(i)'
    BY <1>1, <2>3, <2>4, MountMade
  <2> QED BY <1>1, <2>2, <2>4, <2>5, OnlyMounts DEF NodeOK
<1> QED BY <1>1, <1>2, <1>3

\* Linux.Publish.
LEMMA BindKeepsNode ==
  ASSUME NodeInv, JournalInv, NEW i \in VM, LinuxBind(i)
  PROVE  NodeInv' /\ JournalInv'
<1> DEFINE v == rpc[i].vol
           target == rpc[i].target
           m == [vol |-> v, source |-> Source(i, rpc[i].path, v), conf |-> RW]
<1>1. /\ NodeType /\ NodeOK(i) /\ rpc[i].at = "bind"
      /\ UNCHANGED <<lease, journal, late>>
      /\ \/ Finish(i) /\ UNCHANGED mounts
         \/ Continue(i, "answer") /\ UNCHANGED mounts
         \/ /\ SetMount(i, target, m)
            /\ Continue(i, "remount") \/ Continue(i, "answer")
  BY DEF NodeInv, LinuxBind, At, Unchanged
<1>2. HostMove(rpc[i].at, "answer")
  BY <1>1 DEF HostMove
<1>3. CASE Finish(i) /\ UNCHANGED mounts
  BY <1>1, <1>3, HostEndKeeps
<1>4. CASE Continue(i, "answer") /\ UNCHANGED mounts
  BY <1>1, <1>2, <1>4, HostMoveKeeps
<1>5. ASSUME NEW p \in {"remount", "answer"}, SetMount(i, target, m), Continue(i, p)
      PROVE  NodeInv' /\ JournalInv'
  <2>1. /\ Staged(i, v) /\ match(Entry(i, v), rpc[i].path, rpc[i].gen)
        /\ target \in DOMAIN Entry(i, v).targets /\ v = m.vol
        /\ ReleasesInOrder =>
             /\ Backed(lease[v], i, Entry(i, v).path, Entry(i, v).gen)
             /\ \A q \in late : q.from = i => q.op # "ReleaseUse"
    BY <1>1 DEF NodeOK, JournalAsSeen, PromiseHolds, Relying, PublishPoint,
       UnstagePoint, match
  <2>2. /\ rpc' \in [VM -> RPC] /\ \A j \in VM : j # i => rpc'[j] = rpc[j]
        /\ rpc'[i].at = p /\ rpc'[i].vol = v /\ rpc'[i].path = rpc[i].path
        /\ rpc'[i].gen = rpc[i].gen /\ rpc'[i].target = target
    BY <1>1, <1>5, Continues DEF PublishPoint, UnpublishPoint
  <2>3. JournalInv'
    BY <1>1, <1>5, <2>2, PointOwns, OtherJournals DEF JournalInv, PublishPoint
  <2>4. /\ mounts' = [j \in VM |-> mounts'[j]]
        /\ mounts'[i] = With(mounts[i], target, m)
        /\ \A j \in VM : j # i => mounts'[j] = mounts[j]
    BY <1>1, <1>5, MountTableWith
  <2> HIDE DEF m
  <2>5. target \in DOMAIN mounts'[i] /\ mounts'[i][target] = m
    BY <2>4 DEF With
  <2>6. JournalAsSeen(i)'
    <3>1. MountedFrom(i, target, v)'
      BY <2>1, <2>2, <2>5 DEF MountedFrom, Mounted
    <3> QED BY <1>1, <2>1, <2>2, <3>1 DEF JournalAsSeen, StagePoint,
               PublishPoint, UnpublishPoint, UnstagePoint, Staged, Entry, match
  <2>7. PromiseHolds(i)'
    BY <2>2 DEF PromiseHolds, Relying
  <2> HIDE DEF v, target
  <2>8. MountsBacked(i)' /\ MountsListed(i)' /\ LateIsHarmless(i)'
    BY <1>1, <2>1, <2>4, MountMade
  <2> QED BY <1>1, <2>2, <2>3, <2>4, <2>6, <2>7, <2>8, OnlyMounts DEF NodeOK
<1> QED BY <1>1, <1>3, <1>4, <1>5

\* The remount changes the flag of a mount that is there.
LEMMA RemountKeepsNode ==
  ASSUME NodeInv, JournalInv, NEW i \in VM, RemountReadOnly(i)
  PROVE  NodeInv' /\ JournalInv'
<1> DEFINE t == rpc[i].target
           m == [mounts[i][t] EXCEPT !.conf = RO]
<1>1. /\ NodeType /\ NodeOK(i) /\ rpc[i].at = "remount"
      /\ UNCHANGED <<lease, journal, late>>
      /\ SetMount(i, t, m) /\ Continue(i, "answer")
  BY DEF NodeInv, RemountReadOnly, At, Unchanged
<1>2. /\ rpc' \in [VM -> RPC] /\ \A j \in VM : j # i => rpc'[j] = rpc[j]
      /\ rpc'[i].at = "answer" /\ rpc'[i].vol = rpc[i].vol
      /\ rpc'[i].path = rpc[i].path /\ rpc'[i].gen = rpc[i].gen
      /\ rpc'[i].target = t
  BY <1>1, Continues DEF PublishPoint, UnpublishPoint
<1>3. JournalInv'
  BY <1>1, <1>2, PointOwns, OtherJournals DEF JournalInv, PublishPoint
<1>4. JournalAsSeen(i)' /\ PromiseHolds(i)'
  BY <1>1, <1>2 DEF NodeOK, JournalAsSeen, PromiseHolds, Relying, StagePoint,
     PublishPoint, UnpublishPoint, UnstagePoint, Staged, Entry, match
<1>5. t \in DOMAIN mounts[i]
  BY <1>1 DEF NodeOK, JournalAsSeen, MountedFrom, Mounted
<1>6. /\ mounts' = [j \in VM |-> mounts'[j]]
      /\ mounts'[i] = With(mounts[i], t, m)
      /\ \A j \in VM : j # i => mounts'[j] = mounts[j]
  BY <1>1, MountTableWith
<1>7. DOMAIN mounts'[i] = DOMAIN mounts[i] /\ mounts'[i][t] = m
      /\ \A p \in DOMAIN mounts[i] : p # t => mounts'[i][p] = mounts[i][p]
  BY <1>5, <1>6 DEF With
<1>8. MountsBacked(i)' /\ MountsListed(i)' /\ LateIsHarmless(i)'
  <2>1. \A p \in DOMAIN mounts[i] : mounts'[i][p].vol = mounts[i][p].vol
    <3>1. m.vol = mounts[i][t].vol
      OBVIOUS
    <3> QED BY <1>7, <3>1
  <2>2. MountsBacked(i)'
    BY <1>1, <1>7, <2>1 DEF NodeOK, MountsBacked, Staged, Entry, Backed
  <2>3. MountsListed(i)'
    BY <1>1, <1>7, <2>1 DEF NodeOK, MountsListed, Staged, Entry
  <2>4. LateIsHarmless(i)'
    BY <1>1, <1>7, <2>1 DEF NodeOK, LateIsHarmless, NoMountOf
  <2> QED BY <2>2, <2>3, <2>4
<1> QED BY <1>1, <1>2, <1>3, <1>4, <1>6, <1>8, OnlyMounts DEF NodeOK

\* When it fails the mount goes.
LEMMA RemountFailsKeepsNode ==
  ASSUME NodeInv, JournalInv, NEW i \in VM, RemountFails(i)
  PROVE  NodeInv' /\ JournalInv'
<1>1. /\ NodeType /\ NodeOK(i) /\ Finish(i) /\ RemoveMount(i, rpc[i].target)
      /\ UNCHANGED <<lease, journal, late>>
  BY DEF NodeInv, RemountFails
<1>2. /\ rpc' \in [VM -> RPC] /\ \A j \in VM : j # i => rpc'[j] = rpc[j]
      /\ JournalAsSeen(i)' /\ PromiseHolds(i)'
  BY <1>1, Ends, Idle
<1>3. /\ mounts' = [j \in VM |-> mounts'[j]]
      /\ DOMAIN mounts'[i] = DOMAIN mounts[i] \ {rpc[i].target}
      /\ \A p \in DOMAIN mounts'[i] : mounts'[i][p] = mounts[i][p]
      /\ \A j \in VM : j # i => mounts'[j] = mounts[j]
  BY <1>1, MountTableWithout
<1>4. MountsBacked(i)' /\ MountsListed(i)' /\ LateIsHarmless(i)'
  BY <1>1, <1>3, MountsGo
<1>5. JournalInv'
  BY <1>1, <1>2, EndOwns, OtherJournals DEF JournalInv
<1> QED BY <1>1, <1>2, <1>3, <1>4, <1>5, OnlyMounts DEF NodeOK

\* NodeExpandVolume.
LEMMA ExpandKeepsNode ==
  ASSUME NodeInv, JournalInv, device \in [Volume -> DeviceRecord], NEW i \in VM,
         \/ \E v \in Volume, path \in Path, need \in 2 .. MaxCap :
              ExpandBegin(i, v, path, need)
         \/ ExpandCheck(i)
  PROVE  NodeInv' /\ JournalInv'
<1>1. NodeType /\ NodeOK(i) /\ JournalOK(i) /\ UNCHANGED <<lease, journal, mounts, late>>
  BY DEF NodeInv, JournalInv, ExpandBegin, ExpandCheck
<1>2. ASSUME rpc' \in [VM -> RPC], \A j \in VM : j # i => rpc'[j] = rpc[j],
             rpc'[i].at \in ExpandPoint
      PROVE  NodeInv' /\ JournalInv'
  <2>1. JournalOK(i)'
    BY <1>1, <1>2, JournalGoesOn DEF ExpandPoint, PublishPoint
  <2>2. JournalAsSeen(i)' /\ PromiseHolds(i)'
    BY <1>2 DEF JournalAsSeen, PromiseHolds, Relying, ExpandPoint, StagePoint,
       PublishPoint, UnpublishPoint, UnstagePoint
  <2> QED BY <1>1, <1>2, <2>1, <2>2, OnlyRPC, OtherJournals
<1>3. ASSUME NEW v \in Volume, NEW path \in Path, NEW need \in 2 .. MaxCap,
             ExpandBegin(i, v, path, need)
      PROVE  NodeInv' /\ JournalInv'
  <2> DEFINE r == [at |-> "check", vol |-> v, path |-> Entry(i, v).path,
                   gen |-> Entry(i, v).gen, need |-> need]
  <2>1. Entry(i, v).path \in Path /\ Entry(i, v).gen \in Nat
    BY <1>1, <1>3, EntryTyped DEF ExpandBegin
  <2>2. need \in Nat
    BY LinuxNodeAssumption
  <2>3. r \in RPC /\ r.at \in ExpandPoint /\ Start(i, r)
    BY <1>3, <2>1, <2>2 DEF ExpandBegin, RPC, ExpandRPC, ExpandPoint
  <2> HIDE DEF r
  <2>4. /\ rpc' \in [VM -> RPC] /\ rpc'[i] = r
        /\ \A j \in VM : j # i => rpc'[j] = rpc[j]
    BY <1>1, <2>3, Starts
  <2> QED BY <1>2, <2>3, <2>4
<1>4. CASE ExpandCheck(i)
  <2> DEFINE v == rpc[i].vol
             r == [rpc[i] EXCEPT !.at = "resize", !.need = device[v].noted]
  <2>1. rpc[i].at = "check" /\ rpc[i] \in ExpandRPC /\ v \in Volume
    BY <1>1, <1>4, Shapes DEF ExpandCheck, At, ExpandPoint
  <2>2. device[v].noted \in Nat
    BY <2>1, LinuxNodeAssumption DEF DeviceRecord
  <2>3. r \in RPC /\ r.at = "resize"
    BY <2>1, <2>2 DEF RPC, ExpandRPC, ExpandPoint
  <2>4. Finish(i) \/ rpc' = [rpc EXCEPT ![i] = r]
    BY <1>4 DEF ExpandCheck
  <2>5. CASE Finish(i)
    BY <1>1, <2>5, HostEndKeeps
  <2>6. CASE rpc' = [rpc EXCEPT ![i] = r]
    <3> HIDE DEF r
    <3>1. /\ rpc' \in [VM -> RPC] /\ rpc'[i] = r
          /\ \A j \in VM : j # i => rpc'[j] = rpc[j]
      BY <1>1, <2>3, <2>6 DEF NodeType
    <3> QED BY <1>2, <2>3, <3>1 DEF ExpandPoint
  <2> QED BY <2>4, <2>5, <2>6
<1> QED BY <1>3, <1>4

\* Growth is of the device and the file system.
LEMMA ResizeKeepsNode ==
  ASSUME NodeInv, JournalInv, NEW i \in VM,
         ExpandResize(i) \/ ExpandNote(i) \/ PublishAnswer(i)
           \/ MkfsKilled(i) \/ HostBreak(i)
  PROVE  NodeInv' /\ JournalInv'
<1>1. UNCHANGED <<lease, journal, mounts, late>>
  BY DEF ExpandResize, ExpandNote, PublishAnswer, MkfsKilled, HostBreak, Unchanged
<1>2. Finish(i) \/ (rpc[i].at = "resize" /\ Continue(i, "note"))
  BY DEF ExpandResize, ExpandNote, PublishAnswer, MkfsKilled, HostBreak, At
<1>3. CASE Finish(i)
  BY <1>1, <1>3, HostEndKeeps
<1>4. CASE rpc[i].at = "resize" /\ Continue(i, "note")
  <2>1. HostMove(rpc[i].at, "note")
    BY <1>4 DEF HostMove
  <2> QED BY <1>1, <1>4, <2>1, HostMoveKeeps
<1> QED BY <1>2, <1>3, <1>4

\* The steps that are those of NodeAgent, with something of the host besides.
AsNodeAgent ==
  \/ \E i \in VM :
       \/ LinuxAcquire(i) \/ LinuxMark(i) \/ LinuxReady(i) \/ AgentStep(i)
       \/ LinuxReboot(i)
       \/ (Break(i) \/ TimeOut(i)) /\ UNCHANGED host
       \/ \E v \in Volume, path \in Path :
            \/ \E g \in 1 .. lease[v].gen :
                 \/ LinuxStageBegin(i, v, path, g)
                 \/ \E target \in Path, conf \in Conf :
                      LinuxPublishBegin(i, v, path, g, target, conf)
            \/ LinuxUnpublishBegin(i, v, path)
            \/ LinuxUnstageBegin(i, v, path)
       \/ \E target \in Path : PodWrites(i, target)
  \/ \E v \in Volume : CloudStep(v) \/ Damage(v)
  \/ \E q \in late : Deliver(q) /\ UNCHANGED host
  \/ UNCHANGED linuxVars

\* They are steps of NodeAgent, or change none of its variables.
LEMMA NodeAgentSteps ==
  ASSUME AsNodeAgent PROVE [Next]_vars
<1>1. ASSUME NEW i \in VM,
             \/ LinuxAcquire(i) \/ LinuxMark(i) \/ LinuxReady(i) \/ AgentStep(i)
      PROVE  RPCStep(i)
  BY <1>1 DEF LinuxAcquire, LinuxMark, LinuxReady, AgentStep, RPCStep,
     StageStep, PublishStep
<1>2. ASSUME NEW i \in VM,
             LinuxReboot(i) \/ ((Break(i) \/ TimeOut(i)) /\ UNCHANGED host)
      PROVE  Break(i) \/ TimeOut(i) \/ Reboot(i)
  BY <1>2 DEF LinuxReboot
<1>3. ASSUME NEW i \in VM, NEW v \in Volume, NEW path \in Path,
             \/ \E g \in 1 .. lease[v].gen :
                  \/ LinuxStageBegin(i, v, path, g)
                  \/ \E target \in Path, conf \in Conf :
                       LinuxPublishBegin(i, v, path, g, target, conf)
             \/ LinuxUnpublishBegin(i, v, path)
             \/ LinuxUnstageBegin(i, v, path)
      PROVE  KubeletCall(i)
  BY <1>3 DEF LinuxStageBegin, LinuxPublishBegin, LinuxUnpublishBegin,
     LinuxUnstageBegin, KubeletCall
<1>4. ASSUME NEW v \in Volume, CloudStep(v) \/ Damage(v)
      PROVE  PlatformStep(v) \/ UNCHANGED vars
  BY <1>4 DEF CloudStep, PlatformStep, LinuxTakeDisk, CloudGrows, PlatformNotes,
     VMNotices, Damage
<1>5. ASSUME NEW i \in VM, NEW target \in Path, PodWrites(i, target)
      PROVE  UNCHANGED vars
  BY <1>5 DEF PodWrites
<1>6. UNCHANGED linuxVars => UNCHANGED vars
  BY DEF linuxVars
<1> QED BY <1>1, <1>2, <1>3, <1>4, <1>5, <1>6 DEF AsNodeAgent, Next

\* The others are the host's own.
HostOnly(i) ==
  \/ StageProbe(i) \/ Mkfs(i) \/ StageFsMount(i) \/ LinuxBind(i)
  \/ RemountReadOnly(i) \/ PublishAnswer(i) \/ ExpandCheck(i)
  \/ ExpandResize(i) \/ ExpandNote(i)
  \/ MkfsKilled(i) \/ RemountFails(i) \/ HostBreak(i)
  \/ \E v \in Volume, path \in Path, need \in 2 .. MaxCap :
       ExpandBegin(i, v, path, need)

\* Every step is the one or the other.
LEMMA LinuxSteps ==
  ASSUME [LinuxNext]_linuxVars
  PROVE  AsNodeAgent \/ \E i \in VM : HostOnly(i)
<1>1. ASSUME NEW i \in VM, LinuxKubeletCall(i)
      PROVE  AsNodeAgent \/ HostOnly(i)
  <2>1. PICK v \in Volume, path \in Path :
          \/ \E g \in 1 .. lease[v].gen :
               \/ LinuxStageBegin(i, v, path, g)
               \/ \E target \in Path, conf \in Conf :
                    LinuxPublishBegin(i, v, path, g, target, conf)
          \/ LinuxUnpublishBegin(i, v, path)
          \/ LinuxUnstageBegin(i, v, path)
          \/ \E need \in 2 .. MaxCap : ExpandBegin(i, v, path, need)
    BY <1>1, Zenon DEF LinuxKubeletCall
  <2> QED BY <2>1, Zenon DEF AsNodeAgent, HostOnly
<1>2. ASSUME NEW i \in VM, LinuxRPCStep(i) \/ HostTrouble(i)
      PROVE  AsNodeAgent \/ HostOnly(i)
  <2>1. CASE \/ LinuxAcquire(i) \/ LinuxMark(i) \/ LinuxReady(i) \/ AgentStep(i)
             \/ LinuxReboot(i)
             \/ (Break(i) \/ TimeOut(i)) /\ UNCHANGED host
    BY <2>1, Zenon DEF AsNodeAgent
  <2>2. CASE \/ StageProbe(i) \/ Mkfs(i) \/ StageFsMount(i) \/ LinuxBind(i)
             \/ RemountReadOnly(i) \/ PublishAnswer(i) \/ ExpandCheck(i)
             \/ ExpandResize(i) \/ ExpandNote(i)
             \/ MkfsKilled(i) \/ RemountFails(i) \/ HostBreak(i)
    BY <2>2, Zenon DEF HostOnly
  <2>3. CASE LinuxRPCStep(i)
    BY <2>1, <2>2, <2>3, SMT DEF LinuxRPCStep, HostStep
  <2>4. CASE HostTrouble(i)
    BY <2>1, <2>2, <2>4, Zenon DEF HostTrouble
  <2> QED BY <1>2, <2>3, <2>4
<1>3. CASE \/ \E i \in VM, target \in Path : PodWrites(i, target)
           \/ \E v \in Volume : CloudStep(v) \/ Damage(v)
           \/ \E q \in late : Deliver(q) /\ UNCHANGED host
           \/ UNCHANGED linuxVars
  BY <1>3, Zenon DEF AsNodeAgent
<1> QED BY <1>1, <1>2, <1>3, Zenon DEF LinuxNext

\* So the agents' invariants hold on the Linux host.
LEMMA NodeStepOnLinux ==
  ASSUME NodeInv, JournalInv, device \in [Volume -> DeviceRecord],
         [LinuxNext]_linuxVars
  PROVE  NodeInv' /\ JournalInv'
<1>1. CASE AsNodeAgent
  BY <1>1, NodeAgentSteps, NodeStep, JournalStep
<1>2. ASSUME NEW i \in VM, HostOnly(i) PROVE NodeInv' /\ JournalInv'
  BY <1>2, ProbeKeepsNode, MkfsKeepsNode, FsMountKeepsNode, BindKeepsNode,
     RemountKeepsNode, RemountFailsKeepsNode, ExpandKeepsNode, ResizeKeepsNode
     DEF HostOnly
<1> QED BY <1>1, <1>2, LinuxSteps


(***************************************************************************)
(* Frames.                                                                 *)
(***************************************************************************)
\* What a VM knows of its devices is not touched by steps that neither give
\* a grant back nor touch a device while the VM may format it.
LEMMA KnownStays ==
  ASSUME NodeType, NEW j \in VM, LinuxOK(j),
         journal'[j] = journal[j], mounts'[j] = mounts[j], rpc'[j] = rpc[j],
         granted'[j] = granted[j], published'[j] = published[j], mode' = mode,
         \A v \in Volume : ~device[v].allowFormat => ~device'[v].allowFormat,
         rpc[j].at \in {"record", "mount", "mkfs"} =>
           device'[rpc[j].vol].allowFormat = device[rpc[j].vol].allowFormat,
         rpc[j].at = "mkfs" =>
           device'[rpc[j].vol].content = device[rpc[j].vol].content
  PROVE  LinuxOK(j)'
<1>1. rpc[j].at = "ready" => rpc[j].vol \in Volume
  BY Shapes
<1>2. GrantIsFresh(j)'
  BY <1>1 DEF LinuxOK, GrantIsFresh, Block, StageMounted, MountedFrom, Mounted
<1>3. ReadyIsMarked(j)'
  <2>1. \A v \in DOMAIN journal[j] : v \in Volume
    BY EntryTyped DEF Staged
  <2> QED BY <2>1 DEF LinuxOK, ReadyIsMarked, Entry
<1>4. PublishedIsTracked(j)'
  BY DEF LinuxOK, PublishedIsTracked, Entry
<1> QED BY <1>2, <1>3, <1>4 DEF LinuxOK

\* The variables of the other VMs.
OthersUntouched(i) ==
  \A j \in VM : j # i =>
    /\ journal'[j] = journal[j] /\ mounts'[j] = mounts[j] /\ rpc'[j] = rpc[j]
    /\ granted'[j] = granted[j] /\ published'[j] = published[j]

\* A step of one VM that touches no device.
LEMMA LinuxLocal ==
  ASSUME NodeType, LinuxInv, NEW i \in VM, UNCHANGED <<device, mode>>,
         LinuxType', MountIsFS', LinuxOK(i)', OthersUntouched(i)
  PROVE  LinuxInv'
<1>1. ASSUME NEW j \in VM PROVE LinuxOK(j)'
  BY KnownStays DEF LinuxInv, OthersUntouched
<1> QED BY <1>1 DEF LinuxInv, DataIsProtected, GrantSpentOnFS

\* What is mounted stays in order when mounts go,
LEMMA MountsGoFS ==
  ASSUME MountIsFS, NEW i \in VM, UNCHANGED <<device, mode>>,
         \A p \in DOMAIN mounts'[i] :
           p \in DOMAIN mounts[i] /\ mounts'[i][p] = mounts[i][p],
         \A j \in VM : j # i => mounts'[j] = mounts[j]
  PROVE  MountIsFS'
<1> SUFFICES ASSUME NEW j \in VM, NEW p \in DOMAIN mounts'[j]
             PROVE  LET m == mounts'[j][p]
                    IN m.source = Device /\ mode[m.vol] # "block" =>
                         device[m.vol].content = "fs"
  BY DEF MountIsFS, Block
<1>1. p \in DOMAIN mounts[j] /\ mounts'[j][p] = mounts[j][p]
  OBVIOUS
<1> QED BY <1>1 DEF MountIsFS, Block

\* and when one is made of what is a file system.
LEMMA MountMadeFS ==
  ASSUME MountIsFS, NEW i \in VM, UNCHANGED <<device, mode>>, NEW path, NEW m,
         mounts'[i] = With(mounts[i], path, m),
         m.source = Device /\ ~Block(m.vol) => device[m.vol].content = "fs",
         \A j \in VM : j # i => mounts'[j] = mounts[j]
  PROVE  MountIsFS'
<1>1. \A p \in DOMAIN mounts'[i] :
        mounts'[i][p] = m \/ (p \in DOMAIN mounts[i] /\ mounts'[i][p] = mounts[i][p])
  BY DEF With
<1> SUFFICES ASSUME NEW j \in VM, NEW p \in DOMAIN mounts'[j]
             PROVE  LET n == mounts'[j][p]
                    IN n.source = Device /\ mode[n.vol] # "block" =>
                         device[n.vol].content = "fs"
  BY DEF MountIsFS, Block
<1>2. mounts'[j][p] = m \/ (p \in DOMAIN mounts[j] /\ mounts'[j][p] = mounts[j][p])
  BY <1>1
<1> QED BY <1>2 DEF MountIsFS, Block

\* An RPC that has ended knows nothing.
LEMMA LinuxIdle ==
  ASSUME NEW i \in VM, LinuxOK(i), rpc'[i] = NoRPC,
         UNCHANGED <<journal, device, mode>>, published'[i] = published[i]
  PROVE  LinuxOK(i)'
<1>1. rpc'[i].at = "idle"
  BY DEF NoRPC
<1> QED BY <1>1 DEF LinuxOK, GrantIsFresh, ReadyIsMarked, PublishedIsTracked,
                    Entry, UnpublishPoint

\* An RPC that ends.
LEMMA LinuxEnds ==
  ASSUME NodeType, LinuxInv, NEW i \in VM, Finish(i),
         UNCHANGED <<journal, mounts, device, mode, granted, published>>
  PROVE  LinuxInv'
<1>1. rpc'[i] = NoRPC /\ \A j \in VM : j # i => rpc'[j] = rpc[j]
  BY Ends
<1>2. LinuxOK(i)'
  BY <1>1, LinuxIdle DEF LinuxInv
<1>3. LinuxType' /\ MountIsFS'
  BY DEF LinuxInv, LinuxType, MountIsFS, Block
<1> QED BY <1>1, <1>2, <1>3, LinuxLocal DEF OthersUntouched

\* An RPC that goes on to a point at which nothing is known of the device.
LEMMA LinuxGoesOn ==
  ASSUME NodeType, LinuxInv, NEW i \in VM,
         rpc'[i].at \notin {"record", "mount", "mkfs", "fsmount", "mark", "ready",
                            "unbind", "untrack"},
         \A j \in VM : j # i => rpc'[j] = rpc[j],
         UNCHANGED <<journal, mounts, device, mode, granted, published>>
  PROVE  LinuxInv'
<1>1. LinuxOK(i)'
  BY DEF LinuxInv, LinuxOK, GrantIsFresh, ReadyIsMarked, PublishedIsTracked,
     Entry, UnpublishPoint
<1>2. LinuxType' /\ MountIsFS'
  BY DEF LinuxInv, LinuxType, MountIsFS, Block
<1> QED BY <1>1, <1>2, LinuxLocal DEF OthersUntouched

(***************************************************************************)
(* Linux.Stage.                                                            *)
(***************************************************************************)
LEMMA AcquireKeeps ==
  ASSUME NodeInv, LinuxInv, NEW i \in VM, LinuxAcquire(i)
  PROVE  LinuxInv'
<1>1. /\ NodeType /\ rpc[i].at = "acquire" /\ LinuxOK(i)
      /\ UNCHANGED <<journal, mounts, device, mode, published>>
      /\ granted' = [granted EXCEPT ![i] = device[rpc[i].vol].allowFormat]
      /\ Continue(i, "record") \/ Finish(i)
  BY DEF NodeInv, LinuxInv, LinuxAcquire, StageAcquire, At
<1>2. device[rpc[i].vol].allowFormat \in BOOLEAN
  <2>1. rpc[i].vol \in Volume
    BY <1>1, Shapes
  <2> QED BY <2>1 DEF LinuxInv, LinuxType, DeviceRecord
<1>3. /\ granted' \in [VM -> BOOLEAN]
      /\ granted'[i] = device[rpc[i].vol].allowFormat
      /\ \A j \in VM : j # i => granted'[j] = granted[j]
  BY <1>1, <1>2 DEF LinuxInv, LinuxType
<1>4. LinuxType' /\ MountIsFS'
  BY <1>1, <1>3 DEF LinuxInv, LinuxType, MountIsFS, Block
<1>5. LinuxOK(i)' /\ \A j \in VM : j # i => rpc'[j] = rpc[j]
  <2>1. CASE Continue(i, "record")
    <3>1. /\ rpc'[i].at = "record" /\ rpc'[i].vol = rpc[i].vol
          /\ \A j \in VM : j # i => rpc'[j] = rpc[j]
      BY <1>1, <2>1, Continues DEF StagePoint
    <3> QED BY <1>1, <1>3, <3>1 DEF LinuxOK, GrantIsFresh, ReadyIsMarked,
               PublishedIsTracked, Entry, UnpublishPoint
  <2>2. CASE Finish(i)
    BY <1>1, <2>2, Ends, LinuxIdle
  <2> QED BY <1>1, <2>1, <2>2
<1> QED BY <1>1, <1>3, <1>4, <1>5, LinuxLocal DEF OthersUntouched

\* Where formatRequired decides: a blank device with the grant.
LEMMA ProbeKeeps ==
  ASSUME NodeInv, LinuxInv, NEW i \in VM, StageProbe(i)
  PROVE  LinuxInv'
<1> DEFINE v == rpc[i].vol
<1>1. /\ NodeType /\ rpc[i].at = "mount" /\ LinuxOK(i)
      /\ UNCHANGED <<journal, mounts, device, mode, granted, published>>
  BY DEF NodeInv, LinuxInv, StageProbe, At, Unchanged
<1>2. \/ Finish(i)
      \/ /\ Continue(i, "mark")
         /\ Block(v) \/ StageMounted(i, rpc[i].path, v)
      \/ /\ Continue(i, "mkfs") /\ ~Block(v)
         /\ device[v].content = "blank" /\ granted[i]
      \/ Continue(i, "fsmount") /\ ~Block(v)
  BY DEF StageProbe, StagedBefore, FormatRequired
<1>3. CASE Finish(i)
  BY <1>1, <1>3, LinuxEnds
<1>4. ASSUME NEW p \in {"mark", "mkfs", "fsmount"}, Continue(i, p),
             p = "mark" => Block(v) \/ StageMounted(i, rpc[i].path, v),
             p # "mark" => ~Block(v),
             p = "mkfs" => device[v].content = "blank" /\ granted[i]
      PROVE  LinuxInv'
  <2>1. /\ rpc'[i].at = p /\ rpc'[i].vol = v /\ rpc'[i].path = rpc[i].path
        /\ \A j \in VM : j # i => rpc'[j] = rpc[j]
    BY <1>1, <1>4, Continues DEF StagePoint, UnpublishPoint
  <2>2. GrantIsFresh(i)'
    BY <1>1, <1>4, <2>1 DEF LinuxOK, GrantIsFresh, Block, StageMounted,
       MountedFrom, Mounted
  <2>3. LinuxOK(i)'
    BY <1>1, <1>4, <2>1, <2>2 DEF LinuxOK, ReadyIsMarked, PublishedIsTracked,
       Entry, UnpublishPoint
  <2>4. LinuxType' /\ MountIsFS'
    BY <1>1 DEF LinuxInv, LinuxType, MountIsFS, Block
  <2> QED BY <1>1, <2>1, <2>3, <2>4, LinuxLocal DEF OthersUntouched
<1> QED BY <1>2, <1>3, <1>4

\* A step that changes the journal of a VM, whatever it adds being in order,
\* and whatever it drops no target the kubelet relies on.
LEMMA JournalChanges ==
  ASSUME NodeType, LinuxInv, NEW i \in VM,
         UNCHANGED <<mounts, device, mode, granted, published>>,
         \A j \in VM : j # i => journal'[j] = journal[j] /\ rpc'[j] = rpc[j],
         \A w \in DOMAIN journal'[i] : journal'[i][w].ready =>
           \/ ~device[w].allowFormat
           \/ w \in DOMAIN journal[i] /\ journal[i][w].ready,
         \A w \in DOMAIN journal[i] : \A t \in DOMAIN journal[i][w].targets :
           t \in DOMAIN published[i] =>
             w \in DOMAIN journal'[i] /\ t \in DOMAIN journal'[i][w].targets,
         rpc'[i].at \notin UnpublishPoint, GrantIsFresh(i)'
  PROVE  LinuxInv'
<1>1. LinuxOK(i)
  BY DEF LinuxInv
<1>2. ReadyIsMarked(i)'
  BY <1>1 DEF LinuxOK, ReadyIsMarked, Entry
<1>3. PublishedIsTracked(i)'
  BY <1>1 DEF LinuxOK, PublishedIsTracked, Entry
<1>4. LinuxType' /\ MountIsFS'
  BY DEF LinuxInv, LinuxType, MountIsFS, Block
<1> QED BY <1>2, <1>3, <1>4, LinuxLocal DEF OthersUntouched, LinuxOK

\* A new entry is not ready; an old one stays as it is.
LEMMA RecordKeeps ==
  ASSUME NodeInv, LinuxInv, NEW i \in VM, StageRecord(i), UNCHANGED host
  PROVE  LinuxInv'
<1> DEFINE v == rpc[i].vol
           s == IF Staged(i, v) THEN Entry(i, v)
                                ELSE NewStage(rpc[i].path, rpc[i].gen)
<1>1. /\ NodeType /\ rpc[i].at = "record" /\ GrantIsFresh(i)
      /\ UNCHANGED <<mounts, device, mode, granted, published>>
      /\ Save(i, v, s) /\ Continue(i, "mount")
  BY DEF NodeInv, LinuxInv, LinuxOK, StageRecord, At, host
<1>2. /\ rpc'[i].at = "mount" /\ rpc'[i].vol = v
      /\ \A j \in VM : j # i => rpc'[j] = rpc[j]
  BY <1>1, Continues DEF StagePoint, UnpublishPoint
<1>3. GrantIsFresh(i)'
  BY <1>1, <1>2 DEF GrantIsFresh
<1>4. /\ journal'[i] = With(journal[i], v, s)
      /\ \A j \in VM : j # i => journal'[j] = journal[j]
  BY <1>1 DEF Save, NodeType
<1>5. \A w \in DOMAIN journal[i] :
        w \in DOMAIN journal'[i] /\ journal'[i][w] = journal[i][w]
  BY <1>4 DEF With, Staged, Entry
<1>6. \A w \in DOMAIN journal'[i] :
        journal'[i][w].ready => w \in DOMAIN journal[i] /\ journal[i][w].ready
  BY <1>4 DEF With, Staged, Entry, NewStage
<1> QED BY <1>1, <1>2, <1>3, <1>4, <1>5, <1>6, JournalChanges
        DEF UnpublishPoint

\* A stage becomes ready after MarkInitialized.
LEMMA ReadyKeeps ==
  ASSUME NodeInv, LinuxInv, NEW i \in VM, LinuxReady(i)
  PROVE  LinuxInv'
<1> DEFINE v == rpc[i].vol
           s == [Entry(i, v) EXCEPT !.ready = TRUE]
<1>1. /\ NodeType /\ rpc[i].at = "ready" /\ GrantIsFresh(i)
      /\ UNCHANGED <<mounts, device, mode, granted, published>>
      /\ Save(i, v, s) /\ Finish(i) /\ Staged(i, v)
  BY DEF NodeInv, NodeOK, JournalAsSeen, StagePoint, LinuxInv, LinuxOK,
     LinuxReady, StageReady, At
<1>2. /\ rpc'[i] = NoRPC /\ rpc'[i].at = "idle"
      /\ \A j \in VM : j # i => rpc'[j] = rpc[j]
  BY <1>1, Ends DEF NoRPC
<1>3. GrantIsFresh(i)' /\ ~device[v].allowFormat
  BY <1>1, <1>2 DEF GrantIsFresh
<1>4. /\ journal'[i] = With(journal[i], v, s)
      /\ \A j \in VM : j # i => journal'[j] = journal[j]
      /\ Entry(i, v) \in JournalEntry
  BY <1>1, EntryTyped DEF Save, NodeType
<1>5. \A w \in DOMAIN journal[i] :
        /\ w \in DOMAIN journal'[i]
        /\ journal'[i][w].targets = journal[i][w].targets
        /\ w # v => journal'[i][w] = journal[i][w]
  BY <1>4 DEF With, Entry, JournalEntry
<1>6. DOMAIN journal'[i] = DOMAIN journal[i]
  BY <1>1, <1>4 DEF With, Staged
<1> QED BY <1>1, <1>2, <1>3, <1>4, <1>5, <1>6, JournalChanges
        DEF UnpublishPoint

\* Between the platform's yes and the mount no other VM holds the volume.
LEMMA OneRelies ==
  ASSUME NodeInv, ReleasesInOrder, NEW i \in VM, NEW j \in VM, j # i,
         rpc[i].at \in Relying, rpc[j].at \in Relying
  PROVE  rpc[i].vol # rpc[j].vol
BY LeaseAssumption DEF NodeInv, NodeOK, PromiseHolds, Backed

\* What is mounted is of a volume.
LEMMA MountedVolume ==
  ASSUME NodeInv, NEW j \in VM, NEW p \in DOMAIN mounts[j]
  PROVE  mounts[j][p].vol \in Volume
<1>1. NodeType /\ MountsListed(j)
  BY DEF NodeInv, NodeOK
<1> QED BY <1>1, EntryTyped DEF MountsListed

\* Where the device of one volume changes, known to a VM at most by its RPC.
LEMMA DeviceChanges ==
  ASSUME NodeInv, LinuxInv, NEW i \in VM, NEW v \in Volume, NEW d \in DeviceRecord,
         SetDevice(v, d), UNCHANGED <<journal, mounts, mode, granted, published>>,
         \A j \in VM : j # i => rpc'[j] = rpc[j],
         \A j \in VM : j # i /\ rpc[j].vol = v /\ rpc[j].at = "mkfs" =>
           d.content = device[v].content,
         d.allowFormat = device[v].allowFormat,
         d.data => d.content = "other" \/ ~d.allowFormat,
         device[v].content = "fs" => d.content = "fs",
         mode[v] = "mount" /\ ~d.allowFormat => d.content = "fs" \/ d.data,
         rpc'[i].at \notin UnpublishPoint, GrantIsFresh(i)'
  PROVE  LinuxInv'
<1>1. device \in [Volume -> DeviceRecord]
  BY DEF LinuxInv, LinuxType
<1>2. /\ device' \in [Volume -> DeviceRecord] /\ device'[v] = d
      /\ \A w \in Volume : w # v => device'[w] = device[w]
  BY <1>1 DEF SetDevice
<1>3. LinuxType'
  BY <1>2 DEF LinuxInv, LinuxType
<1>4. DataIsProtected'
  BY <1>2 DEF LinuxInv, DataIsProtected
<1>5. GrantSpentOnFS'
  BY <1>2 DEF LinuxInv, GrantSpentOnFS
<1>6. MountIsFS'
  <2>1. \A w \in Volume :
          device[w].content = "fs" => device'[w].content = "fs"
    BY <1>2
  <2>2. \A j \in VM : \A p \in DOMAIN mounts[j] : mounts[j][p].vol \in Volume
    BY MountedVolume
  <2> QED BY <2>1, <2>2 DEF LinuxInv, MountIsFS, Block
<1>7. ASSUME NEW j \in VM, j # i PROVE LinuxOK(j)'
  <2>1. NodeType /\ LinuxOK(j) /\ rpc'[j] = rpc[j]
    BY <1>7 DEF NodeInv, LinuxInv
  <2>2. \A w \in Volume : device'[w].allowFormat = device[w].allowFormat
    BY <1>2
  <2>3. rpc[j].at \in {"record", "mount", "mkfs"} => rpc[j].vol \in Volume
    BY <2>1, Shapes
  <2>4. rpc[j].at = "mkfs" =>
          device'[rpc[j].vol].content = device[rpc[j].vol].content
    BY <1>2, <1>7, <2>3
  <2> QED BY <1>2, <2>1, <2>2, <2>3, <2>4, KnownStays
<1>8. LinuxOK(i)'
  <2>1. LinuxOK(i) /\ \A w \in DOMAIN journal[i] : w \in Volume
    BY EntryTyped DEF NodeInv, LinuxInv, Staged
  <2> QED BY <1>2, <2>1 DEF LinuxOK, ReadyIsMarked, PublishedIsTracked, Entry
<1> QED BY <1>3, <1>4, <1>5, <1>6, <1>7, <1>8 DEF LinuxInv

\* What mkfs makes is a device again.
LEMMA FormatTyped ==
  ASSUME NEW d \in DeviceRecord
  PROVE  /\ Formatted(d) \in DeviceRecord
         /\ Formatted(d).content = "fs" /\ ~Formatted(d).data
         /\ Formatted(d).allowFormat = d.allowFormat
         /\ Enlarged(d) \in DeviceRecord
<1> USE LinuxNodeAssumption
<1>1. d.seen \in 0 .. MaxCap
  BY DEF DeviceRecord
<1> QED BY <1>1 DEF Formatted, Enlarged, DeviceRecord

\* mkfs runs on a blank device, for the VM that has the volume.
LEMMA MkfsKeeps ==
  ASSUME NodeInv, LinuxInv, ReleasesInOrder, NEW i \in VM, Mkfs(i)
  PROVE  LinuxInv'
<1> DEFINE v == rpc[i].vol
           d == Formatted(device[v])
<1>1. /\ NodeType /\ rpc[i].at = "mkfs" /\ GrantIsFresh(i)
      /\ UNCHANGED <<journal, mounts, mode, granted, published>>
      /\ \/ Continue(i, "fsmount") /\ SetDevice(v, d)
         \/ Finish(i) /\ UNCHANGED device
  BY DEF NodeInv, LinuxInv, LinuxOK, Mkfs, At, Unchanged
<1>2. CASE Finish(i) /\ UNCHANGED device
  BY <1>1, <1>2, LinuxEnds
<1>3. CASE Continue(i, "fsmount") /\ SetDevice(v, d)
  <2>1. /\ rpc'[i].at = "fsmount" /\ rpc'[i].vol = v
        /\ \A j \in VM : j # i => rpc'[j] = rpc[j]
    BY <1>1, <1>3, Continues DEF StagePoint, UnpublishPoint
  <2>2. v \in Volume /\ device[v] \in DeviceRecord
    BY <1>1, Shapes DEF LinuxInv, LinuxType
  <2>3. /\ d \in DeviceRecord /\ d.content = "fs" /\ ~d.data
        /\ d.allowFormat = device[v].allowFormat
    BY <2>2, FormatTyped
  <2>4. ~Block(v) /\ UNCHANGED mode
    BY <1>1 DEF GrantIsFresh
  <2>5. GrantIsFresh(i)'
    BY <2>1, <2>4 DEF GrantIsFresh, Block
  <2>6. \A j \in VM : j # i /\ rpc[j].vol = v => rpc[j].at # "mkfs"
    BY <1>1, OneRelies DEF Relying
  <2> HIDE DEF d
  <2> QED BY <1>1, <1>3, <2>1, <2>2, <2>3, <2>5, <2>6, DeviceChanges
          DEF UnpublishPoint
<1> QED BY <1>1, <1>2, <1>3

\* So it does when it is killed.
LEMMA MkfsKilledKeeps ==
  ASSUME NodeInv, LinuxInv, ReleasesInOrder, NEW i \in VM, MkfsKilled(i)
  PROVE  LinuxInv'
<1> DEFINE v == rpc[i].vol
<1>1. PICK c \in {"blank", "broken"} : SetDevice(v, HalfFormatted(device[v], c))
  BY DEF MkfsKilled
<1> DEFINE d == HalfFormatted(device[v], c)
<1>2. /\ NodeType /\ rpc[i].at = "mkfs" /\ GrantIsFresh(i) /\ Finish(i)
      /\ UNCHANGED <<journal, mounts, mode, granted, published>>
  BY DEF NodeInv, LinuxInv, LinuxOK, MkfsKilled, At
<1>3. /\ rpc'[i].at = "idle" /\ \A j \in VM : j # i => rpc'[j] = rpc[j]
  BY <1>2, Ends DEF NoRPC
<1>4. v \in Volume /\ device[v] \in DeviceRecord
  BY <1>2, Shapes DEF LinuxInv, LinuxType
<1>5. device[v].content = "blank" /\ device[v].allowFormat
  <2>1. granted[i] /\ device[v].content = "blank"
    BY <1>2 DEF GrantIsFresh
  <2> QED BY <1>2, <2>1 DEF GrantIsFresh
<1>6. /\ d \in DeviceRecord /\ ~d.data
      /\ d.allowFormat = device[v].allowFormat
  BY <1>4, LinuxNodeAssumption DEF HalfFormatted, DeviceRecord
<1>7. GrantIsFresh(i)'
  BY <1>3 DEF GrantIsFresh
<1>8. \A j \in VM : j # i /\ rpc[j].vol = v => rpc[j].at # "mkfs"
  BY <1>2, OneRelies DEF Relying
<1>9. SetDevice(v, d)
  BY <1>1
<1> HIDE DEF d
<1> QED BY <1>2, <1>3, <1>4, <1>5, <1>6, <1>7, <1>8, <1>9, DeviceChanges
        DEF UnpublishPoint

\* Only a file system is mounted.
LEMMA FsMountKeeps ==
  ASSUME NodeInv, LinuxInv, NEW i \in VM, StageFsMount(i)
  PROVE  LinuxInv'
<1> DEFINE v == rpc[i].vol
           m == [vol |-> v, source |-> Device, conf |-> NoConf]
<1>1. /\ NodeType /\ rpc[i].at = "fsmount" /\ LinuxOK(i)
      /\ UNCHANGED <<journal, device, mode, granted, published>>
      /\ \/ /\ Continue(i, "mark") /\ SetMount(i, rpc[i].path, m)
            /\ device[v].content = "fs"
         \/ Finish(i) /\ UNCHANGED mounts
  BY DEF NodeInv, LinuxInv, StageFsMount, At, Unchanged
<1>2. CASE Finish(i) /\ UNCHANGED mounts
  BY <1>1, <1>2, LinuxEnds
<1>3. CASE /\ Continue(i, "mark") /\ SetMount(i, rpc[i].path, m)
           /\ device[v].content = "fs"
  <2>1. /\ rpc'[i].at = "mark" /\ rpc'[i].vol = v /\ rpc'[i].path = rpc[i].path
        /\ \A j \in VM : j # i => rpc'[j] = rpc[j]
    BY <1>1, <1>3, Continues DEF StagePoint, UnpublishPoint
  <2>2. /\ mounts'[i] = With(mounts[i], rpc[i].path, m)
        /\ \A j \in VM : j # i => mounts'[j] = mounts[j]
    BY <1>1, <1>3, MountTableWith
  <2>3. m.vol = v
    OBVIOUS
  <2>4. MountIsFS'
    <3> HIDE DEF m
    <3> QED BY <1>1, <1>3, <2>2, <2>3, MountMadeFS DEF LinuxInv
  <2>5. StageMounted(i, rpc[i].path, v)'
    <3>1. /\ rpc[i].path \in DOMAIN mounts'[i] /\ mounts'[i][rpc[i].path] = m
      BY <2>2 DEF With
    <3>2. m.source = Device /\ m.vol = v
      OBVIOUS
    <3> QED BY <2>1, <3>1, <3>2 DEF StageMounted, MountedFrom, Mounted
  <2> HIDE DEF m
  <2>6. GrantIsFresh(i)'
    BY <2>1, <2>5 DEF GrantIsFresh
  <2>7. LinuxOK(i)' /\ LinuxType'
    BY <1>1, <2>1, <2>6 DEF LinuxInv, LinuxType, LinuxOK, ReadyIsMarked,
       PublishedIsTracked, Entry, UnpublishPoint
  <2> QED BY <1>1, <2>1, <2>2, <2>4, <2>7, LinuxLocal DEF OthersUntouched
<1> QED BY <1>1, <1>2, <1>3

\* While a use is checked, no other VM relies on the volume.
LEMMA OneIsChecked ==
  ASSUME NodeInv, ReleasesInOrder, NEW i \in VM, NEW j \in VM, j # i,
         UseChecked(Request(i, "MarkInitialized", rpc[i].vol, rpc[i].path,
                            rpc[i].gen)),
         rpc[j].at \in Relying
  PROVE  rpc[i].vol # rpc[j].vol
BY DEF NodeInv, NodeOK, PromiseHolds, Backed, UseChecked, AcquireGranted, Holds,
   Request

\* The grant is withdrawn once the file system is there.
LEMMA MarkKeeps ==
  ASSUME NodeInv, LinuxInv, ReleasesInOrder, NEW i \in VM, LinuxMark(i)
  PROVE  LinuxInv'
<1> DEFINE v == rpc[i].vol
           q == Request(i, "MarkInitialized", v, rpc[i].path, rpc[i].gen)
           d == [device[v] EXCEPT !.allowFormat = @ /\ ~UseChecked(q)]
<1>1. /\ NodeType /\ rpc[i].at = "mark" /\ LinuxOK(i)
      /\ UNCHANGED <<journal, mounts, mode, granted, published>>
      /\ SetDevice(v, d)
      /\ IF UseChecked(q) THEN Continue(i, "ready") ELSE Finish(i)
  BY DEF NodeInv, LinuxInv, LinuxMark, StageMark, At
<1>2. v \in Volume /\ device \in [Volume -> DeviceRecord]
  BY <1>1, Shapes DEF LinuxInv, LinuxType
<1>3. device[v] \in DeviceRecord /\ device[v].allowFormat \in BOOLEAN
  BY <1>2 DEF DeviceRecord
<1>4. CASE ~UseChecked(q)
  <2>1. Finish(i)
    BY <1>1, <1>4
  <2>2. d = device[v]
    BY <1>3, <1>4 DEF DeviceRecord
  <2>3. UNCHANGED device
    <3> HIDE DEF d
    <3> QED BY <1>1, <1>2, <2>2 DEF SetDevice
  <2> QED BY <1>1, <2>1, <2>3, LinuxEnds
<1>5. CASE UseChecked(q)
  <2>1. /\ rpc'[i].at = "ready" /\ rpc'[i].vol = v
        /\ \A j \in VM : j # i => rpc'[j] = rpc[j]
    BY <1>1, <1>5, Continues DEF StagePoint, UnpublishPoint
  <2>2. /\ d \in DeviceRecord /\ ~d.allowFormat
        /\ d.content = device[v].content /\ d.data = device[v].data
    BY <1>3, <1>5 DEF DeviceRecord
  <2>3. /\ \A j \in VM : j # i /\ rpc[j].at \in Relying => rpc[j].vol # v
    BY <1>5, OneIsChecked
  <2> HIDE DEF q, d
  <2>4. /\ device' \in [Volume -> DeviceRecord] /\ device'[v] = d
        /\ \A w \in Volume : w # v => device'[w] = device[w]
    BY <1>1, <1>2, <2>2 DEF SetDevice
  <2>5. LinuxType' /\ DataIsProtected'
    BY <1>1, <2>2, <2>4 DEF LinuxInv, LinuxType, DataIsProtected
  <2>6. MountIsFS'
    <3>1. \A w \in Volume : device'[w].content = device[w].content
      BY <2>2, <2>4
    <3>2. \A j \in VM : \A p \in DOMAIN mounts[j] : mounts[j][p].vol \in Volume
      BY MountedVolume
    <3> QED BY <1>1, <3>1, <3>2 DEF LinuxInv, MountIsFS, Block
  <2>7. GrantSpentOnFS'
    <3>1. mode[v] = "mount" => device[v].content = "fs"
      BY <1>1 DEF LinuxOK, GrantIsFresh, Block, StageMounted, MountedFrom,
         Mounted, LinuxInv, MountIsFS
    <3> QED BY <1>1, <2>2, <2>4, <3>1 DEF LinuxInv, GrantSpentOnFS
  <2>8. ASSUME NEW j \in VM, j # i PROVE LinuxOK(j)'
    <3>1. LinuxOK(j) /\ rpc'[j] = rpc[j]
      BY <2>1, <2>8 DEF LinuxInv
    <3>2. \A w \in Volume : ~device[w].allowFormat => ~device'[w].allowFormat
      BY <2>2, <2>4
    <3>3. rpc[j].at \in {"record", "mount", "mkfs"} =>
            /\ rpc[j].vol \in Volume /\ rpc[j].vol # v
      BY <1>1, <2>3, <2>8, Shapes DEF Relying
    <3>4. rpc[j].at \in {"record", "mount", "mkfs"} =>
            device'[rpc[j].vol] = device[rpc[j].vol]
      BY <2>4, <3>3
    <3> QED BY <1>1, <3>1, <3>2, <3>4, KnownStays
  <2>9. LinuxOK(i)'
    <3>1. GrantIsFresh(i)'
      BY <2>1, <2>2, <2>4 DEF GrantIsFresh
    <3>2. ReadyIsMarked(i)'
      <4>1. \A w \in DOMAIN journal[i] : w \in Volume
        BY <1>1, EntryTyped DEF Staged
      <4> QED BY <1>1, <2>2, <2>4, <4>1 DEF LinuxOK, ReadyIsMarked, Entry
    <3> QED BY <1>1, <2>1, <3>1, <3>2 DEF LinuxOK, PublishedIsTracked, Entry,
            UnpublishPoint
  <2> QED BY <2>5, <2>6, <2>7, <2>8, <2>9 DEF LinuxInv
<1> QED BY <1>4, <1>5

(***************************************************************************)
(* Linux.Publish, NodeUnpublishVolume and NodeUnstageVolume.               *)
(***************************************************************************)
LEMMA TrackKeeps ==
  ASSUME NodeInv, LinuxInv, NEW i \in VM, PublishTrack(i), UNCHANGED host
  PROVE  LinuxInv'
<1> DEFINE v == rpc[i].vol
           s == [Entry(i, v) EXCEPT
                   !.targets = With(@, rpc[i].target, rpc[i].conf)]
<1>1. /\ NodeType /\ rpc[i].at = "track"
      /\ UNCHANGED <<mounts, device, mode, granted, published>>
      /\ Save(i, v, s) /\ Continue(i, "bind") /\ Staged(i, v)
      /\ ReadyIsMarked(i)
  BY DEF NodeInv, NodeOK, JournalAsSeen, PublishPoint, LinuxInv, LinuxOK,
     PublishTrack, At, host
<1>2. /\ rpc'[i].at = "bind" /\ \A j \in VM : j # i => rpc'[j] = rpc[j]
  BY <1>1, Continues DEF PublishPoint
<1>3. /\ journal'[i] = With(journal[i], v, s)
      /\ \A j \in VM : j # i => journal'[j] = journal[j]
      /\ Entry(i, v) \in JournalEntry
  BY <1>1, EntryTyped DEF Save, NodeType
<1>4. /\ s.ready = Entry(i, v).ready
      /\ DOMAIN Entry(i, v).targets \subseteq DOMAIN s.targets
  BY <1>3 DEF JournalEntry, With
<1>5. DOMAIN journal'[i] = DOMAIN journal[i]
  BY <1>1, <1>3 DEF With, Staged
<1>6. \A w \in DOMAIN journal[i] :
        /\ journal'[i][w].ready = journal[i][w].ready
        /\ DOMAIN journal[i][w].targets \subseteq DOMAIN journal'[i][w].targets
  <2> HIDE DEF s
  <2> QED BY <1>3, <1>4, <1>5 DEF With, Entry
<1>7. GrantIsFresh(i)'
  BY <1>2 DEF GrantIsFresh
<1> QED BY <1>1, <1>2, <1>3, <1>5, <1>6, <1>7, JournalChanges DEF UnpublishPoint

\* A step of one VM that changes its mounts, and no more.
LEMMA MountsChange ==
  ASSUME NodeType, LinuxInv, NEW i \in VM,
         UNCHANGED <<journal, device, mode, granted, published>>, MountIsFS',
         \A j \in VM : j # i => mounts'[j] = mounts[j] /\ rpc'[j] = rpc[j],
         rpc'[i].at \notin {"record", "mount", "mkfs", "fsmount", "mark", "ready"},
         rpc'[i].at \in UnpublishPoint =>
           rpc[i].at \in UnpublishPoint /\ rpc'[i].target = rpc[i].target
  PROVE  LinuxInv'
<1>1. LinuxOK(i)' /\ LinuxType'
  BY DEF LinuxInv, LinuxType, LinuxOK, GrantIsFresh, ReadyIsMarked,
     PublishedIsTracked, Entry
<1> QED BY <1>1, LinuxLocal DEF OthersUntouched

\* A bind mount shows what the staging path shows.
LEMMA BindKeeps ==
  ASSUME NodeInv, LinuxInv, NEW i \in VM, LinuxBind(i)
  PROVE  LinuxInv'
<1> DEFINE v == rpc[i].vol
           m == [vol |-> v, source |-> Source(i, rpc[i].path, v), conf |-> RW]
<1>1. /\ NodeType /\ NodeOK(i) /\ rpc[i].at = "bind" /\ MountIsFS
      /\ UNCHANGED <<journal, device, mode, granted, published>>
      /\ \/ Finish(i) /\ UNCHANGED mounts
         \/ Continue(i, "answer") /\ UNCHANGED mounts
         \/ /\ SetMount(i, rpc[i].target, m)
            /\ Continue(i, "remount") \/ Continue(i, "answer")
  BY DEF NodeInv, LinuxInv, LinuxBind, At, Unchanged
<1>2. CASE Finish(i) /\ UNCHANGED mounts
  BY <1>1, <1>2, LinuxEnds
<1>3. ASSUME NEW p \in {"remount", "answer"}, Continue(i, p),
             UNCHANGED mounts \/ SetMount(i, rpc[i].target, m)
      PROVE  LinuxInv'
  <2>1. rpc'[i].at = p /\ \A j \in VM : j # i => rpc'[j] = rpc[j]
    BY <1>1, <1>3, Continues DEF PublishPoint
  <2>2. MountIsFS' /\ \A j \in VM : j # i => mounts'[j] = mounts[j]
    <3>1. CASE UNCHANGED mounts
      BY <1>1, <3>1 DEF MountIsFS, Block
    <3>2. CASE SetMount(i, rpc[i].target, m)
      <4>1. /\ mounts'[i] = With(mounts[i], rpc[i].target, m)
            /\ \A j \in VM : j # i => mounts'[j] = mounts[j]
        BY <1>1, <3>2, MountTableWith
      <4>2. m.source = Source(i, rpc[i].path, v) /\ m.vol = v
        OBVIOUS
      <4>3. Source(i, rpc[i].path, v) = Device /\ ~Block(v) =>
              device[v].content = "fs"
        BY <1>1 DEF Source, Directory, Device, StageMounted, MountedFrom,
           Mounted, MountIsFS
      <4> HIDE DEF m
      <4> QED BY <1>1, <4>1, <4>2, <4>3, MountMadeFS
    <3> QED BY <1>3, <3>1, <3>2
  <2> QED BY <1>1, <2>1, <2>2, MountsChange DEF UnpublishPoint
<1> QED BY <1>1, <1>2, <1>3

\* A remount shows what was mounted.
LEMMA RemountKeeps ==
  ASSUME NodeInv, LinuxInv, NEW i \in VM, RemountReadOnly(i)
  PROVE  LinuxInv'
<1> DEFINE t == rpc[i].target
           m == [mounts[i][t] EXCEPT !.conf = RO]
<1>1. /\ NodeType /\ rpc[i].at = "remount" /\ MountIsFS
      /\ UNCHANGED <<journal, device, mode, granted, published>>
      /\ SetMount(i, t, m) /\ Continue(i, "answer")
      /\ t \in DOMAIN mounts[i]
  BY DEF NodeInv, NodeOK, JournalAsSeen, MountedFrom, Mounted, LinuxInv,
     RemountReadOnly, At, Unchanged
<1>2. rpc'[i].at = "answer" /\ \A j \in VM : j # i => rpc'[j] = rpc[j]
  BY <1>1, Continues DEF PublishPoint
<1>3. /\ mounts'[i] = With(mounts[i], t, m)
      /\ \A j \in VM : j # i => mounts'[j] = mounts[j]
  BY <1>1, MountTableWith
<1>4. m.source = Device /\ ~Block(m.vol) => device[m.vol].content = "fs"
  <2>1. m.source = mounts[i][t].source /\ m.vol = mounts[i][t].vol
    OBVIOUS
  <2> HIDE DEF m, t
  <2> QED BY <1>1, <2>1 DEF MountIsFS
<1>5. MountIsFS'
  <2> HIDE DEF m, t
  <2> QED BY <1>1, <1>3, <1>4, MountMadeFS
<1> QED BY <1>1, <1>2, <1>3, <1>5, MountsChange DEF UnpublishPoint

\* A mount that goes.
LEMMA MountGoes ==
  ASSUME NodeType, LinuxInv, NEW i \in VM, NEW path, RemoveMount(i, path),
         UNCHANGED <<journal, device, mode, granted, published>>,
         \A j \in VM : j # i => rpc'[j] = rpc[j],
         rpc'[i].at \notin {"record", "mount", "mkfs", "fsmount", "mark", "ready"},
         rpc'[i].at \in UnpublishPoint =>
           rpc[i].at \in UnpublishPoint /\ rpc'[i].target = rpc[i].target
  PROVE  LinuxInv'
<1>1. /\ \A p \in DOMAIN mounts'[i] :
           p \in DOMAIN mounts[i] /\ mounts'[i][p] = mounts[i][p]
      /\ \A j \in VM : j # i => mounts'[j] = mounts[j]
  BY MountTableWithout
<1>2. MountIsFS'
  BY <1>1, MountsGoFS DEF LinuxInv
<1> QED BY <1>1, <1>2, MountsChange

\* The steps that only take mounts away.
LEMMA UnmountKeeps ==
  ASSUME NodeInv, LinuxInv, NEW i \in VM,
         \/ RemountFails(i)
         \/ (UnpublishUnmount(i) \/ UnstageUnmount(i)) /\ UNCHANGED host
  PROVE  LinuxInv'
<1>1. NodeType
  BY DEF NodeInv
<1>2. CASE RemountFails(i)
  <2>1. /\ Finish(i) /\ RemoveMount(i, rpc[i].target)
        /\ UNCHANGED <<journal, device, mode, granted, published>>
    BY <1>2 DEF RemountFails, host
  <2>2. rpc'[i].at = "idle" /\ \A j \in VM : j # i => rpc'[j] = rpc[j]
    BY <1>1, <2>1, Ends DEF NoRPC
  <2> QED BY <1>1, <2>1, <2>2, MountGoes DEF UnpublishPoint
<1>3. CASE UnpublishUnmount(i) /\ UNCHANGED host
  <2>1. /\ rpc[i].at = "unbind" /\ Continue(i, "untrack")
        /\ RemoveMount(i, rpc[i].target)
        /\ UNCHANGED <<journal, device, mode, granted, published>>
    BY <1>3 DEF UnpublishUnmount, At, host
  <2>2. /\ rpc'[i].at = "untrack" /\ rpc'[i].target = rpc[i].target
        /\ \A j \in VM : j # i => rpc'[j] = rpc[j]
    BY <1>1, <2>1, Continues DEF UnpublishPoint
  <2> QED BY <1>1, <2>1, <2>2, MountGoes DEF UnpublishPoint
<1>4. CASE UnstageUnmount(i) /\ UNCHANGED host
  <2>1. /\ rpc[i].at = "unmount" /\ Continue(i, "release")
        /\ RemoveMount(i, rpc[i].path)
        /\ UNCHANGED <<journal, device, mode, granted, published>>
    BY <1>4 DEF UnstageUnmount, At, host
  <2>2. rpc'[i].at = "release" /\ \A j \in VM : j # i => rpc'[j] = rpc[j]
    BY <1>1, <2>1, Continues DEF UnstagePoint
  <2> QED BY <1>1, <2>1, <2>2, MountGoes DEF UnpublishPoint
<1> QED BY <1>2, <1>3, <1>4

\* A published target is tracked.
LEMMA AnswerKeeps ==
  ASSUME NodeInv, LinuxInv, NEW i \in VM, PublishAnswer(i)
  PROVE  LinuxInv'
<1> DEFINE t == rpc[i].target
<1>1. /\ NodeType /\ rpc[i].at = "answer" /\ LinuxOK(i) /\ Finish(i)
      /\ UNCHANGED <<journal, mounts, device, mode, granted>>
      /\ published' = [published EXCEPT ![i] = With(@, t, rpc[i].conf)]
      /\ Staged(i, rpc[i].vol) /\ t \in DOMAIN Entry(i, rpc[i].vol).targets
  BY DEF NodeInv, NodeOK, JournalAsSeen, PublishPoint, LinuxInv, PublishAnswer,
     At, Unchanged
<1>2. rpc'[i].at = "idle" /\ \A j \in VM : j # i => rpc'[j] = rpc[j]
  BY <1>1, Ends DEF NoRPC
<1>3. /\ published' = [j \in VM |-> published'[j]]
      /\ DOMAIN published'[i] = DOMAIN published[i] \cup {t}
      /\ \A j \in VM : j # i => published'[j] = published[j]
  BY <1>1 DEF LinuxInv, LinuxType, With
<1>4. PublishedIsTracked(i)'
  <2>1. \A s \in DOMAIN published'[i] :
          \E w \in DOMAIN journal[i] : s \in DOMAIN journal[i][w].targets
    BY <1>1, <1>3 DEF LinuxOK, PublishedIsTracked, Staged, Entry
  <2> QED BY <1>1, <1>2, <2>1 DEF PublishedIsTracked, Entry, UnpublishPoint
<1>5. LinuxOK(i)'
  BY <1>1, <1>2, <1>4 DEF LinuxOK, GrantIsFresh, ReadyIsMarked, Entry
<1>6. LinuxType' /\ MountIsFS'
  BY <1>1, <1>3 DEF LinuxInv, LinuxType, MountIsFS, Block
<1> QED BY <1>1, <1>2, <1>3, <1>5, <1>6, LinuxLocal DEF OthersUntouched

\* A target is untracked after the kubelet has given it up.
LEMMA UntrackKeeps ==
  ASSUME NodeInv, LinuxInv, NEW i \in VM, UnpublishUntrack(i), UNCHANGED host
  PROVE  LinuxInv'
<1> DEFINE v == rpc[i].vol
           t == rpc[i].target
           s == [Entry(i, v) EXCEPT !.targets = Without(@, t)]
<1>1. /\ NodeType /\ rpc[i].at = "untrack"
      /\ UNCHANGED <<mounts, device, mode, granted, published>>
      /\ Save(i, v, s) /\ Finish(i) /\ Staged(i, v)
      /\ t \notin DOMAIN published[i]
  BY DEF NodeInv, NodeOK, JournalAsSeen, UnpublishPoint, LinuxInv, LinuxOK,
     PublishedIsTracked, UnpublishUntrack, At, host
<1>2. /\ rpc'[i].at = "idle" /\ \A j \in VM : j # i => rpc'[j] = rpc[j]
  BY <1>1, Ends DEF NoRPC
<1>3. /\ journal'[i] = With(journal[i], v, s)
      /\ \A j \in VM : j # i => journal'[j] = journal[j]
      /\ Entry(i, v) \in JournalEntry
  BY <1>1, EntryTyped DEF Save, NodeType
<1>4. /\ s.ready = Entry(i, v).ready
      /\ DOMAIN s.targets = DOMAIN Entry(i, v).targets \ {t}
  BY <1>3 DEF JournalEntry, Without, Restrict
<1>5. DOMAIN journal'[i] = DOMAIN journal[i]
  BY <1>1, <1>3 DEF With, Staged
<1>6. \A w \in DOMAIN journal[i] :
        /\ journal'[i][w].ready = journal[i][w].ready
        /\ \A u \in DOMAIN journal[i][w].targets :
             u # t => u \in DOMAIN journal'[i][w].targets
  <2> HIDE DEF s
  <2> QED BY <1>3, <1>4, <1>5 DEF With, Entry
<1>7. GrantIsFresh(i)'
  BY <1>2 DEF GrantIsFresh
<1> HIDE DEF t
<1> QED BY <1>1, <1>2, <1>3, <1>5, <1>6, <1>7, JournalChanges DEF UnpublishPoint

\* An entry is forgotten that tracks no target.
LEMMA ForgetKeeps ==
  ASSUME NodeInv, LinuxInv, NEW i \in VM, UnstageForget(i), UNCHANGED host
  PROVE  LinuxInv'
<1> DEFINE v == rpc[i].vol
<1>1. /\ NodeType /\ rpc[i].at = "forget"
      /\ UNCHANGED <<mounts, device, mode, granted, published>>
      /\ journal' = [journal EXCEPT ![i] = Without(@, v)] /\ Finish(i)
      /\ DOMAIN Entry(i, v).targets = {}
  BY DEF NodeInv, NodeOK, JournalAsSeen, UnstagePoint, UnstageForget, At, host
<1>2. /\ rpc'[i].at = "idle" /\ \A j \in VM : j # i => rpc'[j] = rpc[j]
  BY <1>1, Ends DEF NoRPC
<1>3. /\ journal'[i] = Without(journal[i], v)
      /\ \A j \in VM : j # i => journal'[j] = journal[j]
  BY <1>1 DEF NodeType
<1>4. /\ DOMAIN journal'[i] = DOMAIN journal[i] \ {v}
      /\ \A w \in DOMAIN journal'[i] : journal'[i][w] = journal[i][w]
  BY <1>3 DEF Without, Restrict
<1>5. GrantIsFresh(i)'
  BY <1>2 DEF GrantIsFresh
<1>6. \A w \in DOMAIN journal[i] : \A u \in DOMAIN journal[i][w].targets :
        w \in DOMAIN journal'[i] /\ u \in DOMAIN journal'[i][w].targets
  BY <1>1, <1>4 DEF Entry
<1> QED BY <1>1, <1>2, <1>3, <1>4, <1>5, <1>6, JournalChanges DEF UnpublishPoint

(***************************************************************************)
(* The kubelet's calls, the growth of a volume, and troubles.              *)
(***************************************************************************)
LEMMA BeginsKeep ==
  ASSUME NodeInv, LinuxInv, NEW i \in VM, LinuxKubeletCall(i)
  PROVE  LinuxInv'
<1>1. NodeType
  BY DEF NodeInv
<1>2. ASSUME NEW r, r.at \in {"acquire", "announce", "unmount", "check"},
             Start(i, r),
             UNCHANGED <<journal, mounts, device, mode, granted, published>>
      PROVE  LinuxInv'
  <2>1. rpc'[i] = r /\ \A j \in VM : j # i => rpc'[j] = rpc[j]
    BY <1>1, <1>2 DEF Start, NodeType
  <2> QED BY <1>1, <1>2, <2>1, LinuxGoesOn
<1>3. ASSUME NEW v \in Volume, NEW target \in Path,
             LinuxUnpublishBegin(i, v, target)
      PROVE  LinuxInv'
  <2> DEFINE r == [at |-> "unbind", vol |-> v, target |-> target]
  <2>1. /\ Start(i, r) /\ LinuxOK(i)
        /\ published' = [published EXCEPT ![i] = Without(@, target)]
        /\ UNCHANGED <<journal, mounts, device, mode, granted>>
    BY <1>3 DEF LinuxUnpublishBegin, UnpublishBegin, LinuxInv
  <2>2. /\ rpc'[i] = r /\ \A j \in VM : j # i => rpc'[j] = rpc[j]
    BY <1>1, <2>1 DEF Start, NodeType
  <2>3. rpc'[i].at = "unbind" /\ rpc'[i].target = target
    BY <2>2
  <2>4. /\ published' = [j \in VM |-> published'[j]]
        /\ DOMAIN published'[i] = DOMAIN published[i] \ {target}
        /\ \A j \in VM : j # i => published'[j] = published[j]
    BY <2>1 DEF LinuxInv, LinuxType, Without, Restrict
  <2>5. PublishedIsTracked(i)'
    <3>1. \A t \in DOMAIN published'[i] :
            \E w \in DOMAIN journal'[i] : t \in DOMAIN journal'[i][w].targets
      BY <2>1, <2>4 DEF LinuxOK, PublishedIsTracked, Entry
    <3> QED BY <2>3, <2>4, <3>1 DEF PublishedIsTracked, Entry
  <2>6. LinuxOK(i)'
    BY <2>1, <2>3, <2>5 DEF LinuxOK, GrantIsFresh, ReadyIsMarked, Entry
  <2>7. LinuxType' /\ MountIsFS'
    BY <2>1, <2>4 DEF LinuxInv, LinuxType, MountIsFS, Block
  <2> QED BY <1>1, <2>1, <2>2, <2>4, <2>6, <2>7, LinuxLocal DEF OthersUntouched
<1>4. ASSUME NEW v \in Volume, NEW path \in Path, NEW g,
             LinuxStageBegin(i, v, path, g)
      PROVE  LinuxInv'
  BY <1>2, <1>4 DEF LinuxStageBegin, StageBegin, host
<1>5. ASSUME NEW v \in Volume, NEW path \in Path, NEW g, NEW target, NEW conf,
             LinuxPublishBegin(i, v, path, g, target, conf)
      PROVE  LinuxInv'
  BY <1>2, <1>5 DEF LinuxPublishBegin, PublishBegin, host
<1>6. ASSUME NEW v \in Volume, NEW path \in Path, LinuxUnstageBegin(i, v, path)
      PROVE  LinuxInv'
  BY <1>2, <1>6 DEF LinuxUnstageBegin, UnstageBegin
<1>7. ASSUME NEW v \in Volume, NEW path \in Path, NEW need,
             ExpandBegin(i, v, path, need)
      PROVE  LinuxInv'
  BY <1>2, <1>7 DEF ExpandBegin, host
<1> QED BY <1>3, <1>4, <1>5, <1>6, <1>7 DEF LinuxKubeletCall

\* A request to the storage API, and the notes of what it answered.
LEMMA SentKeeps ==
  ASSUME NodeInv, LinuxInv, NEW i \in VM,
         \/ (PublishAnnounce(i) \/ UnstageRelease(i)) /\ UNCHANGED host
         \/ ExpandCheck(i) \/ ExpandNote(i)
  PROVE  LinuxInv'
<1>1. NodeType
  BY DEF NodeInv
<1>2. UNCHANGED <<journal, mounts, device, mode, granted, published>>
  BY DEF PublishAnnounce, UnstageRelease, ExpandCheck, ExpandNote, host, Unchanged
<1>3. \/ Finish(i)
      \/ rpc[i].at = "announce" /\ Continue(i, "track")
      \/ rpc[i].at = "release" /\ Continue(i, "forget")
      \/ /\ rpc[i].at = "check"
         /\ rpc' = [rpc EXCEPT ![i].at = "resize",
                               ![i].need = device[rpc[i].vol].noted]
  BY DEF PublishAnnounce, UnstageRelease, ExpandCheck, ExpandNote, At
<1>4. CASE Finish(i)
  BY <1>1, <1>2, <1>4, LinuxEnds
<1>5. CASE rpc[i].at = "announce" /\ Continue(i, "track")
  <2>1. rpc'[i].at = "track" /\ \A j \in VM : j # i => rpc'[j] = rpc[j]
    BY <1>1, <1>5, Continues DEF PublishPoint
  <2> QED BY <1>1, <1>2, <2>1, LinuxGoesOn
<1>6. CASE rpc[i].at = "release" /\ Continue(i, "forget")
  <2>1. rpc'[i].at = "forget" /\ \A j \in VM : j # i => rpc'[j] = rpc[j]
    BY <1>1, <1>6, Continues DEF UnstagePoint
  <2> QED BY <1>1, <1>2, <2>1, LinuxGoesOn
<1>7. CASE /\ rpc[i].at = "check"
           /\ rpc' = [rpc EXCEPT ![i].at = "resize",
                                 ![i].need = device[rpc[i].vol].noted]
  <2>1. rpc[i] \in ExpandRPC
    BY <1>1, <1>7, Shapes DEF ExpandPoint
  <2>2. rpc'[i].at = "resize" /\ \A j \in VM : j # i => rpc'[j] = rpc[j]
    BY <1>1, <1>7, <2>1 DEF NodeType, ExpandRPC
  <2> QED BY <1>1, <1>2, <2>2, LinuxGoesOn
<1> QED BY <1>3, <1>4, <1>5, <1>6, <1>7

\* A file system that grows is one still.
LEMMA ResizeKeeps ==
  ASSUME NodeInv, LinuxInv, NEW i \in VM, ExpandResize(i)
  PROVE  LinuxInv'
<1> DEFINE v == rpc[i].vol
           d == IF Block(v) THEN device[v] ELSE Enlarged(device[v])
<1>1. /\ NodeType /\ rpc[i].at = "resize"
      /\ UNCHANGED <<journal, mounts, mode, granted, published>>
      /\ \/ Finish(i) /\ UNCHANGED device
         \/ Continue(i, "note") /\ SetDevice(v, d)
  BY DEF NodeInv, ExpandResize, At, Unchanged
<1>2. CASE Finish(i) /\ UNCHANGED device
  BY <1>1, <1>2, LinuxEnds
<1>3. CASE Continue(i, "note") /\ SetDevice(v, d)
  <2>1. rpc'[i].at = "note" /\ \A j \in VM : j # i => rpc'[j] = rpc[j]
    BY <1>1, <1>3, Continues DEF ExpandPoint
  <2>2. v \in Volume /\ device[v] \in DeviceRecord
    BY <1>1, Shapes DEF LinuxInv, LinuxType
  <2>3. Enlarged(device[v]) \in DeviceRecord
    BY <2>2, FormatTyped
  <2>4. /\ d \in DeviceRecord /\ d.content = device[v].content
        /\ d.data = device[v].data /\ d.allowFormat = device[v].allowFormat
    BY <2>2, <2>3 DEF Enlarged, DeviceRecord
  <2>5. GrantIsFresh(i)'
    BY <2>1 DEF GrantIsFresh
  <2>6. /\ d.data => d.content = "other" \/ ~d.allowFormat
        /\ mode[v] = "mount" /\ ~d.allowFormat => d.content = "fs" \/ d.data
    BY <2>2, <2>4 DEF LinuxInv, DataIsProtected, GrantSpentOnFS
  <2> HIDE DEF d, v
  <2> QED BY <1>1, <1>3, <2>1, <2>2, <2>4, <2>5, <2>6, DeviceChanges
          DEF UnpublishPoint
<1> QED BY <1>1, <1>2, <1>3

(***************************************************************************)
(* The world around.                                                       *)
(***************************************************************************)
LEMMA OnlyDevice ==
  ASSUME NodeInv, LinuxInv, NEW v \in Volume, NEW d \in DeviceRecord,
         SetDevice(v, d),
         UNCHANGED <<journal, mounts, rpc, mode, granted, published>>,
         d.allowFormat = device[v].allowFormat,
         d.data => d.content = "other" \/ ~d.allowFormat,
         mode[v] = "mount" /\ ~d.allowFormat => d.content = "fs" \/ d.data,
         d.content # device[v].content =>
           /\ \A j \in VM : NoMountOf(j, v)
           /\ device[v].content # "blank"
  PROVE  LinuxInv'
<1>1. NodeType /\ device \in [Volume -> DeviceRecord]
  BY DEF NodeInv, LinuxInv, LinuxType
<1>2. /\ device' \in [Volume -> DeviceRecord] /\ device'[v] = d
      /\ \A w \in Volume : w # v => device'[w] = device[w]
  BY <1>1 DEF SetDevice
<1>3. LinuxType' /\ DataIsProtected' /\ GrantSpentOnFS'
  BY <1>2 DEF LinuxInv, LinuxType, DataIsProtected, GrantSpentOnFS
<1>4. MountIsFS'
  <2>1. \A j \in VM : \A p \in DOMAIN mounts[j] :
          /\ mounts[j][p].vol \in Volume
          /\ mounts[j][p].vol = v => d.content = device[v].content
    BY MountedVolume DEF NoMountOf
  <2> QED BY <1>2, <2>1 DEF LinuxInv, MountIsFS, Block
<1>5. ASSUME NEW j \in VM PROVE LinuxOK(j)'
  <2>1. LinuxOK(j)
    BY DEF LinuxInv
  <2>2. rpc[j].at \in {"record", "mount", "mkfs"} => rpc[j].vol \in Volume
    BY <1>1, Shapes
  <2>3. rpc[j].at = "mkfs" => device[rpc[j].vol].content = "blank"
    BY <2>1 DEF LinuxOK, GrantIsFresh
  <2>4. \A w \in Volume : device'[w].allowFormat = device[w].allowFormat
    BY <1>2
  <2>5. rpc[j].at = "mkfs" =>
          device'[rpc[j].vol].content = device[rpc[j].vol].content
    BY <1>2, <2>2, <2>3
  <2> QED BY <1>1, <2>1, <2>2, <2>4, <2>5, KnownStays
<1> QED BY <1>3, <1>4, <1>5 DEF LinuxInv

\* Sizes: neither content nor data nor the grant.
LEMMA SizesKeep ==
  ASSUME NodeInv, LinuxInv, NEW v \in Volume,
         LinuxTakeDisk(v) \/ CloudGrows(v) \/ PlatformNotes(v) \/ VMNotices(v)
  PROVE  LinuxInv'
<1> DEFINE larger == [device[v] EXCEPT !.size = @ + 1]
           noted == [device[v] EXCEPT !.noted = device[v].size]
           seen == [device[v] EXCEPT !.seen = device[v].size]
<1>1. UNCHANGED <<journal, mounts, rpc, mode, granted, published>>
  BY DEF LinuxTakeDisk, TakeDisk, SetLease, CloudGrows, PlatformNotes, VMNotices, vars
<1>2. device[v] \in DeviceRecord
  BY DEF LinuxInv, LinuxType
<1>3. /\ device[v].data => device[v].content = "other" \/ ~device[v].allowFormat
      /\ mode[v] = "mount" /\ ~device[v].allowFormat =>
           device[v].content = "fs" \/ device[v].data
  BY DEF LinuxInv, DataIsProtected, GrantSpentOnFS
<1>4. ASSUME NEW d \in DeviceRecord, SetDevice(v, d),
             d.content = device[v].content, d.data = device[v].data,
             d.allowFormat = device[v].allowFormat
      PROVE  LinuxInv'
  BY <1>1, <1>3, <1>4, OnlyDevice
<1>5. device[v].size \in 1 .. MaxCap
  BY <1>2 DEF DeviceRecord
<1>6. /\ noted \in DeviceRecord /\ noted.content = device[v].content
      /\ noted.data = device[v].data
      /\ noted.allowFormat = device[v].allowFormat
  BY <1>2, <1>5 DEF DeviceRecord
<1>7. /\ seen \in DeviceRecord /\ seen.content = device[v].content
      /\ seen.data = device[v].data
      /\ seen.allowFormat = device[v].allowFormat
  BY <1>2, <1>5 DEF DeviceRecord
<1>8. ASSUME device[v].size < MaxCap
      PROVE  /\ larger \in DeviceRecord /\ larger.content = device[v].content
             /\ larger.data = device[v].data
             /\ larger.allowFormat = device[v].allowFormat
  <2>1. device[v].size + 1 \in 1 .. MaxCap
    BY <1>5, <1>8, LinuxNodeAssumption
  <2> QED BY <1>2, <2>1 DEF DeviceRecord
<1>9. \/ SetDevice(v, larger) /\ device[v].size < MaxCap
      \/ SetDevice(v, noted) \/ SetDevice(v, seen)
  BY DEF LinuxTakeDisk, CloudGrows, PlatformNotes, VMNotices
<1> HIDE DEF larger, noted, seen
<1> QED BY <1>4, <1>6, <1>7, <1>8, <1>9

\* What a Pod writes to is ready, and so no longer to be formatted.
LEMMA WritesKeep ==
  ASSUME NodeInv, JournalInv, LinuxInv, NEW i \in VM, NEW target \in Path,
         PodWrites(i, target)
  PROVE  LinuxInv'
<1> DEFINE v == mounts[i][target].vol
           d == [device[v] EXCEPT !.data = TRUE]
<1>1. /\ NodeType /\ NodeOK(i) /\ JournalOK(i) /\ LinuxOK(i)
      /\ target \in DOMAIN published[i] /\ target \in DOMAIN mounts[i]
      /\ SetDevice(v, d)
      /\ UNCHANGED <<journal, mounts, rpc, mode, granted, published>>
  BY DEF NodeInv, JournalInv, LinuxInv, PodWrites, MountedOn, Mounted, vars
<1>2. v \in Volume /\ device[v] \in DeviceRecord
  BY <1>1, MountedVolume DEF LinuxInv, LinuxType
<1>3. /\ d \in DeviceRecord /\ d.content = device[v].content /\ d.data
      /\ d.allowFormat = device[v].allowFormat
  BY <1>2 DEF DeviceRecord
<1>4. ~device[v].allowFormat
  <2>1. PICK w \in DOMAIN journal[i] : target \in DOMAIN Entry(i, w).targets
    BY <1>1 DEF LinuxOK, PublishedIsTracked
  <2>2. /\ Staged(i, v)
        /\ target = Entry(i, v).path \/ target \in DOMAIN Entry(i, v).targets
    BY <1>1 DEF NodeOK, MountsListed
  <2>3. v \in DOMAIN journal[i] /\ target \in DOMAIN Entry(i, v).targets
    BY <1>1, <2>1, <2>2 DEF JournalOK, PathsOwned, Staged
  <2>4. Entry(i, v).ready
    BY <1>1, <2>3 DEF JournalOK, TargetsAreReady
  <2> QED BY <1>1, <2>3, <2>4 DEF LinuxOK, ReadyIsMarked
<1> HIDE DEF d, v
<1> QED BY <1>1, <1>2, <1>3, <1>4, OnlyDevice

\* A file system that is lost was not mounted, and its grant is withdrawn.
LEMMA DamageKeeps ==
  ASSUME NodeInv, LinuxInv, NEW v \in Volume, Damage(v)
  PROVE  LinuxInv'
<1> DEFINE d == [device[v] EXCEPT !.content = "blank"]
<1>1. /\ device[v].content = "fs" /\ device[v].data /\ SetDevice(v, d)
      /\ \A j \in VM : NoMountOf(j, v)
      /\ UNCHANGED <<journal, mounts, rpc, mode, granted, published>>
  BY DEF Damage, NoMountOf, vars
<1>2. device[v] \in DeviceRecord /\ ~device[v].allowFormat
  BY <1>1 DEF LinuxInv, LinuxType, DataIsProtected
<1>3. d \in DeviceRecord /\ d.data /\ d.allowFormat = device[v].allowFormat
  BY <1>1, <1>2 DEF DeviceRecord
<1> HIDE DEF d
<1> QED BY <1>1, <1>2, <1>3, OnlyDevice

\* After a restart nothing is mounted, and nothing relied on.
LEMMA RebootKeepsLinux ==
  ASSUME NodeInv, LinuxInv, NEW i \in VM, LinuxReboot(i)
  PROVE  LinuxInv'
<1>1. /\ NodeType /\ Finish(i) /\ LinuxOK(i)
      /\ mounts' = [mounts EXCEPT ![i] = NoEntries]
      /\ published' = [published EXCEPT ![i] = NoEntries]
      /\ UNCHANGED <<journal, device, mode, granted>>
  BY DEF NodeInv, LinuxInv, LinuxReboot, Reboot
<1>2. rpc'[i].at = "idle" /\ \A j \in VM : j # i => rpc'[j] = rpc[j]
  BY <1>1, Ends DEF NoRPC
<1>3. /\ DOMAIN mounts'[i] = {} /\ \A j \in VM : j # i => mounts'[j] = mounts[j]
  BY <1>1 DEF NodeType, NoEntries
<1>4. /\ published' = [j \in VM |-> published'[j]] /\ DOMAIN published'[i] = {}
      /\ \A j \in VM : j # i => published'[j] = published[j]
  BY <1>1 DEF LinuxInv, LinuxType, NoEntries
<1>5. MountIsFS'
  BY <1>1, <1>3, MountsGoFS DEF LinuxInv
<1>6. LinuxOK(i)'
  BY <1>1, <1>2, <1>4 DEF LinuxOK, GrantIsFresh, ReadyIsMarked,
     PublishedIsTracked, Entry, UnpublishPoint
<1>7. LinuxType'
  BY <1>1, <1>4 DEF LinuxInv, LinuxType
<1> QED BY <1>1, <1>2, <1>3, <1>4, <1>5, <1>6, <1>7, LinuxLocal
        DEF OthersUntouched

\* What ends an RPC, and what happens at the platform.
LEMMA TroubleKeeps ==
  ASSUME NodeInv, LinuxInv, NEW i \in VM,
         HostBreak(i) \/ ((Break(i) \/ TimeOut(i)) /\ UNCHANGED host)
  PROVE  LinuxInv'
BY LinuxEnds DEF NodeInv, HostBreak, Break, TimeOut, host

\* A step of none of these variables.
LEMMA ElsewhereKeeps ==
  ASSUME LinuxInv,
         UNCHANGED <<journal, mounts, rpc, device, mode, granted, published>>
  PROVE  LinuxInv'
BY DEF LinuxInv, LinuxType, DataIsProtected, MountIsFS, GrantSpentOnFS, LinuxOK,
   GrantIsFresh, ReadyIsMarked, PublishedIsTracked, Entry, Block, StageMounted,
   MountedFrom, Mounted

\* Every step keeps the invariant of the host.
LEMMA LinuxStep ==
  ASSUME NodeInv, JournalInv, LinuxInv, ReleasesInOrder, [LinuxNext]_linuxVars
  PROVE  LinuxInv'
<1>1. ASSUME NEW i \in VM, AgentStep(i) PROVE LinuxInv'
  BY <1>1, RecordKeeps, SentKeeps, TrackKeeps, UnmountKeeps, UntrackKeeps,
     ForgetKeeps DEF AgentStep, UnpublishStep, UnstageStep
<1>2. ASSUME NEW i \in VM, HostStep(i) PROVE LinuxInv'
  BY <1>2, AcquireKeeps, ProbeKeeps, MkfsKeeps, FsMountKeeps, MarkKeeps,
     ReadyKeeps, BindKeeps, RemountKeeps, AnswerKeeps, SentKeeps, ResizeKeeps
     DEF HostStep
<1>3. ASSUME NEW i \in VM, HostTrouble(i) PROVE LinuxInv'
  BY <1>3, MkfsKilledKeeps, UnmountKeeps, TroubleKeeps, RebootKeepsLinux
     DEF HostTrouble
<1>4. ASSUME NEW v \in Volume, CloudStep(v) PROVE LinuxInv'
  <2>1. CASE /\ \/ \E i \in VM : Grant(v, i)
                \/ CloseGate(v) \/ GiveDisk(v) \/ Retire(v)
             /\ UNCHANGED host
    BY <2>1, ElsewhereKeeps DEF Grant, CloseGate, GiveDisk, Retire, SetLease, host
  <2> QED BY <1>4, <2>1, SizesKeep DEF CloudStep
<1>5. ASSUME NEW q \in late, Deliver(q), UNCHANGED host PROVE LinuxInv'
  BY <1>5, ElsewhereKeeps DEF Deliver, host
<1>6. CASE UNCHANGED linuxVars
  BY <1>6, ElsewhereKeeps DEF linuxVars, vars, host
<1> QED BY <1>1, <1>2, <1>3, <1>4, <1>5, <1>6, BeginsKeep, WritesKeep, DamageKeeps
        DEF LinuxNext, LinuxRPCStep

(***************************************************************************)
(* The theorems.  ReleasesInOrder is assumed: without it two VMs may work  *)
(* on one device.                                                          *)
(***************************************************************************)
LEMMA LinuxInitInv == LinuxInit => NodeInv /\ JournalInv /\ LinuxInv
<1> SUFFICES ASSUME LinuxInit PROVE NodeInv /\ JournalInv /\ LinuxInv
  OBVIOUS
<1>1. Init /\ NodeInv /\ JournalInv
  BY NodeInit, JournalInit DEF LinuxInit
<1>2. PICK c \in [Volume -> Content] :
        device = [v \in Volume |->
                    [content |-> c[v], data |-> c[v] = "other",
                     allowFormat |-> TRUE, size |-> 1, noted |-> 1, seen |-> 1,
                     fs |-> 0]]
  BY DEF LinuxInit
<1>3. 1 \in 1 .. MaxCap /\ 0 \in 0 .. MaxCap
  BY LinuxNodeAssumption
<1>4. \A v \in Volume :
        /\ device[v] \in DeviceRecord /\ device[v].allowFormat
        /\ device[v].data => device[v].content = "other"
  <2>1. \A v \in Volume : c[v] \in {"blank", "fs", "broken", "other"}
    BY LinuxNodeAssumption
  <2> QED BY <1>2, <1>3, <2>1 DEF DeviceRecord
<1>5. LinuxType /\ DataIsProtected /\ GrantSpentOnFS
  <2>1. device \in [Volume -> DeviceRecord]
    BY <1>2, <1>4
  <2> QED BY <1>4, <2>1 DEF LinuxInit, LinuxType, DataIsProtected, GrantSpentOnFS
<1>6. MountIsFS
  BY <1>1 DEF Init, MountIsFS, NoEntries
<1>7. ASSUME NEW i \in VM PROVE LinuxOK(i)
  <2>1. rpc[i].at = "idle" /\ DOMAIN journal[i] = {} /\ DOMAIN published[i] = {}
    BY <1>1 DEF Init, LinuxInit, NoRPC, NoEntries
  <2> QED BY <2>1 DEF LinuxOK, GrantIsFresh, ReadyIsMarked, PublishedIsTracked,
             UnpublishPoint
<1> QED BY <1>1, <1>5, <1>6, <1>7 DEF LinuxInv

\* No step of the whole Linux node takes data away.
LEMMA DataStays ==
  ASSUME NodeInv, LinuxInv, [LinuxNext]_linuxVars, NEW v \in Volume, device[v].data
  PROVE  device'[v].data
<1>1. device \in [Volume -> DeviceRecord] /\ NodeType
  BY DEF LinuxInv, LinuxType, NodeInv
<1>2. ASSUME NEW w, NEW d, SetDevice(w, d), w = v => d.data
      PROVE  device'[v].data
  BY <1>1, <1>2 DEF SetDevice
<1>3. ASSUME NEW i \in VM, rpc[i].at = "mkfs"
      PROVE  rpc[i].vol # v
  <2>1. device[rpc[i].vol].allowFormat /\ device[rpc[i].vol].content = "blank"
    BY <1>3 DEF LinuxInv, LinuxOK, GrantIsFresh
  <2> QED BY <2>1 DEF LinuxInv, DataIsProtected
<1>4. ASSUME NEW i \in VM, Mkfs(i) \/ MkfsKilled(i)
      PROVE  device'[v].data
  <2>1. rpc[i].vol # v
    BY <1>3, <1>4 DEF Mkfs, MkfsKilled, At
  <2> QED BY <1>2, <1>4, <2>1 DEF Mkfs, MkfsKilled
<1>5. ASSUME NEW i \in VM, LinuxMark(i) \/ ExpandResize(i)
      PROVE  device'[v].data
  <2>1. CASE LinuxMark(i)
    <3> DEFINE w == rpc[i].vol
               q == Request(i, "MarkInitialized", w, rpc[i].path, rpc[i].gen)
               d == [device[w] EXCEPT !.allowFormat = @ /\ ~UseChecked(q)]
    <3>1. SetDevice(w, d)
      BY <2>1 DEF LinuxMark
    <3>2. w = v => d.data
      BY <1>1 DEF DeviceRecord
    <3> HIDE DEF w, d
    <3> QED BY <1>2, <3>1, <3>2
  <2>2. CASE ExpandResize(i)
    <3> DEFINE w == rpc[i].vol
               d == IF Block(w) THEN device[w] ELSE Enlarged(device[w])
    <3>1. UNCHANGED device \/ SetDevice(w, d)
      BY <2>2 DEF ExpandResize
    <3>2. w = v => d.data
      BY <1>1 DEF DeviceRecord, Enlarged
    <3> HIDE DEF w, d
    <3> QED BY <1>2, <3>1, <3>2
  <2> QED BY <1>5, <2>1, <2>2
<1>6. ASSUME NEW i \in VM, NEW target, PodWrites(i, target)
      PROVE  device'[v].data
  <2> DEFINE w == mounts[i][target].vol
             d == [device[w] EXCEPT !.data = TRUE]
  <2>1. SetDevice(w, d)
    BY <1>6 DEF PodWrites
  <2>2. w = v => d.data
    BY <1>1 DEF DeviceRecord
  <2> HIDE DEF w, d
  <2> QED BY <1>2, <2>1, <2>2
<1>7. ASSUME NEW w \in Volume, CloudStep(w) \/ Damage(w)
      PROVE  device'[v].data
  <2> DEFINE ds == {[device[w] EXCEPT !.size = @ + 1],
                    [device[w] EXCEPT !.noted = device[w].size],
                    [device[w] EXCEPT !.seen = device[w].size],
                    [device[w] EXCEPT !.content = "blank"]}
  <2>1. UNCHANGED device \/ \E d \in ds : SetDevice(w, d)
    BY <1>7 DEF CloudStep, host, LinuxTakeDisk, CloudGrows, PlatformNotes,
       VMNotices, Damage
  <2>2. \A d \in ds : w = v => d.data
    BY <1>1 DEF DeviceRecord
  <2> HIDE DEF ds
  <2> QED BY <1>2, <2>1, <2>2
<1>8. ASSUME NEW i \in VM, LinuxKubeletCall(i) PROVE UNCHANGED device
  BY <1>8 DEF LinuxKubeletCall, LinuxStageBegin, LinuxPublishBegin,
     LinuxUnpublishBegin, LinuxUnstageBegin, ExpandBegin, host
<1>9. ASSUME NEW i \in VM, LinuxRPCStep(i) PROVE device'[v].data
  <2>1. CASE AgentStep(i)
    BY <2>1 DEF AgentStep, host
  <2>2. CASE HostStep(i)
    BY <1>4, <1>5, <2>2 DEF HostStep, LinuxAcquire, StageProbe, StageFsMount,
       LinuxReady, LinuxBind, RemountReadOnly, PublishAnswer, ExpandCheck,
       ExpandNote, Unchanged, host
  <2> QED BY <1>9, <2>1, <2>2 DEF LinuxRPCStep
<1>10. ASSUME NEW i \in VM, HostTrouble(i) PROVE device'[v].data
  BY <1>4, <1>10 DEF HostTrouble, RemountFails, HostBreak, LinuxReboot, host
<1>11. CASE UNCHANGED linuxVars \/ \E q \in late : Deliver(q) /\ UNCHANGED host
  BY <1>11 DEF linuxVars, host
<1> QED BY <1>6, <1>7, <1>8, <1>9, <1>10, <1>11 DEF LinuxNext

\* The invariants of the agents and of the host hold together.
THEOREM LinuxInvariantHolds ==
  ASSUME ReleasesInOrder
  PROVE  LinuxSpec => [](NodeInv /\ JournalInv /\ LinuxInv)
<1>1. LinuxInit => NodeInv /\ JournalInv /\ LinuxInv
  BY LinuxInitInv
<1>2. /\ NodeInv /\ JournalInv /\ LinuxInv
      /\ [LinuxNext]_linuxVars
      => NodeInv' /\ JournalInv' /\ LinuxInv'
  <2> SUFFICES ASSUME NodeInv, JournalInv, LinuxInv, [LinuxNext]_linuxVars
               PROVE  NodeInv' /\ JournalInv' /\ LinuxInv'
    OBVIOUS
  <2>1. device \in [Volume -> DeviceRecord]
    BY DEF LinuxInv, LinuxType
  <2> QED BY <2>1, NodeStepOnLinux, LinuxStep
<1> QED BY <1>1, <1>2, PTL DEF LinuxSpec

\* GrantSpentOnFS, for any number of VMs, volumes and paths, whatever breaks:
\* the grant to format ends only on a device that holds its file system, or
\* what somebody wrote (node.go:126-131, linux.go:318).
THEOREM GrantSpentOnFSHolds ==
  ASSUME ReleasesInOrder PROVE LinuxSpec => []GrantSpentOnFS
<1>1. NodeInv /\ JournalInv /\ LinuxInv => GrantSpentOnFS
  BY DEF LinuxInv
<1> QED BY <1>1, LinuxInvariantHolds, PTL

\* NoDataLost: no step formats a device that holds what somebody wrote
\* (linux.go:146-161, node.go:129).
THEOREM NoDataLostHolds ==
  ASSUME ReleasesInOrder PROVE LinuxSpec => NoDataLost
<1>1. NodeInv /\ JournalInv /\ LinuxInv /\ [LinuxNext]_linuxVars =>
        [\A v \in Volume : device[v].data => device'[v].data]_linuxVars
  BY DataStays
<1> QED BY <1>1, LinuxInvariantHolds, PTL DEF LinuxSpec, NoDataLost

\* What holds for the agents of NodeAgent holds for those on the Linux host:
\* every mount has a use on record (node.go:110, 253-256), and no volume is
\* on two VMs.
THEOREM LinuxAgentIsSafe ==
  ASSUME ReleasesInOrder
  PROVE  LinuxSpec => [](MountHasUse /\ MountedOnOneVM)
<1>1. NodeInv => MountHasUse
  BY DEF NodeInv, NodeOK, MountsBacked, Backed, MountHasUse
<1>2. MountHasUse => MountedOnOneVM
  BY DEF MountHasUse, MountedOnOneVM
<1> QED BY <1>1, <1>2, LinuxInvariantHolds, PTL

(***************************************************************************)
(* Growth.                                                                 *)
(***************************************************************************)
\* A device that has only grown.
Grows(d, e) ==
  /\ e \in DeviceRecord
  /\ d.fs <= e.fs /\ d.seen <= e.seen /\ e.fs <= e.seen /\ e.seen <= e.size

\* The updates the actions make of a device.
LEMMA DeviceUpdates ==
  ASSUME NEW d \in DeviceRecord, d.fs <= d.seen, d.seen <= d.size
  PROVE  /\ Grows(d, d) /\ Grows(d, Formatted(d)) /\ Grows(d, Enlarged(d))
         /\ \A c \in {"blank", "broken"} : Grows(d, HalfFormatted(d, c))
         /\ \A b \in BOOLEAN : Grows(d, [d EXCEPT !.allowFormat = b])
         /\ Grows(d, [d EXCEPT !.data = TRUE])
         /\ Grows(d, [d EXCEPT !.content = "blank"])
         /\ d.size < MaxCap => Grows(d, [d EXCEPT !.size = d.size + 1])
         /\ Grows(d, [d EXCEPT !.noted = d.size])
         /\ Grows(d, [d EXCEPT !.seen = d.size])
<1> USE LinuxNodeAssumption
<1>1. /\ d.fs \in 0 .. MaxCap /\ d.seen \in 1 .. MaxCap /\ d.size \in 1 .. MaxCap
      /\ d.seen \in 0 .. MaxCap
  BY DEF DeviceRecord
<1>2. Grows(d, d) /\ Grows(d, Enlarged(d))
  BY <1>1 DEF Grows, Enlarged, DeviceRecord
<1>3. Grows(d, Formatted(d))
  <2>1. Formatted(d) \in DeviceRecord
    BY FormatTyped
  <2>2. /\ Formatted(d).fs = d.seen /\ Formatted(d).seen = d.seen
        /\ Formatted(d).size = d.size
    BY DEF Formatted, DeviceRecord
  <2> QED BY <1>1, <2>1, <2>2 DEF Grows
<1>4. ASSUME NEW c \in {"blank", "broken"} PROVE Grows(d, HalfFormatted(d, c))
  <2> DEFINE e == HalfFormatted(d, c)
  <2>1. /\ e \in DeviceRecord
        /\ e.fs = d.fs /\ e.seen = d.seen /\ e.size = d.size
    BY DEF HalfFormatted, DeviceRecord
  <2> HIDE DEF e
  <2>2. Grows(d, e)
    BY <1>1, <2>1 DEF Grows
  <2> QED BY <2>2 DEF e
<1>5. ASSUME NEW b \in BOOLEAN PROVE Grows(d, [d EXCEPT !.allowFormat = b])
  BY <1>1 DEF Grows, DeviceRecord
<1>6. /\ Grows(d, [d EXCEPT !.data = TRUE])
      /\ Grows(d, [d EXCEPT !.content = "blank"])
  <2>1. ASSUME NEW e \in DeviceRecord, e.fs = d.fs, e.seen = d.seen, e.size = d.size
        PROVE  Grows(d, e)
    BY <1>1, <2>1 DEF Grows
  <2>2. [d EXCEPT !.content = "blank"] \in DeviceRecord
    BY DEF DeviceRecord
  <2>3. [d EXCEPT !.data = TRUE] \in DeviceRecord
    BY DEF DeviceRecord
  <2>4. \A b : LET e == [d EXCEPT !.data = b]
             IN e.fs = d.fs /\ e.seen = d.seen /\ e.size = d.size
    BY DEF DeviceRecord
  <2>5. LET e == [d EXCEPT !.content = "blank"]
        IN e.fs = d.fs /\ e.seen = d.seen /\ e.size = d.size
    BY DEF DeviceRecord
  <2> QED BY <2>1, <2>2, <2>3, <2>4, <2>5
<1>7. ASSUME d.size < MaxCap PROVE Grows(d, [d EXCEPT !.size = d.size + 1])
  <2>1. d.size + 1 \in 1 .. MaxCap /\ d.seen <= d.size + 1
    BY <1>1, <1>7
  <2> QED BY <1>1, <2>1 DEF Grows, DeviceRecord
<1>8. Grows(d, [d EXCEPT !.noted = d.size]) /\ Grows(d, [d EXCEPT !.seen = d.size])
  <2>1. d.fs <= d.size /\ d.size <= d.size
    BY <1>1
  <2> QED BY <1>1, <2>1 DEF Grows, DeviceRecord
<1> QED BY <1>2, <1>3, <1>4, <1>5, <1>6, <1>7, <1>8

\* A step changes devices only so.
DevicesGrow ==
  /\ device' \in [Volume -> DeviceRecord]
  /\ \A v \in Volume : Grows(device[v], device'[v])

\* One device is updated, or none;
LEMMA DeviceSet ==
  ASSUME SizesInv, NEW v, NEW d, SetDevice(v, d), v \in Volume => Grows(device[v], d)
  PROVE  DevicesGrow
<1>1. /\ device \in [Volume -> DeviceRecord]
      /\ \A w \in Volume : Grows(device[w], device[w])
  BY DeviceUpdates DEF SizesInv
<1>2. CASE v \in Volume
  <2>1. d \in DeviceRecord
    BY <1>2 DEF Grows
  <2> QED BY <1>1, <1>2, <2>1 DEF DevicesGrow, SetDevice
<1>3. CASE v \notin Volume
  BY <1>1, <1>3 DEF DevicesGrow, SetDevice
<1> QED BY <1>2, <1>3

\* no device is touched.
LEMMA DevicesStay ==
  ASSUME SizesInv, UNCHANGED device PROVE DevicesGrow
  BY DeviceUpdates DEF SizesInv, DevicesGrow

\* No step shrinks a device, or the file system on it.
LEMMA DevicesOnlyGrow ==
  ASSUME SizesInv, [LinuxNext]_linuxVars PROVE DevicesGrow
<1>1. \A v \in Volume :
        /\ device[v] \in DeviceRecord /\ device[v].fs <= device[v].seen
        /\ device[v].seen <= device[v].size
  BY DEF SizesInv
<1>2. ASSUME NEW i \in VM, Mkfs(i) \/ MkfsKilled(i) \/ ExpandResize(i) \/ LinuxMark(i)
      PROVE  DevicesGrow
  <2>1. PICK w : w = rpc[i].vol
    OBVIOUS
  <2>2. CASE Mkfs(i)
    <3>1. UNCHANGED device \/ SetDevice(w, Formatted(device[w]))
      BY <2>1, <2>2 DEF Mkfs
    <3>2. w \in Volume => Grows(device[w], Formatted(device[w]))
      BY <1>1, DeviceUpdates
    <3> QED BY <3>1, <3>2, DeviceSet, DevicesStay
  <2>3. CASE MkfsKilled(i)
    <3>1. PICK c \in {"blank", "broken"} : SetDevice(w, HalfFormatted(device[w], c))
      BY <2>1, <2>3 DEF MkfsKilled
    <3>2. w \in Volume => Grows(device[w], HalfFormatted(device[w], c))
      BY <1>1, DeviceUpdates
    <3> QED BY <3>1, <3>2, DeviceSet
  <2>4. CASE ExpandResize(i)
    <3>1. \/ UNCHANGED device \/ SetDevice(w, device[w])
          \/ SetDevice(w, Enlarged(device[w]))
      BY <2>1, <2>4 DEF ExpandResize
    <3>2. w \in Volume => /\ Grows(device[w], device[w])
                          /\ Grows(device[w], Enlarged(device[w]))
      BY <1>1, DeviceUpdates
    <3> QED BY <3>1, <3>2, DeviceSet, DevicesStay
  <2>5. CASE LinuxMark(i)
    <3>1. PICK q : q = Request(i, "MarkInitialized", w, rpc[i].path, rpc[i].gen)
      OBVIOUS
    <3>2. PICK b : b = (device[w].allowFormat /\ ~UseChecked(q))
      OBVIOUS
    <3>3. SetDevice(w, [device[w] EXCEPT !.allowFormat = b])
      BY <2>1, <2>5, <3>1, <3>2 DEF LinuxMark
    <3>4. b \in BOOLEAN
      BY <3>2
    <3>5. w \in Volume => Grows(device[w], [device[w] EXCEPT !.allowFormat = b])
      BY <1>1, <3>4, DeviceUpdates
    <3> QED BY <3>3, <3>5, DeviceSet
  <2> QED BY <1>2, <2>2, <2>3, <2>4, <2>5
<1>3. ASSUME NEW i \in VM, NEW target, PodWrites(i, target)
      PROVE  DevicesGrow
  <2>1. PICK w : w = mounts[i][target].vol
    OBVIOUS
  <2>2. SetDevice(w, [device[w] EXCEPT !.data = TRUE])
    BY <1>3, <2>1 DEF PodWrites
  <2>3. w \in Volume => Grows(device[w], [device[w] EXCEPT !.data = TRUE])
    BY <1>1, DeviceUpdates
  <2> QED BY <2>2, <2>3, DeviceSet
<1>4. ASSUME NEW w \in Volume, CloudStep(w) \/ Damage(w)
      PROVE  DevicesGrow
  <2>1. \/ UNCHANGED device
        \/ device[w].size < MaxCap
             /\ SetDevice(w, [device[w] EXCEPT !.size = device[w].size + 1])
        \/ SetDevice(w, [device[w] EXCEPT !.noted = device[w].size])
        \/ SetDevice(w, [device[w] EXCEPT !.seen = device[w].size])
        \/ SetDevice(w, [device[w] EXCEPT !.content = "blank"])
    BY <1>4 DEF CloudStep, host, LinuxTakeDisk, CloudGrows, PlatformNotes,
       VMNotices, Damage
  <2>2. /\ Grows(device[w], [device[w] EXCEPT !.content = "blank"])
        /\ device[w].size < MaxCap =>
             Grows(device[w], [device[w] EXCEPT !.size = device[w].size + 1])
        /\ Grows(device[w], [device[w] EXCEPT !.noted = device[w].size])
        /\ Grows(device[w], [device[w] EXCEPT !.seen = device[w].size])
    BY <1>1, DeviceUpdates
  <2> QED BY <2>1, <2>2, DeviceSet, DevicesStay
<1>5. ASSUME NEW i \in VM, LinuxKubeletCall(i) PROVE UNCHANGED device
  BY <1>5 DEF LinuxKubeletCall, LinuxStageBegin, LinuxPublishBegin,
     LinuxUnpublishBegin, LinuxUnstageBegin, ExpandBegin, host
<1>6. ASSUME NEW i \in VM, LinuxRPCStep(i) PROVE DevicesGrow
  <2>1. CASE AgentStep(i)
    BY <2>1, DevicesStay DEF AgentStep, host
  <2>2. CASE HostStep(i)
    <3>1. CASE Mkfs(i) \/ ExpandResize(i) \/ LinuxMark(i)
      BY <1>2, <3>1
    <3>2. CASE \/ LinuxAcquire(i) \/ StageProbe(i) \/ StageFsMount(i)
               \/ LinuxReady(i) \/ LinuxBind(i) \/ RemountReadOnly(i)
               \/ PublishAnswer(i) \/ ExpandCheck(i) \/ ExpandNote(i)
      <4>1. UNCHANGED device
        BY <3>2 DEF LinuxAcquire, StageProbe, StageFsMount,
           LinuxReady, LinuxBind, RemountReadOnly, PublishAnswer, ExpandCheck,
           ExpandNote, Unchanged, host
      <4> QED BY <4>1, DevicesStay
    <3> QED BY <2>2, <3>1, <3>2 DEF HostStep
  <2> QED BY <1>6, <2>1, <2>2 DEF LinuxRPCStep
<1>7. ASSUME NEW i \in VM, HostTrouble(i) PROVE DevicesGrow
  BY <1>2, <1>7, DevicesStay DEF HostTrouble, RemountFails, HostBreak, LinuxReboot, host
<1>8. CASE UNCHANGED linuxVars \/ \E q \in late : Deliver(q) /\ UNCHANGED host
  BY <1>8, DevicesStay DEF linuxVars, host
<1> QED BY <1>3, <1>4, <1>5, <1>6, <1>7, <1>8, DevicesStay DEF LinuxNext

(***************************************************************************)
(* What a running NodeExpandVolume needs.                                  *)
(***************************************************************************)
NeedOK(i) ==
  /\ rpc[i].at \in ExpandPoint => rpc[i].need \in 1 .. MaxCap
  /\ At(i, "note") => rpc[i].need <= Usable(rpc[i].vol)

\* No step of NodeAgent has to do with it.
LEMMA NotExpanding ==
  ASSUME NodeType, [Next]_vars, NEW j \in VM
  PROVE  rpc'[j] = rpc[j] \/ rpc'[j].at \notin ExpandPoint
<1>1. rpc \in [VM -> RPC] /\ NoRPC.at \notin ExpandPoint
  BY DEF NodeType, NoRPC, ExpandPoint
<1>2. ASSUME NEW p, Continue(j, p), p \notin ExpandPoint,
             \/ rpc[j].at \in StagePoint /\ p \in StagePoint
             \/ rpc[j].at \in PublishPoint /\ p \in PublishPoint
             \/ rpc[j].at \in UnpublishPoint /\ p \in UnpublishPoint
             \/ rpc[j].at \in UnstagePoint /\ p \in UnstagePoint
      PROVE  rpc'[j].at \notin ExpandPoint
  BY <1>2, Continues
<1>3. Finish(j) => rpc'[j].at \notin ExpandPoint
  BY <1>1 DEF Finish
<1>4. CASE RPCStep(j)
  <2>1. CASE StageStep(j)
    <3>1. /\ rpc[j].at \in StagePoint
          /\ \/ Finish(j)
             \/ \E p \in {"record", "mount", "mark", "ready"} : Continue(j, p)
      BY <2>1 DEF StageStep, StageAcquire, StageRecord, StageMount, StageMark,
         StageReady, At, StagePoint
    <3> QED BY <1>2, <1>3, <3>1 DEF StagePoint, ExpandPoint
  <2>2. CASE PublishStep(j)
    <3>1. /\ rpc[j].at \in PublishPoint
          /\ Finish(j) \/ \E p \in {"track", "bind"} : Continue(j, p)
      BY <2>2 DEF PublishStep, PublishAnnounce, PublishTrack, PublishBind, At,
         PublishPoint
    <3> QED BY <1>2, <1>3, <3>1 DEF PublishPoint, ExpandPoint
  <2>3. CASE UnpublishStep(j)
    <3>1. /\ rpc[j].at \in UnpublishPoint
          /\ Finish(j) \/ Continue(j, "untrack")
      BY <2>3 DEF UnpublishStep, UnpublishUnmount, UnpublishUntrack, At,
         UnpublishPoint
    <3> QED BY <1>2, <1>3, <3>1 DEF UnpublishPoint, ExpandPoint
  <2>4. CASE UnstageStep(j)
    <3>1. /\ rpc[j].at \in UnstagePoint
          /\ Finish(j) \/ \E p \in {"release", "forget"} : Continue(j, p)
      BY <2>4 DEF UnstageStep, UnstageUnmount, UnstageRelease, UnstageForget, At,
         UnstagePoint
    <3> QED BY <1>2, <1>3, <3>1 DEF UnstagePoint, ExpandPoint
  <2> QED BY <1>4, <2>1, <2>2, <2>3, <2>4 DEF RPCStep
<1>5. CASE KubeletCall(j)
  <2>1. \A r : Start(j, r) => rpc'[j] = r
    BY <1>1 DEF Start
  <2>2. \E r : Start(j, r) /\ r.at \in {"acquire", "announce", "unbind", "unmount"}
    <3>1. ASSUME NEW v, NEW path, NEW g, StageBegin(j, v, path, g)
          PROVE  \E r : Start(j, r) /\ r.at = "acquire"
      BY <3>1 DEF StageBegin
    <3>2. ASSUME NEW v, NEW path, NEW g, NEW target, NEW conf,
                 PublishBegin(j, v, path, g, target, conf)
          PROVE  \E r : Start(j, r) /\ r.at = "announce"
      BY <3>2 DEF PublishBegin
    <3>3. ASSUME NEW v, NEW path, UnpublishBegin(j, v, path)
          PROVE  \E r : Start(j, r) /\ r.at = "unbind"
      BY <3>3 DEF UnpublishBegin
    <3>4. ASSUME NEW v, NEW path, UnstageBegin(j, v, path)
          PROVE  \E r : Start(j, r) /\ r.at = "unmount"
      BY <3>4 DEF UnstageBegin
    <3> QED BY <1>5, <3>1, <3>2, <3>3, <3>4 DEF KubeletCall
  <2> QED BY <2>1, <2>2 DEF ExpandPoint
<1>6. ASSUME NEW i \in VM, Break(i) \/ TimeOut(i) \/ Reboot(i)
      PROVE  rpc'[j] = rpc[j] \/ rpc'[j].at \notin ExpandPoint
  BY <1>1, <1>6 DEF Break, TimeOut, Reboot, Finish
<1>7. ASSUME NEW v \in Volume, PlatformStep(v) PROVE rpc' = rpc
  BY <1>7 DEF PlatformStep, Grant, TakeDisk, CloseGate, GiveDisk, Retire, SetLease
<1>8. CASE UNCHANGED vars \/ \E q \in late : Deliver(q)
  BY <1>8 DEF vars, Deliver
<1>9. ASSUME NEW i \in VM, i # j, KubeletCall(i) \/ RPCStep(i) PROVE rpc'[j] = rpc[j]
  BY <1>9, OthersStay
<1> QED BY <1>4, <1>5, <1>6, <1>7, <1>8, <1>9 DEF Next

\* What is needed stays usable.
LEMMA NeedStays ==
  ASSUME NodeType, SizesInv, DevicesGrow, UNCHANGED mode, NEW j \in VM,
         rpc'[j] = rpc[j] \/ rpc'[j].at \notin ExpandPoint
  PROVE  NeedOK(j)'
<1>1. CASE rpc'[j].at \notin ExpandPoint
  BY <1>1 DEF NeedOK, ExpandPoint, At
<1>2. CASE rpc'[j] = rpc[j] /\ rpc[j].at \in ExpandPoint
  <2>1. rpc[j] \in ExpandRPC /\ NeedOK(j)
    BY <1>2, Shapes DEF SizesInv, NeedOK
  <2>2. PICK v : v = rpc[j].vol
    OBVIOUS
  <2>3. v \in Volume /\ rpc[j].need \in Nat
    BY <2>1, <2>2 DEF ExpandRPC
  <2>4. /\ device[v].fs \in Nat /\ device[v].seen \in Nat
        /\ device'[v].fs \in Nat /\ device'[v].seen \in Nat
        /\ device[v].fs <= device'[v].fs /\ device[v].seen <= device'[v].seen
    BY <2>3, LinuxNodeAssumption DEF SizesInv, DevicesGrow, Grows, DeviceRecord
  <2>5. Usable(v) <= Usable(v)' /\ Usable(v) \in Nat /\ Usable(v)' \in Nat
    BY <2>4 DEF Usable, Block
  <2> QED BY <1>2, <2>1, <2>2, <2>3, <2>5 DEF NeedOK, At
<1> QED BY <1>1, <1>2

\* The host's own steps: NodeExpandVolume's are the ones that matter.
LEMMA HostNeeds ==
  ASSUME NodeInv, SizesInv, DevicesGrow, NEW i \in VM, HostOnly(i), NEW j \in VM
  PROVE  NeedOK(j)'
<1>1. NodeType /\ rpc \in [VM -> RPC] /\ NoRPC.at \notin ExpandPoint
  BY DEF NodeInv, NodeType, NoRPC, ExpandPoint
<1>2. UNCHANGED mode
  BY DEF HostOnly, StageProbe, Mkfs, StageFsMount, LinuxBind, RemountReadOnly,
     PublishAnswer, ExpandCheck, ExpandResize, ExpandNote, MkfsKilled,
     RemountFails, HostBreak, ExpandBegin, Unchanged, host
<1>3. ASSUME NEW r, rpc' = [rpc EXCEPT ![i] = r],
             r.at \notin ExpandPoint \/ NeedOK(i)'
      PROVE  NeedOK(j)'
  <2>1. CASE i = j
    BY <1>1, <1>2, <1>3, <2>1, NeedStays
  <2>2. CASE i # j
    BY <1>1, <1>2, <1>3, <2>2, NeedStays
  <2> QED BY <2>1, <2>2
<1>4. CASE Finish(i)
  BY <1>1, <1>3, <1>4 DEF Finish
<1>5. ASSUME NEW p, Continue(i, p), HostMove(rpc[i].at, p) \/ p \in {"remount", "answer"},
             p # "note", rpc[i].at \notin {"bind", "remount"} => p # "answer" /\ p # "remount"
      PROVE  NeedOK(j)'
  <2>1. /\ \/ rpc[i].at \in StagePoint /\ p \in StagePoint
           \/ rpc[i].at \in PublishPoint /\ p \in PublishPoint
        /\ p \notin ExpandPoint
    BY <1>5 DEF HostMove, StagePoint, PublishPoint, ExpandPoint
  <2>2. rpc'[i].at = p /\ \A k \in VM : k # i => rpc'[k] = rpc[k]
    BY <1>1, <1>5, <2>1, Continues
  <2> QED BY <1>1, <1>2, <2>1, <2>2, NeedStays
<1>6. CASE StageProbe(i) \/ Mkfs(i) \/ StageFsMount(i)
  <2>1. /\ rpc[i].at \notin {"bind", "remount"}
        /\ Finish(i) \/ \E p \in {"mkfs", "fsmount", "mark"} :
                          Continue(i, p) /\ HostMove(rpc[i].at, p)
    BY <1>6 DEF StageProbe, Mkfs, StageFsMount, At, HostMove
  <2> QED BY <1>4, <1>5, <2>1
<1>7. CASE LinuxBind(i) \/ RemountReadOnly(i) \/ RemountFails(i) \/ PublishAnswer(i)
             \/ HostBreak(i) \/ MkfsKilled(i) \/ ExpandNote(i)
  <2>1. Finish(i) \/ /\ rpc[i].at \in {"bind", "remount"}
                     /\ \E p \in {"remount", "answer"} : Continue(i, p)
    BY <1>7 DEF LinuxBind, RemountReadOnly, RemountFails, PublishAnswer, HostBreak,
       MkfsKilled, ExpandNote, At
  <2> QED BY <1>4, <1>5, <2>1
<1>8. ASSUME NEW v \in Volume, NEW path \in Path, NEW need \in 2 .. MaxCap,
             ExpandBegin(i, v, path, need)
      PROVE  NeedOK(j)'
  <2>1. PICK r : /\ r = [at |-> "check", vol |-> v, path |-> Entry(i, v).path,
                         gen |-> Entry(i, v).gen, need |-> need]
                 /\ rpc' = [rpc EXCEPT ![i] = r]
    BY <1>8 DEF ExpandBegin, Start
  <2>2. rpc'[i] = r /\ r.at = "check" /\ r.need = need
    BY <1>1, <2>1
  <2>3. NeedOK(i)'
    BY <2>2, LinuxNodeAssumption DEF NeedOK, At
  <2> QED BY <1>3, <2>1, <2>3
<1>9. CASE ExpandCheck(i)
  <2>1. rpc[i].at = "check" /\ rpc[i] \in ExpandRPC
    BY <1>1, <1>9, Shapes DEF ExpandCheck, At, ExpandPoint
  <2>2. PICK n : n = device[rpc[i].vol].noted
    OBVIOUS
  <2>3. n \in 1 .. MaxCap
    BY <2>1, <2>2 DEF SizesInv, ExpandRPC, DeviceRecord
  <2>4. PICK r : r = [rpc[i] EXCEPT !.at = "resize", !.need = n]
    OBVIOUS
  <2>5. r.at = "resize" /\ r.need = n
    BY <2>1, <2>4 DEF ExpandRPC
  <2>6. Finish(i) \/ rpc' = [rpc EXCEPT ![i] = r]
    BY <1>9, <2>2, <2>4 DEF ExpandCheck
  <2>7. CASE rpc' = [rpc EXCEPT ![i] = r]
    <3>1. rpc'[i] = r
      BY <1>1, <2>7
    <3>2. NeedOK(i)'
      BY <2>3, <2>5, <3>1 DEF NeedOK, At
    <3> QED BY <1>3, <2>7, <3>2
  <2> QED BY <1>4, <2>6, <2>7
<1>10. CASE ExpandResize(i)
  <2>1. rpc[i].at = "resize" /\ rpc[i] \in ExpandRPC
    BY <1>1, <1>10, Shapes DEF ExpandResize, At, ExpandPoint
  <2>2. PICK v : v = rpc[i].vol
    OBVIOUS
  <2>3. PICK r : r = [rpc[i] EXCEPT !.at = "note"]
    OBVIOUS
  <2>4. r.at = "note" /\ r.need = rpc[i].need /\ r.vol = v
    BY <2>1, <2>2, <2>3 DEF ExpandRPC
  <2>5. \/ Finish(i)
        \/ /\ rpc' = [rpc EXCEPT ![i] = r]
           /\ device[v].seen >= rpc[i].need
           /\ SetDevice(v, IF Block(v) THEN device[v] ELSE Enlarged(device[v]))
    BY <1>10, <2>2, <2>3 DEF ExpandResize, Continue, DeviceHas
  <2>6. ASSUME rpc' = [rpc EXCEPT ![i] = r], device[v].seen >= rpc[i].need,
               SetDevice(v, IF Block(v) THEN device[v] ELSE Enlarged(device[v]))
        PROVE  NeedOK(j)'
    <3>1. v \in Volume /\ device[v] \in DeviceRecord /\ rpc[i].need \in 1 .. MaxCap
      BY <2>1, <2>2 DEF SizesInv, ExpandRPC, ExpandPoint
    <3>2. /\ Enlarged(device[v]).fs = device[v].seen
          /\ device[v].seen \in Nat
      BY <3>1, LinuxNodeAssumption DEF Enlarged, DeviceRecord
    <3>3. device'[v] = IF Block(v) THEN device[v] ELSE Enlarged(device[v])
      BY <2>6, <3>1 DEF SizesInv, SetDevice
    <3>4. Usable(v)' = device[v].seen
      BY <1>2, <3>2, <3>3 DEF Usable, Block
    <3>5. rpc'[i] = r
      BY <1>1, <2>6
    <3>6. rpc[i].need <= device[v].seen
      BY <2>6, <3>1, <3>2
    <3>7. rpc'[i].vol = v /\ rpc'[i].need \in 1 .. MaxCap /\ rpc'[i].need <= Usable(v)'
      BY <2>4, <3>1, <3>4, <3>5, <3>6
    <3>8. Usable(rpc[i].vol)' = Usable(v)'
      BY <3>7 DEF Usable, Block
    <3>9. NeedOK(i)'
      BY <3>7, <3>8 DEF NeedOK
    <3> QED BY <1>3, <2>6, <3>9
  <2> QED BY <1>4, <2>5, <2>6
<1> QED BY <1>6, <1>7, <1>8, <1>9, <1>10 DEF HostOnly

\* Only ExpandNote tells the kubelet of a capacity.
LEMMA GrownChanges ==
  ASSUME [LinuxNext]_linuxVars
  PROVE  UNCHANGED grown \/ \E i \in VM : ExpandNote(i)
<1>1. ASSUME NEW i \in VM, LinuxKubeletCall(i) PROVE UNCHANGED grown
  BY <1>1 DEF LinuxKubeletCall, LinuxStageBegin, LinuxPublishBegin,
     LinuxUnpublishBegin, LinuxUnstageBegin, ExpandBegin, host
<1>2. ASSUME NEW i \in VM, LinuxRPCStep(i), ~ExpandNote(i) PROVE UNCHANGED grown
  BY <1>2 DEF LinuxRPCStep, AgentStep, HostStep, LinuxAcquire, StageProbe, Mkfs,
     StageFsMount, LinuxMark, LinuxReady, LinuxBind, RemountReadOnly,
     PublishAnswer, ExpandCheck, ExpandResize, Unchanged, host
<1>3. ASSUME NEW i \in VM, HostTrouble(i) PROVE UNCHANGED grown
  BY <1>3 DEF HostTrouble, MkfsKilled, RemountFails, HostBreak, LinuxReboot, host
<1>4. ASSUME NEW i \in VM, NEW target \in Path, PodWrites(i, target)
      PROVE  UNCHANGED grown
  BY <1>4 DEF PodWrites
<1>5. ASSUME NEW v \in Volume, CloudStep(v) \/ Damage(v) PROVE UNCHANGED grown
  BY <1>5 DEF CloudStep, LinuxTakeDisk, CloudGrows, PlatformNotes, VMNotices,
     Damage, host
<1>6. CASE UNCHANGED linuxVars \/ \E q \in late : Deliver(q) /\ UNCHANGED host
  BY <1>6 DEF linuxVars, host
<1> QED BY <1>1, <1>2, <1>3, <1>4, <1>5, <1>6 DEF LinuxNext

\* The mode of a volume never changes.
LEMMA ModeStays ==
  ASSUME [LinuxNext]_linuxVars PROVE UNCHANGED mode
<1>1. ASSUME NEW i \in VM, LinuxKubeletCall(i) PROVE UNCHANGED mode
  BY <1>1 DEF LinuxKubeletCall, LinuxStageBegin, LinuxPublishBegin,
     LinuxUnpublishBegin, LinuxUnstageBegin, ExpandBegin, host
<1>2. ASSUME NEW i \in VM, LinuxRPCStep(i) PROVE UNCHANGED mode
  BY <1>2 DEF LinuxRPCStep, AgentStep, HostStep, LinuxAcquire, StageProbe, Mkfs,
     StageFsMount, LinuxMark, LinuxReady, LinuxBind, RemountReadOnly,
     PublishAnswer, ExpandCheck, ExpandResize, ExpandNote, Unchanged, host
<1>3. ASSUME NEW i \in VM, HostTrouble(i) PROVE UNCHANGED mode
  BY <1>3 DEF HostTrouble, MkfsKilled, RemountFails, HostBreak, LinuxReboot, host
<1>4. ASSUME NEW i \in VM, NEW target \in Path, PodWrites(i, target)
      PROVE  UNCHANGED mode
  BY <1>4 DEF PodWrites
<1>5. ASSUME NEW v \in Volume, CloudStep(v) \/ Damage(v) PROVE UNCHANGED mode
  BY <1>5 DEF CloudStep, LinuxTakeDisk, CloudGrows, PlatformNotes, VMNotices,
     Damage, host
<1>6. CASE UNCHANGED linuxVars \/ \E q \in late : Deliver(q) /\ UNCHANGED host
  BY <1>6 DEF linuxVars, host
<1> QED BY <1>1, <1>2, <1>3, <1>4, <1>5, <1>6 DEF LinuxNext

\* What is told, and what is needed, stays usable.
LEMMA SizesStep ==
  ASSUME NodeInv, SizesInv, [LinuxNext]_linuxVars PROVE SizesInv'
<1>1. NodeType /\ DevicesGrow /\ UNCHANGED mode
  BY DevicesOnlyGrow, ModeStays DEF NodeInv
<1>2. ASSUME NEW j \in VM PROVE NeedOK(j)'
  <2>1. CASE AsNodeAgent
    BY <1>1, <2>1, NodeAgentSteps, NotExpanding, NeedStays
  <2> QED BY <1>1, <2>1, LinuxSteps, HostNeeds
<1>3. ASSUME NEW v \in Volume
      PROVE  /\ Usable(v) \in Nat /\ Usable(v)' \in Nat /\ Usable(v) <= Usable(v)'
             /\ device'[v].fs <= device'[v].seen /\ device'[v].seen <= device'[v].size
  <2>1. /\ device[v].fs \in Nat /\ device[v].seen \in Nat
        /\ device'[v].fs \in Nat /\ device'[v].seen \in Nat
        /\ device[v].fs <= device'[v].fs /\ device[v].seen <= device'[v].seen
    BY <1>1, LinuxNodeAssumption DEF SizesInv, DevicesGrow, Grows, DeviceRecord
  <2> QED BY <1>1, <2>1 DEF Usable, Block, DevicesGrow, Grows
<1>4. /\ grown' \in [Volume -> 1 .. MaxCap]
      /\ \A v \in Volume : grown'[v] > 1 => grown'[v] <= Usable(v)'
  <2>1. CASE UNCHANGED grown
    <3>1. \A v \in Volume : grown[v] \in Nat
      BY LinuxNodeAssumption DEF SizesInv
    <3> QED BY <1>3, <2>1, <3>1 DEF SizesInv
  <2>2. ASSUME NEW i \in VM, ExpandNote(i)
        PROVE  /\ grown' \in [Volume -> 1 .. MaxCap]
               /\ \A v \in Volume : grown'[v] > 1 => grown'[v] <= Usable(v)'
    <3>1. PICK w, n : w = rpc[i].vol /\ n = rpc[i].need
      OBVIOUS
    <3>2. /\ rpc[i].at = "note" /\ grown' = [grown EXCEPT ![w] = n]
      BY <2>2, <3>1 DEF ExpandNote, At
    <3>3. rpc[i] \in ExpandRPC
      BY <1>1, <3>2, Shapes DEF ExpandPoint
    <3>4. w \in Volume /\ n \in 1 .. MaxCap /\ n <= Usable(w)
      BY <3>1, <3>2, <3>3 DEF SizesInv, ExpandRPC, ExpandPoint, At
    <3>5. \A v \in Volume : grown[v] \in Nat
      BY LinuxNodeAssumption DEF SizesInv
    <3>6. n <= Usable(w)'
      BY <1>3, <3>4, LinuxNodeAssumption
    <3>7. \A v \in Volume : grown'[v] = IF v = w THEN n ELSE grown[v]
      BY <3>2 DEF SizesInv
    <3> QED BY <1>3, <3>2, <3>4, <3>5, <3>6, <3>7 DEF SizesInv
  <2> QED BY <2>1, <2>2, GrownChanges
<1> QED BY <1>1, <1>2, <1>3, <1>4 DEF SizesInv, DevicesGrow, NeedOK

\* At first nothing has grown.
LEMMA SizesInit == LinuxInit => SizesInv
<1> SUFFICES ASSUME LinuxInit PROVE SizesInv
  OBVIOUS
<1> USE LinuxNodeAssumption
<1>1. PICK c \in [Volume -> Content] :
        device = [v \in Volume |->
                    [content |-> c[v], data |-> c[v] = "other",
                     allowFormat |-> TRUE, size |-> 1, noted |-> 1, seen |-> 1,
                     fs |-> 0]]
  BY DEF LinuxInit
<1>2. 1 \in 1 .. MaxCap /\ 0 \in 0 .. MaxCap
  OBVIOUS
<1>3. ASSUME NEW v \in Volume
      PROVE  /\ device[v] \in DeviceRecord
             /\ device[v].fs = 0 /\ device[v].seen = 1 /\ device[v].size = 1
  <2>1. c[v] \in {"blank", "other"} /\ (c[v] = "other") \in BOOLEAN
    OBVIOUS
  <2>2. \A b \in BOOLEAN :
          [content |-> c[v], data |-> b, allowFormat |-> TRUE, size |-> 1,
           noted |-> 1, seen |-> 1, fs |-> 0] \in DeviceRecord
    BY <1>2, <2>1 DEF DeviceRecord
  <2> QED BY <1>1, <2>1, <2>2
<1>4. device \in [Volume -> DeviceRecord]
  BY <1>1, <1>3
<1>5. grown = [v \in Volume |-> 1]
  BY DEF LinuxInit
<1>6. ASSUME NEW i \in VM PROVE rpc[i].at = "idle"
  BY DEF LinuxInit, Init, NoRPC
<1> QED BY <1>2, <1>3, <1>4, <1>5, <1>6 DEF SizesInv, ExpandPoint, At

\* Growth is known in order: the platform's table is not ahead of the cloud,
\* nor the VM, nor the file system, whatever the leases do.
THEOREM SizesHold == LinuxSpec => [](NodeInv /\ JournalInv /\ SizesInv)
<1>1. LinuxInit => NodeInv /\ JournalInv /\ SizesInv
  BY NodeInit, JournalInit, SizesInit DEF LinuxInit
<1>2. NodeInv /\ JournalInv /\ SizesInv /\ [LinuxNext]_linuxVars
        => NodeInv' /\ JournalInv' /\ SizesInv'
  BY NodeStepOnLinux, SizesStep DEF SizesInv
<1> QED BY <1>1, <1>2, PTL DEF LinuxSpec

\* No path of a VM on the Linux host belongs to two volumes (node.go:105-109,
\* 174-179), in whatever order releases are executed.
THEOREM LinuxPathHasOneOwner == LinuxSpec => []PathHasOneOwner
<1>1. JournalInv => PathHasOneOwner
  BY DEF JournalInv, JournalOK, PathsOwned, PathHasOneOwner
<1> QED BY <1>1, SizesHold, PTL

\* GrownIsThere: the capacity NodeExpandVolume confirmed is usable, on every
\* VM and whatever else happens meanwhile (node.go:301-318, linux.go:263-284).
THEOREM GrownIsThereHolds == LinuxSpec => []GrownIsThere
<1>1. SizesInv => GrownIsThere
  BY DEF SizesInv, GrownIsThere, Usable, Block
<1> QED BY <1>1, SizesHold, PTL

(***************************************************************************)
(* What the kubelet relies on.                                             *)
(***************************************************************************)
\* Points at which nothing is known of the host.
Unseen == {"idle", "acquire", "record", "mount", "mkfs", "fsmount", "check",
           "resize", "note"}

\* There, nothing is to be shown of the host.
LEMMA UnseenPoint ==
  ASSUME NEW i \in VM, rpc'[i].at \in Unseen
  PROVE  HostAsSeen(i)' /\ rpc'[i].at \notin UnpublishPoint
  BY DEF Unseen, HostAsSeen, PublishPoint, UnpublishPoint, UnstagePoint

\* A step of the VM's RPC alone.
LEMMA ServedGoesOn ==
  ASSUME NEW i \in VM, ServedOK(i), HostAsSeen(i)',
         journal'[i] = journal[i], mounts'[i] = mounts[i], mode' = mode,
         staged'[i] = staged[i], published'[i] = published[i],
         rpc'[i].at \in UnpublishPoint => rpc'[i].target \notin DOMAIN published[i]
  PROVE  ServedOK(i)'
<1>1. StagedIsMounted(i)'
  BY DEF ServedOK, StagedIsMounted, Entry, Block, StageMounted, MountedFrom, Mounted
<1>2. TargetsServed(i)'
  BY DEF ServedOK, TargetsServed, TargetServed
<1>3. PublishedIsTracked(i)'
  BY DEF ServedOK, PublishedIsTracked, Entry
<1> QED BY <1>1, <1>2, <1>3 DEF ServedOK

\* A VM that nothing happens to.
LEMMA ServedSame ==
  ASSUME NEW i \in VM, ServedOK(i), rpc'[i] = rpc[i],
         journal'[i] = journal[i], mounts'[i] = mounts[i], mode' = mode,
         staged'[i] = staged[i], published'[i] = published[i]
  PROVE  ServedOK(i)'
<1>1. HostAsSeen(i)'
  BY DEF ServedOK, HostAsSeen, Entry, Block, StageMounted, MountedFrom, Mounted,
     TargetServed
<1>2. rpc'[i].at \in UnpublishPoint => rpc'[i].target \notin DOMAIN published[i]
  BY DEF ServedOK, PublishedIsTracked
<1> QED BY <1>1, <1>2, ServedGoesOn

\* No staging path is a target.
LEMMA PublishedIsNoStage ==
  ASSUME NEW i \in VM, ServedOK(i), JournalOK(i), NEW v \in DOMAIN journal[i]
  PROVE  Entry(i, v).path \notin DOMAIN published[i]
  BY DEF ServedOK, PublishedIsTracked, JournalOK, PathsOwned

\* A mount that goes, of what nobody relies on.
LEMMA ServedUnmount ==
  ASSUME NodeType, NEW i \in VM, ServedOK(i), NEW path, RemoveMount(i, path),
         HostAsSeen(i)', path \notin DOMAIN published[i],
         \A v \in staged[i] : Entry(i, v).path # path,
         journal'[i] = journal[i], mode' = mode,
         staged'[i] = staged[i], published'[i] = published[i],
         rpc'[i].at \in UnpublishPoint => rpc'[i].target \notin DOMAIN published[i]
  PROVE  ServedOK(i)'
<1>1. /\ DOMAIN mounts'[i] = DOMAIN mounts[i] \ {path}
      /\ \A p \in DOMAIN mounts'[i] : mounts'[i][p] = mounts[i][p]
  BY MountTableWithout
<1>2. StagedIsMounted(i)'
  <2> SUFFICES ASSUME NEW v \in staged[i]
               PROVE  /\ v \in DOMAIN journal[i]
                      /\ mode[v] # "block" => StageMounted(i, Entry(i, v).path, v)'
    BY DEF StagedIsMounted, Block, Entry
  <2>1. v \in DOMAIN journal[i] /\ Entry(i, v).path # path
    BY DEF ServedOK, StagedIsMounted
  <2>2. ~Block(v) => StageMounted(i, Entry(i, v).path, v)
    BY DEF ServedOK, StagedIsMounted
  <2> QED BY <1>1, <2>1, <2>2 DEF Block, StageMounted, MountedFrom, Mounted, Entry
<1>3. TargetsServed(i)'
  BY <1>1 DEF ServedOK, TargetsServed, TargetServed
<1>4. PublishedIsTracked(i)'
  BY DEF ServedOK, PublishedIsTracked, Entry
<1> QED BY <1>2, <1>3, <1>4 DEF ServedOK

\* A mount that is made, or made again, as what is relied on.
LEMMA ServedMount ==
  ASSUME NodeType, NEW i \in VM, ServedOK(i), NEW path, NEW m, SetMount(i, path, m),
         HostAsSeen(i)', path \notin DOMAIN published[i],
         \A v \in staged[i] : Entry(i, v).path = path => m.vol = v /\ m.source = Device,
         journal'[i] = journal[i], mode' = mode,
         staged'[i] = staged[i], published'[i] = published[i],
         rpc'[i].at \in UnpublishPoint => rpc'[i].target \notin DOMAIN published[i]
  PROVE  ServedOK(i)'
<1>1. mounts'[i] = With(mounts[i], path, m)
  BY MountTableWith
<1>2. /\ DOMAIN mounts'[i] = DOMAIN mounts[i] \cup {path} /\ mounts'[i][path] = m
      /\ \A p \in DOMAIN mounts[i] : p # path => mounts'[i][p] = mounts[i][p]
  BY <1>1 DEF With
<1>3. StagedIsMounted(i)'
  <2> SUFFICES ASSUME NEW v \in staged[i]
               PROVE  /\ v \in DOMAIN journal[i]
                      /\ mode[v] # "block" => StageMounted(i, Entry(i, v).path, v)'
    BY DEF StagedIsMounted, Block, Entry
  <2>1. /\ v \in DOMAIN journal[i]
        /\ ~Block(v) => StageMounted(i, Entry(i, v).path, v)
    BY DEF ServedOK, StagedIsMounted
  <2>2. CASE Entry(i, v).path = path
    BY <1>2, <2>1, <2>2 DEF StageMounted, MountedFrom, Mounted, Entry
  <2>3. CASE Entry(i, v).path # path
    BY <1>2, <2>1, <2>3 DEF Block, StageMounted, MountedFrom, Mounted, Entry
  <2> QED BY <2>2, <2>3
<1>4. TargetsServed(i)'
  BY <1>2 DEF ServedOK, TargetsServed, TargetServed
<1>5. PublishedIsTracked(i)'
  BY DEF ServedOK, PublishedIsTracked, Entry
<1> QED BY <1>3, <1>4, <1>5 DEF ServedOK

\* A journal that keeps the paths of what is staged and the targets relied on.
LEMMA ServedSaved ==
  ASSUME NEW i \in VM, ServedOK(i), HostAsSeen(i)',
         mounts'[i] = mounts[i], mode' = mode,
         staged'[i] = staged[i], published'[i] = published[i],
         \A v \in staged[i] :
           v \in DOMAIN journal'[i] /\ journal'[i][v].path = journal[i][v].path,
         \A v \in DOMAIN journal[i], t \in DOMAIN published[i] :
           t \in DOMAIN journal[i][v].targets =>
             v \in DOMAIN journal'[i] /\ t \in DOMAIN journal'[i][v].targets,
         rpc'[i].at \in UnpublishPoint => rpc'[i].target \notin DOMAIN published[i]
  PROVE  ServedOK(i)'
<1>1. StagedIsMounted(i)'
  BY DEF ServedOK, StagedIsMounted, Entry, Block, StageMounted, MountedFrom, Mounted
<1>2. TargetsServed(i)'
  BY DEF ServedOK, TargetsServed, TargetServed
<1>3. PublishedIsTracked(i)'
  BY DEF ServedOK, PublishedIsTracked, Entry
<1> QED BY <1>1, <1>2, <1>3 DEF ServedOK

\* An RPC that ends.
LEMMA ServedEnds ==
  ASSUME NodeType, NEW i \in VM, ServedOK(i), Finish(i),
         journal'[i] = journal[i], mounts'[i] = mounts[i], mode' = mode,
         staged'[i] = staged[i], published'[i] = published[i]
  PROVE  ServedOK(i)'
<1>1. rpc'[i].at \in Unseen
  BY Ends DEF NoRPC, Unseen
<1> QED BY <1>1, UnseenPoint, ServedGoesOn

\* One that goes on to where nothing is known.
LEMMA ServedUnseen ==
  ASSUME NEW i \in VM, ServedOK(i), rpc'[i].at \in Unseen,
         journal'[i] = journal[i], mounts'[i] = mounts[i], mode' = mode,
         staged'[i] = staged[i], published'[i] = published[i]
  PROVE  ServedOK(i)'
  BY UnseenPoint, ServedGoesOn

(***************************************************************************)
(* NodeStageVolume.                                                        *)
(***************************************************************************)
\* At the point from which a stage becomes what the kubelet relies on.
LEMMA StagePointSeen ==
  ASSUME NEW i \in VM, rpc'[i].at \in {"mark", "ready"}, UNCHANGED mode,
         NEW v, NEW path, rpc'[i].vol = v, rpc'[i].path = path,
         ~Block(v) => StageMounted(i, path, v)'
  PROVE  HostAsSeen(i)' /\ rpc'[i].at \notin UnpublishPoint
  BY DEF HostAsSeen, PublishPoint, UnpublishPoint, UnstagePoint, Block,
     StageMounted, MountedFrom, Mounted

\* AcquireUse touches nothing of the VM;
LEMMA AcquireServes ==
  ASSUME NodeInv, NEW i \in VM, ServedOK(i), LinuxAcquire(i) PROVE ServedOK(i)'
<1>1. /\ NodeType /\ rpc[i].at = "acquire"
      /\ UNCHANGED <<journal, mounts, mode, staged, published>>
      /\ Finish(i) \/ Continue(i, "record")
  BY DEF NodeInv, LinuxAcquire, StageAcquire, At
<1>2. CASE Continue(i, "record")
  <2>1. rpc'[i].at = "record"
    BY <1>1, <1>2, Continues DEF StagePoint
  <2> QED BY <1>1, <2>1, ServedUnseen DEF Unseen
<1> QED BY <1>1, <1>2, ServedEnds

\* the entry that is persisted keeps what is tracked;
LEMMA RecordServes ==
  ASSUME NodeInv, NEW i \in VM, ServedOK(i), StageRecord(i), UNCHANGED host
  PROVE  ServedOK(i)'
<1> DEFINE v == rpc[i].vol
           s == IF Staged(i, v) THEN Entry(i, v)
                                ELSE NewStage(rpc[i].path, rpc[i].gen)
<1>1. /\ NodeType /\ rpc[i].at = "record" /\ Continue(i, "mount")
      /\ journal' = [journal EXCEPT ![i] = With(journal[i], v, s)]
      /\ UNCHANGED <<mounts, mode, staged, published>>
  BY DEF NodeInv, StageRecord, At, Save, host
<1>2. rpc'[i].at = "mount"
  BY <1>1, Continues DEF StagePoint
<1>3. HostAsSeen(i)' /\ rpc'[i].at \notin UnpublishPoint
  BY <1>2, UnseenPoint DEF Unseen
<1>4. \A w \in DOMAIN journal[i] :
        w \in DOMAIN journal'[i] /\ journal'[i][w] = journal[i][w]
  <2>1. journal'[i] = With(journal[i], v, s)
    BY <1>1 DEF NodeType
  <2>2. v \in DOMAIN journal[i] => s = journal[i][v]
    BY DEF Staged, Entry
  <2> HIDE DEF v, s
  <2> QED BY <2>1, <2>2 DEF With
<1>5. \A w \in staged[i] : w \in DOMAIN journal[i]
  BY DEF ServedOK, StagedIsMounted
<1> QED BY <1>1, <1>3, <1>4, <1>5, ServedSaved

\* a mount that is found is the staged file system;
LEMMA ProbeServes ==
  ASSUME NodeInv, NEW i \in VM, ServedOK(i), StageProbe(i) PROVE ServedOK(i)'
<1> DEFINE v == rpc[i].vol
<1>1. /\ NodeType /\ rpc[i].at = "mount"
      /\ UNCHANGED <<journal, mounts, mode, staged, published>>
      /\ \/ Finish(i) \/ Continue(i, "mkfs") \/ Continue(i, "fsmount")
         \/ Continue(i, "mark") /\ (Block(v) \/ StageMounted(i, rpc[i].path, v))
  BY DEF NodeInv, StageProbe, At, Unchanged, StagedBefore
<1>2. ASSUME NEW p \in {"mkfs", "fsmount"}, Continue(i, p) PROVE ServedOK(i)'
  <2>1. rpc'[i].at = p
    BY <1>1, <1>2, Continues DEF StagePoint
  <2> QED BY <1>1, <2>1, ServedUnseen DEF Unseen
<1>3. CASE Continue(i, "mark") /\ (Block(v) \/ StageMounted(i, rpc[i].path, v))
  <2>1. /\ rpc'[i].at = "mark" /\ rpc'[i].vol = v /\ rpc'[i].path = rpc[i].path
    BY <1>1, <1>3, Continues DEF StagePoint, UnpublishPoint
  <2>2. PICK w, p : w = v /\ p = rpc[i].path
    OBVIOUS
  <2>3. ~Block(w) => StageMounted(i, p, w)'
    BY <1>1, <1>3, <2>2 DEF StageMounted, MountedFrom, Mounted
  <2>4. HostAsSeen(i)' /\ rpc'[i].at \notin UnpublishPoint
    BY <1>1, <2>1, <2>2, <2>3, StagePointSeen
  <2> QED BY <1>1, <2>4, ServedGoesOn
<1> QED BY <1>1, <1>2, <1>3, ServedEnds

\* mkfs touches no mount;
LEMMA MkfsServes ==
  ASSUME NodeInv, NEW i \in VM, ServedOK(i), Mkfs(i) PROVE ServedOK(i)'
<1>1. /\ NodeType /\ rpc[i].at = "mkfs"
      /\ UNCHANGED <<journal, mounts, mode, staged, published>>
      /\ Finish(i) \/ Continue(i, "fsmount")
  BY DEF NodeInv, Mkfs, At, Unchanged
<1>2. CASE Continue(i, "fsmount")
  <2>1. rpc'[i].at = "fsmount"
    BY <1>1, <1>2, Continues DEF StagePoint
  <2> QED BY <1>1, <2>1, ServedUnseen DEF Unseen
<1> QED BY <1>1, <1>2, ServedEnds

\* the file system is mounted where nobody relies on it yet;
LEMMA FsMountServes ==
  ASSUME NodeInv, JournalInv, NEW i \in VM, ServedOK(i), StageFsMount(i)
  PROVE  ServedOK(i)'
<1> DEFINE v == rpc[i].vol
           path == rpc[i].path
           m == [vol |-> v, source |-> Device, conf |-> NoConf]
<1>1. /\ NodeType /\ NodeOK(i) /\ JournalOK(i) /\ rpc[i].at = "fsmount"
      /\ UNCHANGED <<journal, mode, staged, published>>
      /\ \/ Finish(i) /\ UNCHANGED mounts
         \/ Continue(i, "mark") /\ SetMount(i, path, m)
  BY DEF NodeInv, JournalInv, StageFsMount, At, Unchanged
<1>2. CASE Continue(i, "mark") /\ SetMount(i, path, m)
  <2>1. rpc'[i].at = "mark" /\ rpc'[i].vol = v /\ rpc'[i].path = path
    BY <1>1, <1>2, Continues DEF StagePoint, UnpublishPoint
  <2>2. v \in DOMAIN journal[i] /\ Entry(i, v).path = path
    BY <1>1 DEF NodeOK, JournalAsSeen, StagePoint, Staged, match
  <2>3. path \notin DOMAIN published[i]
    BY <1>1, <2>2, PublishedIsNoStage
  <2>4. \A w \in staged[i] : Entry(i, w).path = path => w = v
    BY <1>1, <2>2 DEF ServedOK, StagedIsMounted, JournalOK, PathsOwned
  <2>5. m.vol = v /\ m.source = Device
    OBVIOUS
  <2> HIDE DEF m, v, path
  <2>6. mounts'[i] = With(mounts[i], path, m)
    BY <1>1, <1>2, MountTableWith
  <2>7. PICK w, p : w = v /\ p = path
    OBVIOUS
  <2>8. StageMounted(i, p, w)'
    <3>1. p \in DOMAIN mounts'[i] /\ mounts'[i][p] = m
      BY <2>6, <2>7 DEF With
    <3> QED BY <2>5, <2>7, <3>1 DEF StageMounted, MountedFrom, Mounted
  <2>9. HostAsSeen(i)' /\ rpc'[i].at \notin UnpublishPoint
    BY <1>1, <2>1, <2>7, <2>8, StagePointSeen
  <2> QED BY <1>1, <1>2, <2>3, <2>4, <2>5, <2>9, ServedMount
<1> QED BY <1>1, <1>2, ServedEnds

\* MarkInitialized leaves the mount there;
LEMMA MarkServes ==
  ASSUME NodeInv, NEW i \in VM, ServedOK(i), LinuxMark(i) PROVE ServedOK(i)'
<1>1. /\ NodeType /\ rpc[i].at = "mark"
      /\ UNCHANGED <<journal, mounts, mode, staged, published>>
      /\ Finish(i) \/ Continue(i, "ready")
  BY DEF NodeInv, LinuxMark, StageMark, At
<1>2. CASE Continue(i, "ready")
  <2>1. rpc'[i].at = "ready" /\ rpc'[i].vol = rpc[i].vol /\ rpc'[i].path = rpc[i].path
    BY <1>1, <1>2, Continues DEF StagePoint, UnpublishPoint
  <2>2. ~Block(rpc[i].vol) => StageMounted(i, rpc[i].path, rpc[i].vol)
    BY <1>1 DEF ServedOK, HostAsSeen
  <2>3. PICK w, p : w = rpc[i].vol /\ p = rpc[i].path
    OBVIOUS
  <2>4. ~Block(w) => StageMounted(i, p, w)'
    BY <1>1, <2>2, <2>3 DEF StageMounted, MountedFrom, Mounted
  <2>5. HostAsSeen(i)' /\ rpc'[i].at \notin UnpublishPoint
    BY <1>1, <2>1, <2>3, <2>4, StagePointSeen
  <2> QED BY <1>1, <2>5, ServedGoesOn
<1> QED BY <1>1, <1>2, ServedEnds

\* and so it is there when the kubelet begins to rely on it.
LEMMA ReadyServes ==
  ASSUME NodeInv, ServedInv, NEW i \in VM, LinuxReady(i) PROVE ServedOK(i)'
<1> DEFINE v == rpc[i].vol
           s == [Entry(i, v) EXCEPT !.ready = TRUE]
<1>1. /\ NodeType /\ NodeOK(i) /\ ServedOK(i) /\ rpc[i].at = "ready" /\ Finish(i)
      /\ journal' = [journal EXCEPT ![i] = With(journal[i], v, s)]
      /\ UNCHANGED <<mounts, mode, published>>
      /\ staged' = [staged EXCEPT ![i] = staged[i] \cup {v}]
  BY DEF NodeInv, ServedInv, LinuxReady, StageReady, At, Save
<1>2. staged'[i] = staged[i] \cup {v}
  BY <1>1 DEF ServedInv
<1>3. /\ v \in DOMAIN journal[i] /\ Entry(i, v).path = rpc[i].path
      /\ ~Block(v) => StageMounted(i, rpc[i].path, v)
  BY <1>1 DEF NodeOK, JournalAsSeen, StagePoint, Staged, match, ServedOK, HostAsSeen
<1>4. s.path = journal[i][v].path /\ s.targets = journal[i][v].targets
  <2>1. journal[i][v] \in JournalEntry
    BY <1>1, <1>3, EntryTyped DEF Staged, Entry
  <2> QED BY <2>1 DEF JournalEntry, Entry
<1>5. journal'[i] = With(journal[i], v, s)
  BY <1>1 DEF NodeType
<1>6. rpc'[i].at = "idle"
  BY <1>1, Ends DEF NoRPC
<1> HIDE DEF s, v
<1>7. /\ DOMAIN journal'[i] = DOMAIN journal[i]
      /\ \A w \in DOMAIN journal[i] :
           /\ journal'[i][w].path = journal[i][w].path
           /\ journal'[i][w].targets = journal[i][w].targets
  BY <1>3, <1>4, <1>5 DEF With
<1>8. HostAsSeen(i)' /\ rpc'[i].at \notin UnpublishPoint
  BY <1>6, UnseenPoint DEF Unseen
<1>9. StagedIsMounted(i)'
  <2> SUFFICES ASSUME NEW w \in staged[i] \cup {v}
               PROVE  /\ w \in DOMAIN journal[i]
                      /\ mode[w] # "block" => StageMounted(i, Entry(i, w).path, w)
    BY <1>1, <1>2, <1>7 DEF StagedIsMounted, Block, Entry, StageMounted, MountedFrom,
       Mounted
  <2> QED BY <1>1, <1>3 DEF ServedOK, StagedIsMounted, Block
<1>10. TargetsServed(i)'
  BY <1>1 DEF ServedOK, TargetsServed, TargetServed
<1>11. PublishedIsTracked(i)'
  BY <1>1, <1>7, <1>8 DEF ServedOK, PublishedIsTracked, Entry
<1> QED BY <1>8, <1>9, <1>10, <1>11 DEF ServedOK

(***************************************************************************)
(* NodePublishVolume.                                                      *)
(***************************************************************************)
\* A publish that goes on to a point before it has touched the host.
LEMMA PublishPointSeen ==
  ASSUME NEW i \in VM, rpc'[i].at \in {"announce", "track", "bind"},
         rpc'[i].vol \in staged'[i]
  PROVE  HostAsSeen(i)' /\ rpc'[i].at \notin UnpublishPoint
  BY DEF HostAsSeen, PublishPoint, UnpublishPoint, UnstagePoint

\* RecordPublish touches nothing of the VM;
LEMMA AnnounceServes ==
  ASSUME NodeInv, NEW i \in VM, ServedOK(i), PublishAnnounce(i), UNCHANGED host
  PROVE  ServedOK(i)'
<1>1. /\ NodeType /\ rpc[i].at = "announce"
      /\ UNCHANGED <<journal, mounts, mode, staged, published>>
      /\ Finish(i) \/ Continue(i, "track")
  BY DEF NodeInv, PublishAnnounce, At, host
<1>2. CASE Continue(i, "track")
  <2>1. rpc'[i].at = "track" /\ rpc'[i].vol = rpc[i].vol
    BY <1>1, <1>2, Continues DEF PublishPoint
  <2>2. rpc[i].vol \in staged[i]
    BY <1>1 DEF ServedOK, HostAsSeen, PublishPoint
  <2>3. HostAsSeen(i)' /\ rpc'[i].at \notin UnpublishPoint
    BY <1>1, <2>1, <2>2, PublishPointSeen
  <2> QED BY <1>1, <2>3, ServedGoesOn
<1> QED BY <1>1, <1>2, ServedEnds

\* the target is tracked with what is tracked already.
LEMMA TrackServes ==
  ASSUME NodeInv, NEW i \in VM, ServedOK(i), PublishTrack(i), UNCHANGED host
  PROVE  ServedOK(i)'
<1> DEFINE v == rpc[i].vol
           s == [Entry(i, v) EXCEPT !.targets = With(@, rpc[i].target, rpc[i].conf)]
<1>1. /\ NodeType /\ NodeOK(i) /\ rpc[i].at = "track" /\ Continue(i, "bind")
      /\ journal' = [journal EXCEPT ![i] = With(journal[i], v, s)]
      /\ UNCHANGED <<mounts, mode, staged, published>>
  BY DEF NodeInv, PublishTrack, At, Save, host
<1>2. rpc'[i].at = "bind" /\ rpc'[i].vol = v
  BY <1>1, Continues DEF PublishPoint
<1>3. v \in staged[i] /\ v \in DOMAIN journal[i]
  BY <1>1 DEF ServedOK, HostAsSeen, PublishPoint, StagedIsMounted
<1>4. HostAsSeen(i)' /\ rpc'[i].at \notin UnpublishPoint
  BY <1>1, <1>2, <1>3, PublishPointSeen
<1>5. /\ s.path = journal[i][v].path
      /\ DOMAIN journal[i][v].targets \subseteq DOMAIN s.targets
  <2>1. journal[i][v] \in JournalEntry
    BY <1>1, <1>3, EntryTyped DEF Staged, Entry
  <2>2. /\ s.path = journal[i][v].path
        /\ s.targets = With(journal[i][v].targets, rpc[i].target, rpc[i].conf)
    BY <2>1 DEF JournalEntry, Entry
  <2> QED BY <2>2 DEF With
<1>6. journal'[i] = With(journal[i], v, s)
  BY <1>1 DEF NodeType
<1> HIDE DEF s, v
<1>7. /\ DOMAIN journal'[i] = DOMAIN journal[i]
      /\ \A w \in DOMAIN journal[i] :
           /\ journal'[i][w].path = journal[i][w].path
           /\ DOMAIN journal[i][w].targets \subseteq DOMAIN journal'[i][w].targets
  BY <1>3, <1>5, <1>6 DEF With
<1>8. \A w \in staged[i] : w \in DOMAIN journal[i]
  BY DEF ServedOK, StagedIsMounted
<1> QED BY <1>1, <1>4, <1>7, <1>8, ServedSaved

\* What is bound at the target is the volume's, as it is staged.
LEMMA SourceIsReal ==
  ASSUME NodeInv, NEW i \in VM, ServedOK(i), rpc[i].at = "bind"
  PROVE  Source(i, rpc[i].path, rpc[i].vol) # Directory
<1>1. /\ NodeType /\ NodeOK(i) /\ rpc[i] \in PublishRPC
  BY Shapes DEF NodeInv, PublishPoint
<1>2. rpc[i].path \in Path /\ rpc[i].path # Directory /\ Device # Directory
  BY <1>1, LinuxNodeAssumption DEF PublishRPC, Device, Directory
<1>3. rpc[i].vol \in staged[i]
  BY DEF ServedOK, HostAsSeen, PublishPoint
<1>4. Entry(i, rpc[i].vol).path = rpc[i].path
  BY <1>1 DEF NodeOK, JournalAsSeen, PublishPoint, match
<1>5. ~Block(rpc[i].vol) => StageMounted(i, rpc[i].path, rpc[i].vol)
  BY <1>3, <1>4 DEF ServedOK, StagedIsMounted
<1> QED BY <1>2, <1>5 DEF Source

\* The bind mount is the volume's, and writable;
LEMMA BindServes ==
  ASSUME NodeInv, JournalInv, NEW i \in VM, ServedOK(i), LinuxBind(i)
  PROVE  ServedOK(i)'
<1>1. PICK v, path, target, conf :
        v = rpc[i].vol /\ path = rpc[i].path /\ target = rpc[i].target
          /\ conf = rpc[i].conf
  OBVIOUS
<1>2. PICK m : m = [vol |-> v, source |-> Source(i, path, v), conf |-> RW]
  OBVIOUS
<1>3. m.source = Source(i, path, v) /\ m.conf = RW
  BY <1>2
<1>4. /\ NodeType /\ NodeOK(i) /\ JournalOK(i) /\ rpc[i].at = "bind"
      /\ UNCHANGED <<journal, mode, staged, published>>
      /\ \/ Finish(i) /\ UNCHANGED mounts
         \/ /\ Continue(i, "answer") /\ UNCHANGED mounts /\ Mounted(i, target)
            /\ mounts[i][target].source = Source(i, path, v)
            /\ mounts[i][target].conf = conf
         \/ /\ SetMount(i, target, m) /\ ~Mounted(i, target)
            /\ Continue(i, IF conf = RO THEN "remount" ELSE "answer")
  BY <1>1, <1>2 DEF NodeInv, JournalInv, LinuxBind, At, Unchanged, SameMount, SameFlag
<1>5. Source(i, path, v) # Directory
  BY <1>1, <1>4, SourceIsReal
<1>6. v \in staged[i]
  BY <1>1, <1>4 DEF ServedOK, HostAsSeen, PublishPoint
<1>7. CASE /\ Continue(i, "answer") /\ UNCHANGED mounts /\ Mounted(i, target)
           /\ mounts[i][target].source = Source(i, path, v)
           /\ mounts[i][target].conf = conf
  <2>1. /\ rpc'[i].at = "answer" /\ rpc'[i].vol = v /\ rpc'[i].target = target
        /\ rpc'[i].conf = conf
    BY <1>1, <1>4, <1>7, Continues DEF PublishPoint
  <2>2. TargetServed(i, target, conf)'
    BY <1>5, <1>7 DEF TargetServed, Mounted
  <2>3. HostAsSeen(i)'
    BY <1>4, <1>6, <2>1, <2>2 DEF HostAsSeen, PublishPoint, UnstagePoint, TargetServed
  <2> QED BY <1>4, <1>7, <2>1, <2>3, ServedGoesOn DEF UnpublishPoint
<1>8. ASSUME NEW p \in {"remount", "answer"}, SetMount(i, target, m),
             ~Mounted(i, target), Continue(i, p), p = "remount" <=> conf = RO
      PROVE  ServedOK(i)'
  <2>1. /\ rpc'[i].at = p /\ rpc'[i].vol = v /\ rpc'[i].target = target
        /\ rpc'[i].conf = conf
    BY <1>1, <1>4, <1>8, Continues DEF PublishPoint
  <2>2. target \notin DOMAIN published[i]
    BY <1>8 DEF ServedOK, TargetsServed, TargetServed, Mounted
  <2>3. conf \in {RW, RO}
    <3>1. rpc[i] \in PublishRPC
      BY <1>4, Shapes DEF PublishPoint
    <3> QED BY <1>1, <3>1, LinuxNodeAssumption DEF PublishRPC
  <2>4. mounts'[i] = With(mounts[i], target, m)
    BY <1>4, <1>8, MountTableWith
  <2>5. target \in DOMAIN mounts'[i] /\ mounts'[i][target] = m
    BY <2>4 DEF With
  <2>6. p = "answer" => TargetServed(i, target, conf)'
    BY <1>3, <1>5, <1>8, <2>3, <2>5 DEF TargetServed
  <2>11. PICK x : x = Source(i, path, v)
    OBVIOUS
  <2>12. mounts'[i][target] = [vol |-> v, source |-> x, conf |-> RW] /\ x # Directory
    BY <1>2, <1>5, <2>5, <2>11
  <2>13. mounts'[i][target] = [vol |-> v, source |-> mounts'[i][target].source,
                                conf |-> RW]
    BY <2>12
  <2>7. HostAsSeen(i)'
    <3>1. CASE p = "answer"
      BY <1>4, <1>6, <2>1, <2>6, <3>1 DEF HostAsSeen, PublishPoint, UnstagePoint, TargetServed
    <3>2. CASE p = "remount"
      BY <1>4, <1>6, <1>8, <2>1, <2>2, <2>12, <2>13, <3>2 DEF HostAsSeen, PublishPoint, UnstagePoint
    <3> QED BY <1>8, <3>1, <3>2
  <2>8. target \in DOMAIN Entry(i, v).targets /\ v \in DOMAIN journal[i]
    BY <1>1, <1>4 DEF NodeOK, JournalAsSeen, PublishPoint, Staged
  <2>9. \A w \in staged[i] : Entry(i, w).path # target
    BY <1>4, <2>8 DEF JournalOK, PathsOwned, ServedOK, StagedIsMounted
  <2>10. rpc'[i].at \notin UnpublishPoint
    BY <2>1 DEF UnpublishPoint
  <2> QED BY <1>4, <1>8, <2>2, <2>7, <2>9, <2>10, ServedMount
<1>9. CASE /\ SetMount(i, target, m) /\ ~Mounted(i, target)
           /\ Continue(i, IF conf = RO THEN "remount" ELSE "answer")
  <2>1. CASE conf = RO
    BY <1>8, <1>9, <2>1
  <2>2. CASE conf # RO
    BY <1>8, <1>9, <2>2
  <2> QED BY <2>1, <2>2
<1> QED BY <1>4, <1>7, <1>9, ServedEnds

\* read-only from the remount on, or gone when that fails;
LEMMA RemountServes ==
  ASSUME NodeInv, JournalInv, NEW i \in VM, ServedOK(i),
         RemountReadOnly(i) \/ RemountFails(i)
  PROVE  ServedOK(i)'
<1>1. PICK v, t, m : /\ v = rpc[i].vol /\ t = rpc[i].target
                     /\ m = [mounts[i][t] EXCEPT !.conf = RO]
  OBVIOUS
<1>2. /\ NodeType /\ NodeOK(i) /\ JournalOK(i) /\ rpc[i].at = "remount"
      /\ UNCHANGED <<journal, mode, staged, published>>
      /\ \/ Continue(i, "answer") /\ SetMount(i, t, m)
         \/ Finish(i) /\ RemoveMount(i, t)
  BY <1>1 DEF NodeInv, JournalInv, RemountReadOnly, RemountFails, At, Unchanged, host
<1>3. /\ t \notin DOMAIN published[i] /\ rpc[i].conf = RO /\ v \in staged[i]
      /\ mounts[i][t].source # Directory
      /\ mounts[i][t] = [vol |-> v, source |-> mounts[i][t].source, conf |-> RW]
  BY <1>1, <1>2 DEF ServedOK, HostAsSeen, PublishPoint
<1>4. /\ t \in DOMAIN Entry(i, v).targets /\ v \in DOMAIN journal[i]
      /\ t \in DOMAIN mounts[i]
  BY <1>1, <1>2 DEF NodeOK, JournalAsSeen, PublishPoint, Staged, MountedFrom, Mounted
<1>5. \A w \in staged[i] : Entry(i, w).path # t
  BY <1>2, <1>4 DEF JournalOK, PathsOwned, ServedOK, StagedIsMounted
<1>6. CASE Finish(i) /\ RemoveMount(i, t)
  <2>1. rpc'[i].at \in Unseen
    BY <1>2, <1>6, Ends DEF NoRPC, Unseen
  <2> QED BY <1>2, <1>3, <1>5, <1>6, <2>1, UnseenPoint, ServedUnmount
<1>7. CASE Continue(i, "answer") /\ SetMount(i, t, m)
  <2>1. /\ rpc'[i].at = "answer" /\ rpc'[i].vol = v /\ rpc'[i].target = t
        /\ rpc'[i].conf = RO
    BY <1>1, <1>2, <1>3, <1>7, Continues DEF PublishPoint
  <2>2. mounts'[i] = With(mounts[i], t, m)
    BY <1>2, <1>7, MountTableWith
  <2>3. t \in DOMAIN mounts'[i] /\ mounts'[i][t] = m
    BY <2>2 DEF With
  <2>4. m.source # Directory /\ m.conf = RO
    BY <1>1, <1>3
  <2>5. TargetServed(i, t, RO)'
    BY <2>3, <2>4 DEF TargetServed
  <2>6. HostAsSeen(i)' /\ rpc'[i].at \notin UnpublishPoint
    BY <1>2, <1>3, <2>1, <2>5
       DEF HostAsSeen, PublishPoint, UnpublishPoint, UnstagePoint, TargetServed
  <2> QED BY <1>2, <1>3, <1>5, <1>7, <2>6, ServedMount
<1> QED BY <1>2, <1>6, <1>7

\* and so it is as asked for when the kubelet is told.
LEMMA AnswerServes ==
  ASSUME NodeInv, ServedInv, NEW i \in VM, PublishAnswer(i) PROVE ServedOK(i)'
<1>1. PICK t, c : t = rpc[i].target /\ c = rpc[i].conf
  OBVIOUS
<1>2. /\ NodeType /\ NodeOK(i) /\ ServedOK(i) /\ rpc[i].at = "answer" /\ Finish(i)
      /\ UNCHANGED <<journal, mounts, mode, staged>>
      /\ published' = [published EXCEPT ![i] = With(published[i], t, c)]
  BY <1>1 DEF NodeInv, ServedInv, PublishAnswer, At, Unchanged
<1>3. published'[i] = With(published[i], t, c)
  BY <1>2 DEF ServedInv
<1>4. /\ DOMAIN published'[i] = DOMAIN published[i] \cup {t}
      /\ published'[i][t] = c
      /\ \A u \in DOMAIN published[i] : u # t => published'[i][u] = published[i][u]
  BY <1>3 DEF With
<1>5. TargetServed(i, t, c)
  BY <1>1, <1>2 DEF ServedOK, HostAsSeen
<1>6. \E v \in DOMAIN journal[i] : t \in DOMAIN Entry(i, v).targets
  BY <1>1, <1>2 DEF NodeOK, JournalAsSeen, PublishPoint, Staged
<1>7. rpc'[i].at \in Unseen
  BY <1>2, Ends DEF NoRPC, Unseen
<1>8. HostAsSeen(i)' /\ rpc'[i].at \notin UnpublishPoint
  BY <1>7, UnseenPoint
<1>9. StagedIsMounted(i)'
  BY <1>2 DEF ServedOK, StagedIsMounted, Entry, Block, StageMounted, MountedFrom, Mounted
<1>10. TargetsServed(i)'
  BY <1>2, <1>4, <1>5 DEF ServedOK, TargetsServed, TargetServed
<1>11. PublishedIsTracked(i)'
  BY <1>2, <1>4, <1>6, <1>8 DEF ServedOK, PublishedIsTracked, Entry
<1> QED BY <1>8, <1>9, <1>10, <1>11 DEF ServedOK

(***************************************************************************)
(* NodeUnpublishVolume and NodeUnstageVolume.                              *)
(***************************************************************************)
\* What is unmounted is a target nobody relies on,
LEMMA UnbindServes ==
  ASSUME NodeInv, JournalInv, NEW i \in VM, ServedOK(i), UnpublishUnmount(i),
         UNCHANGED host
  PROVE  ServedOK(i)'
<1>1. PICK v, t : v = rpc[i].vol /\ t = rpc[i].target
  OBVIOUS
<1>2. /\ NodeType /\ NodeOK(i) /\ JournalOK(i) /\ rpc[i].at = "unbind"
      /\ Continue(i, "untrack") /\ RemoveMount(i, t)
      /\ UNCHANGED <<journal, mode, staged, published>>
  BY <1>1 DEF NodeInv, JournalInv, UnpublishUnmount, At, host
<1>3. /\ t \in DOMAIN Entry(i, v).targets /\ v \in DOMAIN journal[i]
      /\ t \notin DOMAIN published[i]
  BY <1>1, <1>2 DEF ServedOK, HostAsSeen, PublishedIsTracked, NodeOK, JournalAsSeen,
     UnpublishPoint, Staged
<1>4. \A w \in staged[i] : Entry(i, w).path # t
  BY <1>2, <1>3 DEF JournalOK, PathsOwned, ServedOK, StagedIsMounted
<1>5. rpc'[i].at = "untrack" /\ rpc'[i].target = t
  BY <1>1, <1>2, Continues DEF UnpublishPoint
<1>6. HostAsSeen(i)'
  BY <1>5 DEF HostAsSeen, PublishPoint, UnstagePoint
<1> QED BY <1>2, <1>3, <1>4, <1>5, <1>6, ServedUnmount

\* nor when it is no longer tracked.
LEMMA UntrackServes ==
  ASSUME NodeInv, NEW i \in VM, ServedOK(i), UnpublishUntrack(i), UNCHANGED host
  PROVE  ServedOK(i)'
<1> DEFINE v == rpc[i].vol
           t == rpc[i].target
           s == [Entry(i, v) EXCEPT !.targets = Without(@, t)]
<1>1. /\ NodeType /\ NodeOK(i) /\ rpc[i].at = "untrack" /\ Finish(i)
      /\ journal' = [journal EXCEPT ![i] = With(journal[i], v, s)]
      /\ UNCHANGED <<mounts, mode, staged, published>>
  BY DEF NodeInv, UnpublishUntrack, At, Save, host
<1>2. v \in DOMAIN journal[i] /\ t \notin DOMAIN published[i]
  BY <1>1 DEF ServedOK, PublishedIsTracked, NodeOK, JournalAsSeen, UnpublishPoint,
     Staged
<1>3. rpc'[i].at \in Unseen
  BY <1>1, Ends DEF NoRPC, Unseen
<1>4. HostAsSeen(i)' /\ rpc'[i].at \notin UnpublishPoint
  BY <1>3, UnseenPoint
<1>5. /\ s.path = journal[i][v].path
      /\ DOMAIN journal[i][v].targets \ {t} \subseteq DOMAIN s.targets
  <2>1. journal[i][v] \in JournalEntry
    BY <1>1, <1>2, EntryTyped DEF Staged, Entry
  <2>2. /\ s.path = journal[i][v].path
        /\ s.targets = Without(journal[i][v].targets, t)
    BY <2>1 DEF JournalEntry, Entry
  <2> QED BY <2>2 DEF Without, Restrict
<1>6. journal'[i] = With(journal[i], v, s)
  BY <1>1 DEF NodeType
<1> HIDE DEF s, v, t
<1>7. /\ DOMAIN journal'[i] = DOMAIN journal[i]
      /\ \A w \in DOMAIN journal[i] :
           /\ journal'[i][w].path = journal[i][w].path
           /\ DOMAIN journal[i][w].targets \ {t} \subseteq DOMAIN journal'[i][w].targets
  BY <1>2, <1>5, <1>6 DEF With
<1>8. \A w \in staged[i] : w \in DOMAIN journal[i]
  BY DEF ServedOK, StagedIsMounted
<1> QED BY <1>1, <1>2, <1>4, <1>7, <1>8, ServedSaved

\* A clean-up of a stage that goes on.
LEMMA UnstagePointSeen ==
  ASSUME NEW i \in VM, rpc'[i].at \in UnstagePoint, rpc'[i].vol \notin staged'[i]
  PROVE  HostAsSeen(i)' /\ rpc'[i].at \notin UnpublishPoint
  BY DEF HostAsSeen, PublishPoint, UnpublishPoint, UnstagePoint

\* What is unmounted is a stage nobody relies on,
LEMMA UnmountServes ==
  ASSUME NodeInv, JournalInv, NEW i \in VM, ServedOK(i), UnstageUnmount(i),
         UNCHANGED host
  PROVE  ServedOK(i)'
<1>1. PICK v, path : v = rpc[i].vol /\ path = rpc[i].path
  OBVIOUS
<1>2. /\ NodeType /\ NodeOK(i) /\ JournalOK(i) /\ rpc[i].at = "unmount"
      /\ Continue(i, "release") /\ RemoveMount(i, path)
      /\ UNCHANGED <<journal, mode, staged, published>>
  BY <1>1 DEF NodeInv, JournalInv, UnstageUnmount, At, host
<1>3. /\ v \in DOMAIN journal[i] /\ Entry(i, v).path = path /\ v \notin staged[i]
  BY <1>1, <1>2 DEF ServedOK, HostAsSeen, NodeOK, JournalAsSeen, UnstagePoint, Staged
<1>4. path \notin DOMAIN published[i]
  BY <1>2, <1>3, PublishedIsNoStage
<1>5. \A w \in staged[i] : Entry(i, w).path # path
  BY <1>2, <1>3 DEF JournalOK, PathsOwned, ServedOK, StagedIsMounted
<1>6. rpc'[i].at = "release" /\ rpc'[i].vol = v
  BY <1>1, <1>2, Continues DEF UnstagePoint
<1>7. HostAsSeen(i)' /\ rpc'[i].at \notin UnpublishPoint
  BY <1>2, <1>3, <1>6, UnstagePointSeen DEF UnstagePoint
<1> QED BY <1>2, <1>4, <1>5, <1>7, ServedUnmount

\* nor when its use is released,
LEMMA ReleaseServes ==
  ASSUME NodeInv, NEW i \in VM, ServedOK(i), UnstageRelease(i), UNCHANGED host
  PROVE  ServedOK(i)'
<1>1. /\ NodeType /\ rpc[i].at = "release" /\ Continue(i, "forget")
      /\ UNCHANGED <<journal, mounts, mode, staged, published>>
  BY DEF NodeInv, UnstageRelease, At, host
<1>2. rpc'[i].at = "forget" /\ rpc'[i].vol = rpc[i].vol
  BY <1>1, Continues DEF UnstagePoint
<1>3. rpc[i].vol \notin staged[i]
  BY <1>1 DEF ServedOK, HostAsSeen, UnstagePoint
<1>4. HostAsSeen(i)' /\ rpc'[i].at \notin UnpublishPoint
  BY <1>1, <1>2, <1>3, UnstagePointSeen DEF UnstagePoint
<1> QED BY <1>1, <1>4, ServedGoesOn

\* nor when its entry goes, which tracks no target.
LEMMA ForgetServes ==
  ASSUME NodeInv, NEW i \in VM, ServedOK(i), UnstageForget(i), UNCHANGED host
  PROVE  ServedOK(i)'
<1> DEFINE v == rpc[i].vol
<1>1. /\ NodeType /\ NodeOK(i) /\ rpc[i].at = "forget" /\ Finish(i)
      /\ journal' = [journal EXCEPT ![i] = Without(@, v)]
      /\ UNCHANGED <<mounts, mode, staged, published>>
  BY DEF NodeInv, UnstageForget, At, host
<1>2. v \notin staged[i] /\ DOMAIN journal[i][v].targets = {}
  BY <1>1 DEF ServedOK, HostAsSeen, NodeOK, JournalAsSeen, UnstagePoint, Entry
<1>3. rpc'[i].at \in Unseen
  BY <1>1, Ends DEF NoRPC, Unseen
<1>4. HostAsSeen(i)' /\ rpc'[i].at \notin UnpublishPoint
  BY <1>3, UnseenPoint
<1>5. journal'[i] = Without(journal[i], v)
  BY <1>1 DEF NodeType
<1>6. /\ DOMAIN journal'[i] = DOMAIN journal[i] \ {v}
      /\ \A w \in DOMAIN journal'[i] : journal'[i][w] = journal[i][w]
  BY <1>5 DEF Without, Restrict
<1>7. \A w \in staged[i] : w \in DOMAIN journal[i]
  BY DEF ServedOK, StagedIsMounted
<1> HIDE DEF v
<1> QED BY <1>1, <1>2, <1>4, <1>6, <1>7, ServedSaved

(***************************************************************************)
(* The kubelet's calls, growth, and troubles.                              *)
(***************************************************************************)
\* A call that begins at a point where nothing is known.
LEMMA StartServes ==
  ASSUME NodeType, NEW i \in VM, ServedOK(i), NEW r, Start(i, r), r.at \in Unseen,
         UNCHANGED <<journal, mounts, mode, staged, published>>
  PROVE  ServedOK(i)'
<1>1. rpc'[i] = r
  BY DEF Start, NodeType
<1> QED BY <1>1, ServedUnseen

\* The kubelet publishes what it relies on the stage of.
LEMMA PublishBeginServes ==
  ASSUME NodeInv, Contract, NEW i \in VM, ServedOK(i), NEW v, NEW path, NEW g,
         NEW target, NEW conf, LinuxPublishBegin(i, v, path, g, target, conf)
  PROVE  ServedOK(i)'
<1> DEFINE r == [at |-> "announce", vol |-> v, path |-> path, gen |-> g,
                 target |-> target, conf |-> conf]
<1>1. /\ NodeType /\ Start(i, r) /\ v \in staged[i]
      /\ UNCHANGED <<journal, mounts, mode, staged, published>>
  BY DEF NodeInv, LinuxPublishBegin, PublishBegin, Relied, host
<1>2. rpc'[i] = r
  BY <1>1 DEF Start, NodeType
<1>3. rpc'[i].at = "announce" /\ rpc'[i].vol = v
  BY <1>2
<1>4. HostAsSeen(i)' /\ rpc'[i].at \notin UnpublishPoint
  BY <1>1, <1>3, PublishPointSeen
<1> HIDE DEF r
<1> QED BY <1>1, <1>4, ServedGoesOn

\* What it takes down it relies on no longer.
LEMMA UnpublishBeginServes ==
  ASSUME NodeInv, ServedInv, NEW i \in VM, NEW v, NEW target,
         LinuxUnpublishBegin(i, v, target)
  PROVE  ServedOK(i)'
<1> DEFINE r == [at |-> "unbind", vol |-> v, target |-> target]
<1>1. /\ NodeType /\ Start(i, r) /\ ServedOK(i)
      /\ target \in DOMAIN Entry(i, v).targets
      /\ published' = [published EXCEPT ![i] = Without(@, target)]
      /\ UNCHANGED <<journal, mounts, mode, staged>>
  BY DEF NodeInv, ServedInv, LinuxUnpublishBegin, UnpublishBegin
<1>2. rpc'[i] = r
  BY <1>1 DEF Start, NodeType
<1>3. /\ rpc'[i].at = "unbind" /\ rpc'[i].vol = v /\ rpc'[i].target = target
  BY <1>2
<1> HIDE DEF r
<1>4. published'[i] = Without(published[i], target)
  BY <1>1 DEF ServedInv
<1>5. /\ DOMAIN published'[i] = DOMAIN published[i] \ {target}
      /\ \A t \in DOMAIN published'[i] : published'[i][t] = published[i][t]
  BY <1>4 DEF Without, Restrict
<1>6. HostAsSeen(i)'
  BY <1>1, <1>3 DEF HostAsSeen, PublishPoint, UnstagePoint, Entry
<1>7. StagedIsMounted(i)'
  BY <1>1 DEF ServedOK, StagedIsMounted, Entry, Block, StageMounted, MountedFrom, Mounted
<1>8. TargetsServed(i)'
  BY <1>1, <1>5 DEF ServedOK, TargetsServed, TargetServed
<1>9. PublishedIsTracked(i)'
  BY <1>1, <1>3, <1>5 DEF ServedOK, PublishedIsTracked, Entry
<1> QED BY <1>6, <1>7, <1>8, <1>9 DEF ServedOK

\* So it is with the stage.
LEMMA UnstageBeginServes ==
  ASSUME NodeInv, ServedInv, NEW i \in VM, NEW v, NEW path,
         LinuxUnstageBegin(i, v, path)
  PROVE  ServedOK(i)'
<1> DEFINE r == [at |-> "unmount", vol |-> v, path |-> path,
                 gen |-> Entry(i, v).gen]
<1>1. /\ NodeType /\ Start(i, r) /\ ServedOK(i)
      /\ staged' = [staged EXCEPT ![i] = staged[i] \ {v}]
      /\ UNCHANGED <<journal, mounts, mode, published>>
  BY DEF NodeInv, ServedInv, LinuxUnstageBegin, UnstageBegin
<1>2. rpc'[i] = r
  BY <1>1 DEF Start, NodeType
<1>3. rpc'[i].at = "unmount" /\ rpc'[i].vol = v
  BY <1>2
<1> HIDE DEF r
<1>4. staged'[i] = staged[i] \ {v}
  BY <1>1 DEF ServedInv
<1>5. HostAsSeen(i)' /\ rpc'[i].at \notin UnpublishPoint
  BY <1>3, <1>4, UnstagePointSeen DEF UnstagePoint
<1>6. StagedIsMounted(i)'
  BY <1>1, <1>4 DEF ServedOK, StagedIsMounted, Entry, Block, StageMounted, MountedFrom,
     Mounted
<1>7. TargetsServed(i)'
  BY <1>1 DEF ServedOK, TargetsServed, TargetServed
<1>8. PublishedIsTracked(i)'
  BY <1>1, <1>5 DEF ServedOK, PublishedIsTracked, Entry
<1> QED BY <1>5, <1>6, <1>7, <1>8 DEF ServedOK

\* Every call of the kubelet.
LEMMA CallServes ==
  ASSUME NodeInv, ServedInv, Contract, NEW i \in VM, LinuxKubeletCall(i)
  PROVE  ServedOK(i)'
<1>1. NodeType /\ ServedOK(i)
  BY DEF NodeInv, ServedInv
<1>2. ASSUME NEW v, NEW path, NEW g, LinuxStageBegin(i, v, path, g)
      PROVE  ServedOK(i)'
  <2>1. PICK r : /\ r = [at |-> "acquire", vol |-> v, path |-> path, gen |-> g]
                 /\ Start(i, r)
    BY <1>2 DEF LinuxStageBegin, StageBegin
  <2>2. r.at = "acquire"
    BY <2>1
  <2>3. UNCHANGED <<journal, mounts, mode, staged, published>>
    BY <1>2 DEF LinuxStageBegin, StageBegin, host
  <2> QED BY <1>1, <2>1, <2>2, <2>3, StartServes DEF Unseen
<1>3. ASSUME NEW v, NEW path, NEW need, ExpandBegin(i, v, path, need)
      PROVE  ServedOK(i)'
  <2>1. PICK r : /\ r = [at |-> "check", vol |-> v, path |-> Entry(i, v).path,
                         gen |-> Entry(i, v).gen, need |-> need]
                 /\ Start(i, r)
    BY <1>3 DEF ExpandBegin
  <2>2. r.at = "check"
    BY <2>1
  <2>3. UNCHANGED <<journal, mounts, mode, staged, published>>
    BY <1>3 DEF ExpandBegin, host
  <2> QED BY <1>1, <2>1, <2>2, <2>3, StartServes DEF Unseen
<1> QED BY <1>1, <1>2, <1>3, PublishBeginServes, UnpublishBeginServes,
        UnstageBeginServes DEF LinuxKubeletCall

\* NodeExpandVolume touches no mount.
LEMMA ExpandServes ==
  ASSUME NodeInv, NEW i \in VM, ServedOK(i),
         ExpandCheck(i) \/ ExpandResize(i) \/ ExpandNote(i)
  PROVE  ServedOK(i)'
<1>1. /\ NodeType /\ UNCHANGED <<journal, mounts, mode, staged, published>>
  BY DEF NodeInv, ExpandCheck, ExpandResize, ExpandNote, Unchanged, host
<1>2. \/ Finish(i)
      \/ rpc[i].at = "resize" /\ Continue(i, "note")
      \/ /\ rpc[i].at = "check"
         /\ rpc' = [rpc EXCEPT ![i].at = "resize",
                               ![i].need = device[rpc[i].vol].noted]
  BY DEF ExpandCheck, ExpandResize, ExpandNote, At
<1>3. CASE rpc[i].at = "resize" /\ Continue(i, "note")
  <2>1. rpc'[i].at = "note"
    BY <1>1, <1>3, Continues DEF ExpandPoint
  <2> QED BY <1>1, <2>1, ServedUnseen DEF Unseen
<1>4. CASE /\ rpc[i].at = "check"
           /\ rpc' = [rpc EXCEPT ![i].at = "resize",
                                 ![i].need = device[rpc[i].vol].noted]
  <2>1. rpc[i] \in ExpandRPC
    BY <1>1, <1>4, Shapes DEF ExpandPoint
  <2>2. rpc'[i].at = "resize"
    BY <1>1, <1>4, <2>1 DEF NodeType, ExpandRPC
  <2> QED BY <1>1, <2>2, ServedUnseen DEF Unseen
<1> QED BY <1>1, <1>2, <1>3, <1>4, ServedEnds

\* After a restart the kubelet relies on nothing.
LEMMA RebootServes ==
  ASSUME NodeInv, ServedInv, NEW i \in VM, LinuxReboot(i) PROVE ServedOK(i)'
<1>1. /\ NodeType /\ Finish(i)
      /\ staged' = [staged EXCEPT ![i] = {}]
      /\ published' = [published EXCEPT ![i] = NoEntries]
  BY DEF NodeInv, LinuxReboot, Reboot
<1>2. staged'[i] = {} /\ DOMAIN published'[i] = {}
  BY <1>1 DEF ServedInv, NoEntries
<1>3. rpc'[i].at \in Unseen
  BY <1>1, Ends DEF NoRPC, Unseen
<1>4. HostAsSeen(i)' /\ rpc'[i].at \notin UnpublishPoint
  BY <1>3, UnseenPoint
<1> QED BY <1>2, <1>4 DEF ServedOK, StagedIsMounted, TargetsServed, PublishedIsTracked

\* Whatever goes wrong.
LEMMA TroubleServes ==
  ASSUME NodeInv, ServedInv, JournalInv, NEW i \in VM, HostTrouble(i)
  PROVE  ServedOK(i)'
<1>1. NodeType /\ ServedOK(i)
  BY DEF NodeInv, ServedInv
<1>2. CASE MkfsKilled(i) \/ HostBreak(i) \/ ((Break(i) \/ TimeOut(i)) /\ UNCHANGED host)
  <2>1. Finish(i) /\ UNCHANGED <<journal, mounts, mode, staged, published>>
    BY <1>2 DEF MkfsKilled, HostBreak, Break, TimeOut, host
  <2> QED BY <1>1, <2>1, ServedEnds
<1> QED BY <1>1, <1>2, RemountServes, RebootServes DEF HostTrouble

\* Every step of an RPC.
LEMMA RPCServes ==
  ASSUME NodeInv, JournalInv, ServedInv, NEW i \in VM, LinuxRPCStep(i)
  PROVE  ServedOK(i)'
<1>1. ServedOK(i)
  BY DEF ServedInv
<1>2. CASE HostStep(i)
  BY <1>1, <1>2, AcquireServes, ProbeServes, MkfsServes, FsMountServes, MarkServes,
     ReadyServes, BindServes, RemountServes, AnswerServes, ExpandServes DEF HostStep
<1>3. CASE AgentStep(i)
  BY <1>1, <1>3, RecordServes, AnnounceServes, TrackServes, UnbindServes,
     UntrackServes, UnmountServes, ReleaseServes, ForgetServes
     DEF AgentStep, UnpublishStep, UnstageStep
<1> QED BY <1>2, <1>3 DEF LinuxRPCStep

(***************************************************************************)
(* The other VMs.                                                          *)
(***************************************************************************)
\* What is one VM's stays so.
LEMMA OneVMChanges ==
  ASSUME NodeType, published = [k \in VM |-> published[k]],
         staged \in [VM -> SUBSET Volume], NEW i \in VM,
         LinuxKubeletCall(i) \/ LinuxRPCStep(i) \/ HostTrouble(i)
  PROVE  \A j \in VM : j # i =>
           /\ journal'[j] = journal[j] /\ mounts'[j] = mounts[j] /\ rpc'[j] = rpc[j]
           /\ staged'[j] = staged[j] /\ published'[j] = published[j]
<1> SUFFICES ASSUME NEW j \in VM, j # i
             PROVE  /\ journal'[j] = journal[j] /\ mounts'[j] = mounts[j]
                    /\ rpc'[j] = rpc[j] /\ staged'[j] = staged[j]
                    /\ published'[j] = published[j]
  OBVIOUS
<1>1. /\ rpc = [k \in VM |-> rpc[k]] /\ journal = [k \in VM |-> journal[k]]
      /\ mounts = [k \in VM |-> mounts[k]] /\ staged = [k \in VM |-> staged[k]]
  BY DEF NodeType
<1>2. \A p : Continue(i, p) => rpc'[j] = rpc[j]
  BY <1>1 DEF Continue
<1>3. Finish(i) => rpc'[j] = rpc[j]
  BY <1>1 DEF Finish
<1>4. \A path, m : SetMount(i, path, m) => mounts'[j] = mounts[j]
  BY <1>1 DEF SetMount
<1>5. \A path : RemoveMount(i, path) => mounts'[j] = mounts[j]
  BY <1>1 DEF RemoveMount
<1>6. \A v, s : Save(i, v, s) => journal'[j] = journal[j]
  BY <1>1 DEF Save
<1>7. \A r : Start(i, r) => rpc'[j] = rpc[j]
  BY <1>1 DEF Start
<1>8. ASSUME LinuxKubeletCall(i)
      PROVE  /\ UNCHANGED <<journal, mounts>> /\ rpc'[j] = rpc[j]
             /\ staged'[j] = staged[j] /\ published'[j] = published[j]
  <2>1. ASSUME NEW v, NEW path, NEW g, NEW target, NEW conf,
               LinuxStageBegin(i, v, path, g)
                 \/ LinuxPublishBegin(i, v, path, g, target, conf)
        PROVE  /\ UNCHANGED <<journal, mounts, staged, published>> /\ rpc'[j] = rpc[j]
    BY <1>7, <2>1 DEF LinuxStageBegin, LinuxPublishBegin, StageBegin, PublishBegin, host
  <2>2. ASSUME NEW v, NEW path, NEW need, ExpandBegin(i, v, path, need)
        PROVE  UNCHANGED <<journal, mounts, staged, published>> /\ rpc'[j] = rpc[j]
    BY <1>7, <2>2 DEF ExpandBegin, host
  <2>3. ASSUME NEW v, NEW path, LinuxUnpublishBegin(i, v, path)
        PROVE  /\ UNCHANGED <<journal, mounts, staged>> /\ rpc'[j] = rpc[j]
               /\ published'[j] = published[j]
    BY <1>7, <2>3 DEF LinuxUnpublishBegin, UnpublishBegin
  <2>4. ASSUME NEW v, NEW path, LinuxUnstageBegin(i, v, path)
        PROVE  /\ UNCHANGED <<journal, mounts, published>> /\ rpc'[j] = rpc[j]
               /\ staged'[j] = staged[j]
    BY <1>1, <1>7, <2>4 DEF LinuxUnstageBegin, UnstageBegin
  <2> QED BY <1>8, <2>1, <2>2, <2>3, <2>4 DEF LinuxKubeletCall
<1>9. CASE HostStep(i)
  <2>1. CASE LinuxAcquire(i) \/ LinuxMark(i)
    BY <1>2, <1>3, <2>1 DEF LinuxAcquire, LinuxMark, StageAcquire, StageMark
  <2>2. CASE LinuxReady(i)
    BY <1>1, <1>3, <1>6, <2>2 DEF LinuxReady, StageReady
  <2>3. CASE StageProbe(i)
    BY <1>2, <1>3, <2>3 DEF StageProbe, Unchanged
  <2>4. CASE Mkfs(i)
    BY <1>2, <1>3, <2>4 DEF Mkfs, Unchanged
  <2>5. CASE StageFsMount(i)
    BY <1>2, <1>3, <1>4, <2>5 DEF StageFsMount, Unchanged
  <2>6. CASE LinuxBind(i)
    BY <1>2, <1>3, <1>4, <2>6 DEF LinuxBind, Unchanged
  <2>7. CASE RemountReadOnly(i)
    BY <1>2, <1>4, <2>7 DEF RemountReadOnly, Unchanged
  <2>8. CASE PublishAnswer(i)
    BY <1>3, <2>8 DEF PublishAnswer, Unchanged
  <2>9. CASE ExpandCheck(i)
    BY <1>1, <1>3, <2>9 DEF ExpandCheck, host
  <2>10. CASE ExpandResize(i) \/ ExpandNote(i)
    BY <1>2, <1>3, <2>10 DEF ExpandResize, ExpandNote, Unchanged
  <2> QED BY <1>9, <2>1, <2>2, <2>3, <2>4, <2>5, <2>6, <2>7, <2>8, <2>9, <2>10
          DEF HostStep
<1>10. CASE AgentStep(i)
  <2>1. CASE StageRecord(i) \/ PublishTrack(i) \/ UnpublishUntrack(i)
    BY <1>2, <1>3, <1>6, <1>10, <2>1
       DEF AgentStep, StageRecord, PublishTrack, UnpublishUntrack, host
  <2>2. CASE PublishAnnounce(i) \/ UnstageRelease(i)
    BY <1>2, <1>3, <1>10, <2>2 DEF AgentStep, PublishAnnounce, UnstageRelease, host
  <2>3. CASE UnpublishUnmount(i) \/ UnstageUnmount(i)
    BY <1>2, <1>5, <1>10, <2>3 DEF AgentStep, UnpublishUnmount, UnstageUnmount, host
  <2>4. CASE UnstageForget(i)
    BY <1>1, <1>3, <1>10, <2>4 DEF AgentStep, UnstageForget, host
  <2> QED BY <1>10, <2>1, <2>2, <2>3, <2>4 DEF AgentStep, UnpublishStep, UnstageStep
<1>11. CASE HostTrouble(i)
  <2>1. CASE MkfsKilled(i) \/ HostBreak(i) \/ ((Break(i) \/ TimeOut(i)) /\ UNCHANGED host)
    BY <1>3, <2>1 DEF MkfsKilled, HostBreak, Break, TimeOut, host
  <2>2. CASE RemountFails(i)
    BY <1>3, <1>5, <2>2 DEF RemountFails, host
  <2>3. CASE LinuxReboot(i)
    BY <1>1, <1>3, <2>3 DEF LinuxReboot, Reboot
  <2> QED BY <1>11, <2>1, <2>2, <2>3 DEF HostTrouble
<1> QED BY <1>8, <1>9, <1>10, <1>11 DEF LinuxRPCStep

\* Who changes what the kubelet relies on.
LEMMA ReliedChanges ==
  ASSUME [LinuxNext]_linuxVars
  PROVE  \/ UNCHANGED <<staged, published>>
         \/ \E i \in VM :
              \/ LinuxReady(i) \/ PublishAnswer(i) \/ LinuxReboot(i)
              \/ \E v \in Volume, path \in Path :
                   LinuxUnpublishBegin(i, v, path) \/ LinuxUnstageBegin(i, v, path)
<1>1. CASE AsNodeAgent
  <2>1. ASSUME NEW i \in VM,
               \/ LinuxAcquire(i) \/ LinuxMark(i) \/ AgentStep(i)
               \/ (Break(i) \/ TimeOut(i)) /\ UNCHANGED host
        PROVE  UNCHANGED <<staged, published>>
    BY <2>1 DEF LinuxAcquire, LinuxMark, AgentStep, host
  <2>2. ASSUME NEW i \in VM, NEW v \in Volume, NEW path \in Path, NEW g, NEW target,
               NEW conf,
               LinuxStageBegin(i, v, path, g)
                 \/ LinuxPublishBegin(i, v, path, g, target, conf)
        PROVE  UNCHANGED <<staged, published>>
    BY <2>2 DEF LinuxStageBegin, LinuxPublishBegin, host
  <2>3. ASSUME NEW i \in VM, NEW target \in Path, PodWrites(i, target)
        PROVE  UNCHANGED <<staged, published>>
    BY <2>3 DEF PodWrites
  <2>4. ASSUME NEW v \in Volume, CloudStep(v) \/ Damage(v)
        PROVE  UNCHANGED <<staged, published>>
    BY <2>4 DEF CloudStep, LinuxTakeDisk, CloudGrows, PlatformNotes, VMNotices,
       Damage, host
  <2>5. CASE UNCHANGED linuxVars \/ \E q \in late : Deliver(q) /\ UNCHANGED host
    BY <2>5 DEF linuxVars, host
  <2> QED BY <1>1, <2>1, <2>2, <2>3, <2>4, <2>5 DEF AsNodeAgent
<1>2. ASSUME NEW i \in VM, HostOnly(i)
      PROVE  UNCHANGED <<staged, published>> \/ PublishAnswer(i)
  BY <1>2 DEF HostOnly, StageProbe, Mkfs, StageFsMount, LinuxBind, RemountReadOnly,
     ExpandCheck, ExpandResize, ExpandNote, MkfsKilled, RemountFails, HostBreak,
     ExpandBegin, Unchanged, host
<1> QED BY <1>1, <1>2, LinuxSteps

\* What the kubelet relies on is a table for each VM.
LEMMA ReliedTyped ==
  ASSUME NodeType, ServedInv, [LinuxNext]_linuxVars
  PROVE  published' = [k \in VM |-> published'[k]] /\ staged' \in [VM -> SUBSET Volume]
<1>1. published = [k \in VM |-> published[k]] /\ staged \in [VM -> SUBSET Volume]
  BY DEF ServedInv
<1>2. ASSUME NEW i \in VM, LinuxReady(i)
      PROVE  UNCHANGED published /\ staged' \in [VM -> SUBSET Volume]
  <2>1. /\ UNCHANGED published /\ rpc[i].at = "ready"
        /\ staged' = [staged EXCEPT ![i] = staged[i] \cup {rpc[i].vol}]
    BY <1>2 DEF LinuxReady, StageReady, At
  <2>2. rpc[i].vol \in Volume
    BY <2>1, Shapes
  <2> QED BY <1>1, <2>1, <2>2
<1>3. ASSUME NEW i \in VM, PublishAnswer(i)
      PROVE  published' = [k \in VM |-> published'[k]] /\ UNCHANGED staged
  <2>1. /\ UNCHANGED staged
        /\ published' = [published EXCEPT
                           ![i] = With(published[i], rpc[i].target, rpc[i].conf)]
    BY <1>3 DEF PublishAnswer, Unchanged
  <2> QED BY <1>1, <2>1
<1>4. ASSUME NEW i \in VM, LinuxReboot(i)
      PROVE  published' = [k \in VM |-> published'[k]] /\ staged' \in [VM -> SUBSET Volume]
  BY <1>1, <1>4 DEF LinuxReboot
<1>5. ASSUME NEW i \in VM, NEW v \in Volume, NEW path \in Path,
             LinuxUnpublishBegin(i, v, path)
      PROVE  published' = [k \in VM |-> published'[k]] /\ UNCHANGED staged
  BY <1>1, <1>5 DEF LinuxUnpublishBegin
<1>6. ASSUME NEW i \in VM, NEW v \in Volume, NEW path \in Path,
             LinuxUnstageBegin(i, v, path)
      PROVE  UNCHANGED published /\ staged' \in [VM -> SUBSET Volume]
  BY <1>1, <1>6 DEF LinuxUnstageBegin
<1> QED BY <1>1, <1>2, <1>3, <1>4, <1>5, <1>6, ReliedChanges

(***************************************************************************)
(* The theorem.  Contract is assumed: a publish of what the kubelet has    *)
(* not staged binds the directory that is at the staging path.             *)
(***************************************************************************)
\* What happens at no VM.
LEMMA ElsewhereServes ==
  ASSUME [LinuxNext]_linuxVars,
         ~\E i \in VM : LinuxKubeletCall(i) \/ LinuxRPCStep(i) \/ HostTrouble(i)
  PROVE  UNCHANGED <<journal, mounts, rpc, staged, published>>
<1>1. ASSUME NEW i \in VM, NEW target \in Path, PodWrites(i, target)
      PROVE  UNCHANGED <<journal, mounts, rpc, staged, published>>
  BY <1>1 DEF PodWrites, vars
<1>2. ASSUME NEW v \in Volume, CloudStep(v) \/ Damage(v)
      PROVE  UNCHANGED <<journal, mounts, rpc, staged, published>>
  BY <1>2 DEF CloudStep, LinuxTakeDisk, TakeDisk, Grant, CloseGate, GiveDisk, Retire,
     SetLease, CloudGrows, PlatformNotes, VMNotices, Damage, host, vars
<1>3. CASE UNCHANGED linuxVars \/ \E q \in late : Deliver(q) /\ UNCHANGED host
  BY <1>3 DEF linuxVars, vars, host, Deliver
<1> QED BY <1>1, <1>2, <1>3 DEF LinuxNext

\* One VM moves, or none; the others rely on what they relied on.
LEMMA ServedStep ==
  ASSUME Contract, NodeInv, JournalInv, ServedInv, [LinuxNext]_linuxVars
  PROVE  ServedInv'
<1>1. NodeType /\ UNCHANGED mode
  BY ModeStays DEF NodeInv
<1>2. published' = [k \in VM |-> published'[k]] /\ staged' \in [VM -> SUBSET Volume]
  BY <1>1, ReliedTyped
<1>3. ASSUME NEW j \in VM PROVE ServedOK(j)'
  <2>1. ServedOK(j)
    BY DEF ServedInv
  <2>2. ASSUME NEW i \in VM,
               LinuxKubeletCall(i) \/ LinuxRPCStep(i) \/ HostTrouble(i)
        PROVE  ServedOK(j)'
    <3>1. CASE i = j
      BY <2>2, <3>1, CallServes, RPCServes, TroubleServes
    <3>2. CASE i # j
      <4>1. /\ journal'[j] = journal[j] /\ mounts'[j] = mounts[j] /\ rpc'[j] = rpc[j]
            /\ staged'[j] = staged[j] /\ published'[j] = published[j]
        BY <1>1, <2>2, <3>2, OneVMChanges DEF ServedInv
      <4> QED BY <1>1, <2>1, <4>1, ServedSame
    <3> QED BY <3>1, <3>2
  <2>3. CASE ~\E i \in VM : LinuxKubeletCall(i) \/ LinuxRPCStep(i) \/ HostTrouble(i)
    BY <1>1, <2>1, <2>3, ElsewhereServes, ServedSame
  <2> QED BY <2>2, <2>3
<1> QED BY <1>2, <1>3 DEF ServedInv

\* At first nothing is relied on.
LEMMA ServedInit == LinuxInit => ServedInv
<1> SUFFICES ASSUME LinuxInit PROVE ServedInv
  OBVIOUS
<1>1. /\ staged = [i \in VM |-> {}]
      /\ published = [i \in VM |-> NoEntries]
      /\ rpc = [i \in VM |-> NoRPC]
  BY DEF LinuxInit, Init
<1>2. /\ published = [i \in VM |-> published[i]] /\ staged \in [VM -> SUBSET Volume]
  BY <1>1
<1>3. ASSUME NEW i \in VM PROVE ServedOK(i)
  <2>1. staged[i] = {} /\ DOMAIN published[i] = {} /\ rpc[i].at = "idle"
    BY <1>1 DEF NoRPC, NoEntries
  <2> QED BY <2>1 DEF ServedOK, StagedIsMounted, TargetsServed, HostAsSeen,
          PublishedIsTracked, PublishPoint, UnpublishPoint, UnstagePoint
<1> QED BY <1>2, <1>3 DEF ServedInv

\* A target the kubelet was told is published shows the volume, with the flag
\* that was asked for, until it is unpublished (linux.go:168-242).
THEOREM PublishedIsServedHolds ==
  ASSUME Contract PROVE LinuxSpec => []PublishedIsServed
<1>1. LinuxInit => NodeInv /\ JournalInv /\ SizesInv /\ ServedInv
  BY NodeInit, JournalInit, SizesInit, ServedInit DEF LinuxInit
<1>2. NodeInv /\ JournalInv /\ SizesInv /\ ServedInv /\ [LinuxNext]_linuxVars
        => NodeInv' /\ JournalInv' /\ SizesInv' /\ ServedInv'
  BY NodeStepOnLinux, SizesStep, ServedStep DEF SizesInv
<1>3. ServedInv => PublishedIsServed
  BY DEF ServedInv, ServedOK, TargetsServed, TargetServed, PublishedIsServed,
     MountedOn, Mounted
<1> QED BY <1>1, <1>2, <1>3, PTL DEF LinuxSpec

(***************************************************************************)
(* The types, and their bounds.                                            *)
(***************************************************************************)
\* A request the API executes registers a use of the request's generation.
LEMMA ExecutedBounded ==
  ASSUME NodeType, TypedInv, NEW q \in LateRequest, q.gen \in Generation
  PROVE  \A v \in Volume : LeaseBounded(Executed(q)[v])
<1>1. /\ lease \in [Volume -> LeaseRecord] /\ q.vol \in Volume
      /\ \A v \in Volume : LeaseBounded(lease[v])
  BY DEF NodeType, LateRequest, TypedInv
<1>2. PICK l, u : l = lease[q.vol] /\ u = useID(q.path, q.gen)
  OBVIOUS
<1>3. l \in LeaseRecord /\ LeaseBounded(l) /\ u[2] = q.gen
  BY <1>1, <1>2 DEF useID
<1>4. LeaseBounded(Acquired(l, u)) /\ LeaseBounded(Released(l, u))
  BY <1>3 DEF LeaseBounded, Acquired, Released, LeaseRecord
<1>5. \/ Executed(q) = lease
      \/ Executed(q) = [lease EXCEPT ![q.vol] = Acquired(l, u)]
      \/ Executed(q) = [lease EXCEPT ![q.vol] = Released(l, u)]
  BY <1>2 DEF Executed
<1>6. ASSUME NEW m, LeaseBounded(m), Executed(q) = [lease EXCEPT ![q.vol] = m]
      PROVE  \A v \in Volume : LeaseBounded(Executed(q)[v])
  BY <1>1, <1>6
<1> QED BY <1>1, <1>4, <1>5, <1>6

\* The platform grants no generation beyond the bound, and adds no use.
LEMMA PlatformBounded ==
  ASSUME NodeType, TypedInv, NEW v \in Volume, PlatformStep(v)
  PROVE  \A w \in Volume : LeaseBounded(lease'[w])
<1>1. /\ lease \in [Volume -> LeaseRecord] /\ MaxGen \in Nat
      /\ \A w \in Volume : LeaseBounded(lease[w])
  BY NodeAgentAssumption DEF NodeType, TypedInv
<1>2. PICK l : l = lease[v]
  OBVIOUS
<1>3. l \in LeaseRecord /\ LeaseBounded(l) /\ l.gen \in Nat
  BY <1>1, <1>2 DEF LeaseRecord
<1>4. ASSUME NEW m, LeaseBounded(m), SetLease(v, m)
      PROVE  \A w \in Volume : LeaseBounded(lease'[w])
  BY <1>1, <1>4 DEF SetLease
<1>5. ASSUME NEW i \in VM, Grant(v, i) PROVE \A w \in Volume : LeaseBounded(lease'[w])
  <2>1. l.gen < MaxGen /\ SetLease(v, Granted(l, i))
    BY <1>2, <1>5 DEF Grant
  <2>2. l.gen + 1 <= MaxGen
    BY <1>1, <1>3, <2>1
  <2>3. LeaseBounded(Granted(l, i))
    BY <1>3, <2>2 DEF LeaseBounded, Granted, LeaseRecord
  <2> QED BY <1>4, <2>1, <2>3
<1>6. /\ LeaseBounded(DiskTaken(l)) /\ LeaseBounded(Closed(l))
      /\ LeaseBounded(DiskGiven(l)) /\ LeaseBounded(Retired(l))
  BY <1>3 DEF LeaseBounded, DiskTaken, Closed, DiskGiven, Retired, LeaseRecord
<1> QED BY <1>2, <1>4, <1>5, <1>6
        DEF PlatformStep, TakeDisk, CloseGate, GiveDisk, Retire

\* What the agents and the platform share, in a step of NodeAgent.
LEMMA SharedBounded ==
  ASSUME NodeInv, TypedInv, [Next]_vars
  PROVE  /\ \A v \in Volume : LeaseBounded(lease'[v])
         /\ \A q \in late' : q.gen \in Generation
         /\ trouble' \in 0 .. MaxTrouble
<1>1. /\ NodeType /\ MaxTrouble \in Nat /\ trouble \in 0 .. MaxTrouble
      /\ \A v \in Volume : LeaseBounded(lease[v])
      /\ \A q \in late : q \in LateRequest /\ q.gen \in Generation
  BY NodeAgentAssumption DEF NodeInv, NodeType, TypedInv
<1>2. Suffer => trouble' \in 0 .. MaxTrouble
  BY <1>1 DEF Suffer
<1>3. ASSUME NEW i \in VM, KubeletCall(i) PROVE UNCHANGED <<lease, late, trouble>>
  <2>1. PICK v \in Volume, path \in Path :
          \/ \E g \in 1 .. lease[v].gen : StageBegin(i, v, path, g)
          \/ \E g \in 1 .. lease[v].gen, target \in Path, conf \in Conf :
               PublishBegin(i, v, path, g, target, conf)
          \/ UnpublishBegin(i, v, path)
          \/ UnstageBegin(i, v, path)
    BY <1>3 DEF KubeletCall
  <2>2. ASSUME NEW g, StageBegin(i, v, path, g)
        PROVE  UNCHANGED <<lease, late, trouble>>
    BY <2>2 DEF StageBegin
  <2>3. ASSUME NEW g, NEW target, NEW conf, PublishBegin(i, v, path, g, target, conf)
        PROVE  UNCHANGED <<lease, late, trouble>>
    BY <2>3 DEF PublishBegin
  <2>4. UnpublishBegin(i, v, path) => UNCHANGED <<lease, late, trouble>>
    BY DEF UnpublishBegin
  <2>5. UnstageBegin(i, v, path) => UNCHANGED <<lease, late, trouble>>
    BY DEF UnstageBegin
  <2> QED BY <2>1, <2>2, <2>3, <2>4, <2>5
<1>4. ASSUME NEW i \in VM, rpc[i].at \in {"acquire", "release"},
             NEW op \in {"AcquireUse", "ReleaseUse"}
      PROVE  /\ Request(i, op, rpc[i].vol, rpc[i].path, rpc[i].gen) \in LateRequest
             /\ Request(i, op, rpc[i].vol, rpc[i].path, rpc[i].gen).gen \in Generation
  <2>1. rpc[i].gen \in Generation
    BY <1>4 DEF TypedInv, TypedOK, UnpublishPoint
  <2> QED BY <1>1, <1>4, <2>1, RequestTyped DEF Request
<1>5. ASSUME NEW i \in VM, RPCStep(i)
      PROVE  /\ UNCHANGED <<late, trouble>>
             /\ \A v \in Volume : LeaseBounded(lease'[v])
  <2>1. CASE StageAcquire(i) \/ UnstageRelease(i)
    <3>1. /\ rpc[i].at \in {"acquire", "release"} /\ UNCHANGED <<late, trouble>>
          /\ \E op \in {"AcquireUse", "ReleaseUse"} :
               lease' = Executed(Request(i, op, rpc[i].vol, rpc[i].path, rpc[i].gen))
      BY <2>1 DEF StageAcquire, UnstageRelease, At
    <3> QED BY <1>1, <1>4, <3>1, ExecutedBounded
  <2>2. CASE ~(StageAcquire(i) \/ UnstageRelease(i))
    <3>1. UNCHANGED <<lease, late, trouble>>
      BY <1>5, <2>2 DEF RPCStep, StageStep, StageRecord, StageMount, StageMark,
         StageReady, PublishStep, PublishAnnounce, PublishTrack, PublishBind,
         UnpublishStep, UnpublishUnmount, UnpublishUntrack, UnstageStep,
         UnstageUnmount, UnstageForget
    <3> QED BY <1>1, <3>1
  <2> QED BY <2>1, <2>2
<1>6. ASSUME NEW i \in VM, Break(i) \/ TimeOut(i) \/ Reboot(i)
      PROVE  /\ UNCHANGED lease /\ trouble' \in 0 .. MaxTrouble
             /\ \A q \in late' : q.gen \in Generation
  <2>1. CASE Break(i) \/ Reboot(i)
    BY <1>1, <1>2, <2>1 DEF Break, Reboot
  <2>2. CASE TimeOut(i)
    <3>1. /\ rpc[i].at \in {"acquire", "release"} /\ UNCHANGED lease /\ Suffer
          /\ \E op \in {"AcquireUse", "ReleaseUse"} :
               late' = late \cup
                 {Request(i, op, rpc[i].vol, rpc[i].path, rpc[i].gen)}
      BY <2>2, NodeAgentAssumption DEF TimeOut
    <3> QED BY <1>1, <1>2, <1>4, <3>1
  <2> QED BY <1>6, <2>1, <2>2
<1>7. ASSUME NEW v \in Volume, PlatformStep(v)
      PROVE  /\ UNCHANGED <<late, trouble>> /\ \A w \in Volume : LeaseBounded(lease'[w])
  <2>1. UNCHANGED <<late, trouble>>
    BY <1>7 DEF PlatformStep, Grant, TakeDisk, CloseGate, GiveDisk, Retire, SetLease
  <2> QED BY <1>1, <1>7, <2>1, PlatformBounded
<1>8. ASSUME NEW q \in late, Deliver(q)
      PROVE  /\ UNCHANGED trouble /\ late' \subseteq late
             /\ \A v \in Volume : LeaseBounded(lease'[v])
  BY <1>1, <1>8, ExecutedBounded DEF Deliver
<1>9. UNCHANGED vars => UNCHANGED <<lease, late, trouble>>
  BY DEF vars
<1>10. ASSUME NEW i \in VM, KubeletCall(i) \/ RPCStep(i) \/ Break(i) \/ TimeOut(i) \/ Reboot(i)
       PROVE  /\ \A v \in Volume : LeaseBounded(lease'[v])
              /\ \A q \in late' : q.gen \in Generation
              /\ trouble' \in 0 .. MaxTrouble
  BY <1>1, <1>3, <1>5, <1>6, <1>10
<1> QED BY <1>1, <1>7, <1>8, <1>9, <1>10 DEF Next

\* The host's own steps touch none of it but the count of troubles.
LEMMA HostBounded ==
  ASSUME NodeInv, TypedInv, NEW i \in VM, HostOnly(i)
  PROVE  UNCHANGED <<lease, late>> /\ trouble' \in 0 .. MaxTrouble
<1>1. MaxTrouble \in Nat /\ trouble \in 0 .. MaxTrouble
  BY NodeAgentAssumption DEF TypedInv
<1>2. UNCHANGED trouble => trouble' \in 0 .. MaxTrouble
  BY <1>1
<1>3. Suffer => trouble' \in 0 .. MaxTrouble
  BY <1>1 DEF Suffer
<1>4. CASE MkfsKilled(i) \/ RemountFails(i) \/ HostBreak(i)
  BY <1>3, <1>4 DEF MkfsKilled, RemountFails, HostBreak
<1>5. CASE ~(MkfsKilled(i) \/ RemountFails(i) \/ HostBreak(i))
  <2>1. UNCHANGED <<lease, late, trouble>>
    BY <1>5 DEF HostOnly, StageProbe, Mkfs, StageFsMount, LinuxBind,
       RemountReadOnly, PublishAnswer, ExpandCheck, ExpandResize, ExpandNote,
       ExpandBegin, Unchanged
  <2> QED BY <1>2, <2>1
<1> QED BY <1>4, <1>5

\* An RPC that goes on keeps its kind, its volume and its generation.
RPCMove(i) ==
  \/ rpc'[i] = NoRPC
  \/ /\ rpc[i].at # "idle" /\ rpc'[i].vol = rpc[i].vol
     /\ rpc'[i].at \in ExpandPoint => rpc[i].at \in ExpandPoint
     /\ \/ rpc'[i].at \in UnpublishPoint
        \/ rpc[i].at \notin UnpublishPoint /\ rpc'[i].gen = rpc[i].gen

\* A step to a point of the same RPC is such a move.
LEMMA ContinuesKind ==
  ASSUME NodeType, NEW i \in VM, NEW p, Continue(i, p),
         \/ rpc[i].at \in StagePoint /\ p \in StagePoint
         \/ rpc[i].at \in PublishPoint /\ p \in PublishPoint
         \/ rpc[i].at \in UnpublishPoint /\ p \in UnpublishPoint
         \/ rpc[i].at \in UnstagePoint /\ p \in UnstagePoint
         \/ rpc[i].at \in ExpandPoint /\ p \in ExpandPoint
  PROVE  RPCMove(i)
<1>1. /\ rpc'[i].at = p /\ rpc'[i].vol = rpc[i].vol
      /\ rpc[i].at \notin UnpublishPoint => rpc'[i].gen = rpc[i].gen
  BY Continues
<1> QED BY <1>1 DEF RPCMove, StagePoint, PublishPoint, UnpublishPoint, UnstagePoint,
       ExpandPoint

\* Every step of an RPC, and whatever ends it, moves it so.
LEMMA RPCMoves ==
  ASSUME NodeType, NEW i \in VM, LinuxRPCStep(i) \/ HostTrouble(i)
  PROVE  RPCMove(i)
<1>1. Finish(i) => RPCMove(i)
  BY Ends DEF RPCMove
<1>2. CASE HostTrouble(i)
  <2>1. Finish(i)
    BY <1>2 DEF HostTrouble, MkfsKilled, RemountFails, HostBreak, LinuxReboot,
       Reboot, Break, TimeOut
  <2> QED BY <1>1, <2>1
<1>3. CASE LinuxAcquire(i) \/ StageProbe(i) \/ Mkfs(i) \/ StageFsMount(i) \/ LinuxMark(i)
             \/ LinuxReady(i) \/ StageRecord(i)
  <2>1. /\ rpc[i].at \in StagePoint
        /\ Finish(i) \/ \E p \in StagePoint : Continue(i, p)
    BY <1>3 DEF LinuxAcquire, StageAcquire, StageProbe, Mkfs, StageFsMount,
       LinuxMark, StageMark, LinuxReady, StageReady, StageRecord, At, StagePoint
  <2> QED BY <1>1, <2>1, ContinuesKind
<1>4. CASE PublishAnnounce(i) \/ PublishTrack(i) \/ LinuxBind(i) \/ RemountReadOnly(i)
             \/ PublishAnswer(i)
  <2>1. /\ rpc[i].at \in PublishPoint
        /\ Finish(i) \/ \E p \in PublishPoint : Continue(i, p)
    BY <1>4 DEF PublishAnnounce, PublishTrack, LinuxBind, RemountReadOnly,
       PublishAnswer, At, PublishPoint
  <2> QED BY <1>1, <2>1, ContinuesKind
<1>5. CASE UnpublishStep(i)
  <2>1. Finish(i) \/ /\ rpc[i].at \in UnpublishPoint
                     /\ \E p \in UnpublishPoint : Continue(i, p)
    BY <1>5 DEF UnpublishStep, UnpublishUnmount, UnpublishUntrack, At, UnpublishPoint
  <2> QED BY <1>1, <2>1, ContinuesKind
<1>6. CASE UnstageStep(i)
  <2>1. Finish(i) \/ /\ rpc[i].at \in UnstagePoint
                     /\ \E p \in UnstagePoint : Continue(i, p)
    BY <1>6 DEF UnstageStep, UnstageUnmount, UnstageRelease, UnstageForget, At,
       UnstagePoint
  <2> QED BY <1>1, <2>1, ContinuesKind
<1>7. CASE ExpandResize(i) \/ ExpandNote(i)
  <2>1. Finish(i) \/ /\ rpc[i].at \in ExpandPoint
                     /\ \E p \in ExpandPoint : Continue(i, p)
    BY <1>7 DEF ExpandResize, ExpandNote, At, ExpandPoint
  <2> QED BY <1>1, <2>1, ContinuesKind
<1>8. CASE ExpandCheck(i)
  <2>1. PICK r, n : /\ n = device[rpc[i].vol].noted
                    /\ r = [rpc[i] EXCEPT !.at = "resize", !.need = n]
    OBVIOUS
  <2>2. /\ rpc[i].at = "check" /\ rpc \in [VM -> RPC]
        /\ Finish(i) \/ rpc' = [rpc EXCEPT ![i] = r]
    BY <1>8, <2>1 DEF ExpandCheck, At, NodeType
  <2>3. rpc[i] \in ExpandRPC
    BY <2>2, Shapes DEF ExpandPoint
  <2>4. r.vol = rpc[i].vol /\ r.gen = rpc[i].gen
    BY <2>1, <2>3 DEF ExpandRPC
  <2>5. rpc' = [rpc EXCEPT ![i] = r] => rpc'[i] = r
    BY <2>2
  <2>6. rpc[i].at \in ExpandPoint /\ rpc[i].at \notin UnpublishPoint /\ rpc[i].at # "idle"
    BY <2>2 DEF ExpandPoint, UnpublishPoint
  <2> QED BY <1>1, <2>2, <2>4, <2>5, <2>6 DEF RPCMove
<1> QED BY <1>2, <1>3, <1>4, <1>5, <1>6, <1>7, <1>8
        DEF LinuxRPCStep, HostStep, AgentStep

\* The kubelet's calls carry a proof it was given, or that of an entry.
LEMMA CallTyped ==
  ASSUME NodeInv, TypedInv, NEW i \in VM, LinuxKubeletCall(i)
  PROVE  /\ rpc'[i].at \notin UnpublishPoint => rpc'[i].gen \in Generation
         /\ rpc'[i].at \in ExpandPoint => Staged(i, rpc'[i].vol)
<1>1. /\ NodeType /\ rpc = [k \in VM |-> rpc[k]] /\ MaxGen \in Nat
      /\ \A v \in DOMAIN journal[i] : Entry(i, v).gen \in Generation
  BY NodeAgentAssumption DEF NodeInv, NodeType, TypedInv, TypedOK
<1>2. \A r : Start(i, r) => rpc'[i] = r
  BY <1>1 DEF Start
<1>3. ASSUME NEW v \in Volume, NEW g \in 1 .. lease[v].gen PROVE g \in Generation
  <2>1. lease[v].gen \in Nat /\ lease[v].gen <= MaxGen
    BY <1>1 DEF NodeType, LeaseRecord, TypedInv, LeaseBounded
  <2> QED BY <1>1, <2>1 DEF Generation
<1>4. ASSUME NEW v, NEW path, NEW g \in Generation, LinuxStageBegin(i, v, path, g)
      PROVE  rpc'[i].gen \in Generation /\ rpc'[i].at \notin ExpandPoint
  BY <1>2, <1>4 DEF LinuxStageBegin, StageBegin, ExpandPoint
<1>5. ASSUME NEW v, NEW path, NEW g \in Generation, NEW target, NEW conf,
             LinuxPublishBegin(i, v, path, g, target, conf)
      PROVE  rpc'[i].gen \in Generation /\ rpc'[i].at \notin ExpandPoint
  BY <1>2, <1>5 DEF LinuxPublishBegin, PublishBegin, ExpandPoint
<1>6. ASSUME NEW v, NEW path, LinuxUnpublishBegin(i, v, path)
      PROVE  rpc'[i].at \in UnpublishPoint /\ rpc'[i].at \notin ExpandPoint
  BY <1>2, <1>6 DEF LinuxUnpublishBegin, UnpublishBegin, ExpandPoint, UnpublishPoint
<1>7. ASSUME NEW v, NEW path, LinuxUnstageBegin(i, v, path)
      PROVE  rpc'[i].gen \in Generation /\ rpc'[i].at \notin ExpandPoint
  BY <1>1, <1>2, <1>7 DEF LinuxUnstageBegin, UnstageBegin, ExpandPoint, Staged
<1>8. ASSUME NEW v, NEW path, NEW need, ExpandBegin(i, v, path, need)
      PROVE  rpc'[i].gen \in Generation /\ Staged(i, rpc'[i].vol)
  BY <1>1, <1>2, <1>8 DEF ExpandBegin, Staged
<1>9. PICK v \in Volume, path \in Path :
        \/ \E g \in 1 .. lease[v].gen :
             \/ LinuxStageBegin(i, v, path, g)
             \/ \E target \in Path, conf \in Conf :
                  LinuxPublishBegin(i, v, path, g, target, conf)
        \/ LinuxUnpublishBegin(i, v, path)
        \/ LinuxUnstageBegin(i, v, path)
        \/ \E need \in 2 .. MaxCap : ExpandBegin(i, v, path, need)
  BY Zenon DEF LinuxKubeletCall
<1> QED BY <1>3, <1>4, <1>5, <1>6, <1>7, <1>8, <1>9

\* An entry that is there before and after is of the same stage, as ready.
EntryStays(i, w) ==
  /\ w \in DOMAIN journal'[i]
  /\ journal'[i][w].path = journal[i][w].path
  /\ journal'[i][w].gen = journal[i][w].gen
  /\ journal[i][w].ready => journal'[i][w].ready

\* The journal takes the generation of its entry from the RPC that makes it,
\* and keeps the entry until its volume is forgotten.
LEMMA JournalMoves ==
  ASSUME NodeInv, NEW i \in VM,
         LinuxKubeletCall(i) \/ LinuxRPCStep(i) \/ HostTrouble(i)
  PROVE  \/ journal'[i] = journal[i]
         \/ /\ rpc[i].at \notin ExpandPoint
            /\ \A w \in DOMAIN journal'[i] :
                 \/ w \in DOMAIN journal[i] /\ Entry(i, w)'.gen = Entry(i, w).gen
                 \/ rpc[i].at = "record" /\ Entry(i, w)'.gen = rpc[i].gen
            /\ \A w \in DOMAIN journal[i] :
                 EntryStays(i, w) \/ (rpc[i].at = "forget" /\ w = rpc[i].vol)
<1>1. NodeType /\ NodeOK(i)
  BY DEF NodeInv
<1>2. PICK v : v = rpc[i].vol
  OBVIOUS
<1>3. CASE StageRecord(i)
  <2>1. PICK s : s = IF Staged(i, v) THEN Entry(i, v)
                                     ELSE NewStage(rpc[i].path, rpc[i].gen)
    OBVIOUS
  <2>2. rpc[i].at = "record" /\ Save(i, v, s)
    BY <1>2, <1>3, <2>1 DEF StageRecord, At
  <2>3. rpc[i] \in StageRPC
    BY <1>1, <2>2, Shapes DEF StagePoint
  <2>4. v \in Volume /\ s \in JournalEntry
    BY <1>1, <1>2, <2>1, <2>3, EntryTyped, EmptyTable
       DEF NewStage, JournalEntry, StageRPC, TargetTable
  <2>5. /\ s.gen = rpc[i].gen \/ (Staged(i, v) /\ s.gen = Entry(i, v).gen)
        /\ Staged(i, v) => s = Entry(i, v)
    BY <2>1 DEF NewStage
  <2>6. /\ DOMAIN journal'[i] = DOMAIN journal[i] \cup {v} /\ journal'[i][v] = s
        /\ \A w \in DOMAIN journal[i] : w # v => journal'[i][w] = journal[i][w]
    <3>1. /\ journal'[i] = With(journal[i], v, s)
          /\ DOMAIN journal'[i] = DOMAIN journal[i] \cup {v} /\ journal'[i][v] = s
      BY <1>1, <2>2, <2>4, SaveTyped
    <3> QED BY <3>1 DEF With
  <2> QED BY <2>2, <2>5, <2>6 DEF ExpandPoint, Entry, Staged, EntryStays
<1>4. ASSUME NEW s, Save(i, v, s), Staged(i, v), s.gen = Entry(i, v).gen,
             s.path = Entry(i, v).path, Entry(i, v).ready => s.ready,
             rpc[i].at \notin ExpandPoint, s \in JournalEntry
      PROVE  /\ rpc[i].at \notin ExpandPoint
             /\ \A w \in DOMAIN journal'[i] :
                  w \in DOMAIN journal[i] /\ Entry(i, w)'.gen = Entry(i, w).gen
             /\ \A w \in DOMAIN journal[i] : EntryStays(i, w)
  <2>1. v \in Volume
    BY <1>1, <1>4, EntryTyped
  <2>2. /\ DOMAIN journal'[i] = DOMAIN journal[i] \cup {v} /\ journal'[i][v] = s
        /\ \A w \in DOMAIN journal[i] : w # v => journal'[i][w] = journal[i][w]
    <3>1. /\ journal'[i] = With(journal[i], v, s)
          /\ DOMAIN journal'[i] = DOMAIN journal[i] \cup {v} /\ journal'[i][v] = s
      BY <1>1, <1>4, <2>1, SaveTyped
    <3> QED BY <3>1 DEF With
  <2> QED BY <1>4, <2>2 DEF Entry, Staged, EntryStays
<1>5. CASE LinuxReady(i) \/ PublishTrack(i) \/ UnpublishUntrack(i)
  <2>1. /\ Staged(i, v) /\ rpc[i].at \notin ExpandPoint
        /\ rpc[i].at = "ready" \/ rpc[i].at = "track" \/ rpc[i].at = "untrack"
    BY <1>1, <1>2, <1>5 DEF LinuxReady, StageReady, PublishTrack, UnpublishUntrack,
       At, NodeOK, JournalAsSeen, StagePoint, PublishPoint, UnpublishPoint, ExpandPoint
  <2>2. PICK s : /\ s = IF LinuxReady(i) THEN [Entry(i, v) EXCEPT !.ready = TRUE]
                        ELSE IF PublishTrack(i) THEN
                          [Entry(i, v) EXCEPT
                             !.targets = With(Entry(i, v).targets, rpc[i].target, rpc[i].conf)]
                        ELSE [Entry(i, v) EXCEPT
                                !.targets = Without(Entry(i, v).targets, rpc[i].target)]
    OBVIOUS
  <2>3. Save(i, v, s)
    BY <1>2, <1>5, <2>2 DEF LinuxReady, StageReady, PublishTrack, UnpublishUntrack
  <2>4. Entry(i, v) \in JournalEntry /\ Entry(i, v).targets \in TargetTable
    BY <1>1, <2>1, EntryTyped
  <2>5. CASE LinuxReady(i)
    <3>1. s = [Entry(i, v) EXCEPT !.ready = TRUE]
      BY <2>2, <2>5
    <3>2. /\ s \in JournalEntry /\ s.gen = Entry(i, v).gen
          /\ s.path = Entry(i, v).path /\ (Entry(i, v).ready => s.ready)
      BY <2>4, <3>1 DEF JournalEntry
    <3> QED BY <1>4, <2>1, <2>3, <3>2
  <2>6. CASE ~LinuxReady(i) /\ PublishTrack(i)
    <3>1. PICK t : t = With(Entry(i, v).targets, rpc[i].target, rpc[i].conf)
      OBVIOUS
    <3>2. s = [Entry(i, v) EXCEPT !.targets = t]
      BY <2>2, <2>6, <3>1
    <3>3. rpc[i] \in PublishRPC
      BY <1>1, <2>6, Shapes DEF PublishTrack, At, PublishPoint
    <3>4. t \in TargetTable
      BY <2>4, <3>1, <3>3, WithTable DEF TargetTable, PublishRPC
    <3>5. /\ s \in JournalEntry /\ s.gen = Entry(i, v).gen
          /\ s.path = Entry(i, v).path /\ (Entry(i, v).ready => s.ready)
      BY <2>4, <3>2, <3>4 DEF JournalEntry
    <3> QED BY <1>4, <2>1, <2>3, <3>5
  <2>7. CASE ~LinuxReady(i) /\ ~PublishTrack(i)
    <3>1. PICK t : t = Without(Entry(i, v).targets, rpc[i].target)
      OBVIOUS
    <3>2. s = [Entry(i, v) EXCEPT !.targets = t]
      BY <2>2, <2>7, <3>1
    <3>3. t \in TargetTable
      BY <2>4, <3>1, WithoutTable DEF TargetTable
    <3>4. /\ s \in JournalEntry /\ s.gen = Entry(i, v).gen
          /\ s.path = Entry(i, v).path /\ (Entry(i, v).ready => s.ready)
      BY <2>4, <3>2, <3>3 DEF JournalEntry
    <3> QED BY <1>4, <2>1, <2>3, <3>4
  <2> QED BY <2>5, <2>6, <2>7
<1>6. CASE UnstageForget(i)
  <2>1. /\ rpc[i].at = "forget" /\ journal = [k \in VM |-> journal[k]]
        /\ journal' = [journal EXCEPT ![i] = Without(journal[i], v)]
    BY <1>1, <1>2, <1>6 DEF UnstageForget, At, NodeType
  <2>2. journal'[i] = Without(journal[i], v)
    BY <2>1
  <2>3. /\ \A w \in DOMAIN journal'[i] : w \in DOMAIN journal[i] /\ journal'[i][w] = journal[i][w]
        /\ \A w \in DOMAIN journal[i] : w # v => EntryStays(i, w)
    BY <2>2 DEF Without, Restrict, EntryStays
  <2> QED BY <1>2, <2>1, <2>3 DEF ExpandPoint, Entry
<1>7. CASE LinuxKubeletCall(i)
  <2>1. ASSUME NEW w, NEW path, NEW g, NEW target, NEW conf, NEW need,
               \/ LinuxStageBegin(i, w, path, g)
               \/ LinuxPublishBegin(i, w, path, g, target, conf)
               \/ LinuxUnpublishBegin(i, w, path) \/ LinuxUnstageBegin(i, w, path)
               \/ ExpandBegin(i, w, path, need)
        PROVE  UNCHANGED journal
    BY <2>1 DEF LinuxStageBegin, StageBegin, LinuxPublishBegin, PublishBegin,
       LinuxUnpublishBegin, UnpublishBegin, LinuxUnstageBegin, UnstageBegin, ExpandBegin
  <2> QED BY <1>7, <2>1 DEF LinuxKubeletCall
<1>8. CASE HostTrouble(i)
  BY <1>8 DEF HostTrouble, MkfsKilled, RemountFails, HostBreak, LinuxReboot, Reboot,
     Break, TimeOut
<1>9. CASE /\ LinuxRPCStep(i) /\ ~StageRecord(i) /\ ~LinuxReady(i) /\ ~PublishTrack(i)
           /\ ~UnpublishUntrack(i) /\ ~UnstageForget(i)
  <2>1. UNCHANGED journal
    BY <1>9 DEF LinuxRPCStep, HostStep, AgentStep, LinuxAcquire, StageAcquire,
       StageProbe, Mkfs, StageFsMount, LinuxMark, StageMark, LinuxBind,
       RemountReadOnly, PublishAnswer, ExpandCheck, ExpandResize, ExpandNote,
       PublishAnnounce, UnpublishStep, UnpublishUnmount, UnstageStep,
       UnstageUnmount, UnstageRelease, Unchanged
  <2> QED BY <2>1
<1> QED BY <1>3, <1>4, <1>5, <1>6, <1>7, <1>8, <1>9

\* A mount that is made is of its type, and so are the others.
LEMMA MountTyped ==
  ASSUME NodeType, NEW i \in VM, TypedOK(i), NEW path, NEW m \in Mount,
         SetMount(i, path, m)
  PROVE  \A p \in DOMAIN mounts'[i] : mounts'[i][p] \in Mount
<1>1. mounts'[i] = With(mounts[i], path, m)
  BY MountTableWith
<1> QED BY <1>1 DEF With, TypedOK

\* A bind shows the device or the staging path, as Contract has it; a remount
\* changes the flag to one that was asked for.
LEMMA MountsTyped ==
  ASSUME RW \in Conf, NodeInv, NEW i \in VM, TypedOK(i), ServedOK(i),
         LinuxKubeletCall(i) \/ LinuxRPCStep(i) \/ HostTrouble(i)
  PROVE  \A p \in DOMAIN mounts'[i] : mounts'[i][p] \in Mount
<1>1. /\ NodeType /\ NodeOK(i) /\ mounts = [k \in VM |-> mounts[k]]
      /\ \A p \in DOMAIN mounts[i] : mounts[i][p] \in Mount
  BY DEF NodeInv, NodeType, TypedOK
<1>2. PICK v, path : v = rpc[i].vol /\ path = rpc[i].path
  OBVIOUS
<1>3. CASE StageFsMount(i)
  <2>1. PICK m : m = [vol |-> v, source |-> Device, conf |-> NoConf]
    OBVIOUS
  <2>2. rpc[i].at = "fsmount" /\ (UNCHANGED mounts \/ SetMount(i, path, m))
    BY <1>2, <1>3, <2>1 DEF StageFsMount, At
  <2>3. v \in Volume
    BY <1>1, <1>2, <2>2, Shapes
  <2>4. m \in Mount
    BY <2>1, <2>3 DEF Mount
  <2> QED BY <1>1, <2>2, <2>4, MountTyped
<1>4. CASE LinuxBind(i)
  <2>1. PICK m, target, x :
          /\ target = rpc[i].target /\ x = Source(i, path, v)
          /\ m = [vol |-> v, source |-> x, conf |-> RW]
    OBVIOUS
  <2>2. rpc[i].at = "bind" /\ (UNCHANGED mounts \/ SetMount(i, target, m))
    BY <1>2, <1>4, <2>1 DEF LinuxBind, At
  <2>3. rpc[i] \in PublishRPC
    BY <1>1, <2>2, Shapes DEF PublishPoint
  <2>4. v \in Volume /\ path \in Path /\ x # Directory
    BY <1>2, <2>1, <2>2, <2>3, SourceIsReal DEF PublishRPC
  <2>5. x \in Path \cup {Device}
    BY <2>1, <2>4 DEF Source
  <2>6. m \in Mount
    BY <2>1, <2>4, <2>5 DEF Mount
  <2> QED BY <1>1, <2>2, <2>6, MountTyped
<1>5. CASE RemountReadOnly(i)
  <2>1. PICK m, target : /\ target = rpc[i].target
                         /\ m = [mounts[i][target] EXCEPT !.conf = RO]
    OBVIOUS
  <2>2. rpc[i].at = "remount" /\ SetMount(i, target, m)
    BY <1>5, <2>1 DEF RemountReadOnly, At
  <2>3. rpc[i] \in PublishRPC
    BY <1>1, <2>2, Shapes DEF PublishPoint
  <2>4. RO \in Conf
    BY <2>2, <2>3 DEF ServedOK, HostAsSeen, PublishRPC
  <2>5. target \in DOMAIN mounts[i]
    BY <1>1, <2>1, <2>2 DEF NodeOK, JournalAsSeen, MountedFrom, Mounted
  <2>6. mounts[i][target] \in Mount
    BY <1>1, <2>5
  <2>7. m \in Mount
    BY <2>1, <2>4, <2>6 DEF Mount
  <2> QED BY <1>1, <2>2, <2>7, MountTyped
<1>6. CASE RemountFails(i) \/ UnpublishUnmount(i) \/ UnstageUnmount(i)
  <2>1. \E p : RemoveMount(i, p)
    BY <1>6 DEF RemountFails, UnpublishUnmount, UnstageUnmount
  <2> QED BY <1>1, <2>1, MountTableWithout
<1>7. CASE LinuxReboot(i)
  <2>1. mounts'[i] = NoEntries
    BY <1>1, <1>7 DEF LinuxReboot, Reboot
  <2> QED BY <2>1 DEF NoEntries
<1>8. CASE LinuxKubeletCall(i)
  <2>1. ASSUME NEW w, NEW p, NEW g, NEW target, NEW conf, NEW need,
               \/ LinuxStageBegin(i, w, p, g)
               \/ LinuxPublishBegin(i, w, p, g, target, conf)
               \/ LinuxUnpublishBegin(i, w, p) \/ LinuxUnstageBegin(i, w, p)
               \/ ExpandBegin(i, w, p, need)
        PROVE  UNCHANGED mounts
    BY <2>1 DEF LinuxStageBegin, StageBegin, LinuxPublishBegin, PublishBegin,
       LinuxUnpublishBegin, UnpublishBegin, LinuxUnstageBegin, UnstageBegin, ExpandBegin
  <2>2. UNCHANGED mounts
    BY <1>8, <2>1 DEF LinuxKubeletCall
  <2> QED BY <1>1, <2>2
<1>9. CASE HostTrouble(i) /\ ~RemountFails(i) /\ ~LinuxReboot(i)
  <2>1. UNCHANGED mounts
    BY <1>9 DEF HostTrouble, MkfsKilled, HostBreak, Break, TimeOut
  <2> QED BY <1>1, <2>1
<1>10. CASE /\ LinuxRPCStep(i) /\ ~StageFsMount(i) /\ ~LinuxBind(i) /\ ~RemountReadOnly(i)
            /\ ~UnpublishUnmount(i) /\ ~UnstageUnmount(i)
  <2>1. UNCHANGED mounts
    BY <1>10 DEF LinuxRPCStep, HostStep, AgentStep, LinuxAcquire, StageAcquire,
       StageProbe, Mkfs, LinuxMark, StageMark, LinuxReady, StageReady, PublishAnswer,
       ExpandCheck, ExpandResize, ExpandNote, StageRecord, PublishAnnounce,
       PublishTrack, UnpublishStep, UnpublishUntrack, UnstageStep, UnstageRelease,
       UnstageForget, Unchanged
  <2> QED BY <1>1, <2>1
<1> QED BY <1>3, <1>4, <1>5, <1>6, <1>7, <1>8, <1>9, <1>10

\* The kubelet is told what it asked for.
LEMMA PublishedTyped ==
  ASSUME NodeType, published = [k \in VM |-> published[k]],
         [LinuxNext]_linuxVars, \A k \in VM : TypedOK(k), NEW j \in VM
  PROVE  \A t \in DOMAIN published'[j] : t \in Path /\ published'[j][t] \in Conf
<1>1. \A t \in DOMAIN published[j] : t \in Path /\ published[j][t] \in Conf
  BY DEF TypedOK
<1>2. CASE UNCHANGED published
  BY <1>1, <1>2
<1>3. ASSUME NEW i \in VM, PublishAnswer(i)
      PROVE  \A t \in DOMAIN published'[j] : t \in Path /\ published'[j][t] \in Conf
  <2>1. PICK f : f = With(published[i], rpc[i].target, rpc[i].conf)
    OBVIOUS
  <2>2. rpc[i].at = "answer" /\ published' = [published EXCEPT ![i] = f]
    BY <1>3, <2>1 DEF PublishAnswer, At
  <2>3. rpc[i] \in PublishRPC
    BY <2>2, Shapes DEF PublishPoint
  <2>4. rpc[i].target \in Path /\ rpc[i].conf \in Conf
    BY <2>3 DEF PublishRPC
  <2>5. \A t \in DOMAIN published[i] : t \in Path /\ published[i][t] \in Conf
    BY DEF TypedOK
  <2>6. \A t \in DOMAIN f : t \in Path /\ f[t] \in Conf
    BY <2>1, <2>4, <2>5 DEF With
  <2>7. published'[j] = IF j = i THEN f ELSE published[j]
    BY <2>2
  <2> QED BY <1>1, <2>6, <2>7
<1>4. ASSUME NEW i \in VM, LinuxReboot(i)
      PROVE  \A t \in DOMAIN published'[j] : t \in Path /\ published'[j][t] \in Conf
  <2>1. published' = [published EXCEPT ![i] = NoEntries]
    BY <1>4 DEF LinuxReboot
  <2>2. published'[j] = IF j = i THEN NoEntries ELSE published[j]
    BY <2>1
  <2> QED BY <1>1, <2>2 DEF NoEntries
<1>5. ASSUME NEW i \in VM, NEW v \in Volume, NEW path \in Path,
             LinuxUnpublishBegin(i, v, path)
      PROVE  \A t \in DOMAIN published'[j] : t \in Path /\ published'[j][t] \in Conf
  <2>1. PICK f : f = Without(published[i], path)
    OBVIOUS
  <2>2. published' = [published EXCEPT ![i] = f]
    BY <1>5, <2>1 DEF LinuxUnpublishBegin
  <2>3. \A t \in DOMAIN published[i] : t \in Path /\ published[i][t] \in Conf
    BY DEF TypedOK
  <2>4. \A t \in DOMAIN f : t \in Path /\ f[t] \in Conf
    BY <2>1, <2>3 DEF Without, Restrict
  <2>5. published'[j] = IF j = i THEN f ELSE published[j]
    BY <2>2
  <2> QED BY <1>1, <2>4, <2>5
<1>6. ASSUME NEW i \in VM, NEW v \in Volume, NEW path \in Path,
             LinuxReady(i) \/ LinuxUnstageBegin(i, v, path)
      PROVE  UNCHANGED published
  BY <1>6 DEF LinuxReady, LinuxUnstageBegin
<1>7. ASSUME NEW i \in VM, LinuxReady(i) PROVE UNCHANGED published
  BY <1>7 DEF LinuxReady
<1> QED BY <1>2, <1>3, <1>4, <1>5, <1>6, <1>7, ReliedChanges

\* The answer of AcquireUse is the platform's flag.
LEMMA GrantedTyped ==
  ASSUME NodeType, device \in [Volume -> DeviceRecord], granted \in [VM -> BOOLEAN],
         [LinuxNext]_linuxVars
  PROVE  granted' \in [VM -> BOOLEAN]
<1>1. ASSUME NEW i \in VM, LinuxAcquire(i) PROVE granted' \in [VM -> BOOLEAN]
  <2>1. /\ rpc[i].at = "acquire"
        /\ granted' = [granted EXCEPT ![i] = device[rpc[i].vol].allowFormat]
    BY <1>1 DEF LinuxAcquire, StageAcquire, At
  <2>2. rpc[i].vol \in Volume
    BY <2>1, Shapes
  <2>3. device[rpc[i].vol].allowFormat \in BOOLEAN
    BY <2>2 DEF DeviceRecord
  <2> QED BY <2>1, <2>3
<1>2. ASSUME NEW i \in VM, LinuxKubeletCall(i) PROVE UNCHANGED granted
  BY <1>2 DEF LinuxKubeletCall, LinuxStageBegin, LinuxPublishBegin,
     LinuxUnpublishBegin, LinuxUnstageBegin, ExpandBegin, host
<1>3. ASSUME NEW i \in VM, LinuxRPCStep(i), ~LinuxAcquire(i) PROVE UNCHANGED granted
  BY <1>3 DEF LinuxRPCStep, AgentStep, HostStep, StageProbe, Mkfs,
     StageFsMount, LinuxMark, LinuxReady, LinuxBind, RemountReadOnly,
     PublishAnswer, ExpandCheck, ExpandResize, ExpandNote, Unchanged, host
<1>4. ASSUME NEW i \in VM, HostTrouble(i) PROVE UNCHANGED granted
  BY <1>4 DEF HostTrouble, MkfsKilled, RemountFails, HostBreak, LinuxReboot, host
<1>5. ASSUME NEW i \in VM, NEW target \in Path, PodWrites(i, target)
      PROVE  UNCHANGED granted
  BY <1>5 DEF PodWrites
<1>6. ASSUME NEW v \in Volume, CloudStep(v) \/ Damage(v) PROVE UNCHANGED granted
  BY <1>6 DEF CloudStep, LinuxTakeDisk, CloudGrows, PlatformNotes, VMNotices,
     Damage, host
<1>7. CASE UNCHANGED linuxVars \/ \E q \in late : Deliver(q) /\ UNCHANGED host
  BY <1>7 DEF linuxVars, host
<1> QED BY <1>1, <1>2, <1>3, <1>4, <1>5, <1>6, <1>7 DEF LinuxNext

\* One VM moves, or none.
LEMMA TypedStep ==
  ASSUME RW \in Conf, NodeInv, SizesInv, ServedInv, TypedInv, [LinuxNext]_linuxVars
  PROVE  TypedInv'
<1>1. /\ NodeType /\ UNCHANGED mode /\ mode \in [Volume -> Mode]
      /\ device \in [Volume -> DeviceRecord] /\ granted \in [VM -> BOOLEAN]
      /\ published = [k \in VM |-> published[k]] /\ staged \in [VM -> SUBSET Volume]
      /\ \A i \in VM : TypedOK(i) /\ ServedOK(i)
  BY ModeStays DEF NodeInv, SizesInv, ServedInv, TypedInv
<1>2. /\ \A v \in Volume : LeaseBounded(lease'[v])
      /\ \A q \in late' : q.gen \in Generation
      /\ trouble' \in 0 .. MaxTrouble
  <2>1. CASE AsNodeAgent
    BY <2>1, NodeAgentSteps, SharedBounded
  <2>2. ASSUME NEW i \in VM, HostOnly(i)
        PROVE  /\ \A v \in Volume : LeaseBounded(lease'[v])
               /\ \A q \in late' : q.gen \in Generation
               /\ trouble' \in 0 .. MaxTrouble
    BY <2>2, HostBounded DEF TypedInv
  <2> QED BY <2>1, <2>2, LinuxSteps
<1>3. granted' \in [VM -> BOOLEAN]
  BY <1>1, GrantedTyped
<1>4. ASSUME NEW j \in VM PROVE TypedOK(j)'
  <2>1. \A t \in DOMAIN published'[j] : t \in Path /\ published'[j][t] \in Conf
    BY <1>1, PublishedTyped
  <2>2. ASSUME journal'[j] = journal[j], mounts'[j] = mounts[j], rpc'[j] = rpc[j]
        PROVE  TypedOK(j)'
    BY <1>1, <2>1, <2>2 DEF TypedOK, Entry, Staged
  <2>3. ASSUME LinuxKubeletCall(j) \/ LinuxRPCStep(j) \/ HostTrouble(j)
        PROVE  TypedOK(j)'
    <3>1. \A p \in DOMAIN mounts'[j] : mounts'[j][p] \in Mount
      BY <1>1, <2>3, MountsTyped
    <3>2. \/ journal'[j] = journal[j]
          \/ /\ rpc[j].at \notin ExpandPoint
             /\ \A w \in DOMAIN journal'[j] :
                  \/ w \in DOMAIN journal[j] /\ Entry(j, w)'.gen = Entry(j, w).gen
                  \/ rpc[j].at = "record" /\ Entry(j, w)'.gen = rpc[j].gen
      BY <2>3, JournalMoves
    <3>3. rpc[j].at = "record" => rpc[j].gen \in Generation
      BY <1>1 DEF TypedOK, UnpublishPoint
    <3>4. \A w \in DOMAIN journal'[j] : Entry(j, w)'.gen \in Generation
      BY <1>1, <3>2, <3>3 DEF TypedOK, Entry
    <3>5. CASE LinuxKubeletCall(j)
      <4>1. journal'[j] = journal[j]
        <5>1. ASSUME NEW w, NEW p, NEW g, NEW target, NEW conf, NEW need,
                     \/ LinuxStageBegin(j, w, p, g)
                     \/ LinuxPublishBegin(j, w, p, g, target, conf)
                     \/ LinuxUnpublishBegin(j, w, p) \/ LinuxUnstageBegin(j, w, p)
                     \/ ExpandBegin(j, w, p, need)
              PROVE  UNCHANGED journal
          BY <5>1 DEF LinuxStageBegin, StageBegin, LinuxPublishBegin, PublishBegin,
             LinuxUnpublishBegin, UnpublishBegin, LinuxUnstageBegin, UnstageBegin,
             ExpandBegin
        <5> QED BY <3>5, <5>1 DEF LinuxKubeletCall
      <4>2. /\ rpc'[j].at \notin UnpublishPoint => rpc'[j].gen \in Generation
            /\ rpc'[j].at \in ExpandPoint => Staged(j, rpc'[j].vol)
        BY <3>5, CallTyped
      <4> QED BY <2>1, <3>1, <3>4, <4>1, <4>2 DEF TypedOK, Staged
    <3>6. CASE rpc'[j] = NoRPC
      BY <2>1, <3>1, <3>4, <3>6 DEF TypedOK, NoRPC, ExpandPoint
    <3>7. CASE RPCMove(j) /\ rpc'[j] # NoRPC
      <4>1. rpc[j].at \notin UnpublishPoint => rpc[j].gen \in Generation
        BY <1>1, <3>7 DEF TypedOK, RPCMove
      <4>2. rpc'[j].at \in ExpandPoint => rpc'[j].vol \in DOMAIN journal'[j]
        BY <1>1, <3>2, <3>7 DEF TypedOK, RPCMove, Staged
      <4>3. rpc'[j].at \notin UnpublishPoint \cup {"idle"} => rpc'[j].gen \in Generation
        BY <3>7, <4>1 DEF RPCMove
      <4> QED BY <2>1, <3>1, <3>4, <4>2, <4>3 DEF TypedOK, Staged
    <3> QED BY <1>1, <2>3, <3>5, <3>6, <3>7, RPCMoves
  <2>4. ASSUME NEW i \in VM, i # j,
               LinuxKubeletCall(i) \/ LinuxRPCStep(i) \/ HostTrouble(i)
        PROVE  TypedOK(j)'
    BY <1>1, <2>2, <2>4, OneVMChanges
  <2>5. CASE ~\E i \in VM : LinuxKubeletCall(i) \/ LinuxRPCStep(i) \/ HostTrouble(i)
    BY <2>2, <2>5, ElsewhereServes
  <2> QED BY <2>3, <2>4, <2>5
<1> QED BY <1>1, <1>2, <1>3, <1>4 DEF TypedInv

\* At first there is nothing.
LEMMA TypedInit == LinuxInit => TypedInv
<1> SUFFICES ASSUME LinuxInit PROVE TypedInv
  OBVIOUS
<1>1. /\ lease = [v \in Volume |-> Unleased] /\ late = {} /\ trouble = 0
      /\ journal = [i \in VM |-> NoEntries] /\ mounts = [i \in VM |-> NoEntries]
      /\ rpc = [i \in VM |-> NoRPC]
      /\ published = [i \in VM |-> NoEntries] /\ granted = [i \in VM |-> FALSE]
      /\ mode \in [Volume -> Mode]
  BY DEF LinuxInit, Init
<1>2. ASSUME NEW v \in Volume PROVE LeaseBounded(lease[v])
  BY <1>1, NodeAgentAssumption DEF LeaseBounded, Unleased
<1>3. ASSUME NEW i \in VM PROVE TypedOK(i)
  BY <1>1 DEF TypedOK, NoRPC, NoEntries, ExpandPoint
<1>4. trouble \in 0 .. MaxTrouble /\ granted \in [VM -> BOOLEAN]
  BY <1>1, NodeAgentAssumption
<1> QED BY <1>1, <1>2, <1>3, <1>4 DEF TypedInv

\* The entries of the journal, and their bounds, make the journal's type.
LEMMA JournalTypes ==
  ASSUME NodeType, NEW i \in VM, TypedOK(i)
  PROVE  /\ DOMAIN journal[i] \subseteq Volume
         /\ \A v \in DOMAIN journal[i] : Entry(i, v) \in Stage
<1>1. journal[i] \in JournalTable
  BY DEF NodeType
<1>2. /\ DOMAIN journal[i] \subseteq Volume
      /\ \A v \in DOMAIN journal[i] : journal[i][v] \in JournalEntry
  BY <1>1, TableIs DEF JournalTable
<1>3. ASSUME NEW v \in DOMAIN journal[i] PROVE Entry(i, v) \in Stage
  <2>1. journal[i][v] \in JournalEntry /\ journal[i][v].gen \in 1 .. MaxGen
    BY <1>2, <1>3 DEF TypedOK, Entry, Generation
  <2> QED BY <2>1 DEF JournalEntry, TargetTable, TableOf, Stage, Entry
<1> QED BY <1>2, <1>3

\* The invariants make the types.
LEMMA TypesFollow == NodeInv /\ SizesInv /\ ServedInv /\ TypedInv => LinuxTypeOK
<1> SUFFICES ASSUME NodeInv, SizesInv, ServedInv, TypedInv PROVE LinuxTypeOK
  OBVIOUS
<1>1. /\ NodeType /\ \A i \in VM : MountsListed(i) /\ JournalAsSeen(i) /\ TypedOK(i)
      /\ \A v \in Volume : LeaseBounded(lease[v])
  BY DEF NodeInv, NodeOK, TypedInv
<1>2. lease \in [Volume -> [gen : 0 .. MaxGen, holder : VM \cup {NoVM},
                            open : BOOLEAN, uses : SUBSET (Path \X (1 .. MaxGen)),
                            cloud : VM \cup {NoVM}]]
  <2>1. lease \in [Volume -> LeaseRecord]
    BY <1>1 DEF NodeType
  <2>2. ASSUME NEW l \in LeaseRecord, LeaseBounded(l)
        PROVE  l \in [gen : 0 .. MaxGen, holder : VM \cup {NoVM}, open : BOOLEAN,
                      uses : SUBSET (Path \X (1 .. MaxGen)), cloud : VM \cup {NoVM}]
    <3>1. l.gen \in 0 .. MaxGen
      BY <2>2, NodeAgentAssumption DEF LeaseRecord, LeaseBounded
    <3>2. l.uses \subseteq Path \X (1 .. MaxGen)
      BY <2>2 DEF LeaseRecord, LeaseBounded, Generation
    <3> QED BY <2>2, <3>1, <3>2 DEF LeaseRecord
  <2> QED BY <1>1, <2>1, <2>2
<1>3. ASSUME NEW i \in VM
      PROVE  /\ DOMAIN mounts[i] \subseteq Path
             /\ \A path \in DOMAIN mounts[i] : mounts[i][path] \in Mount
  <2>1. ASSUME NEW path \in DOMAIN mounts[i] PROVE path \in Path
    <3>1. PICK v : v = mounts[i][path].vol
      OBVIOUS
    <3>2. /\ v \in DOMAIN journal[i]
          /\ path = Entry(i, v).path \/ path \in DOMAIN Entry(i, v).targets
      BY <1>1, <3>1 DEF MountsListed, Staged
    <3>3. Entry(i, v) \in Stage
      BY <1>1, <3>2, JournalTypes
    <3>4. Entry(i, v).path \in Path /\ DOMAIN Entry(i, v).targets \subseteq Path
      BY <3>3 DEF Stage
    <3> QED BY <3>2, <3>4
  <2> QED BY <1>1, <2>1 DEF TypedOK
<1>4. ASSUME NEW i \in VM, rpc[i].at \notin {"idle", "acquire", "record"}
      PROVE  Staged(i, rpc[i].vol)
  <2>1. rpc[i] \in RPC
    BY <1>1 DEF NodeType
  <2>2. rpc[i].at \in (StagePoint \ {"acquire", "record"}) \cup PublishPoint
          \cup UnpublishPoint \cup UnstagePoint \cup ExpandPoint
    BY <1>4, <2>1 DEF RPC, NoRPC, StageRPC, PublishRPC, UnpublishRPC, UnstageRPC,
       ExpandRPC
  <2> QED BY <1>1, <2>2 DEF JournalAsSeen, TypedOK
<1>5. TypeOK
  BY <1>1, <1>2, <1>3, <1>4, JournalTypes DEF TypeOK, TypedInv
<1>6. ASSUME NEW i \in VM
      PROVE  /\ DOMAIN published[i] \subseteq Path
             /\ \A t \in DOMAIN published[i] : published[i][t] \in Conf
             /\ At(i, "remount") => MountedFrom(i, rpc[i].target, rpc[i].vol)
             /\ rpc[i].at \in HostPoint => Staged(i, rpc[i].vol)
  BY <1>1, <1>4 DEF TypedOK, JournalAsSeen, At, HostPoint
<1> QED BY <1>5, <1>6 DEF LinuxTypeOK, TypedInv, SizesInv, ServedInv

\* The journal's entries, the mounts, the leases and the device flags have
\* their types and bounds, a remount finds the mount of its volume, and a host
\* command runs only under its stage (node.go:26-32, 110-200; linux.go:168-242),
\* if the kubelet publishes only what it has staged: else an empty directory is
\* bound.  A read-only target is first bound read-write, so RW is in use.
THEOREM LinuxTypesHold ==
  ASSUME Contract, RW \in Conf PROVE LinuxSpec => []LinuxTypeOK
<1>1. LinuxInit => NodeInv /\ JournalInv /\ SizesInv /\ ServedInv /\ TypedInv
  BY NodeInit, JournalInit, SizesInit, ServedInit, TypedInit DEF LinuxInit
<1>2. NodeInv /\ JournalInv /\ SizesInv /\ ServedInv /\ TypedInv
        /\ [LinuxNext]_linuxVars
        => NodeInv' /\ JournalInv' /\ SizesInv' /\ ServedInv' /\ TypedInv'
  BY NodeStepOnLinux, SizesStep, ServedStep, TypedStep DEF SizesInv
<1>3. NodeInv /\ SizesInv /\ ServedInv /\ TypedInv => LinuxTypeOK
  BY TypesFollow
<1> QED BY <1>1, <1>2, <1>3, PTL DEF LinuxSpec

(***************************************************************************)
(* What was staged stays usable.                                           *)
(***************************************************************************)
\* A use is lost only by a release of its volume by its own VM, sent now or
\* on its way.
LEMMA UsesStay ==
  ASSUME NodeInv, [LinuxNext]_linuxVars,
         NEW j \in VM, NEW v \in Volume, NEW path \in Path, NEW g \in Nat,
         Backed(lease[v], j, path, g), ~(UnstageRelease(j) /\ rpc[j].vol = v),
         \A q \in late : q.from = j /\ q.op = "ReleaseUse" => q.vol # v
  PROVE  Backed(lease'[v], j, path, g)
<1>1. NodeType /\ lease \in [Volume -> LeaseRecord] /\ late \subseteq LateRequest
  BY DEF NodeInv, NodeType
<1>2. CASE UNCHANGED lease
  BY <1>2
<1>3. ASSUME NEW q \in LateRequest, lease' = Executed(q),
             ~(q.op = "ReleaseUse" /\ q.from = j /\ q.vol = v)
      PROVE  Backed(lease'[v], j, path, g)
  BY <1>1, <1>3, ExecutedLeases
<1>4. ASSUME NEW i \in VM, StageAcquire(i) PROVE Backed(lease'[v], j, path, g)
  <2>1. PICK q : q = Request(i, "AcquireUse", rpc[i].vol, rpc[i].path, rpc[i].gen)
    OBVIOUS
  <2>2. rpc[i].at = "acquire" /\ lease' = Executed(q)
    BY <1>4, <2>1 DEF StageAcquire, At
  <2>3. q \in LateRequest /\ q.op = "AcquireUse"
    BY <1>1, <2>1, <2>2, RequestTyped DEF Request
  <2> QED BY <1>3, <2>2, <2>3
<1>5. ASSUME NEW i \in VM, UnstageRelease(i) PROVE Backed(lease'[v], j, path, g)
  <2>1. PICK q : q = Request(i, "ReleaseUse", rpc[i].vol, rpc[i].path, rpc[i].gen)
    OBVIOUS
  <2>2. rpc[i].at = "release" /\ lease' = Executed(q)
    BY <1>5, <2>1 DEF UnstageRelease, At
  <2>3. q \in LateRequest /\ q.from = i /\ q.vol = rpc[i].vol
    BY <1>1, <2>1, <2>2, RequestTyped DEF Request
  <2> QED BY <1>3, <1>5, <2>2, <2>3
<1>6. ASSUME NEW q \in late, Deliver(q) PROVE Backed(lease'[v], j, path, g)
  <2>1. q \in LateRequest /\ lease' = Executed(q)
    BY <1>1, <1>6 DEF Deliver
  <2> QED BY <1>3, <2>1
<1>7. ASSUME NEW w \in Volume, PlatformStep(w) PROVE Backed(lease'[v], j, path, g)
  <2>1. PICK l : l = lease[w]
    OBVIOUS
  <2>2. l \in LeaseRecord
    BY <1>1, <2>1
  <2>3. ASSUME NEW m, SetLease(w, m),
               Backed(l, j, path, g) => Backed(m, j, path, g)
        PROVE  Backed(lease'[v], j, path, g)
    <3>1. lease' = [lease EXCEPT ![w] = m]
      BY <2>3 DEF SetLease
    <3>2. lease'[v] = IF v = w THEN m ELSE lease[v]
      BY <1>1, <3>1
    <3> QED BY <2>1, <2>3, <3>2
  <2>4. ASSUME NEW i \in VM, Grant(w, i) PROVE Backed(lease'[v], j, path, g)
    <3>1. SetLease(w, Granted(l, i)) /\ ~Backed(l, j, path, g)
      BY <2>1, <2>4, LeaseAssumption DEF Grant, CanGrant, Backed
    <3> QED BY <2>3, <3>1
  <2>5. CASE TakeDisk(w) \/ CloseGate(w)
    <3>1. /\ Backed(l, j, path, g) => Backed(DiskTaken(l), j, path, g)
          /\ Backed(l, j, path, g) => Backed(Closed(l), j, path, g)
      BY <2>2 DEF DiskTaken, Closed, Backed, LeaseRecord
    <3>2. SetLease(w, DiskTaken(l)) \/ SetLease(w, Closed(l))
      BY <2>1, <2>5 DEF TakeDisk, CloseGate
    <3> QED BY <2>3, <3>1, <3>2
  <2>6. CASE GiveDisk(w) \/ Retire(w)
    <3>1. ~Backed(l, j, path, g)
      BY <2>1, <2>6 DEF GiveDisk, Retire, CanRetire, CanGive, Backed
    <3>2. SetLease(w, DiskGiven(l)) \/ SetLease(w, Retired(l))
      BY <2>1, <2>6 DEF GiveDisk, Retire
    <3> QED BY <2>3, <3>1, <3>2
  <2> QED BY <1>7, <2>4, <2>5, <2>6 DEF PlatformStep
<1>8. ASSUME NEW i \in VM, HostOnly(i) PROVE UNCHANGED lease
  BY <1>8 DEF HostOnly, StageProbe, Mkfs, StageFsMount, LinuxBind, RemountReadOnly,
     PublishAnswer, ExpandCheck, ExpandResize, ExpandNote, MkfsKilled, RemountFails,
     HostBreak, ExpandBegin, Unchanged
<1>9. ASSUME NEW i \in VM, KubeletCall(i) PROVE UNCHANGED lease
  <2>1. ASSUME NEW w, NEW p, NEW h, NEW target, NEW conf,
               \/ StageBegin(i, w, p, h) \/ PublishBegin(i, w, p, h, target, conf)
               \/ UnpublishBegin(i, w, p) \/ UnstageBegin(i, w, p)
        PROVE  UNCHANGED lease
    BY <2>1 DEF StageBegin, PublishBegin, UnpublishBegin, UnstageBegin
  <2> QED BY <1>9, <2>1 DEF KubeletCall
<1>10. ASSUME NEW i \in VM, RPCStep(i) PROVE Backed(lease'[v], j, path, g)
  <2>1. CASE ~StageAcquire(i) /\ ~UnstageRelease(i)
    <3>1. UNCHANGED lease
      BY <1>10, <2>1 DEF RPCStep, StageStep, StageRecord, StageMount, StageMark,
         StageReady, PublishStep, PublishAnnounce, PublishTrack, PublishBind,
         UnpublishStep, UnpublishUnmount, UnpublishUntrack, UnstageStep,
         UnstageUnmount, UnstageForget
    <3> QED BY <1>2, <3>1
  <2> QED BY <1>4, <1>5, <2>1
<1>11. ASSUME NEW i \in VM, Break(i) \/ TimeOut(i) \/ Reboot(i) PROVE UNCHANGED lease
  BY <1>11 DEF Break, TimeOut, Reboot
<1>12. UNCHANGED vars => UNCHANGED lease
  BY DEF vars
<1>13. CASE [Next]_vars
  BY <1>2, <1>6, <1>7, <1>9, <1>10, <1>11, <1>12, <1>13 DEF Next
<1> QED BY <1>2, <1>8, <1>13, LinuxSteps, NodeAgentSteps

\* A release is on its way once its unstage has timed out.
LEMMA ReleasesSent ==
  ASSUME [LinuxNext]_linuxVars, NEW j \in VM, NEW q \in late' \ late,
         q.from = j, q.op = "ReleaseUse"
  PROVE  rpc[j].at = "release" /\ q.vol = rpc[j].vol /\ UNCHANGED staged
<1>1. ASSUME NEW i \in VM, TimeOut(i)
      PROVE  /\ rpc[i].at \in {"acquire", "release"} /\ q.from = i
             /\ q.op = (IF rpc[i].at = "acquire" THEN "AcquireUse" ELSE "ReleaseUse")
             /\ q.vol = rpc[i].vol
  <2>1. PICK p : p = Request(i, IF At(i, "acquire") THEN "AcquireUse" ELSE "ReleaseUse",
                            rpc[i].vol, rpc[i].path, rpc[i].gen)
    OBVIOUS
  <2>2. rpc[i].at \in {"acquire", "release"} /\ late' = late \cup {p}
    BY <1>1, <2>1, NodeAgentAssumption DEF TimeOut
  <2>3. q = p
    BY <2>2
  <2> QED BY <2>1, <2>2, <2>3 DEF Request, At
<1>2. ASSUME NEW i \in VM, HostOnly(i) PROVE UNCHANGED late
  BY <1>2 DEF HostOnly, StageProbe, Mkfs, StageFsMount, LinuxBind, RemountReadOnly,
     PublishAnswer, ExpandCheck, ExpandResize, ExpandNote, MkfsKilled, RemountFails,
     HostBreak, ExpandBegin, Unchanged
<1>3. ASSUME NEW i \in VM, LinuxAcquire(i) \/ LinuxMark(i) \/ LinuxReady(i) \/ LinuxReboot(i)
      PROVE  UNCHANGED late
  BY <1>3 DEF LinuxAcquire, StageAcquire, LinuxMark, StageMark, LinuxReady, StageReady,
     LinuxReboot, Reboot
<1>4. ASSUME NEW i \in VM, AgentStep(i) \/ Break(i) PROVE UNCHANGED late
  BY <1>4 DEF AgentStep, StageRecord, PublishAnnounce, PublishTrack, UnpublishStep,
     UnpublishUnmount, UnpublishUntrack, UnstageStep, UnstageUnmount, UnstageRelease,
     UnstageForget, Break
<1>5. ASSUME NEW i \in VM, NEW v, NEW path, NEW g, NEW target, NEW conf,
             \/ LinuxStageBegin(i, v, path, g)
             \/ LinuxPublishBegin(i, v, path, g, target, conf)
             \/ LinuxUnpublishBegin(i, v, path) \/ LinuxUnstageBegin(i, v, path)
      PROVE  UNCHANGED late
  BY <1>5 DEF LinuxStageBegin, StageBegin, LinuxPublishBegin, PublishBegin,
     LinuxUnpublishBegin, UnpublishBegin, LinuxUnstageBegin, UnstageBegin
<1>6. ASSUME NEW i \in VM, NEW target \in Path, PodWrites(i, target)
      PROVE  UNCHANGED late
  BY <1>6 DEF PodWrites, vars
<1>7. ASSUME NEW v \in Volume, CloudStep(v) \/ Damage(v) PROVE UNCHANGED late
  BY <1>7 DEF CloudStep, LinuxTakeDisk, TakeDisk, Grant, CloseGate, GiveDisk, Retire,
     SetLease, CloudGrows, PlatformNotes, VMNotices, Damage, vars
<1>8. UNCHANGED linuxVars => UNCHANGED late
  BY DEF linuxVars, vars
<1>9. \A p \in late : Deliver(p) => late' \subseteq late
  BY DEF Deliver
<1>10. \E i \in VM : TimeOut(i) /\ UNCHANGED host
  BY <1>2, <1>3, <1>4, <1>5, <1>6, <1>7, <1>8, <1>9, LinuxSteps DEF AsNodeAgent
<1> QED BY <1>1, <1>10 DEF host

\* A stage is about to be confirmed because its use has just been checked, with
\* no release of the VM on its way.
LEMMA ReadyMoves ==
  ASSUME NodeInv, NEW i \in VM,
         LinuxKubeletCall(i) \/ LinuxRPCStep(i) \/ HostTrouble(i),
         rpc'[i].at = "ready"
  PROVE  /\ rpc'[i].vol = rpc[i].vol /\ rpc'[i].vol \in Volume
         /\ rpc'[i].path \in Path /\ rpc'[i].gen \in Nat
         /\ UNCHANGED <<lease, late>> /\ MaySend(i)
         /\ Backed(lease[rpc'[i].vol], i, rpc'[i].path, rpc'[i].gen)
<1>1. NodeType /\ rpc = [k \in VM |-> rpc[k]]
  BY DEF NodeInv, NodeType
<1>2. ~Finish(i)
  BY <1>1, Ends DEF NoRPC
<1>3. ~HostTrouble(i)
  BY <1>2 DEF HostTrouble, MkfsKilled, RemountFails, HostBreak, LinuxReboot, Reboot,
     Break, TimeOut
<1>4. ~LinuxKubeletCall(i)
  <2>1. \A r : Start(i, r) => r.at = "ready"
    BY <1>1 DEF Start
  <2>2. ASSUME NEW v, NEW path, NEW g, LinuxStageBegin(i, v, path, g) PROVE FALSE
    BY <2>1, <2>2 DEF LinuxStageBegin, StageBegin
  <2>3. ASSUME NEW v, NEW path, NEW g, NEW target, NEW conf,
               LinuxPublishBegin(i, v, path, g, target, conf)
        PROVE  FALSE
    BY <2>1, <2>3 DEF LinuxPublishBegin, PublishBegin
  <2>4. ASSUME NEW v, NEW path, LinuxUnpublishBegin(i, v, path) PROVE FALSE
    BY <2>1, <2>4 DEF LinuxUnpublishBegin, UnpublishBegin
  <2>5. ASSUME NEW v, NEW path, LinuxUnstageBegin(i, v, path) PROVE FALSE
    BY <2>1, <2>5 DEF LinuxUnstageBegin, UnstageBegin
  <2>6. ASSUME NEW v, NEW path, NEW need, ExpandBegin(i, v, path, need) PROVE FALSE
    BY <2>1, <2>6 DEF ExpandBegin
  <2> QED BY <2>2, <2>3, <2>4, <2>5, <2>6 DEF LinuxKubeletCall
<1>5. \A p : Continue(i, p) /\ rpc[i].at # "idle" => p = "ready"
  <2> SUFFICES ASSUME NEW p, Continue(i, p), rpc[i].at # "idle" PROVE p = "ready"
    OBVIOUS
  <2>1. rpc'[i] = [rpc[i] EXCEPT !.at = p]
    BY <1>1 DEF Continue
  <2>2. PICK r : r = rpc[i]
    OBVIOUS
  <2>3. r \in StageRPC \cup PublishRPC \cup UnpublishRPC \cup UnstageRPC \cup ExpandRPC
    BY <1>1, <2>2, Shapes DEF NodeType, RPC, NoRPC
  <2>4. [r EXCEPT !.at = p].at = p
    BY <2>3 DEF StageRPC, PublishRPC, UnpublishRPC, UnstageRPC, ExpandRPC
  <2> QED BY <2>1, <2>2, <2>4
<1>6. LinuxMark(i)
  <2>1. \A p : p # "ready" /\ rpc[i].at # "idle" => ~Continue(i, p)
    BY <1>5
  <2>2. ~LinuxAcquire(i) /\ ~StageRecord(i) /\ ~PublishAnnounce(i) /\ ~PublishTrack(i)
    BY <1>2, <2>1 DEF LinuxAcquire, StageAcquire, StageRecord, PublishAnnounce,
       PublishTrack, At
  <2>3. ~StageProbe(i) /\ ~Mkfs(i) /\ ~StageFsMount(i) /\ ~LinuxReady(i)
    BY <1>2, <2>1 DEF StageProbe, Mkfs, StageFsMount, LinuxReady, StageReady, At
  <2>4. ~LinuxBind(i) /\ ~RemountReadOnly(i) /\ ~PublishAnswer(i)
    BY <1>2, <2>1 DEF LinuxBind, RemountReadOnly, PublishAnswer, At
  <2>5. ~ExpandResize(i) /\ ~ExpandNote(i) /\ ~UnpublishStep(i) /\ ~UnstageStep(i)
    BY <1>2, <2>1 DEF ExpandResize, ExpandNote, UnpublishStep, UnpublishUnmount,
       UnpublishUntrack, UnstageStep, UnstageUnmount, UnstageRelease, UnstageForget, At
  <2>6. ASSUME ExpandCheck(i) PROVE FALSE
    <3>1. PICK r, n : /\ n = device[rpc[i].vol].noted
                      /\ r = [rpc[i] EXCEPT !.at = "resize", !.need = n]
      OBVIOUS
    <3>2. rpc[i].at = "check" /\ rpc' = [rpc EXCEPT ![i] = r]
      BY <1>2, <2>6, <3>1 DEF ExpandCheck, At
    <3>3. rpc[i] \in ExpandRPC
      BY <1>1, <3>2, Shapes DEF ExpandPoint
    <3>4. r.at = "resize" /\ rpc'[i] = r
      BY <1>1, <3>1, <3>2, <3>3 DEF ExpandRPC
    <3> QED BY <3>4
  <2> QED BY <1>3, <1>4, <2>2, <2>3, <2>4, <2>5, <2>6
          DEF LinuxRPCStep, HostStep, AgentStep
<1>7. /\ rpc[i].at = "mark" /\ MaySend(i) /\ UNCHANGED <<lease, late>>
      /\ UseChecked(Request(i, "MarkInitialized", rpc[i].vol, rpc[i].path, rpc[i].gen))
      /\ Continue(i, "ready")
  BY <1>2, <1>6 DEF LinuxMark, StageMark, At
<1>8. /\ rpc'[i].vol = rpc[i].vol /\ rpc'[i].path = rpc[i].path
      /\ rpc'[i].gen = rpc[i].gen
  BY <1>1, <1>7, Continues DEF StagePoint, UnpublishPoint
<1>9. rpc[i] \in StageRPC
  BY <1>1, <1>7, Shapes DEF StagePoint
<1>10. Backed(lease[rpc[i].vol], i, rpc[i].path, rpc[i].gen)
  BY <1>7 DEF UseChecked, AcquireGranted, Holds, CanAcquire, Request, Backed
<1> QED BY <1>7, <1>8, <1>9, <1>10 DEF StageRPC

\* The kubelet relies on a stage from the moment it is confirmed.
LEMMA StagedMoves ==
  ASSUME ServedInv, [LinuxNext]_linuxVars, NEW j \in VM, NEW v \in staged'[j]
  PROVE  v \in staged[j] \/ (LinuxReady(j) /\ v = rpc[j].vol)
<1>1. staged = [k \in VM |-> staged[k]]
  BY DEF ServedInv
<1>2. ASSUME NEW i \in VM, LinuxReady(i)
      PROVE  v \in staged[j] \/ (LinuxReady(j) /\ v = rpc[j].vol)
  <2>1. staged' = [staged EXCEPT ![i] = staged[i] \cup {rpc[i].vol}]
    BY <1>2 DEF LinuxReady
  <2>2. staged'[j] = IF j = i THEN staged[i] \cup {rpc[i].vol} ELSE staged[j]
    BY <1>1, <2>1
  <2> QED BY <1>2, <2>2
<1>3. ASSUME NEW i \in VM, LinuxReboot(i) PROVE v \in staged[j]
  <2>1. staged' = [staged EXCEPT ![i] = {}]
    BY <1>3 DEF LinuxReboot
  <2> QED BY <1>1, <2>1
<1>4. ASSUME NEW i \in VM, NEW w, NEW path, LinuxUnstageBegin(i, w, path)
      PROVE  v \in staged[j]
  <2>1. staged' = [staged EXCEPT ![i] = staged[i] \ {w}]
    BY <1>4 DEF LinuxUnstageBegin
  <2> QED BY <1>1, <2>1
<1>5. ASSUME NEW i \in VM, NEW w, NEW path,
             PublishAnswer(i) \/ LinuxUnpublishBegin(i, w, path)
      PROVE  UNCHANGED staged
  BY <1>5 DEF PublishAnswer, LinuxUnpublishBegin, Unchanged
<1> QED BY <1>2, <1>3, <1>4, <1>5, ReliedChanges

\* It goes by the entry then, which stays until its volume is forgotten.
LEMMA EntriesStay ==
  ASSUME NodeInv, ServedInv, [LinuxNext]_linuxVars, NEW j \in VM,
         NEW w \in DOMAIN journal[j], ~(rpc[j].at = "forget" /\ w = rpc[j].vol)
  PROVE  EntryStays(j, w)
<1>1. journal'[j] = journal[j] => EntryStays(j, w)
  BY DEF EntryStays
<1>2. ASSUME NEW i \in VM, LinuxKubeletCall(i) \/ LinuxRPCStep(i) \/ HostTrouble(i)
      PROVE  EntryStays(j, w)
  <2>1. CASE i = j
    BY <1>1, <1>2, <2>1, JournalMoves
  <2>2. CASE i # j
    BY <1>1, <1>2, <2>2, OneVMChanges DEF NodeInv, ServedInv
  <2> QED BY <2>1, <2>2
<1> QED BY <1>1, <1>2, ElsewhereServes

\* The confirmation marks it ready.
LEMMA ReadyIsSaved ==
  ASSUME NodeInv, NEW i \in VM, LinuxReady(i)
  PROVE  /\ UNCHANGED <<lease, late>> /\ rpc[i].at = "ready"
         /\ rpc[i].vol \in DOMAIN journal'[i]
         /\ journal'[i][rpc[i].vol].path = rpc[i].path
         /\ journal'[i][rpc[i].vol].gen = rpc[i].gen
         /\ journal'[i][rpc[i].vol].ready
<1>1. NodeType /\ NodeOK(i)
  BY DEF NodeInv
<1>2. PICK v, e : v = rpc[i].vol /\ e = Entry(i, v)
  OBVIOUS
<1>3. PICK s : s = [e EXCEPT !.ready = TRUE]
  OBVIOUS
<1>4. UNCHANGED <<lease, late>> /\ rpc[i].at = "ready" /\ Save(i, v, s)
  BY <1>2, <1>3 DEF LinuxReady, StageReady, At
<1>5. Staged(i, v) /\ e.path = rpc[i].path /\ e.gen = rpc[i].gen
  BY <1>1, <1>2, <1>4 DEF NodeOK, JournalAsSeen, StagePoint, match
<1>6. v \in Volume /\ e \in JournalEntry
  BY <1>1, <1>2, <1>5, EntryTyped
<1>7. s \in JournalEntry /\ s.path = e.path /\ s.gen = e.gen /\ s.ready
  BY <1>3, <1>6 DEF JournalEntry
<1>8. v \in DOMAIN journal'[i] /\ journal'[i][v] = s
  BY <1>1, <1>4, <1>6, <1>7, SaveTyped
<1> QED BY <1>2, <1>4, <1>5, <1>7, <1>8

\* What is staged keeps its use.
LEMMA StagedUsesStay ==
  ASSUME NodeInv, ServedInv, KeptInv, [LinuxNext]_linuxVars, NEW j \in VM,
         NEW v \in staged'[j]
  PROVE  /\ v \in DOMAIN journal'[j] /\ journal'[j][v].ready
         /\ Backed(lease'[v], j, journal'[j][v].path, journal'[j][v].gen)
<1>1. StagedIsKept(j) /\ ServedOK(j) /\ NodeType
  BY DEF KeptInv, ServedInv, NodeInv
<1>2. CASE v \in staged[j]
  <2>1. PICK path, g : path = Entry(j, v).path /\ g = Entry(j, v).gen
    OBVIOUS
  <2>2. /\ Staged(j, v) /\ Entry(j, v).ready /\ Backed(lease[v], j, path, g)
        /\ \A q \in late : q.from = j /\ q.op = "ReleaseUse" => q.vol # v
    BY <1>1, <1>2, <2>1 DEF StagedIsKept
  <2>3. v \in Volume /\ path \in Path /\ g \in Nat
    BY <1>1, <2>1, <2>2, EntryTyped
  <2>4. rpc[j].at \in UnstagePoint => rpc[j].vol # v
    BY <1>1, <1>2 DEF ServedOK, HostAsSeen
  <2>5. ~(UnstageRelease(j) /\ rpc[j].vol = v)
    BY <2>4 DEF UnstageRelease, At, UnstagePoint
  <2>6. Backed(lease'[v], j, path, g)
    BY <2>2, <2>3, <2>5, UsesStay
  <2>7. EntryStays(j, v)
    BY <2>2, <2>4, EntriesStay DEF Staged, UnstagePoint
  <2> QED BY <2>1, <2>2, <2>6, <2>7 DEF EntryStays, Entry
<1>3. CASE LinuxReady(j) /\ v = rpc[j].vol
  <2>1. /\ UNCHANGED lease /\ rpc[j].at = "ready" /\ v \in DOMAIN journal'[j]
        /\ journal'[j][v].path = rpc[j].path /\ journal'[j][v].gen = rpc[j].gen
        /\ journal'[j][v].ready
    BY <1>3, ReadyIsSaved
  <2>2. Backed(lease[v], j, rpc[j].path, rpc[j].gen)
    BY <1>1, <1>3, <2>1 DEF StagedIsKept
  <2> QED BY <2>1, <2>2
<1> QED BY <1>2, <1>3, StagedMoves

\* No release of it is sent.
LEMMA NoReleaseSent ==
  ASSUME NodeInv, ServedInv, KeptInv, [LinuxNext]_linuxVars, NEW j \in VM,
         NEW q \in late', q.from = j, q.op = "ReleaseUse"
  PROVE  q.vol \notin staged'[j]
<1>1. StagedIsKept(j) /\ ServedOK(j)
  BY DEF KeptInv, ServedInv
<1>2. CASE q \in late
  <2>1. q.vol \notin staged[j] /\ ~(rpc[j].at = "ready")
    BY <1>1, <1>2 DEF StagedIsKept
  <2>2. ~LinuxReady(j)
    BY <2>1 DEF LinuxReady, StageReady, At
  <2> QED BY <2>1, <2>2, StagedMoves
<1>3. CASE q \notin late
  <2>1. rpc[j].at = "release" /\ q.vol = rpc[j].vol /\ UNCHANGED staged
    BY <1>3, ReleasesSent
  <2> QED BY <1>1, <2>1 DEF ServedOK, HostAsSeen, UnstagePoint
<1> QED BY <1>2, <1>3

\* Neither is one of what is about to be confirmed.
LEMMA ConfirmedIsKept ==
  ASSUME ReleasesInOrder, NodeInv, ServedInv, KeptInv, [LinuxNext]_linuxVars,
         NEW j \in VM, rpc'[j].at = "ready"
  PROVE  /\ Backed(lease'[rpc'[j].vol], j, rpc'[j].path, rpc'[j].gen)
         /\ \A q \in late' : q.from = j => q.op # "ReleaseUse"
<1>1. StagedIsKept(j) /\ NodeType
  BY DEF KeptInv, NodeInv
<1>2. CASE LinuxKubeletCall(j) \/ LinuxRPCStep(j) \/ HostTrouble(j)
  BY <1>2, ReadyMoves, NoLateRelease
<1>3. CASE rpc'[j] = rpc[j]
  <2>1. PICK r : r = rpc[j]
    OBVIOUS
  <2>2. r.at = "ready" /\ rpc[j] \in StageRPC
    BY <1>1, <1>3, <2>1, Shapes DEF StagePoint
  <2>3. r.vol \in Volume /\ r.path \in Path /\ r.gen \in Nat
    BY <2>1, <2>2 DEF StageRPC
  <2>4. /\ Backed(lease[r.vol], j, r.path, r.gen)
        /\ \A q \in late : q.from = j => q.op # "ReleaseUse"
    BY <1>1, <2>1, <2>2 DEF StagedIsKept
  <2>5. ~UnstageRelease(j)
    BY <2>1, <2>2 DEF UnstageRelease, At
  <2>6. Backed(lease'[r.vol], j, r.path, r.gen)
    BY <2>3, <2>4, <2>5, UsesStay
  <2>7. \A q \in late' : q.from = j => q.op # "ReleaseUse"
    BY <2>1, <2>2, <2>4, ReleasesSent
  <2> QED BY <1>3, <2>1, <2>6, <2>7
<1>4. CASE ~(LinuxKubeletCall(j) \/ LinuxRPCStep(j) \/ HostTrouble(j))
  <2>1. rpc'[j] = rpc[j]
    BY <1>1, <1>4, OneVMChanges, ElsewhereServes DEF ServedInv
  <2> QED BY <1>3, <2>1
<1> QED BY <1>2, <1>4

\* So it is kept, at every VM.
LEMMA KeptStep ==
  ASSUME ReleasesInOrder, NodeInv, ServedInv, KeptInv, [LinuxNext]_linuxVars
  PROVE  KeptInv'
<1> SUFFICES ASSUME NEW j \in VM PROVE StagedIsKept(j)'
  BY DEF KeptInv
<1>1. \A v \in staged'[j] :
        /\ v \in DOMAIN journal'[j] /\ journal'[j][v].ready
        /\ Backed(lease'[v], j, journal'[j][v].path, journal'[j][v].gen)
  BY StagedUsesStay
<1>2. \A q \in late' : q.from = j /\ q.op = "ReleaseUse" => q.vol \notin staged'[j]
  BY NoReleaseSent
<1>3. rpc'[j].at = "ready" =>
        /\ Backed(lease'[rpc'[j].vol], j, rpc'[j].path, rpc'[j].gen)
        /\ \A q \in late' : q.from = j => q.op # "ReleaseUse"
  BY ConfirmedIsKept
<1> QED BY <1>1, <1>2, <1>3 DEF StagedIsKept, Staged, Entry, Backed

\* At first nothing is staged.
LEMMA KeptInit == LinuxInit => KeptInv
<1> SUFFICES ASSUME LinuxInit, NEW i \in VM PROVE StagedIsKept(i)
  BY DEF KeptInv
<1>1. staged[i] = {} /\ rpc[i].at = "idle"
  BY DEF LinuxInit, Init, NoRPC
<1> QED BY <1>1 DEF StagedIsKept

\* What NodeStageVolume answered OK for stays usable until the unstage is asked
\* for or the VM restarts, whatever a repeated stage does meanwhile
\* (node.go:87-138), if the kubelet publishes only what it has staged and no
\* release overtakes a later request of its VM.
THEOREM StagedIsUsableHolds ==
  ASSUME Contract, ReleasesInOrder PROVE LinuxSpec => []StagedIsUsable
<1>1. LinuxInit => NodeInv /\ JournalInv /\ SizesInv /\ ServedInv /\ KeptInv
  BY NodeInit, JournalInit, SizesInit, ServedInit, KeptInit DEF LinuxInit
<1>2. NodeInv /\ JournalInv /\ SizesInv /\ ServedInv /\ KeptInv
        /\ [LinuxNext]_linuxVars
        => NodeInv' /\ JournalInv' /\ SizesInv' /\ ServedInv' /\ KeptInv'
  BY NodeStepOnLinux, SizesStep, ServedStep, KeptStep DEF SizesInv
<1>3. ServedInv /\ KeptInv => StagedIsUsable
  BY DEF ServedInv, ServedOK, StagedIsMounted, KeptInv, StagedIsKept, Backed,
     StagedIsUsable, Block
<1> QED BY <1>1, <1>2, <1>3, PTL DEF LinuxSpec
=============================================================================
