-------------------------- MODULE NodeJournalProofs --------------------------
(***************************************************************************)
(* The journal of a node agent, for every value of the constants: a path   *)
(* belongs to one volume and one role, only what is ready is published,    *)
(* every mount can be cleaned up from the journal, and a target is never   *)
(* left without the staging mount it is bound from.                        *)
(***************************************************************************)
EXTENDS NodeProofs

\* Where the journal and the RPC stay, or the RPC has ended.
LEMMA JournalSame ==
  ASSUME NEW i \in VM, JournalOK(i), journal'[i] = journal[i],
         rpc'[i] = rpc[i] \/ rpc'[i] = NoRPC
  PROVE  JournalOK(i)'
<1>1. NoRPC.at = "idle"
  BY DEF NoRPC
<1> QED BY <1>1 DEF JournalOK, PathsOwned, TargetsAreReady, Entry, PathTaken,
                    TargetTaken, PublishPoint

\* Where only the RPC goes on.
LEMMA JournalGoesOn ==
  ASSUME NEW i \in VM, JournalOK(i), journal'[i] = journal[i],
         rpc'[i].at \notin {"acquire", "announce"},
         rpc'[i].at = "record" =>
           /\ rpc[i].at = "acquire"
           /\ rpc'[i].vol = rpc[i].vol /\ rpc'[i].path = rpc[i].path,
         rpc'[i].at = "track" =>
           rpc[i].at = "announce" /\ rpc'[i].target = rpc[i].target,
         rpc'[i].at \in PublishPoint =>
           rpc[i].at \in PublishPoint /\ rpc'[i].vol = rpc[i].vol
  PROVE  JournalOK(i)'
<1>1. PathsOwned(i)'
  BY DEF JournalOK, PathsOwned, Entry, PathTaken, TargetTaken, PublishPoint
<1>2. TargetsAreReady(i)'
  BY DEF JournalOK, TargetsAreReady, Entry
<1> QED BY <1>1, <1>2 DEF JournalOK

\* Entries that keep their paths and lose targets keep the paths owned.
LEMMA JournalShrinks ==
  ASSUME NEW i \in VM, JournalOK(i), rpc'[i].at \in {"idle", "mount"},
         \A v \in DOMAIN journal'[i] :
           /\ v \in DOMAIN journal[i]
           /\ journal'[i][v].path = journal[i][v].path
           /\ DOMAIN journal'[i][v].targets \subseteq DOMAIN journal[i][v].targets
           /\ journal[i][v].ready => journal'[i][v].ready
  PROVE  JournalOK(i)'
<1>1. PathsOwned(i)'
  BY DEF JournalOK, PathsOwned, Entry
<1>2. TargetsAreReady(i)'
  BY DEF JournalOK, TargetsAreReady, Entry, PublishPoint
<1> QED BY <1>1, <1>2 DEF JournalOK

\* The steps that write the journal.
LEMMA RecordOwns ==
  ASSUME NodeInv, NEW i \in VM, JournalOK(i), StageRecord(i)
  PROVE  JournalOK(i)'
<1> DEFINE v == rpc[i].vol
           s == IF Staged(i, v) THEN Entry(i, v)
                                ELSE NewStage(rpc[i].path, rpc[i].gen)
<1>1. /\ NodeType /\ NodeOK(i) /\ rpc[i].at = "record"
      /\ Save(i, v, s) /\ Continue(i, "mount")
  BY DEF NodeInv, StageRecord, At
<1>2. journal'[i] = With(journal[i], v, s) /\ rpc'[i].at = "mount"
  <2>1. rpc'[i].at = "mount"
    BY <1>1, Continues DEF StagePoint
  <2>2. journal \in [VM -> JournalTable]
    BY <1>1 DEF NodeType
  <2> QED BY <1>1, <2>1, <2>2 DEF Save
<1>3. /\ DOMAIN journal'[i] = DOMAIN journal[i] \cup {v}
      /\ journal'[i][v] = s
      /\ \A w \in DOMAIN journal[i] : w # v => journal'[i][w] = journal[i][w]
  BY <1>2 DEF With
<1>4. CASE Staged(i, v)
  <2>1. s = journal[i][v] /\ v \in DOMAIN journal[i]
    BY <1>4 DEF Staged, Entry
  <2> HIDE DEF s, v
  <2>2. DOMAIN journal'[i] = DOMAIN journal[i]
        /\ \A w \in DOMAIN journal'[i] : journal'[i][w] = journal[i][w]
    BY <1>3, <2>1
  <2> QED BY <1>2, <2>2, JournalShrinks
<1>5. CASE ~Staged(i, v)
  <2>1. /\ s.path = rpc[i].path /\ DOMAIN s.targets = {} /\ v \notin DOMAIN journal[i]
    BY <1>5 DEF Staged, NewStage, NoEntries
  <2>2. \A w \in DOMAIN journal[i] : /\ journal[i][w].path # rpc[i].path
                                     /\ rpc[i].path \notin DOMAIN journal[i][w].targets
    BY <1>1, <2>1 DEF JournalOK, PathsOwned, PathTaken, Entry
  <2> HIDE DEF s, v
  <2>3. PathsOwned(i)'
    <3>1. ASSUME NEW x \in DOMAIN journal'[i], NEW w \in DOMAIN journal'[i]
          PROVE  /\ journal'[i][x].path \notin DOMAIN journal'[i][w].targets
                 /\ x # w =>
                      /\ journal'[i][x].path # journal'[i][w].path
                      /\ DOMAIN journal'[i][x].targets
                           \cap DOMAIN journal'[i][w].targets = {}
      <4>1. CASE x \in DOMAIN journal[i] /\ w \in DOMAIN journal[i]
        BY <1>3, <2>1, <4>1 DEF JournalOK, PathsOwned, Entry
      <4>2. CASE x = v \/ w = v
        BY <1>3, <2>1, <2>2, <4>2
      <4> QED BY <1>3, <4>1, <4>2
    <3> QED BY <1>2, <3>1 DEF PathsOwned, Entry
  <2>4. TargetsAreReady(i)'
    BY <1>2, <1>3, <2>1 DEF JournalOK, TargetsAreReady, Entry, PublishPoint
  <2> QED BY <2>3, <2>4 DEF JournalOK
<1> QED BY <1>4, <1>5

\* A target is tracked that was free when it was asked for.
LEMMA TrackOwns ==
  ASSUME NodeInv, NEW i \in VM, JournalOK(i), PublishTrack(i)
  PROVE  JournalOK(i)'
<1> DEFINE v == rpc[i].vol
           x == rpc[i].target
           s == [Entry(i, v) EXCEPT !.targets = With(@, x, rpc[i].conf)]
<1>1. /\ NodeType /\ NodeOK(i) /\ rpc[i].at = "track"
      /\ Save(i, v, s) /\ Continue(i, "bind")
  BY DEF NodeInv, PublishTrack, At
<1>2. /\ v \in DOMAIN journal[i] /\ journal[i][v] \in JournalEntry
      /\ journal[i][v].ready
  <2>1. Staged(i, v) /\ Entry(i, v).ready
    BY <1>1 DEF NodeOK, JournalAsSeen, JournalOK, TargetsAreReady, PublishPoint
  <2> QED BY <1>1, <2>1, EntryTyped DEF Staged, Entry
<1>3. /\ s.path = journal[i][v].path /\ s.ready
      /\ DOMAIN s.targets = DOMAIN journal[i][v].targets \cup {x}
  BY <1>2 DEF Entry, JournalEntry, With
<1>4. \A w \in DOMAIN journal[i] :
        /\ journal[i][w].path # x
        /\ w # v => x \notin DOMAIN journal[i][w].targets
  BY <1>1 DEF JournalOK, PathsOwned, TargetTaken, Entry
<1>5. rpc'[i].at = "bind" /\ rpc'[i].vol = v
  BY <1>1, Continues DEF PublishPoint
<1>6. journal'[i] = With(journal[i], v, s)
  <2>1. journal \in [VM -> JournalTable]
    BY <1>1 DEF NodeType
  <2> QED BY <1>1, <2>1 DEF Save
<1> HIDE DEF s, x, v
<1>7. /\ DOMAIN journal'[i] = DOMAIN journal[i] /\ journal'[i][v] = s
      /\ \A w \in DOMAIN journal[i] : w # v => journal'[i][w] = journal[i][w]
  BY <1>2, <1>6 DEF With
<1>8. PathsOwned(i)'
  <2>1. ASSUME NEW u \in DOMAIN journal[i], NEW w \in DOMAIN journal[i]
        PROVE  /\ journal'[i][u].path \notin DOMAIN journal'[i][w].targets
               /\ u # w =>
                    /\ journal'[i][u].path # journal'[i][w].path
                    /\ DOMAIN journal'[i][u].targets
                         \cap DOMAIN journal'[i][w].targets = {}
    <3>1. /\ journal[i][u].path \notin DOMAIN journal[i][w].targets
          /\ u # w =>
               /\ journal[i][u].path # journal[i][w].path
               /\ DOMAIN journal[i][u].targets \cap DOMAIN journal[i][w].targets = {}
      BY DEF JournalOK, PathsOwned, Entry
    <3>2. /\ journal'[i][u].path = journal[i][u].path
          /\ journal'[i][w].path = journal[i][w].path
      BY <1>3, <1>7
    <3>3. /\ DOMAIN journal'[i][u].targets =
               DOMAIN journal[i][u].targets \cup (IF u = v THEN {x} ELSE {})
          /\ DOMAIN journal'[i][w].targets =
               DOMAIN journal[i][w].targets \cup (IF w = v THEN {x} ELSE {})
      BY <1>3, <1>7
    <3> QED BY <1>4, <3>1, <3>2, <3>3
  <2> QED BY <1>5, <1>7, <2>1 DEF PathsOwned, Entry
<1>9. TargetsAreReady(i)'
  BY <1>2, <1>3, <1>5, <1>7 DEF JournalOK, TargetsAreReady, Entry
<1> QED BY <1>8, <1>9 DEF JournalOK

\* An entry is replaced by one that claims no more paths.
LEMMA SaveShrinks ==
  ASSUME NodeType, NEW i \in VM, JournalOK(i), NEW v, NEW s,
         v \in DOMAIN journal[i], Save(i, v, s), Finish(i),
         s.path = journal[i][v].path, journal[i][v].ready => s.ready,
         DOMAIN s.targets \subseteq DOMAIN journal[i][v].targets
  PROVE  JournalOK(i)'
<1>1. rpc'[i].at = "idle"
  BY Ends DEF NoRPC
<1>2. journal'[i] = With(journal[i], v, s)
  <2>1. journal \in [VM -> JournalTable]
    BY DEF NodeType
  <2> QED BY <2>1 DEF Save
<1>3. /\ DOMAIN journal'[i] = DOMAIN journal[i] /\ journal'[i][v] = s
      /\ \A w \in DOMAIN journal[i] : w # v => journal'[i][w] = journal[i][w]
  BY <1>2 DEF With
<1> QED BY <1>1, <1>3, JournalShrinks

\* Ready: the same paths.
LEMMA ReadyOwns ==
  ASSUME NodeInv, NEW i \in VM, JournalOK(i), StageReady(i)
  PROVE  JournalOK(i)'
<1> DEFINE v == rpc[i].vol
           s == [Entry(i, v) EXCEPT !.ready = TRUE]
<1>1. /\ NodeType /\ NodeOK(i) /\ rpc[i].at = "ready"
      /\ Save(i, v, s) /\ Finish(i)
  BY DEF NodeInv, StageReady, At
<1>2. v \in DOMAIN journal[i] /\ journal[i][v] \in JournalEntry
  <2>1. Staged(i, v)
    BY <1>1 DEF NodeOK, JournalAsSeen, StagePoint
  <2> QED BY <1>1, <2>1, EntryTyped DEF Staged, Entry
<1>3. /\ s.path = journal[i][v].path /\ s.ready
      /\ s.targets = journal[i][v].targets
  BY <1>2 DEF Entry, JournalEntry
<1> HIDE DEF s, v
<1> QED BY <1>1, <1>2, <1>3, SaveShrinks

\* A target less.
LEMMA UntrackOwns ==
  ASSUME NodeInv, NEW i \in VM, JournalOK(i), UnpublishUntrack(i)
  PROVE  JournalOK(i)'
<1> DEFINE v == rpc[i].vol
           s == [Entry(i, v) EXCEPT !.targets = Without(@, rpc[i].target)]
<1>1. /\ NodeType /\ NodeOK(i) /\ rpc[i].at = "untrack"
      /\ Save(i, v, s) /\ Finish(i)
  BY DEF NodeInv, UnpublishUntrack, At
<1>2. v \in DOMAIN journal[i] /\ journal[i][v] \in JournalEntry
  <2>1. Staged(i, v)
    BY <1>1 DEF NodeOK, JournalAsSeen, UnpublishPoint
  <2> QED BY <1>1, <2>1, EntryTyped DEF Staged, Entry
<1>3. /\ s.path = journal[i][v].path /\ s.ready = journal[i][v].ready
      /\ DOMAIN s.targets \subseteq DOMAIN journal[i][v].targets
  BY <1>2 DEF Entry, JournalEntry, Without, Restrict
<1> HIDE DEF s, v
<1> QED BY <1>1, <1>2, <1>3, SaveShrinks

\* An entry less.
LEMMA ForgetOwns ==
  ASSUME NodeInv, NEW i \in VM, JournalOK(i), UnstageForget(i)
  PROVE  JournalOK(i)'
<1>1. NodeType /\ Finish(i)
  BY DEF NodeInv, UnstageForget
<1>2. rpc'[i].at = "idle"
  BY <1>1, Ends DEF NoRPC
<1>3. journal'[i] = Without(journal[i], rpc[i].vol)
  <2>1. journal \in [VM -> JournalTable]
    BY <1>1 DEF NodeType
  <2> QED BY <2>1 DEF UnstageForget
<1>4. /\ DOMAIN journal'[i] \subseteq DOMAIN journal[i]
      /\ \A w \in DOMAIN journal'[i] : journal'[i][w] = journal[i][w]
  BY <1>3 DEF Without, Restrict
<1> QED BY <1>2, <1>4, JournalShrinks

\* An RPC that ends reserves nothing.
LEMMA EndOwns ==
  ASSUME NodeType, NEW i \in VM, JournalOK(i), Finish(i), UNCHANGED journal
  PROVE  JournalOK(i)'
  BY Ends, JournalSame

\* One that goes on reserves no more than before.
LEMMA PointOwns ==
  ASSUME NodeType, NEW i \in VM, JournalOK(i), NEW p, Continue(i, p),
         UNCHANGED journal,
         \/ rpc[i].at \in StagePoint /\ p \in StagePoint \ {"acquire", "record"}
         \/ rpc[i].at = "acquire" /\ p = "record"
         \/ rpc[i].at = "announce" /\ p = "track"
         \/ rpc[i].at \in PublishPoint /\ p \in {"bind", "remount", "answer"}
         \/ rpc[i].at \in UnpublishPoint /\ p \in UnpublishPoint
         \/ rpc[i].at \in UnstagePoint /\ p \in UnstagePoint
         \/ rpc[i].at \in ExpandPoint /\ p \in ExpandPoint
  PROVE  JournalOK(i)'
<1>1. /\ rpc'[i].at = p /\ rpc'[i].vol = rpc[i].vol
      /\ rpc[i].at \notin UnpublishPoint => rpc'[i].path = rpc[i].path
      /\ rpc[i].at \in PublishPoint => rpc'[i].target = rpc[i].target
  BY Continues DEF StagePoint, PublishPoint
<1> QED BY <1>1, JournalGoesOn DEF StagePoint, PublishPoint, UnpublishPoint,
           UnstagePoint, ExpandPoint

\* An RPC begins with a path that is free or its own.
LEMMA BeginOwns ==
  ASSUME NodeInv, NEW i \in VM, JournalOK(i), NEW v \in Volume, NEW path \in Path,
         \/ \E g \in 1 .. lease[v].gen :
              \/ StageBegin(i, v, path, g)
              \/ \E target \in Path, conf \in Conf :
                   PublishBegin(i, v, path, g, target, conf)
         \/ UnpublishBegin(i, v, path)
         \/ UnstageBegin(i, v, path)
  PROVE  JournalOK(i)'
<1>1. rpc \in [VM -> RPC]
  BY DEF NodeInv, NodeType
<1>2. ASSUME NEW g, StageBegin(i, v, path, g) PROVE JournalOK(i)'
  <2>1. /\ rpc'[i].at = "acquire" /\ rpc'[i].vol = v /\ rpc'[i].path = path
        /\ journal' = journal
    BY <1>1, <1>2 DEF StageBegin, Start
  <2>2. PathsOwned(i)'
    BY <1>2, <2>1 DEF StageBegin, JournalOK, PathsOwned, PathTaken, Entry
  <2>3. TargetsAreReady(i)'
    BY <2>1 DEF JournalOK, TargetsAreReady, Entry, PublishPoint
  <2> QED BY <2>2, <2>3 DEF JournalOK
<1>3. ASSUME NEW g, NEW target, NEW conf,
             PublishBegin(i, v, path, g, target, conf)
      PROVE  JournalOK(i)'
  <2>1. /\ rpc'[i].at = "announce" /\ rpc'[i].vol = v /\ rpc'[i].target = target
        /\ journal' = journal
    BY <1>1, <1>3 DEF PublishBegin, Start
  <2>2. PathsOwned(i)'
    BY <1>3, <2>1 DEF PublishBegin, JournalOK, PathsOwned, TargetTaken, Entry
  <2>3. TargetsAreReady(i)'
    BY <1>3, <2>1 DEF PublishBegin, JournalOK, TargetsAreReady, Entry
  <2> QED BY <2>2, <2>3 DEF JournalOK
<1>4. CASE UnpublishBegin(i, v, path)
  <2>1. rpc'[i].at = "unbind" /\ journal' = journal
    BY <1>1, <1>4 DEF UnpublishBegin, Start
  <2> QED BY <2>1, JournalGoesOn DEF PublishPoint
<1>5. CASE UnstageBegin(i, v, path)
  <2>1. rpc'[i].at = "unmount" /\ journal' = journal
    BY <1>1, <1>5 DEF UnstageBegin, Start
  <2> QED BY <2>1, JournalGoesOn DEF PublishPoint
<1> QED BY <1>2, <1>3, <1>4, <1>5

\* Every step of an RPC.
LEMMA StageOwns ==
  ASSUME NodeInv, NEW i \in VM, JournalOK(i), StageStep(i)
  PROVE  JournalOK(i)'
<1>1. NodeType
  BY DEF NodeInv
<1>2. CASE StageAcquire(i)
  BY <1>1, <1>2, EndOwns, PointOwns DEF StageAcquire, At
<1>3. CASE StageRecord(i)
  BY <1>3, RecordOwns
<1>4. CASE StageMount(i)
  BY <1>1, <1>4, EndOwns, PointOwns DEF StageMount, At, StagePoint
<1>5. CASE StageMark(i)
  BY <1>1, <1>5, EndOwns, PointOwns DEF StageMark, At, StagePoint
<1>6. CASE StageReady(i)
  BY <1>6, ReadyOwns
<1> QED BY <1>2, <1>3, <1>4, <1>5, <1>6 DEF StageStep

\* NodePublishVolume.
LEMMA PublishOwns ==
  ASSUME NodeInv, NEW i \in VM, JournalOK(i), PublishStep(i)
  PROVE  JournalOK(i)'
<1>1. NodeType
  BY DEF NodeInv
<1>2. CASE PublishAnnounce(i)
  <2>1. Finish(i) \/ Continue(i, "track")
    BY <1>2 DEF PublishAnnounce
  <2>2. rpc[i].at = "announce" /\ journal' = journal
    BY <1>2 DEF PublishAnnounce, At
  <2>3. CASE Finish(i)
    BY <1>1, <2>2, <2>3, EndOwns
  <2>4. CASE Continue(i, "track")
    BY <1>1, <2>2, <2>4, PointOwns
  <2> QED BY <2>1, <2>3, <2>4
<1>3. CASE PublishTrack(i)
  BY <1>3, TrackOwns
<1>4. CASE PublishBind(i)
  BY <1>1, <1>4, EndOwns DEF PublishBind
<1> QED BY <1>2, <1>3, <1>4 DEF PublishStep

\* NodeUnpublishVolume and NodeUnstageVolume.
LEMMA CleanUpOwns ==
  ASSUME NodeInv, NEW i \in VM, JournalOK(i), UnpublishStep(i) \/ UnstageStep(i)
  PROVE  JournalOK(i)'
<1>1. NodeType
  BY DEF NodeInv
<1>2. CASE UnpublishUnmount(i)
  BY <1>1, <1>2, PointOwns DEF UnpublishUnmount, At, UnpublishPoint
<1>3. CASE UnpublishUntrack(i)
  BY <1>3, UntrackOwns
<1>4. CASE UnstageUnmount(i)
  BY <1>1, <1>4, PointOwns DEF UnstageUnmount, At, UnstagePoint
<1>5. CASE UnstageRelease(i)
  BY <1>1, <1>5, PointOwns DEF UnstageRelease, At, UnstagePoint
<1>6. CASE UnstageForget(i)
  BY <1>6, ForgetOwns
<1> QED BY <1>2, <1>3, <1>4, <1>5, <1>6 DEF UnpublishStep, UnstageStep

\* No step of a VM touches the journal or the RPC of another.
LEMMA OthersStay ==
  ASSUME NodeType, NEW i \in VM, NEW j \in VM, j # i,
         KubeletCall(i) \/ RPCStep(i)
  PROVE  journal'[j] = journal[j] /\ rpc'[j] = rpc[j] /\ mounts'[j] = mounts[j]
<1>1. /\ rpc \in [VM -> RPC] /\ journal \in [VM -> JournalTable]
      /\ mounts = [k \in VM |-> mounts[k]]
  BY DEF NodeType
<1>2. CASE KubeletCall(i)
  <2>1. \A r : Start(i, r) => rpc'[j] = rpc[j]
    BY <1>1 DEF Start
  <2>2. ASSUME NEW v, NEW path, NEW g, StageBegin(i, v, path, g)
        PROVE  journal' = journal /\ mounts' = mounts /\ \E r : Start(i, r)
    BY <2>2 DEF StageBegin
  <2>3. ASSUME NEW v, NEW path, NEW g, NEW target, NEW conf,
               PublishBegin(i, v, path, g, target, conf)
        PROVE  journal' = journal /\ mounts' = mounts /\ \E r : Start(i, r)
    BY <2>3 DEF PublishBegin
  <2>4. ASSUME NEW v, NEW path, UnpublishBegin(i, v, path) \/ UnstageBegin(i, v, path)
        PROVE  journal' = journal /\ mounts' = mounts /\ \E r : Start(i, r)
    BY <2>4 DEF UnpublishBegin, UnstageBegin
  <2>5. journal' = journal /\ mounts' = mounts /\ \E r : Start(i, r)
    BY <1>2, <2>2, <2>3, <2>4 DEF KubeletCall
  <2> QED BY <2>1, <2>5
<1>3. CASE StageStep(i)
  BY <1>1, <1>3 DEF StageStep, StageAcquire, StageRecord, StageMount, StageMark,
     StageReady, Continue, Finish, Save, SetMount
<1>4. CASE PublishStep(i)
  BY <1>1, <1>4 DEF PublishStep, PublishAnnounce, PublishTrack, PublishBind,
     Continue, Finish, Save, SetMount
<1>5. CASE UnpublishStep(i)
  BY <1>1, <1>5 DEF UnpublishStep, UnpublishUnmount, UnpublishUntrack,
     Continue, Finish, Save, RemoveMount
<1>6. CASE UnstageStep(i)
  BY <1>1, <1>6 DEF UnstageStep, UnstageUnmount, UnstageRelease, UnstageForget,
     Continue, Finish, RemoveMount
<1> QED BY <1>2, <1>3, <1>4, <1>5, <1>6 DEF RPCStep

\* Every step keeps the journals in order.
LEMMA JournalStep ==
  ASSUME NodeInv, JournalInv, [Next]_vars
  PROVE  JournalInv'
<1> SUFFICES ASSUME NEW j \in VM PROVE JournalOK(j)'
  BY DEF JournalInv
<1>1. NodeType /\ JournalOK(j)
  BY DEF NodeInv, JournalInv
<1>2. ASSUME NEW i \in VM, KubeletCall(i) \/ RPCStep(i) PROVE JournalOK(j)'
  <2>1. CASE i = j
    BY <1>1, <1>2, <2>1, BeginOwns, StageOwns, PublishOwns, CleanUpOwns
       DEF KubeletCall, RPCStep
  <2>2. CASE i # j
    BY <1>1, <1>2, <2>2, OthersStay, JournalSame
  <2> QED BY <2>1, <2>2
<1>3. ASSUME NEW i \in VM, Break(i) \/ TimeOut(i) \/ Reboot(i)
      PROVE  JournalOK(j)'
  <2>1. Finish(i) /\ journal' = journal
    BY <1>3 DEF Break, TimeOut, Reboot
  <2>2. rpc'[j] = rpc[j] \/ rpc'[j] = NoRPC
    BY <1>1, <2>1, Ends
  <2> QED BY <1>1, <2>1, <2>2, JournalSame
<1>4. CASE \/ \E v \in Volume : PlatformStep(v)
           \/ \E q \in late : Deliver(q)
           \/ UNCHANGED vars
  <2>1. journal' = journal /\ rpc' = rpc
    BY <1>4 DEF PlatformStep, Grant, TakeDisk, CloseGate, GiveDisk, Retire,
       SetLease, Deliver, vars
  <2> QED BY <1>1, <2>1, JournalSame
<1> QED BY <1>2, <1>3, <1>4 DEF Next

\* At first the journals are empty.
LEMMA JournalInit == Init => JournalInv
<1> SUFFICES ASSUME Init, NEW i \in VM PROVE JournalOK(i)
  BY DEF JournalInv
<1>1. DOMAIN journal[i] = {} /\ rpc[i].at = "idle"
  BY DEF Init, NoRPC, NoEntries
<1> QED BY <1>1 DEF JournalOK, PathsOwned, TargetsAreReady, PublishPoint

\* A path belongs to one volume and one role, for any VMs, volumes and paths
\* and whatever breaks, as the checks of NodeStageVolume and
\* NodePublishVolume are to ensure (node.go:105-109, 174-179).
THEOREM PathHasOneOwnerHolds == Spec => []PathHasOneOwner
<1>1. JournalInv => PathHasOneOwner
  BY DEF JournalInv, JournalOK, PathsOwned, PathHasOneOwner
<1> QED BY <1>1, JournalInit, JournalStep, NodeInvariantHolds, PTL DEF Spec

(***************************************************************************)
(* Where the mounts come from.                                             *)
(***************************************************************************)
\* Mounts that stay, of entries that keep their paths and their mounted
\* targets, keep their sources, if no staging mount below a target goes.
LEMMA SourcesStay ==
  ASSUME NEW i \in VM, NodeOK(i), SourceOK(i),
         DOMAIN mounts'[i] \subseteq DOMAIN mounts[i],
         \A p \in DOMAIN mounts'[i] :
           LET m == mounts[i][p]
           IN /\ mounts'[i][p] = m
              /\ journal'[i][m.vol].path = journal[i][m.vol].path
              /\ p \in DOMAIN journal[i][m.vol].targets =>
                   /\ p \in DOMAIN journal'[i][m.vol].targets
                   /\ journal'[i][m.vol].targets[p] = journal[i][m.vol].targets[p]
              /\ m.source # Device => journal[i][m.vol].path \in DOMAIN mounts'[i]
  PROVE  \A p \in DOMAIN mounts'[i] : MountSourced(i, p)'
<1> SUFFICES ASSUME NEW p \in DOMAIN mounts'[i] PROVE MountSourced(i, p)'
  OBVIOUS
<1>1. MountSourced(i, p)
  BY DEF SourceOK
<1>2. PICK m : m = mounts[i][p]
  OBVIOUS
<1>3. CASE m.source = Device /\ p = journal[i][m.vol].path
  BY <1>2, <1>3 DEF MountSourced, Entry
<1>4. CASE /\ m.source # Device /\ m.source = journal[i][m.vol].path
           /\ p \in DOMAIN journal[i][m.vol].targets
           /\ m.conf = journal[i][m.vol].targets[p]
           /\ MountedFrom(i, journal[i][m.vol].path, m.vol)
  <2>1. PICK q : q = journal[i][m.vol].path
    OBVIOUS
  <2>2. q \in DOMAIN mounts'[i] /\ mounts'[i][q].vol = m.vol
    BY <1>2, <1>4, <2>1 DEF MountedFrom, Mounted
  <2>3. /\ mounts'[i][p] = m /\ journal'[i][m.vol].path = q
        /\ p \in DOMAIN journal'[i][m.vol].targets
        /\ m.conf = journal'[i][m.vol].targets[p]
    BY <1>2, <1>4, <2>1
  <2> QED BY <1>4, <2>1, <2>2, <2>3 DEF MountSourced, Entry, MountedFrom, Mounted
<1> QED BY <1>1, <1>2, <1>3, <1>4 DEF MountSourced, Entry

\* An RPC that ends or goes on has seen what it has seen.
LEMMA TargetStaysSeen ==
  ASSUME NEW i \in VM, SourceOK(i), rpc'[i].at # "unbind",
         rpc'[i].at \in {"announce", "track", "bind"} =>
           /\ rpc[i].at \in {"announce", "track", "bind"}
           /\ rpc'[i].vol = rpc[i].vol /\ rpc'[i].target = rpc[i].target
           /\ rpc'[i].conf = rpc[i].conf,
         journal'[i] = journal[i]
  PROVE  TargetAsSeen(i)'
  BY DEF SourceOK, TargetAsSeen, Entry

\* A step that touches neither journal nor mounts.
LEMMA SourcesSame ==
  ASSUME NEW i \in VM, NodeOK(i), SourceOK(i), TargetAsSeen(i)',
         journal'[i] = journal[i], mounts'[i] = mounts[i]
  PROVE  SourceOK(i)'
<1>1. \A p \in DOMAIN mounts[i] : mounts[i][p].source # Device =>
        journal[i][mounts[i][p].vol].path \in DOMAIN mounts[i]
  BY DEF SourceOK, MountSourced, MountedFrom, Mounted, Entry
<1>2. \A p \in DOMAIN mounts'[i] : MountSourced(i, p)'
  BY <1>1, SourcesStay
<1> QED BY <1>2 DEF SourceOK

\* The same, where the RPC has also ended.
LEMMA SourcesIdle ==
  ASSUME NEW i \in VM, NodeOK(i), SourceOK(i), rpc'[i] = rpc[i] \/ rpc'[i] = NoRPC,
         journal'[i] = journal[i], mounts'[i] = mounts[i]
  PROVE  SourceOK(i)'
<1>1. TargetAsSeen(i)'
  <2>1. NoRPC.at = "idle"
    BY DEF NoRPC
  <2> QED BY <2>1 DEF SourceOK, TargetAsSeen, Entry
<1> QED BY <1>1, SourcesSame

\* One that only goes on, or ends.
LEMMA EndsSeen ==
  ASSUME NodeType, NEW i \in VM, SourceOK(i), Finish(i), journal'[i] = journal[i]
  PROVE  TargetAsSeen(i)'
<1>1. rpc'[i].at = "idle"
  BY Ends DEF NoRPC
<1> QED BY <1>1, TargetStaysSeen

\* What the points of an RPC have in common of what it has seen.
LEMMA PointSeen ==
  ASSUME NodeType, NEW i \in VM, SourceOK(i), NEW p, Continue(i, p),
         \/ rpc[i].at \in StagePoint /\ p \in StagePoint
         \/ rpc[i].at \in {"announce", "track", "bind"} /\ p \in PublishPoint
         \/ rpc[i].at \in UnpublishPoint /\ p = "untrack"
         \/ rpc[i].at \in UnstagePoint /\ p \in UnstagePoint,
         journal'[i] = journal[i]
  PROVE  TargetAsSeen(i)'
<1>1. CASE rpc[i].at \in {"announce", "track", "bind"} /\ p \in PublishPoint
  <2>1. /\ rpc'[i].at = p /\ rpc'[i].vol = rpc[i].vol /\ rpc'[i].conf = rpc[i].conf
        /\ rpc'[i].target = rpc[i].target
    BY <1>1, Continues DEF PublishPoint
  <2> QED BY <1>1, <2>1, TargetStaysSeen DEF PublishPoint
<1>2. CASE \/ rpc[i].at \in StagePoint /\ p \in StagePoint
           \/ rpc[i].at \in UnpublishPoint /\ p = "untrack"
           \/ rpc[i].at \in UnstagePoint /\ p \in UnstagePoint
  <2>1. rpc'[i].at = p
    BY <1>2, Continues DEF UnpublishPoint
  <2>2. p \notin {"announce", "track", "bind", "unbind"}
    BY <1>2 DEF StagePoint, UnstagePoint
  <2> QED BY <2>1, <2>2, TargetStaysSeen
<1> QED BY <1>1, <1>2

\* A mount made where nothing was.
LEMMA MountAdded ==
  ASSUME NEW i \in VM, SourceOK(i), TargetAsSeen(i)', journal' = journal,
         NEW t, NEW n,
         DOMAIN mounts'[i] = DOMAIN mounts[i] \cup {t}, mounts'[i][t] = n,
         \A p \in DOMAIN mounts[i] : mounts'[i][p] = mounts[i][p],
         LET s == Entry(i, n.vol)
         IN \/ n.source = Device /\ t = s.path
            \/ /\ n.source # Device /\ n.source = s.path
               /\ t \in DOMAIN s.targets /\ n.conf = s.targets[t]
               /\ MountedFrom(i, s.path, n.vol)
  PROVE  SourceOK(i)'
<1>1. ASSUME NEW p \in DOMAIN mounts[i] PROVE MountSourced(i, p)'
  <2>1. MountSourced(i, p)
    BY DEF SourceOK
  <2> QED BY <2>1 DEF MountSourced, Entry, MountedFrom, Mounted
<1>2. MountSourced(i, t)'
  BY DEF MountSourced, Entry, MountedFrom, Mounted
<1> QED BY <1>1, <1>2 DEF SourceOK

\* NodeStageVolume's.
LEMMA StageSources ==
  ASSUME NodeInv, NEW i \in VM, SourceOK(i), StageStep(i)
  PROVE  SourceOK(i)'
<1>0. NodeType /\ NodeOK(i)
  BY DEF NodeInv
<1>1. CASE StageAcquire(i) \/ StageMark(i)
  <2>1. /\ journal' = journal /\ mounts' = mounts
        /\ \/ Finish(i)
           \/ rpc[i].at \in StagePoint /\ (Continue(i, "record") \/ Continue(i, "ready"))
    BY <1>1 DEF StageAcquire, StageMark, At, StagePoint
  <2>2. TargetAsSeen(i)'
    BY <1>0, <2>1, EndsSeen, PointSeen DEF StagePoint
  <2> QED BY <1>0, <2>1, <2>2, SourcesSame
<1>2. CASE StageRecord(i)
  <2> DEFINE v == rpc[i].vol
             s == IF Staged(i, v) THEN Entry(i, v)
                                  ELSE NewStage(rpc[i].path, rpc[i].gen)
  <2>1. /\ rpc[i].at = "record" /\ Save(i, v, s) /\ Continue(i, "mount")
        /\ mounts' = mounts
    BY <1>2 DEF StageRecord, At
  <2>2. journal'[i] = With(journal[i], v, s)
    <3>1. journal \in [VM -> JournalTable]
      BY <1>0 DEF NodeType
    <3> QED BY <2>1, <3>1 DEF Save
  <2>3. \A p \in DOMAIN mounts[i] : mounts[i][p].vol \in DOMAIN journal[i]
    BY <1>0 DEF NodeOK, MountsListed, Staged
  <2>4. \A w \in DOMAIN journal[i] : journal'[i][w] = journal[i][w]
    BY <2>2 DEF With, Staged, Entry
  <2>5. \A p \in DOMAIN mounts[i] : mounts[i][p].source # Device =>
          journal[i][mounts[i][p].vol].path \in DOMAIN mounts[i]
    BY DEF SourceOK, MountSourced, MountedFrom, Mounted, Entry
  <2>6. \A p \in DOMAIN mounts'[i] : MountSourced(i, p)'
    BY <1>0, <2>1, <2>3, <2>4, <2>5, SourcesStay
  <2>7. rpc'[i].at = "mount"
    BY <1>0, <2>1, Continues DEF StagePoint
  <2> QED BY <2>6, <2>7 DEF SourceOK, TargetAsSeen
<1>3. CASE StageMount(i)
  <2> DEFINE v == rpc[i].vol
             path == rpc[i].path
             m == [vol |-> v, source |-> Device, conf |-> NoConf]
  <2>1. /\ rpc[i].at = "mount" /\ journal' = journal
        /\ Finish(i) \/ Continue(i, "mark")
        /\ mounts' = mounts \/ (SetMount(i, path, m) /\ ~Mounted(i, path))
    BY <1>3 DEF StageMount, At
  <2>2. TargetAsSeen(i)'
    BY <1>0, <2>1, EndsSeen, PointSeen DEF StagePoint
  <2>3. CASE mounts' = mounts
    BY <1>0, <2>1, <2>2, <2>3, SourcesSame
  <2>4. CASE SetMount(i, path, m) /\ ~Mounted(i, path)
    <3>1. PICK t : t = path
      OBVIOUS
    <3>2. PICK n : n = m
      OBVIOUS
    <3>3. Entry(i, n.vol).path = t /\ n.source = Device
      BY <1>0, <2>1, <3>1, <3>2 DEF NodeOK, JournalAsSeen, StagePoint, match
    <3>4. SetMount(i, t, n) /\ ~Mounted(i, t)
      BY <2>4, <3>1, <3>2
    <3> HIDE DEF m, path, v
    <3>5. /\ DOMAIN mounts'[i] = DOMAIN mounts[i] \cup {t} /\ mounts'[i][t] = n
          /\ \A p \in DOMAIN mounts[i] : mounts'[i][p] = mounts[i][p]
      <4>1. mounts'[i] = With(mounts[i], t, n)
        BY <1>0, <3>4, MountTableWith
      <4> QED BY <3>4, <4>1 DEF With, Mounted
    <3> QED BY <2>1, <2>2, <3>3, <3>5, MountAdded
  <2> QED BY <2>1, <2>3, <2>4
<1>4. CASE StageReady(i)
  <2> DEFINE v == rpc[i].vol
             s == [Entry(i, v) EXCEPT !.ready = TRUE]
  <2>1. /\ rpc[i].at = "ready" /\ Save(i, v, s) /\ Finish(i) /\ mounts' = mounts
    BY <1>4 DEF StageReady, At
  <2>2. v \in DOMAIN journal[i] /\ journal[i][v] \in JournalEntry
    <3>1. Staged(i, v)
      BY <1>0, <2>1 DEF NodeOK, JournalAsSeen, StagePoint
    <3> QED BY <1>0, <3>1, EntryTyped DEF Staged, Entry
  <2>3. s.path = journal[i][v].path /\ s.targets = journal[i][v].targets
    BY <2>2 DEF Entry, JournalEntry
  <2>4. journal'[i] = With(journal[i], v, s)
    <3>1. journal \in [VM -> JournalTable]
      BY <1>0 DEF NodeType
    <3> QED BY <2>1, <3>1 DEF Save
  <2> HIDE DEF s, v
  <2>5. \A w \in DOMAIN journal[i] :
          /\ journal'[i][w].path = journal[i][w].path
          /\ journal'[i][w].targets = journal[i][w].targets
    BY <2>3, <2>4 DEF With
  <2>6. \A p \in DOMAIN mounts[i] : mounts[i][p].vol \in DOMAIN journal[i]
    BY <1>0 DEF NodeOK, MountsListed, Staged
  <2>7. \A p \in DOMAIN mounts[i] : mounts[i][p].source # Device =>
          journal[i][mounts[i][p].vol].path \in DOMAIN mounts[i]
    BY DEF SourceOK, MountSourced, MountedFrom, Mounted, Entry
  <2>8. \A p \in DOMAIN mounts'[i] : MountSourced(i, p)'
    BY <1>0, <2>1, <2>5, <2>6, <2>7, SourcesStay
  <2>9. rpc'[i].at = "idle"
    BY <1>0, <2>1, Ends DEF NoRPC
  <2> QED BY <2>8, <2>9 DEF SourceOK, TargetAsSeen
<1> QED BY <1>1, <1>2, <1>3, <1>4 DEF StageStep

\* An entry replaced by one that keeps the mounted targets.
LEMMA SavedSources ==
  ASSUME NodeType, NEW i \in VM, NodeOK(i), SourceOK(i), TargetAsSeen(i)',
         NEW v, NEW s, v \in DOMAIN journal[i], Save(i, v, s), mounts' = mounts,
         s.path = journal[i][v].path,
         \A p \in DOMAIN mounts[i] : p \in DOMAIN journal[i][v].targets =>
           /\ p \in DOMAIN s.targets
           /\ s.targets[p] = journal[i][v].targets[p]
  PROVE  SourceOK(i)'
<1>1. journal'[i] = With(journal[i], v, s)
  <2>1. journal \in [VM -> JournalTable]
    BY DEF NodeType
  <2> QED BY <2>1 DEF Save
<1>2. /\ journal'[i][v] = s
      /\ \A w \in DOMAIN journal[i] : w # v => journal'[i][w] = journal[i][w]
  BY <1>1 DEF With
<1>3. \A p \in DOMAIN mounts[i] : mounts[i][p].vol \in DOMAIN journal[i]
  BY DEF NodeOK, MountsListed, Staged
<1>4. \A p \in DOMAIN mounts[i] : mounts[i][p].source # Device =>
        journal[i][mounts[i][p].vol].path \in DOMAIN mounts[i]
  BY DEF SourceOK, MountSourced, MountedFrom, Mounted, Entry
<1>5. \A p \in DOMAIN mounts'[i] : MountSourced(i, p)'
  BY <1>2, <1>3, <1>4, SourcesStay
<1> QED BY <1>5 DEF SourceOK

\* NodePublishVolume's.
LEMMA PublishSources ==
  ASSUME NodeInv, NEW i \in VM, SourceOK(i), PublishStep(i)
  PROVE  SourceOK(i)'
<1>0. NodeType /\ NodeOK(i)
  BY DEF NodeInv
<1>1. CASE PublishAnnounce(i)
  <2>1. /\ journal' = journal /\ mounts' = mounts /\ rpc[i].at = "announce"
        /\ Finish(i) \/ Continue(i, "track")
    BY <1>1 DEF PublishAnnounce, At
  <2>2. TargetAsSeen(i)'
    BY <1>0, <2>1, EndsSeen, PointSeen DEF PublishPoint
  <2> QED BY <1>0, <2>1, <2>2, SourcesSame
<1>2. CASE PublishTrack(i)
  <2> DEFINE v == rpc[i].vol
             x == rpc[i].target
             t == With(Entry(i, v).targets, x, rpc[i].conf)
             s == [Entry(i, v) EXCEPT !.targets = t]
  <2>1. /\ rpc[i].at = "track" /\ Save(i, v, s) /\ Continue(i, "bind")
        /\ mounts' = mounts
    BY <1>2 DEF PublishTrack, At
  <2>2. v \in DOMAIN journal[i] /\ journal[i][v] \in JournalEntry
    <3>1. Staged(i, v)
      BY <1>0, <2>1 DEF NodeOK, JournalAsSeen, PublishPoint
    <3> QED BY <1>0, <3>1, EntryTyped DEF Staged, Entry
  <2>3. /\ x \in DOMAIN t /\ t[x] = rpc[i].conf
        /\ \A p \in DOMAIN journal[i][v].targets :
             p \in DOMAIN t /\ t[p] = journal[i][v].targets[p]
    BY <2>1 DEF With, Entry, SourceOK, TargetAsSeen
  <2> HIDE DEF t
  <2>4. s.path = journal[i][v].path /\ s.targets = t
    BY <2>2 DEF Entry, JournalEntry
  <2> HIDE DEF s
  <2>5. rpc'[i].at = "bind" /\ rpc'[i].vol = v /\ rpc'[i].target = x
        /\ rpc'[i].conf = rpc[i].conf
    BY <1>0, <2>1, Continues DEF PublishPoint
  <2>6. TargetAsSeen(i)'
    <3>1. journal'[i][v] = s
      <4>1. journal \in [VM -> JournalTable]
        BY <1>0 DEF NodeType
      <4> QED BY <2>1, <4>1 DEF Save, With
    <3> QED BY <2>3, <2>4, <2>5, <3>1 DEF TargetAsSeen, Entry
  <2> HIDE DEF v, x
  <2> QED BY <1>0, <2>1, <2>2, <2>3, <2>4, <2>6, SavedSources
<1>3. CASE PublishBind(i)
  <2> DEFINE v == rpc[i].vol
             target == rpc[i].target
             m == [vol |-> v, source |-> rpc[i].path, conf |-> rpc[i].conf]
  <2>1. /\ rpc[i].at = "bind" /\ journal' = journal /\ Finish(i)
        /\ \/ mounts' = mounts
           \/ /\ SetMount(i, target, m) /\ ~Mounted(i, target)
              /\ MountedFrom(i, rpc[i].path, v)
    BY <1>3 DEF PublishBind, At
  <2>2. TargetAsSeen(i)'
    BY <1>0, <2>1, EndsSeen
  <2>3. CASE mounts' = mounts
    BY <1>0, <2>1, <2>2, <2>3, SourcesSame
  <2>4. CASE /\ SetMount(i, target, m) /\ ~Mounted(i, target)
             /\ MountedFrom(i, rpc[i].path, v)
    <3>1. PICK t : t = target
      OBVIOUS
    <3>2. PICK n : n = m
      OBVIOUS
    <3>3. rpc[i].path \in Path
      BY <1>0, <2>1, Shapes DEF PublishPoint, PublishRPC
    <3>4. /\ Entry(i, n.vol).path = n.source /\ n.source # Device
          /\ t \in DOMAIN Entry(i, n.vol).targets
          /\ n.conf = Entry(i, n.vol).targets[t]
          /\ MountedFrom(i, n.source, n.vol)
      BY <1>0, <2>1, <2>4, <3>1, <3>2, <3>3, NodeAgentAssumption
         DEF NodeOK, JournalAsSeen, PublishPoint, match, SourceOK, TargetAsSeen
    <3>5. SetMount(i, t, n) /\ ~Mounted(i, t)
      BY <2>4, <3>1, <3>2
    <3> HIDE DEF m, target, v
    <3>6. /\ DOMAIN mounts'[i] = DOMAIN mounts[i] \cup {t} /\ mounts'[i][t] = n
          /\ \A p \in DOMAIN mounts[i] : mounts'[i][p] = mounts[i][p]
      <4>1. mounts'[i] = With(mounts[i], t, n)
        BY <1>0, <3>5, MountTableWith
      <4> QED BY <3>5, <4>1 DEF With, Mounted
    <3> QED BY <2>1, <2>2, <3>4, <3>6, MountAdded
  <2> QED BY <2>1, <2>3, <2>4
<1> QED BY <1>1, <1>2, <1>3 DEF PublishStep

\* A mount that is taken away, with none bound from it left.
LEMMA MountTaken ==
  ASSUME NodeType, NEW i \in VM, NodeOK(i), SourceOK(i), TargetAsSeen(i)',
         journal' = journal, NEW x, RemoveMount(i, x),
         \A p \in DOMAIN mounts[i] :
           mounts[i][p].source # Device => Entry(i, mounts[i][p].vol).path # x
  PROVE  SourceOK(i)'
<1>1. /\ DOMAIN mounts'[i] = DOMAIN mounts[i] \ {x}
      /\ \A p \in DOMAIN mounts'[i] : mounts'[i][p] = mounts[i][p]
  BY MountTableWithout
<1>2. \A p \in DOMAIN mounts[i] : mounts[i][p].source # Device =>
        journal[i][mounts[i][p].vol].path \in DOMAIN mounts'[i]
  BY <1>1 DEF SourceOK, MountSourced, MountedFrom, Mounted, Entry
<1>3. \A p \in DOMAIN mounts'[i] : MountSourced(i, p)'
  BY <1>1, <1>2, SourcesStay
<1> QED BY <1>3 DEF SourceOK

\* NodeUnpublishVolume's and NodeUnstageVolume's.
LEMMA CleanUpSources ==
  ASSUME NodeInv, NEW i \in VM, JournalOK(i), SourceOK(i),
         UnpublishStep(i) \/ UnstageStep(i)
  PROVE  SourceOK(i)'
<1>0. NodeType /\ NodeOK(i)
  BY DEF NodeInv
<1>1. \A p \in DOMAIN mounts[i] : Staged(i, mounts[i][p].vol)
  BY <1>0 DEF NodeOK, MountsListed
<1>2. CASE UnpublishUnmount(i)
  <2>1. /\ rpc[i].at = "unbind" /\ journal' = journal /\ Continue(i, "untrack")
        /\ RemoveMount(i, rpc[i].target)
    BY <1>2 DEF UnpublishUnmount, At
  <2>2. TargetAsSeen(i)'
    BY <1>0, <2>1, PointSeen DEF UnpublishPoint
  <2>3. /\ Staged(i, rpc[i].vol)
        /\ rpc[i].target \in DOMAIN Entry(i, rpc[i].vol).targets
    BY <1>0, <2>1 DEF NodeOK, JournalAsSeen, UnpublishPoint, SourceOK, TargetAsSeen
  <2>4. \A w \in DOMAIN journal[i] : Entry(i, w).path # rpc[i].target
    BY <2>3 DEF JournalOK, PathsOwned, Staged
  <2> QED BY <1>0, <1>1, <2>1, <2>2, <2>4, MountTaken DEF Staged
<1>3. CASE UnpublishUntrack(i)
  <2> DEFINE v == rpc[i].vol
             t == Without(Entry(i, v).targets, rpc[i].target)
             s == [Entry(i, v) EXCEPT !.targets = t]
  <2>1. /\ rpc[i].at = "untrack" /\ Save(i, v, s) /\ Finish(i) /\ mounts' = mounts
    BY <1>3 DEF UnpublishUntrack, At
  <2>2. v \in DOMAIN journal[i] /\ journal[i][v] \in JournalEntry
    <3>1. Staged(i, v)
      BY <1>0, <2>1 DEF NodeOK, JournalAsSeen, UnpublishPoint
    <3> QED BY <1>0, <3>1, EntryTyped DEF Staged, Entry
  <2>3. rpc[i].target \notin DOMAIN mounts[i]
    BY <1>0, <2>1 DEF NodeOK, JournalAsSeen, Mounted
  <2>4. \A p \in DOMAIN mounts[i] : p \in DOMAIN journal[i][v].targets =>
          p \in DOMAIN t /\ t[p] = journal[i][v].targets[p]
    BY <2>3 DEF Without, Restrict, Entry
  <2> HIDE DEF t
  <2>5. s.path = journal[i][v].path /\ s.targets = t
    BY <2>2 DEF Entry, JournalEntry
  <2> HIDE DEF s, v
  <2>6. TargetAsSeen(i)'
    <3>1. rpc'[i].at = "idle"
      BY <1>0, <2>1, Ends DEF NoRPC
    <3> QED BY <3>1 DEF TargetAsSeen
  <2> QED BY <1>0, <2>1, <2>2, <2>4, <2>5, <2>6, SavedSources
<1>4. CASE UnstageUnmount(i)
  <2>1. /\ rpc[i].at = "unmount" /\ journal' = journal /\ Continue(i, "release")
        /\ RemoveMount(i, rpc[i].path)
    BY <1>4 DEF UnstageUnmount, At
  <2>2. TargetAsSeen(i)'
    BY <1>0, <2>1, PointSeen DEF UnstagePoint
  <2>3. /\ Staged(i, rpc[i].vol) /\ Entry(i, rpc[i].vol).path = rpc[i].path
        /\ DOMAIN Entry(i, rpc[i].vol).targets = {}
    BY <1>0, <2>1 DEF NodeOK, JournalAsSeen, UnstagePoint
  <2>4. \A w \in DOMAIN journal[i] : w # rpc[i].vol => Entry(i, w).path # rpc[i].path
    BY <2>3 DEF JournalOK, PathsOwned, Staged
  <2>5. \A p \in DOMAIN mounts[i] :
          mounts[i][p].source # Device => mounts[i][p].vol # rpc[i].vol
    BY <2>3 DEF SourceOK, MountSourced
  <2> QED BY <1>0, <1>1, <2>1, <2>2, <2>4, <2>5, MountTaken DEF Staged
<1>5. CASE UnstageRelease(i)
  <2>1. /\ rpc[i].at = "release" /\ journal' = journal /\ Continue(i, "forget")
        /\ mounts' = mounts
    BY <1>5 DEF UnstageRelease, At
  <2>2. TargetAsSeen(i)'
    BY <1>0, <2>1, PointSeen DEF UnstagePoint
  <2> QED BY <1>0, <2>1, <2>2, SourcesSame
<1>6. CASE UnstageForget(i)
  <2>1. rpc[i].at = "forget" /\ Finish(i) /\ mounts' = mounts
    BY <1>6 DEF UnstageForget, At
  <2>2. NoMountOf(i, rpc[i].vol)
    BY <1>0, <2>1 DEF NodeOK, JournalAsSeen
  <2>3. \A w \in DOMAIN journal[i] : w # rpc[i].vol => journal'[i][w] = journal[i][w]
    <3>1. journal'[i] = Without(journal[i], rpc[i].vol)
      <4>1. journal \in [VM -> JournalTable]
        BY <1>0 DEF NodeType
      <4> QED BY <1>6, <4>1 DEF UnstageForget
    <3> QED BY <3>1 DEF Without, Restrict
  <2>4. \A p \in DOMAIN mounts[i] :
          journal'[i][mounts[i][p].vol] = journal[i][mounts[i][p].vol]
    BY <1>1, <2>2, <2>3 DEF NoMountOf, Staged
  <2>5. \A p \in DOMAIN mounts[i] : mounts[i][p].source # Device =>
          journal[i][mounts[i][p].vol].path \in DOMAIN mounts[i]
    BY DEF SourceOK, MountSourced, MountedFrom, Mounted, Entry
  <2>6. \A p \in DOMAIN mounts'[i] : MountSourced(i, p)'
    BY <1>0, <2>1, <2>4, <2>5, SourcesStay
  <2>7. rpc'[i].at = "idle"
    BY <1>0, <2>1, Ends DEF NoRPC
  <2> QED BY <2>6, <2>7 DEF SourceOK, TargetAsSeen
<1> QED BY <1>2, <1>3, <1>4, <1>5, <1>6 DEF UnpublishStep, UnstageStep

\* An RPC begins with what the journal says of its target.
LEMMA BeginSources ==
  ASSUME NodeInv, NEW i \in VM, SourceOK(i), KubeletCall(i)
  PROVE  SourceOK(i)'
<1>0. NodeOK(i) /\ rpc \in [VM -> RPC]
  BY DEF NodeInv, NodeType
<1>1. ASSUME NEW v, NEW path, NEW g, StageBegin(i, v, path, g)
      PROVE  TargetAsSeen(i)' /\ journal' = journal /\ mounts' = mounts
  <2>1. rpc'[i].at = "acquire"
    BY <1>0, <1>1 DEF StageBegin, Start
  <2> QED BY <1>1, <2>1 DEF StageBegin, TargetAsSeen
<1>2. ASSUME NEW v, NEW path, NEW g, NEW target, NEW conf,
             PublishBegin(i, v, path, g, target, conf)
      PROVE  TargetAsSeen(i)' /\ journal' = journal /\ mounts' = mounts
  <2>1. /\ rpc'[i].at = "announce" /\ rpc'[i].vol = v /\ rpc'[i].target = target
        /\ rpc'[i].conf = conf /\ journal' = journal
    BY <1>0, <1>2 DEF PublishBegin, Start
  <2> QED BY <1>2, <2>1 DEF PublishBegin, TargetAsSeen, Entry
<1>3. ASSUME NEW v, NEW path, UnpublishBegin(i, v, path)
      PROVE  TargetAsSeen(i)' /\ journal' = journal /\ mounts' = mounts
  <2>1. /\ rpc'[i].at = "unbind" /\ rpc'[i].vol = v /\ rpc'[i].target = path
        /\ journal' = journal
    BY <1>0, <1>3 DEF UnpublishBegin, Start
  <2> QED BY <1>3, <2>1 DEF UnpublishBegin, TargetAsSeen, Entry
<1>4. ASSUME NEW v, NEW path, UnstageBegin(i, v, path)
      PROVE  TargetAsSeen(i)' /\ journal' = journal /\ mounts' = mounts
  <2>1. rpc'[i].at = "unmount"
    BY <1>0, <1>4 DEF UnstageBegin, Start
  <2> QED BY <1>4, <2>1 DEF UnstageBegin, TargetAsSeen
<1>5. TargetAsSeen(i)' /\ journal' = journal /\ mounts' = mounts
  BY <1>1, <1>2, <1>3, <1>4 DEF KubeletCall
<1> QED BY <1>0, <1>5, SourcesSame

\* Every step keeps the sources.
LEMMA SourceStep ==
  ASSUME NodeInv, JournalInv, SourceInv, [Next]_vars
  PROVE  SourceInv'
<1> SUFFICES ASSUME NEW j \in VM PROVE SourceOK(j)'
  BY DEF SourceInv
<1>1. NodeType /\ NodeOK(j) /\ JournalOK(j) /\ SourceOK(j)
  BY DEF NodeInv, JournalInv, SourceInv
<1>2. ASSUME NEW i \in VM, KubeletCall(i) \/ RPCStep(i) PROVE SourceOK(j)'
  <2>1. CASE i = j
    BY <1>1, <1>2, <2>1, BeginSources, StageSources, PublishSources, CleanUpSources
       DEF RPCStep
  <2>2. CASE i # j
    BY <1>1, <1>2, <2>2, OthersStay, SourcesIdle
  <2> QED BY <2>1, <2>2
<1>3. ASSUME NEW i \in VM, Break(i) \/ TimeOut(i) PROVE SourceOK(j)'
  <2>1. Finish(i) /\ journal' = journal /\ mounts' = mounts
    BY <1>3 DEF Break, TimeOut
  <2>2. rpc'[j] = rpc[j] \/ rpc'[j] = NoRPC
    BY <1>1, <2>1, Ends
  <2> QED BY <1>1, <2>1, <2>2, SourcesIdle
<1>4. ASSUME NEW i \in VM, Reboot(i) PROVE SourceOK(j)'
  <2>1. /\ Finish(i) /\ journal' = journal
        /\ mounts' = [mounts EXCEPT ![i] = NoEntries]
    BY <1>4 DEF Reboot
  <2>2. /\ rpc'[j] = rpc[j] \/ rpc'[j] = NoRPC
        /\ mounts'[j] = mounts[j] \/ (j = i /\ mounts'[j] = NoEntries)
    BY <1>1, <2>1, Ends, SetMounts
  <2>3. CASE mounts'[j] = mounts[j]
    BY <1>1, <2>1, <2>2, <2>3, SourcesIdle
  <2>4. CASE j = i /\ mounts'[j] = NoEntries
    <3>1. TargetAsSeen(j)'
      BY <1>1, <2>1, <2>4, EndsSeen
    <3>2. DOMAIN mounts'[j] = {}
      BY <2>4 DEF NoEntries
    <3> QED BY <3>1, <3>2 DEF SourceOK
  <2> QED BY <2>2, <2>3, <2>4
<1>5. CASE \/ \E v \in Volume : PlatformStep(v)
           \/ \E q \in late : Deliver(q)
           \/ UNCHANGED vars
  <2>1. journal' = journal /\ rpc' = rpc /\ mounts' = mounts
    BY <1>5 DEF PlatformStep, Grant, TakeDisk, CloseGate, GiveDisk, Retire,
       SetLease, Deliver, vars
  <2> QED BY <1>1, <2>1, SourcesIdle
<1> QED BY <1>2, <1>3, <1>4, <1>5 DEF Next

\* At first nothing is mounted.
LEMMA SourceInit == Init => SourceInv
<1> SUFFICES ASSUME Init, NEW i \in VM PROVE SourceOK(i)
  BY DEF SourceInv
<1>1. DOMAIN mounts[i] = {} /\ rpc[i].at = "idle"
  BY DEF Init, NoRPC, NoEntries
<1> QED BY <1>1 DEF SourceOK, TargetAsSeen

\* Every mount has its entry, and shows what the entry says, for any VMs,
\* volumes and paths, whatever breaks and in whatever order requests take
\* effect: the agent persists its intent before it mounts, and unmounts
\* before it forgets (node.go:118-126, 192-196, 214-224, 253-260).
THEOREM MountTrackedHolds == Spec => []MountTracked
<1>1. NodeInv /\ SourceInv => MountTracked
  BY DEF NodeInv, NodeOK, MountsListed, SourceInv, SourceOK, MountSourced,
     MountTracked
<1> QED BY <1>1, JournalInit, JournalStep, SourceInit, SourceStep,
           NodeInvariantHolds, PTL DEF Spec

\* A published target never outlives the staging mount it shows, since an
\* unstage waits for an entry without targets and no other volume has its
\* path (node.go:105-109, 250-252).
THEOREM TargetOnStageHolds == Spec => []TargetOnStage
<1>1. SourceInv => TargetOnStage
  BY DEF SourceInv, SourceOK, MountSourced, TargetOnStage
<1> QED BY <1>1, JournalInit, JournalStep, SourceInit, SourceStep,
           NodeInvariantHolds, PTL DEF Spec
=============================================================================
