----------------------------- MODULE NodeProofs -----------------------------
(***************************************************************************)
(* The use barrier of the node agents, for every value of the constants:   *)
(* whatever is mounted is mounted under a use on record, and so on one VM. *)
(***************************************************************************)
EXTENDS NodeInvariant, TLAPS

(***************************************************************************)
(* Tables.                                                                 *)
(***************************************************************************)
\* A table is a function on some of its keys.
LEMMA TableIs ==
  ASSUME NEW K, NEW S, NEW f
  PROVE  f \in TableOf(K, S) <=> f \in [DOMAIN f -> S] /\ DOMAIN f \subseteq K
  BY DEF TableOf

\* With adds or replaces an entry (n.save, Simulated.update).
LEMMA WithTable ==
  ASSUME NEW K, NEW S, NEW f \in TableOf(K, S), NEW k \in K, NEW x \in S
  PROVE  /\ With(f, k, x) \in TableOf(K, S)
         /\ DOMAIN With(f, k, x) = DOMAIN f \cup {k}
         /\ With(f, k, x)[k] = x
         /\ \A j \in DOMAIN f : j # k => With(f, k, x)[j] = f[j]
<1>1. f \in [DOMAIN f -> S] /\ DOMAIN f \subseteq K
  BY TableIs
<1>2. /\ With(f, k, x) \in [DOMAIN f \cup {k} -> S]
      /\ DOMAIN With(f, k, x) = DOMAIN f \cup {k}
  BY <1>1 DEF With
<1> QED BY <1>1, <1>2, TableIs DEF With

\* Without deletes one.
LEMMA WithoutTable ==
  ASSUME NEW K, NEW S, NEW f \in TableOf(K, S), NEW k
  PROVE  /\ Without(f, k) \in TableOf(K, S)
         /\ DOMAIN Without(f, k) = DOMAIN f \ {k}
         /\ \A j \in DOMAIN f : j # k => Without(f, k)[j] = f[j]
<1>1. f \in [DOMAIN f -> S] /\ DOMAIN f \subseteq K
  BY TableIs
<1>2. /\ Without(f, k) \in [DOMAIN f \ {k} -> S]
      /\ DOMAIN Without(f, k) = DOMAIN f \ {k}
  BY <1>1 DEF Without, Restrict
<1> QED BY <1>1, <1>2, TableIs DEF Without, Restrict

\* The empty table is one.
LEMMA EmptyTable ==
  ASSUME NEW K, NEW S
  PROVE  NoEntries \in TableOf(K, S) /\ DOMAIN NoEntries = {}
<1>1. NoEntries \in [{} -> S] /\ DOMAIN NoEntries = {}
  BY DEF NoEntries
<1> QED BY <1>1, TableIs

\* One VM's value changes.
LEMMA SetVM ==
  ASSUME NEW S, NEW f \in [VM -> S], NEW i \in VM, NEW x \in S
  PROVE  /\ [f EXCEPT ![i] = x] \in [VM -> S]
         /\ [f EXCEPT ![i] = x][i] = x
         /\ \A j \in VM : j # i => [f EXCEPT ![i] = x][j] = f[j]
  OBVIOUS

(***************************************************************************)
(* What NodeType gives for one entry or RPC.                               *)
(***************************************************************************)
LEMMA EntryTyped ==
  ASSUME NodeType, NEW i \in VM, NEW v, Staged(i, v)
  PROVE  /\ v \in Volume /\ Entry(i, v) \in JournalEntry
         /\ Entry(i, v).path \in Path /\ Entry(i, v).gen \in Nat
         /\ Entry(i, v).targets \in TargetTable
<1>1. journal[i] \in TableOf(Volume, JournalEntry)
  BY DEF NodeType, JournalTable
<1>2. journal[i] \in [DOMAIN journal[i] -> JournalEntry]
      /\ DOMAIN journal[i] \subseteq Volume
  BY <1>1, TableIs
<1>3. v \in Volume /\ Entry(i, v) \in JournalEntry
  BY <1>2 DEF Staged, Entry
<1> QED BY <1>3 DEF JournalEntry

\* The point an RPC has reached tells what it is.
LEMMA Shapes ==
  ASSUME NodeType, NEW i \in VM
  PROVE  /\ rpc[i].at \in StagePoint => rpc[i] \in StageRPC
         /\ rpc[i].at \in PublishPoint => rpc[i] \in PublishRPC
         /\ rpc[i].at \in UnpublishPoint => rpc[i] \in UnpublishRPC
         /\ rpc[i].at \in UnstagePoint => rpc[i] \in UnstageRPC
         /\ rpc[i].at \in ExpandPoint => rpc[i] \in ExpandRPC
         /\ rpc[i].at # "idle" => rpc[i].vol \in Volume
<1>1. rpc[i] \in RPC
  BY DEF NodeType
<1> QED BY <1>1 DEF RPC, StageRPC, PublishRPC, UnpublishRPC, UnstageRPC,
                    ExpandRPC, NoRPC, StagePoint, PublishPoint,
                    UnpublishPoint, UnstagePoint, ExpandPoint

\* It goes on to another point of the same operation, its variables kept.
LEMMA Continues ==
  ASSUME NodeType, NEW i \in VM, NEW p, Continue(i, p),
         \/ rpc[i].at \in StagePoint /\ p \in StagePoint
         \/ rpc[i].at \in PublishPoint /\ p \in PublishPoint
         \/ rpc[i].at \in UnpublishPoint /\ p \in UnpublishPoint
         \/ rpc[i].at \in UnstagePoint /\ p \in UnstagePoint
         \/ rpc[i].at \in ExpandPoint /\ p \in ExpandPoint
  PROVE  /\ rpc' \in [VM -> RPC]
         /\ rpc'[i].at = p /\ rpc'[i].vol = rpc[i].vol
         /\ rpc[i].at \notin UnpublishPoint =>
              rpc'[i].path = rpc[i].path /\ rpc'[i].gen = rpc[i].gen
         /\ rpc[i].at \in PublishPoint \cup UnpublishPoint =>
              rpc'[i].target = rpc[i].target
         /\ rpc[i].at \in PublishPoint => rpc'[i].conf = rpc[i].conf
         /\ \A j \in VM : j # i => rpc'[j] = rpc[j]
<1> DEFINE r == [rpc[i] EXCEPT !.at = p]
<1>1. rpc \in [VM -> RPC] /\ rpc' = [rpc EXCEPT ![i] = r]
  BY DEF NodeType, Continue
<1>2. /\ r \in RPC /\ r.at = p /\ r.vol = rpc[i].vol
      /\ rpc[i].at \notin UnpublishPoint =>
           r.path = rpc[i].path /\ r.gen = rpc[i].gen
      /\ rpc[i].at \in PublishPoint \cup UnpublishPoint =>
           r.target = rpc[i].target
      /\ rpc[i].at \in PublishPoint => r.conf = rpc[i].conf
  <2>1. CASE rpc[i].at \in StagePoint /\ p \in StagePoint
    <3>1. rpc[i] \in StageRPC
      BY <2>1, Shapes
    <3> QED BY <2>1, <3>1 DEF RPC, StageRPC, StagePoint, PublishPoint,
           UnpublishPoint
  <2>2. CASE rpc[i].at \in PublishPoint /\ p \in PublishPoint
    <3>1. rpc[i] \in PublishRPC
      BY <2>2, Shapes
    <3> QED BY <2>2, <3>1 DEF RPC, PublishRPC, PublishPoint, UnpublishPoint
  <2>3. CASE rpc[i].at \in UnpublishPoint /\ p \in UnpublishPoint
    <3>1. rpc[i] \in UnpublishRPC
      BY <2>3, Shapes
    <3> QED BY <2>3, <3>1 DEF RPC, UnpublishRPC, PublishPoint, UnpublishPoint
  <2>4. CASE rpc[i].at \in UnstagePoint /\ p \in UnstagePoint
    <3>1. rpc[i] \in UnstageRPC
      BY <2>4, Shapes
    <3> QED BY <2>4, <3>1 DEF RPC, UnstageRPC, UnstagePoint, PublishPoint,
           UnpublishPoint
  <2>5. CASE rpc[i].at \in ExpandPoint /\ p \in ExpandPoint
    <3>1. rpc[i] \in ExpandRPC
      BY <2>5, Shapes
    <3> QED BY <2>5, <3>1 DEF RPC, ExpandRPC, ExpandPoint, PublishPoint,
           UnpublishPoint
  <2> QED BY <2>1, <2>2, <2>3, <2>4, <2>5
<1> HIDE DEF r
<1>3. rpc'[i] = r /\ rpc' \in [VM -> RPC] /\ \A j \in VM : j # i => rpc'[j] = rpc[j]
  BY <1>1, <1>2
<1> QED BY <1>2, <1>3

\* It ends.
LEMMA Ends ==
  ASSUME NodeType, NEW i \in VM, Finish(i)
  PROVE  /\ rpc' \in [VM -> RPC] /\ rpc'[i] = NoRPC
         /\ \A j \in VM : j # i => rpc'[j] = rpc[j]
<1>1. NoRPC \in RPC /\ rpc \in [VM -> RPC]
  BY DEF NodeType, RPC
<1> QED BY <1>1 DEF Finish

\* One begins.
LEMMA Starts ==
  ASSUME NodeType, NEW i \in VM, NEW r \in RPC, Start(i, r)
  PROVE  /\ rpc[i].at = "idle"
         /\ rpc' \in [VM -> RPC] /\ rpc'[i] = r
         /\ \A j \in VM : j # i => rpc'[j] = rpc[j]
<1>1. rpc \in [VM -> RPC]
  BY DEF NodeType
<1> QED BY <1>1 DEF Start, At

(***************************************************************************)
(* Frames.                                                                 *)
(***************************************************************************)
\* Neither a new late release of a VM, nor a loss of what its uses rest on.
Undisturbed(j) ==
  /\ \A q \in late' : q.from = j /\ q.op = "ReleaseUse" => q \in late
  /\ \A v \in Volume, path \in Path, g \in Nat :
       Backed(lease[v], j, path, g) => Backed(lease[v]', j, path, g)

\* A VM whose journal and mounts stay keeps its mounts in order.
LEMMA MountsStay ==
  ASSUME NodeType, NEW j \in VM, NodeOK(j), Undisturbed(j),
         journal'[j] = journal[j], mounts'[j] = mounts[j]
  PROVE  MountsBacked(j)' /\ MountsListed(j)' /\ LateIsHarmless(j)'
<1>1. MountsBacked(j)'
  <2> SUFFICES ASSUME ReleasesInOrder, NEW path \in DOMAIN mounts[j]
               PROVE  LET v == mounts[j][path].vol
                      IN /\ Staged(j, v)
                         /\ Backed(lease[v]', j, Entry(j, v).path, Entry(j, v).gen)
    BY DEF MountsBacked, Staged, Entry, Backed
  <2> DEFINE v == mounts[j][path].vol
  <2>1. Staged(j, v) /\ Backed(lease[v], j, Entry(j, v).path, Entry(j, v).gen)
    BY DEF NodeOK, MountsBacked
  <2>2. v \in Volume /\ Entry(j, v).path \in Path /\ Entry(j, v).gen \in Nat
    BY <2>1, EntryTyped
  <2> QED BY <2>1, <2>2 DEF Undisturbed
<1>2. MountsListed(j)'
  BY DEF NodeOK, MountsListed, Staged, Entry
<1>3. LateIsHarmless(j)'
  BY DEF NodeOK, LateIsHarmless, NoMountOf, Undisturbed
<1> QED BY <1>1, <1>2, <1>3

\* A VM on which nothing happens stays as it is.
LEMMA Bystander ==
  ASSUME NodeType, NEW j \in VM, NodeOK(j), Undisturbed(j),
         journal'[j] = journal[j], mounts'[j] = mounts[j], rpc'[j] = rpc[j]
  PROVE  NodeOK(j)'
<1>1. JournalAsSeen(j)'
  BY DEF NodeOK, JournalAsSeen, UnstagePoint, Staged, Entry, match,
     MountedFrom, Mounted,
         NoMountOf
<1>2. PromiseHolds(j)'
  <2> SUFFICES ASSUME ReleasesInOrder, rpc[j].at \in Relying
               PROVE  /\ Backed(lease[rpc[j].vol]', j, rpc[j].path, rpc[j].gen)
                      /\ \A q \in late' : q.from = j => q.op # "ReleaseUse"
    BY DEF PromiseHolds, Backed
  <2>1. /\ Backed(lease[rpc[j].vol], j, rpc[j].path, rpc[j].gen)
        /\ \A q \in late : q.from = j => q.op # "ReleaseUse"
    BY DEF NodeOK, PromiseHolds
  <2>2. rpc[j].vol \in Volume /\ rpc[j].path \in Path /\ rpc[j].gen \in Nat
    <3>1. rpc[j] \in StageRPC \/ rpc[j] \in PublishRPC
      BY Shapes DEF Relying, StagePoint, PublishPoint
    <3> QED BY <3>1 DEF StageRPC, PublishRPC
  <2> QED BY <2>1, <2>2 DEF Undisturbed
<1> QED BY <1>1, <1>2, MountsStay DEF NodeOK

\* A step of one VM is about that VM.
LEMMA OneVM ==
  ASSUME NodeInv, NEW i \in VM, NodeType', NodeOK(i)',
         \A j \in VM : j # i =>
           /\ Undisturbed(j) /\ rpc'[j] = rpc[j]
           /\ journal'[j] = journal[j] /\ mounts'[j] = mounts[j]
  PROVE  NodeInv'
<1> SUFFICES ASSUME NEW j \in VM
             PROVE  NodeOK(j)'
  BY DEF NodeInv
<1>1. CASE j = i
  BY <1>1
<1>2. CASE j # i
  BY <1>2, Bystander DEF NodeInv
<1> QED BY <1>1, <1>2

\* An RPC that has ended relies on nothing.
LEMMA Idle ==
  ASSUME NEW i \in VM, rpc'[i] = NoRPC
  PROVE  JournalAsSeen(i)' /\ PromiseHolds(i)'
<1>1. rpc'[i].at = "idle"
  BY DEF NoRPC
<1> QED BY <1>1 DEF JournalAsSeen, PromiseHolds, Relying, StagePoint,
                    PublishPoint, UnpublishPoint, UnstagePoint

\* An entry replaced by one of the same path and generation, which tracks at
\* least the same targets, keeps the mounts in order.
LEMMA EntryKept ==
  ASSUME NodeType, NEW i \in VM, NodeOK(i), Undisturbed(i),
         NEW v \in Volume, NEW s \in JournalEntry,
         journal'[i] = With(journal[i], v, s), mounts'[i] = mounts[i],
         Staged(i, v) =>
           /\ s.path = Entry(i, v).path /\ s.gen = Entry(i, v).gen
           /\ \A path \in DOMAIN mounts[i] :
                /\ mounts[i][path].vol = v
                /\ path \in DOMAIN Entry(i, v).targets
                => path \in DOMAIN s.targets
  PROVE  MountsBacked(i)' /\ MountsListed(i)' /\ LateIsHarmless(i)'
<1>1. /\ DOMAIN journal'[i] = DOMAIN journal[i] \cup {v}
      /\ journal'[i][v] = s
      /\ \A w \in DOMAIN journal[i] : w # v => journal'[i][w] = journal[i][w]
  BY DEF With
<1>2. \A w : Staged(i, w) => /\ Staged(i, w)'
                             /\ Entry(i, w)'.path = Entry(i, w).path
                             /\ Entry(i, w)'.gen = Entry(i, w).gen
  BY <1>1 DEF Staged, Entry
<1>3. MountsBacked(i)'
  <2> SUFFICES ASSUME ReleasesInOrder, NEW path \in DOMAIN mounts[i]
               PROVE  LET w == mounts[i][path].vol
                      IN /\ Staged(i, w)'
                         /\ Backed(lease[w]', i, Entry(i, w)'.path, Entry(i, w)'.gen)
    BY DEF MountsBacked, Backed
  <2> DEFINE w == mounts[i][path].vol
  <2>1. Staged(i, w) /\ Backed(lease[w], i, Entry(i, w).path, Entry(i, w).gen)
    BY DEF NodeOK, MountsBacked
  <2>2. w \in Volume /\ Entry(i, w).path \in Path /\ Entry(i, w).gen \in Nat
    BY <2>1, EntryTyped
  <2> QED BY <1>2, <2>1, <2>2 DEF Undisturbed
<1>4. MountsListed(i)'
  <2> SUFFICES ASSUME NEW path \in DOMAIN mounts[i]
               PROVE  LET w == mounts[i][path].vol
                      IN /\ Staged(i, w)'
                         /\ \/ path = Entry(i, w)'.path
                            \/ path \in DOMAIN Entry(i, w)'.targets
    BY DEF MountsListed
  <2> DEFINE w == mounts[i][path].vol
  <2>1. Staged(i, w) /\ (path = Entry(i, w).path \/ path \in DOMAIN Entry(i, w).targets)
    BY DEF NodeOK, MountsListed
  <2> QED BY <1>1, <1>2, <2>1 DEF Staged, Entry
<1>5. LateIsHarmless(i)'
  BY DEF NodeOK, LateIsHarmless, NoMountOf, Undisturbed
<1> QED BY <1>3, <1>4, <1>5

\* A mount made at a listed path, under a use on record and with no release
\* of the VM on its way, is in order.
LEMMA MountMade ==
  ASSUME NodeType, NEW i \in VM, NodeOK(i),
         NEW path, NEW m,
         mounts'[i] = With(mounts[i], path, m),
         UNCHANGED lease, UNCHANGED journal, UNCHANGED late,
         Staged(i, m.vol),
         ReleasesInOrder =>
           /\ Backed(lease[m.vol], i, Entry(i, m.vol).path, Entry(i, m.vol).gen)
           /\ \A q \in late : q.from = i /\ q.vol = m.vol => q.op # "ReleaseUse",
         path = Entry(i, m.vol).path \/ path \in DOMAIN Entry(i, m.vol).targets
  PROVE  MountsBacked(i)' /\ MountsListed(i)' /\ LateIsHarmless(i)'
<1>1. /\ DOMAIN mounts'[i] = DOMAIN mounts[i] \cup {path}
      /\ mounts'[i][path] = m
      /\ \A p \in DOMAIN mounts[i] : p # path => mounts'[i][p] = mounts[i][p]
  BY DEF With
<1>2. \A p \in DOMAIN mounts'[i] :
        mounts'[i][p] = m \/ (p \in DOMAIN mounts[i] /\ mounts'[i][p] = mounts[i][p])
  BY <1>1
<1>3. MountsBacked(i)'
  BY <1>2 DEF NodeOK, MountsBacked, Staged, Entry, Backed
<1>4. MountsListed(i)'
  BY <1>1 DEF NodeOK, MountsListed, Staged, Entry
<1>5. LateIsHarmless(i)'
  <2> SUFFICES ASSUME ReleasesInOrder,
                      NEW q \in late, q.from = i, q.op = "ReleaseUse",
                      NEW p \in DOMAIN mounts'[i]
               PROVE  mounts'[i][p].vol # q.vol
    BY DEF LateIsHarmless, NoMountOf
  <2> QED BY <1>2 DEF NodeOK, LateIsHarmless, NoMountOf
<1> QED BY <1>3, <1>4, <1>5

\* Mounts that go disturb nothing.
LEMMA MountsGo ==
  ASSUME NodeType, NEW i \in VM, NodeOK(i),
         DOMAIN mounts'[i] \subseteq DOMAIN mounts[i],
         \A p \in DOMAIN mounts'[i] : mounts'[i][p] = mounts[i][p],
         UNCHANGED lease, UNCHANGED journal, UNCHANGED late
  PROVE  MountsBacked(i)' /\ MountsListed(i)' /\ LateIsHarmless(i)'
<1>1. MountsBacked(i)'
  BY DEF NodeOK, MountsBacked, Staged, Entry, Backed
<1>2. MountsListed(i)'
  BY DEF NodeOK, MountsListed, Staged, Entry
<1>3. LateIsHarmless(i)'
  BY DEF NodeOK, LateIsHarmless, NoMountOf
<1> QED BY <1>1, <1>2, <1>3

\* A step of one VM that changes nothing but its RPC.
LEMMA OnlyRPC ==
  ASSUME NodeInv, NEW i \in VM,
         UNCHANGED <<lease, journal, mounts, late>>,
         rpc' \in [VM -> RPC], \A j \in VM : j # i => rpc'[j] = rpc[j],
         JournalAsSeen(i)', PromiseHolds(i)'
  PROVE  NodeInv'
<1>1. NodeType'
  BY DEF NodeInv, NodeType
<1>2. \A j \in VM : Undisturbed(j)
  BY DEF Undisturbed
<1>3. NodeOK(i)'
  BY <1>2, MountsStay DEF NodeInv, NodeOK
<1> QED BY <1>1, <1>2, <1>3, OneVM

\* One that changes its journal besides,
LEMMA OnlyJournal ==
  ASSUME NodeInv, NEW i \in VM,
         UNCHANGED <<lease, mounts, late>>,
         journal' \in [VM -> JournalTable],
         rpc' \in [VM -> RPC],
         \A j \in VM : j # i => rpc'[j] = rpc[j] /\ journal'[j] = journal[j],
         NodeOK(i)'
  PROVE  NodeInv'
<1>1. NodeType'
  BY DEF NodeInv, NodeType
<1>2. \A j \in VM : Undisturbed(j)
  BY DEF Undisturbed
<1> QED BY <1>1, <1>2, OneVM

\* or its mounts.
LEMMA OnlyMounts ==
  ASSUME NodeInv, NEW i \in VM,
         UNCHANGED <<lease, journal, late>>,
         mounts' = [j \in VM |-> mounts'[j]],
         rpc' \in [VM -> RPC],
         \A j \in VM : j # i => rpc'[j] = rpc[j] /\ mounts'[j] = mounts[j],
         NodeOK(i)'
  PROVE  NodeInv'
<1>1. NodeType'
  BY DEF NodeInv, NodeType
<1>2. \A j \in VM : Undisturbed(j)
  BY DEF Undisturbed
<1> QED BY <1>1, <1>2, OneVM

(***************************************************************************)
(* The leases.                                                             *)
(***************************************************************************)
\* While it waits for a late request, the agent sends none.
LEMMA NoLateRelease ==
  ASSUME NodeInv, ReleasesInOrder, NEW i \in VM, MaySend(i)
  PROVE  \A q \in late : q.from = i => q.op # "ReleaseUse"
  BY DEF NodeInv, NodeType, ReleasesInOrder, MaySend

\* What a request of the API leaves of the leases: a use is lost only by its
\* holder's own release.
LEMMA ExecutedLeases ==
  ASSUME NodeType, NEW q \in LateRequest
  PROVE  /\ Executed(q) \in [Volume -> LeaseRecord]
         /\ \A v \in Volume : v # q.vol => Executed(q)[v] = lease[v]
         /\ \A j \in VM, v \in Volume, path \in Path, g \in Nat :
              /\ Backed(lease[v], j, path, g)
              /\ ~(q.op = "ReleaseUse" /\ q.from = j /\ q.vol = v)
              => Backed(Executed(q)[v], j, path, g)
         /\ q.op = "AcquireUse" /\ AcquireGranted(q) =>
              Backed(Executed(q)[q.vol], q.from, q.path, q.gen)
<1>1. /\ lease \in [Volume -> LeaseRecord]
      /\ q.vol \in Volume /\ q.path \in Path /\ q.gen \in Nat
      /\ q.op \in {"AcquireUse", "ReleaseUse"} /\ q.from \in VM
  BY DEF NodeType, LateRequest
<1> DEFINE l == lease[q.vol]
           u == useID(q.path, q.gen)
<1>2. l \in LeaseRecord /\ u \in Path \X Nat
  BY <1>1 DEF useID
<1>3. CASE q.op = "AcquireUse" /\ AcquireGranted(q)
  <2>1. Executed(q) = [lease EXCEPT ![q.vol] = Acquired(l, u)]
    BY <1>3 DEF Executed
  <2>2. /\ Acquired(l, u) \in LeaseRecord
        /\ Acquired(l, u).holder = l.holder /\ Acquired(l, u).cloud = l.cloud
        /\ Acquired(l, u).gen = l.gen
        /\ Acquired(l, u).uses = l.uses \cup {u}
    BY <1>2 DEF Acquired, LeaseRecord
  <2>3. l.holder = q.from /\ l.gen = q.gen /\ l.cloud = l.holder
    BY <1>3 DEF AcquireGranted, Holds, CanAcquire
  <2> HIDE DEF l, u
  <2>4. /\ Executed(q) \in [Volume -> LeaseRecord]
        /\ Executed(q)[q.vol] = Acquired(l, u)
        /\ \A v \in Volume : v # q.vol => Executed(q)[v] = lease[v]
    BY <1>1, <2>1, <2>2
  <2>5. Backed(Executed(q)[q.vol], q.from, q.path, q.gen)
    BY <2>2, <2>3, <2>4 DEF Backed, u
  <2>6. \A j \in VM, v \in Volume, path \in Path, g \in Nat :
          Backed(lease[v], j, path, g) => Backed(Executed(q)[v], j, path, g)
    BY <2>2, <2>4 DEF Backed, l
  <2> QED BY <2>4, <2>5, <2>6
<1>4. CASE q.op = "ReleaseUse" /\ Holds(q)
  <2>1. Executed(q) = [lease EXCEPT ![q.vol] = Released(l, u)]
    BY <1>4 DEF Executed
  <2>2. Released(l, u) \in LeaseRecord
    BY <1>2 DEF Released, LeaseRecord
  <2>3. l.holder = q.from
    BY <1>4 DEF Holds
  <2> HIDE DEF l, u
  <2>4. /\ Executed(q) \in [Volume -> LeaseRecord]
        /\ \A v \in Volume : v # q.vol => Executed(q)[v] = lease[v]
    BY <1>1, <2>1, <2>2
  <2>5. \A j \in VM, v \in Volume, path \in Path, g \in Nat :
          /\ Backed(lease[v], j, path, g) /\ ~(q.from = j /\ q.vol = v)
          => Backed(Executed(q)[v], j, path, g)
    BY <2>3, <2>4 DEF Backed, l
  <2> QED BY <1>4, <2>4, <2>5
<1>5. CASE /\ ~(q.op = "AcquireUse" /\ AcquireGranted(q))
           /\ ~(q.op = "ReleaseUse" /\ Holds(q))
  <2>1. Executed(q) = lease
    BY <1>5 DEF Executed
  <2> QED BY <1>1, <1>5, <2>1
<1> QED BY <1>3, <1>4, <1>5

\* The platform's own steps take no use and no used disk.
LEMMA LeaseSet ==
  ASSUME NodeInv, NEW v \in Volume, NEW l \in LeaseRecord, SetLease(v, l),
         \A j \in VM, path \in Path, g \in Nat :
           Backed(lease[v], j, path, g) => Backed(l, j, path, g)
  PROVE  NodeInv'
<1>1. lease \in [Volume -> LeaseRecord]
  BY DEF NodeInv, NodeType
<1>2. /\ lease' \in [Volume -> LeaseRecord] /\ lease'[v] = l
      /\ \A w \in Volume : w # v => lease'[w] = lease[w]
  BY <1>1 DEF SetLease
<1>3. NodeType'
  BY <1>2 DEF NodeInv, NodeType, SetLease
<1>4. \A j \in VM : Undisturbed(j)
  BY <1>2 DEF Undisturbed, SetLease
<1>5. ASSUME NEW j \in VM PROVE NodeOK(j)'
  BY <1>4, Bystander DEF NodeInv, SetLease
<1> QED BY <1>3, <1>5 DEF NodeInv

\* A lease that is granted is a lease.
LEMMA GrantTyped ==
  ASSUME NEW l \in LeaseRecord, NEW i \in VM
  PROVE  Granted(l, i) \in LeaseRecord
<1>1. l.gen + 1 \in Nat
  BY DEF LeaseRecord
<1> QED BY <1>1 DEF LeaseRecord, Granted

\* The platform takes nothing from a VM that has a use.
LEMMA PlatformKeeps ==
  ASSUME NodeInv, NEW v \in Volume, PlatformStep(v)
  PROVE  NodeInv'
<1> DEFINE l == lease[v]
<1>1. l \in LeaseRecord
  BY DEF NodeInv, NodeType
<1>2. ASSUME NEW i \in VM, Grant(v, i) PROVE NodeInv'
  <2>1. Granted(l, i) \in LeaseRecord
    BY <1>1, GrantTyped
  <2>2. \A j \in VM, path \in Path, g \in Nat : ~Backed(l, j, path, g)
    BY <1>2, LeaseAssumption DEF Grant, CanGrant, Backed
  <2> QED BY <1>2, <2>1, <2>2, LeaseSet DEF Grant
<1>3. CASE TakeDisk(v)
  <2>1. DiskTaken(l) \in LeaseRecord
    BY <1>1 DEF LeaseRecord, DiskTaken
  <2>2. \A j \in VM, path \in Path, g \in Nat :
          Backed(l, j, path, g) => Backed(DiskTaken(l), j, path, g)
    BY <1>1 DEF DiskTaken, Backed, LeaseRecord
  <2> QED BY <1>3, <2>1, <2>2, LeaseSet DEF TakeDisk
<1>4. CASE CloseGate(v)
  <2>1. Closed(l) \in LeaseRecord
    BY <1>1 DEF LeaseRecord, Closed
  <2>2. \A j \in VM, path \in Path, g \in Nat :
          Backed(l, j, path, g) => Backed(Closed(l), j, path, g)
    BY <1>1 DEF Closed, Backed, LeaseRecord
  <2> QED BY <1>4, <2>1, <2>2, LeaseSet DEF CloseGate
<1>5. CASE GiveDisk(v)
  <2>1. DiskGiven(l) \in LeaseRecord
    BY <1>1 DEF LeaseRecord, DiskGiven
  <2>2. \A j \in VM, path \in Path, g \in Nat : ~Backed(l, j, path, g)
    BY <1>5 DEF GiveDisk, CanGive, Backed
  <2> QED BY <1>5, <2>1, <2>2, LeaseSet DEF GiveDisk
<1>6. CASE Retire(v)
  <2>1. Retired(l) \in LeaseRecord
    BY <1>1 DEF LeaseRecord, Retired
  <2>2. \A j \in VM, path \in Path, g \in Nat : ~Backed(l, j, path, g)
    BY <1>6 DEF Retire, CanRetire, CanGive, Backed
  <2> QED BY <1>6, <2>1, <2>2, LeaseSet DEF Retire
<1> QED BY <1>2, <1>3, <1>4, <1>5, <1>6 DEF PlatformStep

(***************************************************************************)
(* The steps of an RPC.                                                    *)
(***************************************************************************)
\* A request as its RPC sends it.
LEMMA RequestTyped ==
  ASSUME NodeType, NEW i \in VM, rpc[i].at \in {"acquire", "release"},
         NEW op \in {"AcquireUse", "ReleaseUse"}
  PROVE  Request(i, op, rpc[i].vol, rpc[i].path, rpc[i].gen) \in LateRequest
<1>1. rpc[i] \in StageRPC \/ rpc[i] \in UnstageRPC
  BY Shapes DEF StagePoint, UnstagePoint
<1> QED BY <1>1 DEF StageRPC, UnstageRPC, Request, LateRequest

\* An RPC begins with what it has checked in the journal.
LEMMA BeginKeeps ==
  ASSUME NodeInv, NEW i \in VM, NEW v \in Volume, NEW path \in Path,
         \/ \E g \in 1 .. lease[v].gen :
              \/ StageBegin(i, v, path, g)
              \/ \E target \in Path, conf \in Conf :
                   PublishBegin(i, v, path, g, target, conf)
         \/ UnpublishBegin(i, v, path)
         \/ UnstageBegin(i, v, path)
  PROVE  NodeInv'
<1>1. NodeType /\ NodeOK(i)
  BY DEF NodeInv
<1>2. ASSUME NEW g \in Nat, StageBegin(i, v, path, g) PROVE NodeInv'
  <2> DEFINE r == [at |-> "acquire", vol |-> v, path |-> path, gen |-> g]
  <2>1. r \in RPC /\ Start(i, r)
    BY <1>2 DEF StageBegin, RPC, StageRPC, StagePoint
  <2> HIDE DEF r
  <2>2. /\ rpc' \in [VM -> RPC] /\ rpc'[i] = r
        /\ \A j \in VM : j # i => rpc'[j] = rpc[j]
    BY <1>1, <2>1, Starts
  <2>3. /\ rpc'[i].at = "acquire" /\ rpc'[i].vol = v
        /\ rpc'[i].path = path /\ rpc'[i].gen = g
    BY <2>2 DEF r
  <2>4. JournalAsSeen(i)' /\ PromiseHolds(i)'
    BY <1>2, <2>3 DEF StageBegin, JournalAsSeen, UnstagePoint, PromiseHolds,
       Relying,
       StagePoint, PublishPoint, UnpublishPoint, Staged, Entry, match
  <2> QED BY <1>2, <2>2, <2>4, OnlyRPC DEF StageBegin
<1>3. ASSUME NEW g \in Nat, NEW target \in Path, NEW conf \in Conf,
             PublishBegin(i, v, path, g, target, conf)
      PROVE  NodeInv'
  <2> DEFINE r == [at |-> "announce", vol |-> v, path |-> path, gen |-> g,
                   target |-> target, conf |-> conf]
  <2>1. r \in RPC /\ Start(i, r)
    BY <1>3 DEF PublishBegin, RPC, PublishRPC, PublishPoint
  <2> HIDE DEF r
  <2>2. /\ rpc' \in [VM -> RPC] /\ rpc'[i] = r
        /\ \A j \in VM : j # i => rpc'[j] = rpc[j]
    BY <1>1, <2>1, Starts
  <2>3. /\ rpc'[i].at = "announce" /\ rpc'[i].vol = v
        /\ rpc'[i].path = path /\ rpc'[i].gen = g
    BY <2>2 DEF r
  <2>4. JournalAsSeen(i)' /\ PromiseHolds(i)'
    BY <1>3, <2>3 DEF PublishBegin, JournalAsSeen, UnstagePoint, PromiseHolds,
       Relying,
       StagePoint, PublishPoint, UnpublishPoint, Staged, Entry, match
  <2> QED BY <1>3, <2>2, <2>4, OnlyRPC DEF PublishBegin
<1>4. CASE UnpublishBegin(i, v, path)
  <2> DEFINE r == [at |-> "unbind", vol |-> v, target |-> path]
  <2>1. r \in RPC /\ Start(i, r)
    BY <1>4 DEF UnpublishBegin, RPC, UnpublishRPC, UnpublishPoint
  <2> HIDE DEF r
  <2>2. /\ rpc' \in [VM -> RPC] /\ rpc'[i] = r
        /\ \A j \in VM : j # i => rpc'[j] = rpc[j]
    BY <1>1, <2>1, Starts
  <2>3. rpc'[i].at = "unbind" /\ rpc'[i].vol = v
    BY <2>2 DEF r
  <2>4. JournalAsSeen(i)' /\ PromiseHolds(i)'
    BY <1>4, <2>3 DEF UnpublishBegin, JournalAsSeen, UnstagePoint,
       PromiseHolds, Relying,
       StagePoint, PublishPoint, UnpublishPoint, Staged
  <2> QED BY <1>4, <2>2, <2>4, OnlyRPC DEF UnpublishBegin
<1>5. CASE UnstageBegin(i, v, path)
  <2> DEFINE r == [at |-> "unmount", vol |-> v, path |-> path,
                   gen |-> Entry(i, v).gen]
  <2>1. r \in RPC /\ Start(i, r)
    BY <1>1, <1>5, EntryTyped DEF UnstageBegin, RPC, UnstageRPC, UnstagePoint
  <2> HIDE DEF r
  <2>2. /\ rpc' \in [VM -> RPC] /\ rpc'[i] = r
        /\ \A j \in VM : j # i => rpc'[j] = rpc[j]
    BY <1>1, <2>1, Starts
  <2>3. rpc'[i].at = "unmount" /\ rpc'[i].vol = v /\ rpc'[i].path = path
    BY <2>2 DEF r
  <2>4. JournalAsSeen(i)' /\ PromiseHolds(i)'
    BY <1>5, <2>3 DEF UnstageBegin, NoTargets, JournalAsSeen, UnstagePoint,
       PromiseHolds,
       Relying, StagePoint, PublishPoint, UnpublishPoint, Staged, Entry
  <2> QED BY <1>5, <2>2, <2>4, OnlyRPC DEF UnstageBegin
<1>6. \A g \in 1 .. lease[v].gen : g \in Nat
  BY <1>1 DEF NodeType, LeaseRecord
<1> QED BY <1>2, <1>3, <1>4, <1>5, <1>6

\* A step that ends the RPC and changes nothing else.
LEMMA EndKeeps ==
  ASSUME NodeInv, NEW i \in VM, Finish(i),
         UNCHANGED <<lease, journal, mounts, late>>
  PROVE  NodeInv'
<1>1. /\ rpc' \in [VM -> RPC] /\ rpc'[i] = NoRPC
      /\ \A j \in VM : j # i => rpc'[j] = rpc[j]
  BY Ends DEF NodeInv
<1> QED BY <1>1, Idle, OnlyRPC

\* NodeStageVolume's effects.
LEMMA StageAcquireKeeps ==
  ASSUME NodeInv, NEW i \in VM, StageAcquire(i)
  PROVE  NodeInv'
<1> DEFINE q == Request(i, "AcquireUse", rpc[i].vol, rpc[i].path, rpc[i].gen)
<1>1. /\ NodeType /\ NodeOK(i) /\ rpc[i].at = "acquire"
      /\ lease' = Executed(q) /\ UNCHANGED <<journal, mounts, late>>
  BY DEF NodeInv, StageAcquire, At
<1>2. /\ q \in LateRequest /\ q.op = "AcquireUse" /\ q.from = i
      /\ q.vol = rpc[i].vol /\ q.path = rpc[i].path /\ q.gen = rpc[i].gen
  BY <1>1, RequestTyped DEF Request
<1>3. ReleasesInOrder => \A r \in late : r.from = i => r.op # "ReleaseUse"
  BY NoLateRelease DEF StageAcquire
<1>4. (AcquireGranted(q) /\ Continue(i, "record")) \/ Finish(i)
  BY DEF StageAcquire
<1> HIDE DEF q
<1>5. /\ lease' \in [Volume -> LeaseRecord] /\ \A j \in VM : Undisturbed(j)
      /\ AcquireGranted(q) => Backed(lease'[q.vol], q.from, q.path, q.gen)
  BY <1>1, <1>2, ExecutedLeases DEF Undisturbed
<1>6. /\ rpc' \in [VM -> RPC] /\ \A j \in VM : j # i => rpc'[j] = rpc[j]
      /\ JournalAsSeen(i)' /\ PromiseHolds(i)'
  <2>1. CASE AcquireGranted(q) /\ Continue(i, "record")
    <3>1. /\ rpc' \in [VM -> RPC] /\ rpc'[i].at = "record"
          /\ rpc'[i].vol = rpc[i].vol /\ rpc'[i].path = rpc[i].path
          /\ rpc'[i].gen = rpc[i].gen
          /\ \A j \in VM : j # i => rpc'[j] = rpc[j]
      BY <1>1, <2>1, Continues DEF StagePoint, UnpublishPoint
    <3>2. JournalAsSeen(i)'
      BY <1>1, <3>1 DEF NodeOK, JournalAsSeen, UnstagePoint, StagePoint,
         PublishPoint,
         UnpublishPoint, Staged, Entry, match
    <3>3. PromiseHolds(i)'
      BY <1>1, <1>2, <1>3, <1>5, <2>1, <3>1 DEF PromiseHolds
    <3> QED BY <3>1, <3>2, <3>3
  <2>2. CASE Finish(i)
    BY <1>1, <2>2, Ends, Idle
  <2> QED BY <1>4, <2>1, <2>2
<1>7. NodeType'
  BY <1>1, <1>5, <1>6 DEF NodeType
<1>8. NodeOK(i)'
  BY <1>1, <1>5, <1>6, MountsStay DEF NodeOK
<1> QED BY <1>1, <1>5, <1>6, <1>7, <1>8, OneVM

\* A saved journal is one.
LEMMA SaveTyped ==
  ASSUME NodeType, NEW i \in VM, NEW v \in Volume, NEW s \in JournalEntry,
         Save(i, v, s)
  PROVE  /\ journal' \in [VM -> JournalTable]
         /\ journal'[i] = With(journal[i], v, s)
         /\ DOMAIN journal'[i] = DOMAIN journal[i] \cup {v}
         /\ journal'[i][v] = s
         /\ \A j \in VM : j # i => journal'[j] = journal[j]
<1>1. journal \in [VM -> JournalTable] /\ journal[i] \in JournalTable
  BY DEF NodeType
<1> DEFINE t == With(journal[i], v, s)
<1>2. t \in JournalTable
  BY <1>1, WithTable DEF JournalTable
<1>3. DOMAIN t = DOMAIN journal[i] \cup {v} /\ t[v] = s
  BY DEF With
<1>4. journal' = [journal EXCEPT ![i] = t]
  BY DEF Save
<1> HIDE DEF t
<1>5. /\ journal' \in [VM -> JournalTable] /\ journal'[i] = t
      /\ \A j \in VM : j # i => journal'[j] = journal[j]
  BY <1>1, <1>2, <1>4
<1> QED BY <1>3, <1>5 DEF t

\* A step that replaces an entry of the VM's journal by one which tracks at
\* least the same mounted targets.
LEMMA SaveKeeps ==
  ASSUME NodeInv, NEW i \in VM, NEW v \in Volume, NEW s \in JournalEntry,
         Save(i, v, s), UNCHANGED <<lease, mounts, late>>,
         Staged(i, v) =>
           /\ s.path = Entry(i, v).path /\ s.gen = Entry(i, v).gen
           /\ \A path \in DOMAIN mounts[i] :
                /\ mounts[i][path].vol = v
                /\ path \in DOMAIN Entry(i, v).targets
                => path \in DOMAIN s.targets,
         rpc' \in [VM -> RPC], \A j \in VM : j # i => rpc'[j] = rpc[j],
         JournalAsSeen(i)', PromiseHolds(i)'
  PROVE  NodeInv'
<1>1. NodeType /\ NodeOK(i)
  BY DEF NodeInv
<1>2. /\ journal' \in [VM -> JournalTable]
      /\ journal'[i] = With(journal[i], v, s)
      /\ \A j \in VM : j # i => journal'[j] = journal[j]
  BY <1>1, SaveTyped
<1>3. Undisturbed(i)
  BY DEF Undisturbed
<1>4. MountsBacked(i)' /\ MountsListed(i)' /\ LateIsHarmless(i)'
  BY <1>1, <1>2, <1>3, EntryKept
<1> QED BY <1>2, <1>4, OnlyJournal DEF NodeOK

\* The entry of the stage is persisted.
LEMMA StageRecordKeeps ==
  ASSUME NodeInv, NEW i \in VM, StageRecord(i)
  PROVE  NodeInv'
<1> DEFINE v == rpc[i].vol
           s == IF Staged(i, v) THEN Entry(i, v)
                                ELSE NewStage(rpc[i].path, rpc[i].gen)
<1>1. /\ NodeType /\ NodeOK(i) /\ rpc[i].at = "record"
      /\ Save(i, v, s) /\ Continue(i, "mount") /\ UNCHANGED <<lease, mounts, late>>
  BY DEF NodeInv, StageRecord, At
<1>2. v \in Volume /\ rpc[i].path \in Path /\ rpc[i].gen \in Nat
  BY <1>1, Shapes DEF StagePoint, StageRPC
<1>3. s \in JournalEntry /\ s.path = rpc[i].path /\ s.gen = rpc[i].gen
  <2>1. CASE Staged(i, v)
    BY <1>1, <2>1, EntryTyped DEF NodeOK, JournalAsSeen, UnstagePoint, match
  <2>2. CASE ~Staged(i, v)
    <3>1. NoEntries \in TargetTable
      BY EmptyTable DEF TargetTable
    <3> QED BY <1>2, <2>2, <3>1 DEF NewStage, JournalEntry
  <2> QED BY <2>1, <2>2
<1>4. Staged(i, v) => s = Entry(i, v)
  BY DEF Staged
<1> HIDE DEF s
<1>5. /\ rpc' \in [VM -> RPC] /\ rpc'[i].at = "mount" /\ rpc'[i].vol = v
      /\ rpc'[i].path = rpc[i].path /\ rpc'[i].gen = rpc[i].gen
      /\ \A j \in VM : j # i => rpc'[j] = rpc[j]
  BY <1>1, Continues DEF StagePoint, UnpublishPoint
<1>6. JournalAsSeen(i)'
  <2>1. v \in DOMAIN journal'[i] /\ journal'[i][v] = s
    BY <1>1, <1>2, <1>3, SaveTyped
  <2> QED BY <1>3, <1>5, <2>1 DEF JournalAsSeen, UnstagePoint, StagePoint,
         PublishPoint,
             UnpublishPoint, match, Staged, Entry
<1>7. PromiseHolds(i)'
  BY <1>1, <1>5 DEF NodeOK, PromiseHolds, Relying, Backed
<1> HIDE DEF v
<1> QED BY <1>1, <1>2, <1>3, <1>4, <1>5, <1>6, <1>7, SaveKeeps

\* One VM's mounts are replaced;
LEMMA SetMounts ==
  ASSUME NodeType, NEW i \in VM, NEW t, mounts' = [mounts EXCEPT ![i] = t]
  PROVE  /\ mounts' = [j \in VM |-> mounts'[j]] /\ mounts'[i] = t
         /\ \A j \in VM : j # i => mounts'[j] = mounts[j]
  BY DEF NodeType

\* one mount is made, or made again.
LEMMA MountTableWith ==
  ASSUME NodeType, NEW i \in VM, NEW path, NEW m, SetMount(i, path, m)
  PROVE  /\ mounts' = [j \in VM |-> mounts'[j]]
         /\ mounts'[i] = With(mounts[i], path, m)
         /\ \A j \in VM : j # i => mounts'[j] = mounts[j]
  BY SetMounts DEF SetMount

\* The mount, under the use that was acquired.
LEMMA StageMountKeeps ==
  ASSUME NodeInv, NEW i \in VM, StageMount(i)
  PROVE  NodeInv'
<1> DEFINE v == rpc[i].vol
           path == rpc[i].path
           m == [vol |-> v, source |-> Device, conf |-> NoConf]
<1>1. /\ NodeType /\ NodeOK(i) /\ rpc[i].at = "mount"
      /\ UNCHANGED <<lease, journal, late>>
  BY DEF NodeInv, StageMount, At
<1>2. v \in Volume /\ path \in Path /\ rpc[i].gen \in Nat
  BY <1>1, Shapes DEF StagePoint, StageRPC
<1>3. /\ Staged(i, v) /\ match(Entry(i, v), path, rpc[i].gen)
      /\ ReleasesInOrder =>
           /\ Backed(lease[v], i, path, rpc[i].gen)
           /\ \A q \in late : q.from = i => q.op # "ReleaseUse"
  BY <1>1 DEF NodeOK, JournalAsSeen, UnstagePoint, PromiseHolds, Relying,
     StagePoint
<1>4. \/ Finish(i) /\ UNCHANGED mounts
      \/ Continue(i, "mark") /\ UNCHANGED mounts
      \/ Continue(i, "mark") /\ SetMount(i, path, m)
  BY DEF StageMount
<1>5. CASE Finish(i) /\ UNCHANGED mounts
  BY <1>1, <1>5, EndKeeps
<1>6. ASSUME Continue(i, "mark")
      PROVE  /\ rpc' \in [VM -> RPC] /\ \A j \in VM : j # i => rpc'[j] = rpc[j]
             /\ JournalAsSeen(i)' /\ PromiseHolds(i)'
  <2>1. /\ rpc' \in [VM -> RPC] /\ rpc'[i].at = "mark" /\ rpc'[i].vol = v
        /\ rpc'[i].path = path /\ rpc'[i].gen = rpc[i].gen
        /\ \A j \in VM : j # i => rpc'[j] = rpc[j]
    BY <1>1, <1>6, Continues DEF StagePoint, UnpublishPoint
  <2>2. JournalAsSeen(i)'
    BY <1>1, <1>3, <2>1 DEF JournalAsSeen, UnstagePoint, StagePoint,
       PublishPoint,
       UnpublishPoint, match, Staged, Entry
  <2>3. PromiseHolds(i)'
    BY <2>1 DEF PromiseHolds, Relying
  <2> QED BY <2>1, <2>2, <2>3
<1>7. CASE Continue(i, "mark") /\ UNCHANGED mounts
  BY <1>1, <1>6, <1>7, OnlyRPC
<1>8. CASE Continue(i, "mark") /\ SetMount(i, path, m)
  <2>1. m.vol = v
    OBVIOUS
  <2> HIDE DEF m
  <2>2. /\ mounts' = [j \in VM |-> mounts'[j]]
        /\ mounts'[i] = With(mounts[i], path, m)
        /\ \A j \in VM : j # i => mounts'[j] = mounts[j]
    BY <1>1, <1>2, <1>8, <2>1, MountTableWith
  <2>3. /\ path = Entry(i, m.vol).path /\ Staged(i, m.vol)
        /\ ReleasesInOrder =>
             Backed(lease[m.vol], i, Entry(i, m.vol).path, Entry(i, m.vol).gen)
    BY <1>3, <2>1 DEF match
  <2> HIDE DEF v, path
  <2>4. MountsBacked(i)' /\ MountsListed(i)' /\ LateIsHarmless(i)'
    BY <1>1, <1>2, <1>3, <2>1, <2>2, <2>3, MountMade
  <2> QED BY <1>1, <1>6, <1>8, <2>2, <2>4, OnlyMounts DEF NodeOK
<1> QED BY <1>4, <1>5, <1>7, <1>8

\* MarkInitialized asks the platform, and changes nothing here.
LEMMA StageMarkKeeps ==
  ASSUME NodeInv, NEW i \in VM, StageMark(i)
  PROVE  NodeInv'
<1>1. /\ NodeType /\ NodeOK(i) /\ rpc[i].at = "mark"
      /\ UNCHANGED <<lease, journal, mounts, late>>
      /\ Continue(i, "ready") \/ Finish(i)
  BY DEF NodeInv, StageMark, At
<1>2. CASE Finish(i)
  BY <1>1, <1>2, EndKeeps
<1>3. CASE Continue(i, "ready")
  <2>1. /\ rpc' \in [VM -> RPC] /\ rpc'[i].at = "ready"
        /\ rpc'[i].vol = rpc[i].vol
        /\ rpc'[i].path = rpc[i].path /\ rpc'[i].gen = rpc[i].gen
        /\ \A j \in VM : j # i => rpc'[j] = rpc[j]
    BY <1>1, <1>3, Continues DEF StagePoint, UnpublishPoint
  <2>2. JournalAsSeen(i)'
    BY <1>1, <2>1 DEF NodeOK, JournalAsSeen, UnstagePoint, StagePoint,
       PublishPoint,
       UnpublishPoint, match, Staged, Entry
  <2>3. PromiseHolds(i)'
    BY <2>1 DEF PromiseHolds, Relying
  <2> QED BY <1>1, <2>1, <2>2, <2>3, OnlyRPC
<1> QED BY <1>1, <1>2, <1>3

\* The stage is marked as ready.
LEMMA StageReadyKeeps ==
  ASSUME NodeInv, NEW i \in VM, StageReady(i)
  PROVE  NodeInv'
<1> DEFINE v == rpc[i].vol
           s == [Entry(i, v) EXCEPT !.ready = TRUE]
<1>1. /\ NodeType /\ NodeOK(i) /\ rpc[i].at = "ready"
      /\ Save(i, v, s) /\ Finish(i) /\ UNCHANGED <<lease, mounts, late>>
  BY DEF NodeInv, StageReady, At
<1>2. v \in Volume /\ Staged(i, v) /\ Entry(i, v) \in JournalEntry
  BY <1>1, EntryTyped DEF NodeOK, JournalAsSeen, UnstagePoint, StagePoint
<1>3. /\ s \in JournalEntry /\ s.path = Entry(i, v).path
      /\ s.gen = Entry(i, v).gen /\ s.targets = Entry(i, v).targets
  BY <1>2 DEF JournalEntry
<1> HIDE DEF s, v
<1>4. /\ rpc' \in [VM -> RPC] /\ \A j \in VM : j # i => rpc'[j] = rpc[j]
      /\ JournalAsSeen(i)' /\ PromiseHolds(i)'
  BY <1>1, Ends, Idle
<1> QED BY <1>1, <1>2, <1>3, <1>4, SaveKeeps

\* NodePublishVolume's.
LEMMA PublishAnnounceKeeps ==
  ASSUME NodeInv, NEW i \in VM, PublishAnnounce(i)
  PROVE  NodeInv'
<1> DEFINE q == Request(i, "RecordPublish", rpc[i].vol, rpc[i].path, rpc[i].gen)
<1>1. /\ NodeType /\ NodeOK(i) /\ rpc[i].at = "announce"
      /\ UNCHANGED <<lease, journal, mounts, late>>
      /\ (UseChecked(q) /\ Continue(i, "track")) \/ Finish(i)
  BY DEF NodeInv, PublishAnnounce, At
<1>2. CASE Finish(i)
  BY <1>1, <1>2, EndKeeps
<1>3. CASE UseChecked(q) /\ Continue(i, "track")
  <2>1. /\ rpc' \in [VM -> RPC] /\ rpc'[i].at = "track"
        /\ rpc'[i].vol = rpc[i].vol
        /\ rpc'[i].path = rpc[i].path /\ rpc'[i].gen = rpc[i].gen
        /\ \A j \in VM : j # i => rpc'[j] = rpc[j]
    BY <1>1, <1>3, Continues DEF PublishPoint, UnpublishPoint
  <2>2. JournalAsSeen(i)'
    BY <1>1, <2>1 DEF NodeOK, JournalAsSeen, UnstagePoint, StagePoint,
       PublishPoint,
       UnpublishPoint, match, Staged, Entry
  <2>3. Backed(lease[rpc[i].vol], i, rpc[i].path, rpc[i].gen)
    BY <1>3 DEF UseChecked, AcquireGranted, Holds, CanAcquire, Request, Backed
  <2>4. ReleasesInOrder => \A r \in late : r.from = i => r.op # "ReleaseUse"
    BY NoLateRelease DEF PublishAnnounce
  <2>5. PromiseHolds(i)'
    BY <1>1, <2>1, <2>3, <2>4 DEF PromiseHolds, Backed
  <2> QED BY <1>1, <2>1, <2>2, <2>5, OnlyRPC
<1> QED BY <1>1, <1>2, <1>3

\* The target is persisted,
LEMMA PublishTrackKeeps ==
  ASSUME NodeInv, NEW i \in VM, PublishTrack(i)
  PROVE  NodeInv'
<1> DEFINE v == rpc[i].vol
           t == With(Entry(i, v).targets, rpc[i].target, rpc[i].conf)
           s == [Entry(i, v) EXCEPT !.targets = t]
<1>1. /\ NodeType /\ NodeOK(i) /\ rpc[i].at = "track"
      /\ Save(i, v, s) /\ Continue(i, "bind") /\ UNCHANGED <<lease, mounts, late>>
  BY DEF NodeInv, PublishTrack, At
<1>2. /\ v \in Volume /\ rpc[i].path \in Path /\ rpc[i].gen \in Nat
      /\ rpc[i].target \in Path /\ rpc[i].conf \in Conf
  BY <1>1, Shapes DEF PublishPoint, PublishRPC
<1>3. /\ Staged(i, v) /\ match(Entry(i, v), rpc[i].path, rpc[i].gen)
      /\ Entry(i, v) \in JournalEntry /\ Entry(i, v).targets \in TargetTable
  BY <1>1, EntryTyped DEF NodeOK, JournalAsSeen, UnstagePoint, PublishPoint
<1>4. /\ t \in TargetTable
      /\ DOMAIN t = DOMAIN Entry(i, v).targets \cup {rpc[i].target}
  <2>1. t \in TargetTable
    BY <1>2, <1>3, WithTable DEF TargetTable
  <2>2. DOMAIN t = DOMAIN Entry(i, v).targets \cup {rpc[i].target}
    BY DEF With
  <2> QED BY <2>1, <2>2
<1> HIDE DEF t
<1>5. /\ s \in JournalEntry /\ s.path = Entry(i, v).path
      /\ s.gen = Entry(i, v).gen /\ s.targets = t
  BY <1>3, <1>4 DEF JournalEntry
<1> HIDE DEF s
<1>6. /\ rpc' \in [VM -> RPC] /\ rpc'[i].at = "bind" /\ rpc'[i].vol = v
      /\ rpc'[i].path = rpc[i].path /\ rpc'[i].gen = rpc[i].gen
      /\ rpc'[i].target = rpc[i].target
      /\ \A j \in VM : j # i => rpc'[j] = rpc[j]
  BY <1>1, Continues DEF PublishPoint, UnpublishPoint
<1>7. JournalAsSeen(i)'
  <2>1. v \in DOMAIN journal'[i] /\ journal'[i][v] = s
    BY <1>1, <1>2, <1>5, SaveTyped
  <2> QED BY <1>3, <1>4, <1>5, <1>6, <2>1 DEF JournalAsSeen, UnstagePoint,
         StagePoint,
             PublishPoint, UnpublishPoint, match, Staged, Entry
<1>8. PromiseHolds(i)'
  BY <1>1, <1>6 DEF NodeOK, PromiseHolds, Relying, Backed
<1> HIDE DEF v
<1> QED BY <1>1, <1>2, <1>4, <1>5, <1>6, <1>7, <1>8, SaveKeeps

\* and bound.
LEMMA PublishBindKeeps ==
  ASSUME NodeInv, NEW i \in VM, PublishBind(i)
  PROVE  NodeInv'
<1> DEFINE v == rpc[i].vol
           target == rpc[i].target
           m == [vol |-> v, source |-> rpc[i].path, conf |-> rpc[i].conf]
<1>1. /\ NodeType /\ NodeOK(i) /\ rpc[i].at = "bind"
      /\ Finish(i) /\ UNCHANGED <<lease, journal, late>>
      /\ SetMount(i, target, m) \/ UNCHANGED mounts
  BY DEF NodeInv, PublishBind, At
<1>2. /\ v \in Volume /\ target \in Path /\ m.vol = v
  BY <1>1, Shapes DEF PublishPoint, PublishRPC
<1>3. /\ Staged(i, v) /\ target \in DOMAIN Entry(i, v).targets
      /\ ReleasesInOrder =>
           /\ Backed(lease[v], i, Entry(i, v).path, Entry(i, v).gen)
           /\ \A q \in late : q.from = i => q.op # "ReleaseUse"
  BY <1>1 DEF NodeOK, JournalAsSeen, UnstagePoint, PromiseHolds, Relying,
     PublishPoint, match
<1>4. CASE UNCHANGED mounts
  BY <1>1, <1>4, EndKeeps
<1>5. CASE SetMount(i, target, m)
  <2> HIDE DEF m, v, target
  <2>1. /\ mounts' = [j \in VM |-> mounts'[j]]
        /\ mounts'[i] = With(mounts[i], target, m)
        /\ \A j \in VM : j # i => mounts'[j] = mounts[j]
    BY <1>1, <1>2, <1>5, MountTableWith
  <2>2. MountsBacked(i)' /\ MountsListed(i)' /\ LateIsHarmless(i)'
    BY <1>1, <1>2, <1>3, <2>1, MountMade
  <2>3. /\ rpc' \in [VM -> RPC] /\ \A j \in VM : j # i => rpc'[j] = rpc[j]
        /\ JournalAsSeen(i)' /\ PromiseHolds(i)'
    BY <1>1, Ends, Idle
  <2> QED BY <1>1, <2>1, <2>2, <2>3, OnlyMounts DEF NodeOK
<1> QED BY <1>1, <1>4, <1>5

\* One mount is taken away.
LEMMA MountTableWithout ==
  ASSUME NodeType, NEW i \in VM, NEW path, RemoveMount(i, path)
  PROVE  /\ mounts' = [j \in VM |-> mounts'[j]]
         /\ DOMAIN mounts'[i] = DOMAIN mounts[i] \ {path}
         /\ \A p \in DOMAIN mounts'[i] : mounts'[i][p] = mounts[i][p]
         /\ \A j \in VM : j # i => mounts'[j] = mounts[j]
<1>1. /\ mounts' = [j \in VM |-> mounts'[j]]
      /\ mounts'[i] = Without(mounts[i], path)
      /\ \A j \in VM : j # i => mounts'[j] = mounts[j]
  BY SetMounts DEF RemoveMount
<1> QED BY <1>1 DEF Without, Restrict

\* The target is unmounted,
LEMMA UnpublishUnmountKeeps ==
  ASSUME NodeInv, NEW i \in VM, UnpublishUnmount(i)
  PROVE  NodeInv'
<1>1. /\ NodeType /\ NodeOK(i) /\ rpc[i].at = "unbind"
      /\ Continue(i, "untrack") /\ RemoveMount(i, rpc[i].target)
      /\ UNCHANGED <<lease, journal, late>>
  BY DEF NodeInv, UnpublishUnmount, At
<1>2. /\ rpc' \in [VM -> RPC] /\ rpc'[i].at = "untrack"
      /\ rpc'[i].vol = rpc[i].vol /\ rpc'[i].target = rpc[i].target
      /\ \A j \in VM : j # i => rpc'[j] = rpc[j]
  BY <1>1, Continues DEF UnpublishPoint
<1>3. /\ mounts' = [j \in VM |-> mounts'[j]]
      /\ DOMAIN mounts'[i] = DOMAIN mounts[i] \ {rpc[i].target}
      /\ \A p \in DOMAIN mounts'[i] : mounts'[i][p] = mounts[i][p]
      /\ \A j \in VM : j # i => mounts'[j] = mounts[j]
  BY <1>1, MountTableWithout
<1>4. MountsBacked(i)' /\ MountsListed(i)' /\ LateIsHarmless(i)'
  BY <1>1, <1>3, MountsGo
<1>5. JournalAsSeen(i)' /\ PromiseHolds(i)'
  BY <1>1, <1>2, <1>3 DEF NodeOK, JournalAsSeen, UnstagePoint, PromiseHolds,
     Relying,
     StagePoint, PublishPoint, UnpublishPoint, Staged, Mounted
<1> QED BY <1>1, <1>2, <1>3, <1>4, <1>5, OnlyMounts DEF NodeOK

\* and forgotten.
LEMMA UnpublishUntrackKeeps ==
  ASSUME NodeInv, NEW i \in VM, UnpublishUntrack(i)
  PROVE  NodeInv'
<1> DEFINE v == rpc[i].vol
           t == Without(Entry(i, v).targets, rpc[i].target)
           s == [Entry(i, v) EXCEPT !.targets = t]
<1>1. /\ NodeType /\ NodeOK(i) /\ rpc[i].at = "untrack"
      /\ Save(i, v, s) /\ Finish(i) /\ UNCHANGED <<lease, mounts, late>>
  BY DEF NodeInv, UnpublishUntrack, At
<1>2. /\ v \in Volume /\ Staged(i, v) /\ ~Mounted(i, rpc[i].target)
      /\ Entry(i, v) \in JournalEntry /\ Entry(i, v).targets \in TargetTable
  BY <1>1, EntryTyped DEF NodeOK, JournalAsSeen, UnstagePoint, UnpublishPoint
<1>3. /\ t \in TargetTable
      /\ DOMAIN t = DOMAIN Entry(i, v).targets \ {rpc[i].target}
  <2>1. t \in TargetTable
    BY <1>2, WithoutTable DEF TargetTable
  <2>2. DOMAIN t = DOMAIN Entry(i, v).targets \ {rpc[i].target}
    BY DEF Without, Restrict
  <2> QED BY <2>1, <2>2
<1> HIDE DEF t
<1>4. /\ s \in JournalEntry /\ s.path = Entry(i, v).path
      /\ s.gen = Entry(i, v).gen /\ s.targets = t
  BY <1>2, <1>3 DEF JournalEntry
<1>5. \A path \in DOMAIN mounts[i] :
        path \in DOMAIN Entry(i, v).targets => path \in DOMAIN s.targets
  BY <1>2, <1>3, <1>4 DEF Mounted
<1> HIDE DEF s, v
<1>6. /\ rpc' \in [VM -> RPC] /\ \A j \in VM : j # i => rpc'[j] = rpc[j]
      /\ JournalAsSeen(i)' /\ PromiseHolds(i)'
  BY <1>1, Ends, Idle
<1> QED BY <1>1, <1>2, <1>4, <1>5, <1>6, SaveKeeps

\* A request of a VM that has no mount of its volume takes no mount's use.
LEMMA ReleaseSpares ==
  ASSUME NodeType, NEW i \in VM, MountsBacked(i), NEW q \in LateRequest,
         q.from = i,
         ReleasesInOrder /\ q.op = "ReleaseUse" => NoMountOf(i, q.vol),
         lease' = Executed(q), journal'[i] = journal[i], mounts'[i] = mounts[i]
  PROVE  MountsBacked(i)'
<1> SUFFICES ASSUME ReleasesInOrder, NEW path \in DOMAIN mounts[i]
             PROVE  LET v == mounts[i][path].vol
                    IN /\ Staged(i, v)
                       /\ Backed(lease'[v], i, Entry(i, v).path, Entry(i, v).gen)
  BY DEF MountsBacked, Staged, Entry, Backed
<1> DEFINE v == mounts[i][path].vol
<1>1. Staged(i, v) /\ Backed(lease[v], i, Entry(i, v).path, Entry(i, v).gen)
  BY DEF MountsBacked
<1>2. v \in Volume /\ Entry(i, v).path \in Path /\ Entry(i, v).gen \in Nat
  BY <1>1, EntryTyped
<1>3. q.op = "ReleaseUse" => q.vol # v
  BY DEF NoMountOf
<1> HIDE DEF v
<1>4. Backed(Executed(q)[v], i, Entry(i, v).path, Entry(i, v).gen)
  BY <1>1, <1>2, <1>3, ExecutedLeases
<1> QED BY <1>1, <1>4 DEF v

\* NodeUnstageVolume's.
LEMMA UnstageUnmountKeeps ==
  ASSUME NodeInv, NEW i \in VM, UnstageUnmount(i)
  PROVE  NodeInv'
<1>1. /\ NodeType /\ NodeOK(i) /\ rpc[i].at = "unmount"
      /\ Continue(i, "release") /\ RemoveMount(i, rpc[i].path)
      /\ UNCHANGED <<lease, journal, late>>
  BY DEF NodeInv, UnstageUnmount, At
<1>2. /\ rpc' \in [VM -> RPC] /\ rpc'[i].at = "release"
      /\ rpc'[i].vol = rpc[i].vol /\ rpc'[i].path = rpc[i].path
      /\ \A j \in VM : j # i => rpc'[j] = rpc[j]
  BY <1>1, Continues DEF UnstagePoint, UnpublishPoint
<1>3. /\ mounts' = [j \in VM |-> mounts'[j]]
      /\ DOMAIN mounts'[i] = DOMAIN mounts[i] \ {rpc[i].path}
      /\ \A p \in DOMAIN mounts'[i] : mounts'[i][p] = mounts[i][p]
      /\ \A j \in VM : j # i => mounts'[j] = mounts[j]
  BY <1>1, MountTableWithout
<1>4. MountsBacked(i)' /\ MountsListed(i)' /\ LateIsHarmless(i)'
  BY <1>1, <1>3, MountsGo
<1>5. NoMountOf(i, rpc[i].vol)'
  BY <1>1, <1>2, <1>3 DEF NodeOK, JournalAsSeen, UnstagePoint, MountsListed,
     NoMountOf
<1>6. JournalAsSeen(i)' /\ PromiseHolds(i)'
  BY <1>1, <1>2, <1>5 DEF NodeOK, JournalAsSeen, PromiseHolds, Relying,
     StagePoint, PublishPoint, UnpublishPoint, UnstagePoint, Staged, Entry
<1> QED BY <1>1, <1>2, <1>3, <1>4, <1>6, OnlyMounts DEF NodeOK

\* The use is released after the last mount is gone,
LEMMA UnstageReleaseKeeps ==
  ASSUME NodeInv, NEW i \in VM, UnstageRelease(i)
  PROVE  NodeInv'
<1> DEFINE q == Request(i, "ReleaseUse", rpc[i].vol, rpc[i].path, rpc[i].gen)
<1>1. /\ NodeType /\ NodeOK(i) /\ rpc[i].at = "release"
      /\ lease' = Executed(q) /\ UNCHANGED <<journal, mounts, late>>
      /\ Continue(i, "forget")
  BY DEF NodeInv, UnstageRelease, At
<1>2. q \in LateRequest /\ q.from = i /\ q.vol = rpc[i].vol /\ rpc[i].vol \in Volume
  BY <1>1, RequestTyped, Shapes DEF Request
<1> HIDE DEF q
<1>3. /\ rpc' \in [VM -> RPC] /\ rpc'[i].at = "forget"
      /\ rpc'[i].vol = rpc[i].vol /\ rpc'[i].path = rpc[i].path
      /\ \A j \in VM : j # i => rpc'[j] = rpc[j]
  BY <1>1, Continues DEF UnstagePoint, UnpublishPoint
<1>4. NoMountOf(i, rpc[i].vol)
  BY <1>1 DEF NodeOK, JournalAsSeen, UnstagePoint
<1>5. NodeType'
  BY <1>1, <1>2, <1>3, ExecutedLeases DEF NodeType
<1>6. ASSUME NEW j \in VM, j # i PROVE Undisturbed(j)
  <2>1. \A v \in Volume, path \in Path, g \in Nat :
          Backed(lease[v], j, path, g) => Backed(Executed(q)[v], j, path, g)
    BY <1>1, <1>2, <1>6, ExecutedLeases
  <2> QED BY <1>1, <2>1 DEF Undisturbed
<1>7. MountsBacked(i)'
  BY <1>1, <1>2, <1>4, ReleaseSpares DEF NodeOK
<1>8. MountsListed(i)' /\ LateIsHarmless(i)'
  BY <1>1 DEF NodeOK, MountsListed, LateIsHarmless, NoMountOf, Entry,
     Staged
<1>9. JournalAsSeen(i)' /\ PromiseHolds(i)'
  BY <1>1, <1>3, <1>4 DEF NodeOK, JournalAsSeen, PromiseHolds, Relying,
     StagePoint, PublishPoint, UnpublishPoint, UnstagePoint, NoMountOf,
     Staged, Entry
<1> QED BY <1>1, <1>3, <1>5, <1>6, <1>7, <1>8, <1>9, OneVM DEF NodeOK

\* and the entry after that.
LEMMA UnstageForgetKeeps ==
  ASSUME NodeInv, NEW i \in VM, UnstageForget(i)
  PROVE  NodeInv'
<1> DEFINE v == rpc[i].vol
           t == Without(journal[i], v)
<1>1. /\ NodeType /\ NodeOK(i) /\ rpc[i].at = "forget"
      /\ journal' = [journal EXCEPT ![i] = t]
      /\ Finish(i) /\ UNCHANGED <<lease, mounts, late>>
  BY DEF NodeInv, UnstageForget, At
<1>2. NoMountOf(i, v)
  BY <1>1 DEF NodeOK, JournalAsSeen, UnstagePoint
<1>3. journal \in [VM -> JournalTable] /\ journal[i] \in JournalTable
  BY <1>1 DEF NodeType
<1>4. /\ t \in JournalTable /\ DOMAIN t = DOMAIN journal[i] \ {v}
      /\ \A w \in DOMAIN t : t[w] = journal[i][w]
  <2>1. t \in JournalTable
    BY <1>3, WithoutTable DEF JournalTable
  <2>2. /\ DOMAIN t = DOMAIN journal[i] \ {v}
        /\ \A w \in DOMAIN t : t[w] = journal[i][w]
    BY DEF Without, Restrict
  <2> QED BY <2>1, <2>2
<1> HIDE DEF t, v
<1>5. /\ journal' \in [VM -> JournalTable] /\ journal'[i] = t
      /\ \A j \in VM : j # i => journal'[j] = journal[j]
  BY <1>1, <1>3, <1>4
<1>6. \A path \in DOMAIN mounts[i] :
        LET w == mounts[i][path].vol
        IN Staged(i, w) =>
             w \in DOMAIN journal'[i] /\ journal'[i][w] = Entry(i, w)
  BY <1>2, <1>4, <1>5 DEF NoMountOf, Staged, Entry
<1>7. MountsBacked(i)' /\ MountsListed(i)' /\ LateIsHarmless(i)'
  <2>1. MountsBacked(i)'
    BY <1>1, <1>6 DEF NodeOK, MountsBacked, Backed, Staged, Entry
  <2>2. MountsListed(i)'
    BY <1>1, <1>6 DEF NodeOK, MountsBacked, MountsListed, Staged, Entry
  <2>3. LateIsHarmless(i)'
    BY <1>1 DEF NodeOK, LateIsHarmless, NoMountOf
  <2> QED BY <2>1, <2>2, <2>3
<1>8. /\ rpc' \in [VM -> RPC] /\ \A j \in VM : j # i => rpc'[j] = rpc[j]
      /\ JournalAsSeen(i)' /\ PromiseHolds(i)'
  BY <1>1, Ends, Idle
<1> QED BY <1>1, <1>5, <1>7, <1>8, OnlyJournal DEF NodeOK

(***************************************************************************)
(* Trouble.                                                                *)
(***************************************************************************)
\* A request whose client has given up: a release comes from an RPC which
\* has unmounted what it releases.
LEMMA TimeOutKeeps ==
  ASSUME NodeInv, NEW i \in VM, TimeOut(i)
  PROVE  NodeInv'
<1> DEFINE op == IF At(i, "acquire") THEN "AcquireUse" ELSE "ReleaseUse"
           q == Request(i, op, rpc[i].vol, rpc[i].path, rpc[i].gen)
<1>1. /\ NodeType /\ NodeOK(i) /\ rpc[i].at \in Losable /\ Finish(i)
      /\ late' = late \cup {q} /\ UNCHANGED <<lease, journal, mounts>>
  BY DEF NodeInv, TimeOut
<1>2. /\ rpc[i].at \in {"acquire", "release"}
      /\ rpc[i].at = "release" => op = "ReleaseUse"
      /\ rpc[i].at # "release" => op = "AcquireUse"
      /\ op \in {"AcquireUse", "ReleaseUse"}
  BY <1>1, NodeAgentAssumption DEF At
<1> HIDE DEF op
<1>3. /\ q \in LateRequest /\ q.from = i /\ q.op = op /\ q.vol = rpc[i].vol
  BY <1>1, <1>2, RequestTyped DEF Request
<1> HIDE DEF q
<1>4. q.op = "ReleaseUse" => NoMountOf(i, q.vol) /\ "release" \in Losable
  BY <1>1, <1>2, <1>3 DEF NodeOK, JournalAsSeen, UnstagePoint
<1>5. /\ rpc' \in [VM -> RPC] /\ \A j \in VM : j # i => rpc'[j] = rpc[j]
      /\ JournalAsSeen(i)' /\ PromiseHolds(i)'
  BY <1>1, Ends, Idle
<1>6. NodeType'
  BY <1>1, <1>3, <1>4, <1>5 DEF NodeType
<1>7. \A j \in VM : j # i => Undisturbed(j)
  BY <1>1, <1>3 DEF Undisturbed
<1>8. MountsBacked(i)' /\ MountsListed(i)'
  BY <1>1 DEF NodeOK, MountsBacked, MountsListed, Staged, Entry, Backed
<1>9. LateIsHarmless(i)'
  BY <1>1, <1>4 DEF NodeOK, LateIsHarmless, NoMountOf
<1> QED BY <1>1, <1>5, <1>6, <1>7, <1>8, <1>9, OneVM DEF NodeOK

\* It is executed after all.
LEMMA DeliverKeeps ==
  ASSUME NodeInv, NEW q \in late, Deliver(q)
  PROVE  NodeInv'
<1>1. /\ NodeType /\ q \in LateRequest
      /\ lease' = Executed(q) /\ late' = late \ {q}
      /\ UNCHANGED <<journal, mounts, rpc>>
  BY DEF NodeInv, NodeType, Deliver
<1>2. NodeType'
  BY <1>1, ExecutedLeases DEF NodeType
<1>3. ASSUME NEW j \in VM, NodeOK(j) PROVE NodeOK(j)'
  <2>1. CASE q.from = j /\ q.op = "ReleaseUse"
    <3>1. ReleasesInOrder => NoMountOf(j, q.vol)
      BY <1>3, <2>1 DEF NodeOK, LateIsHarmless
    <3>2. MountsBacked(j)'
      BY <1>1, <1>3, <2>1, <3>1, ReleaseSpares DEF NodeOK
    <3>3. MountsListed(j)' /\ LateIsHarmless(j)' /\ JournalAsSeen(j)'
      BY <1>1, <1>3 DEF NodeOK, MountsListed, LateIsHarmless, NoMountOf,
         JournalAsSeen, UnstagePoint, Staged, Entry, match, Mounted, MountedFrom
    <3>4. ReleasesInOrder => rpc[j].at \notin Relying
      BY <1>3, <2>1 DEF NodeOK, PromiseHolds
    <3>5. PromiseHolds(j)'
      BY <1>1, <3>4 DEF PromiseHolds
    <3> QED BY <3>2, <3>3, <3>5 DEF NodeOK
  <2>2. CASE ~(q.from = j /\ q.op = "ReleaseUse")
    <3>1. \A v \in Volume, path \in Path, g \in Nat :
            Backed(lease[v], j, path, g) => Backed(Executed(q)[v], j, path, g)
      BY <1>1, <2>2, ExecutedLeases
    <3>2. Undisturbed(j)
      BY <1>1, <3>1 DEF Undisturbed
    <3> QED BY <1>1, <1>3, <3>2, Bystander
  <2> QED BY <2>1, <2>2
<1> QED BY <1>2, <1>3 DEF NodeInv

\* A restart leaves nothing mounted.
LEMMA RebootKeeps ==
  ASSUME NodeInv, NEW i \in VM, Reboot(i)
  PROVE  NodeInv'
<1>1. /\ NodeType /\ NodeOK(i) /\ Finish(i)
      /\ mounts' = [mounts EXCEPT ![i] = NoEntries]
      /\ UNCHANGED <<lease, journal, late>>
  BY DEF NodeInv, Reboot
<1>2. DOMAIN NoEntries = {}
  BY DEF NoEntries
<1>3. /\ mounts' = [j \in VM |-> mounts'[j]] /\ mounts'[i] = NoEntries
      /\ \A j \in VM : j # i => mounts'[j] = mounts[j]
  BY <1>1, SetMounts
<1>4. MountsBacked(i)' /\ MountsListed(i)' /\ LateIsHarmless(i)'
  BY <1>2, <1>3 DEF MountsBacked, MountsListed, LateIsHarmless, NoMountOf
<1>5. /\ rpc' \in [VM -> RPC] /\ \A j \in VM : j # i => rpc'[j] = rpc[j]
      /\ JournalAsSeen(i)' /\ PromiseHolds(i)'
  BY <1>1, Ends, Idle
<1> QED BY <1>1, <1>3, <1>4, <1>5, OnlyMounts DEF NodeOK

(***************************************************************************)
(* The theorems.                                                           *)
(***************************************************************************)
LEMMA NodeInit == Init => NodeInv
<1> SUFFICES ASSUME Init PROVE NodeInv
  OBVIOUS
<1>1. NoEntries \in JournalTable /\ DOMAIN NoEntries = {}
  BY EmptyTable DEF JournalTable
<1>2. NodeType
  <2>1. Unleased \in LeaseRecord
    BY DEF Unleased, LeaseRecord
  <2> QED BY <1>1, <2>1 DEF Init, NodeType, RPC
<1>3. ASSUME NEW i \in VM PROVE NodeOK(i)
  <2>1. /\ DOMAIN mounts[i] = {} /\ late = {} /\ rpc[i].at = "idle"
    BY <1>1 DEF Init, NoRPC
  <2> QED BY <2>1 DEF NodeOK, MountsBacked, MountsListed, JournalAsSeen,
         UnstagePoint,
             PromiseHolds, LateIsHarmless, Relying, StagePoint, PublishPoint,
             UnpublishPoint
<1> QED BY <1>2, <1>3 DEF NodeInv

\* Every step keeps the invariant.
LEMMA NodeStep ==
  ASSUME NodeInv, [Next]_vars
  PROVE  NodeInv'
<1>1. ASSUME NEW i \in VM, KubeletCall(i) PROVE NodeInv'
  BY <1>1, BeginKeeps DEF KubeletCall
<1>2. ASSUME NEW i \in VM, StageStep(i) PROVE NodeInv'
  BY <1>2, StageAcquireKeeps, StageRecordKeeps, StageMountKeeps,
     StageMarkKeeps, StageReadyKeeps DEF StageStep
<1>3. ASSUME NEW i \in VM, PublishStep(i) PROVE NodeInv'
  BY <1>3, PublishAnnounceKeeps, PublishTrackKeeps, PublishBindKeeps
     DEF PublishStep
<1>4. ASSUME NEW i \in VM, UnpublishStep(i) PROVE NodeInv'
  BY <1>4, UnpublishUnmountKeeps, UnpublishUntrackKeeps DEF UnpublishStep
<1>5. ASSUME NEW i \in VM, UnstageStep(i) PROVE NodeInv'
  BY <1>5, UnstageUnmountKeeps, UnstageReleaseKeeps, UnstageForgetKeeps
     DEF UnstageStep
<1>6. ASSUME NEW i \in VM, Break(i) PROVE NodeInv'
  BY <1>6, EndKeeps DEF Break
<1>7. ASSUME NEW i \in VM, TimeOut(i) PROVE NodeInv'
  BY <1>7, TimeOutKeeps
<1>8. ASSUME NEW i \in VM, Reboot(i) PROVE NodeInv'
  BY <1>8, RebootKeeps
<1>9. ASSUME NEW v \in Volume, PlatformStep(v) PROVE NodeInv'
  BY <1>9, PlatformKeeps
<1>10. ASSUME NEW q \in late, Deliver(q) PROVE NodeInv'
  BY <1>10, DeliverKeeps
<1>11. CASE UNCHANGED vars
  <2>1. NodeType' /\ \A j \in VM : Undisturbed(j)
    BY <1>11 DEF vars, NodeInv, NodeType, Undisturbed
  <2>2. \A j \in VM : NodeOK(j)'
    BY <1>11, <2>1, Bystander DEF vars, NodeInv
  <2> QED BY <2>1, <2>2 DEF NodeInv
<1> QED BY <1>1, <1>2, <1>3, <1>4, <1>5, <1>6, <1>7, <1>8, <1>9, <1>10, <1>11
        DEF Next, RPCStep

\* Every reachable state of the agents satisfies NodeInv.
THEOREM NodeInvariantHolds == Spec => []NodeInv
BY NodeInit, NodeStep, PTL DEF Spec

\* The use barrier holds end to end, for any VMs, volumes, paths and bounds:
\* what is mounted is mounted under a use on record of the current
\* generation, from a disk attached to that VM (node.go:110, 253-256).
THEOREM MountHasUseHolds ==
  ASSUME ReleasesInOrder PROVE Spec => []MountHasUse
<1>1. NodeInv => MountHasUse
  BY DEF NodeInv, NodeOK, MountsBacked, Backed, MountHasUse
<1> QED BY <1>1, NodeInvariantHolds, PTL

\* And so no volume is ever mounted on two VMs.
THEOREM MountedOnOneVMHolds ==
  ASSUME ReleasesInOrder PROVE Spec => []MountedOnOneVM
<1>1. MountHasUse => MountedOnOneVM
  BY DEF MountHasUse, MountedOnOneVM
<1> QED BY <1>1, MountHasUseHolds, PTL
=============================================================================
