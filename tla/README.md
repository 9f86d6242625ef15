# managed-k8s-storage: specifications, model checking and proofs

This directory holds TLA+ models of the managed storage service in `src/`, the TLC
configurations that check them on small instances, and proofs, checked by TLAPS, that
hold for instances of every size. Line numbers refer to `src/`.

1. [The system](#1-the-system): components, state, interactions, what is hard
2. [The modules](#2-the-modules): which models what, and how it corresponds to the code
3. [The runs](#3-the-runs): what each shows, bounds, fairness
4. [Where code and documents disagree](#4-where-code-and-documents-disagree)
5. [The proofs](#5-the-proofs)
6. [What is left out](#6-what-is-left-out)
7. [Plan](#7-plan)

## 1. The system

The service gives Pods of tenant clusters block volumes of a cloud. It is a platform
with a durable table of intents, a loop that drives the cloud towards them, and CSI
plugins that translate between Kubernetes and the platform.

```
   external sidecars                         kubelet (one per VM)
          | CSI                                   | CSI
  csi-controller (stateless)              csi-node (journal, mounts)
          | HTTPS, role "controller"              | HTTPS, role "node"
          +----------------> storage-api <--------+
                 Engine.Call  |  Engine.Reconcile, every 100 ms
                              |        |
                     one bbolt database|  provider calls, inside the pass
                                       v
                           the cloud: disks and where they are attached
```

| component | state | operations | properties that make it correct |
|---|---|---|---|
| platform engine, calls (`internal/platform/engine.go:56-266`) | volumes, attachments, audit in one bbolt file; registry in memory | Create/Delete/Resize/GetVolume, Create/Delete/GetAttachment, GetInstance; Acquire/Check/ReleaseUse, RecordPublish, MarkInitialized, NodeSelf | one writer per volume; generations fence old incarnations; tenants kept apart; what was closed stays closed |
| platform engine, reconcile (`engine.go:268-362`) | none of its own: works on a copy inside one transaction | Reconcile | no disk taken from a VM that uses it; nothing in the cloud without intent; nothing recreated; everything asked for done in the end |
| cloud provider (`internal/provider/provider.go`) | disks, in a database of its own | GetVolume, EnsureVolume, DeleteVolume, EnsureAttached, EnsureDetached | refuses to attach twice and to delete what is attached; repeatable |
| node agent (`internal/driver/node.go`) | journal of stages and targets, in bbolt, per VM | NodeStage, NodePublish, NodeUnpublish, NodeUnstage, NodeExpand, NodeGetVolumeStats | no mount without a use on record; no mount the journal does not know; everything cleaned up in the end |
| host (`internal/host`) | mounts of the VM, contents of devices | Stage, Publish, Unmount, Expand, Stats | a device is formatted only with a grant and never over data; what was staged, published or grown stays usable |
| CSI controller (`internal/driver/controller.go`) | none; its callers, the sidecars, keep claims and VolumeAttachments | CreateVolume ... ControllerPublish/Unpublish, ControllerExpand | an OK promises only what is so, and stays so; repeated calls come to an end |
| transport (`internal/transport/http.go`) | none | one POST per operation | the principal is the certificate's; the client waits 15 s |
| store (`internal/store/store.go`) | the bbolt file | Read, Write | a transaction is all or nothing |

**How they interact.** A call is one bbolt write transaction (`engine.go:65`). A reconcile
pass is also one (`engine.go:271`), so passes and calls are serialised by bbolt's writer
lock, but the pass talks to the provider in the middle of its transaction: what the cloud
did stays done when the transaction does not commit. The node agents reach the platform
over the network, and a client that has given up waiting has not stopped its request.

**What is hard.** A crash between a provider call and the commit; a provider error after
the effect; the cloud changing between passes, or between the two provider calls of one
visit; a detach requested while a node is staging; a node RPC stopped between an API call,
a journal write and a mount; an old `ReleaseUse` that takes effect late; two volumes
competing for paths; a VM leaving the registry; a command of the host killed half way; a
stateless controller whose answers are lost and whose calls are executed after the sidecar has
gone on; liveness of the clean-up, which needs three parties. `PROJECT.json` lists each hazard at its line with the properties that cover it.

## 2. The modules

| module | models | lines of code |
|---|---|---|
| `Tables` | partial functions as tables: `With`, `Without` | - |
| `Provider` | the persistent cloud emulator | `provider.go` |
| `Platform` | calls, reconcile pass, crash, restart, drift; the properties | `engine.go`, part of `model.go`, `main.go` |
| `Lease`, `WriterLease` | abstract: what the platform promises about one volume | promise of `engine.go` |
| `PlatformLeaseRefinement` | the refinement mapping from `Platform` to `WriterLease` | - |
| `NodeAgent` | the node agents of all VMs, their hosts, late requests; composed with one lease per volume | `node.go`, `host.go`, timeouts of `http.go` |
| `LinuxNode` | `NodeAgent` on the Linux host instead of the simulated one: devices, formatting, read-only binds, growth, and what the kubelet was told | `linux.go`, `NodeExpandVolume` |
| `Provisioning` | what CreateVolume makes of its request: place, capability, size | `controller.go:19-82`, `capability` |
| `CsiController` | the CSI controller over `Platform`, with the sidecars that call it | `controller.go` |
| `PlatformInvariant`, `NodeInvariant`, `LinuxInvariant`, `CsiInvariant` | the inductive invariants | - |
| `PlatformProofs`, `PlatformRecordProofs`, `PlatformLeaseProofs` | theorems about `Platform`: types, attachments and the cloud; records, identities, sizes; barrier, uses, refinement of the lease | - |
| `CsiControllerProofs` | theorems about `CsiController` | - |
| `NodeProofs`, `NodeJournalProofs` | theorems about `NodeAgent`: mounts and uses; paths and where mounts come from | - |
| `LinuxProofs` | theorems about `LinuxNode`: the agents' invariants carry over; data and the grant; growth; what was staged and published; types | - |
| `ProvisioningProofs` | theorems about `Provisioning` | - |
| `MCPlatform`, `MCNodeAgent`, `MCLinuxNode`, `MCCsiController` | instances for TLC | - |

### Platform

| model | code |
|---|---|
| `vol`, `att` | `State.Volumes`, `State.Attachments`, as committed |
| `wvol`, `watt` | the `*State` the open pass has decoded and changes |
| `phase`, `todo`, `pending` | where `Reconcile` is: which loop, what it has still to visit, and the record between `GetVolume` and the mutating call |
| `disk` | the provider's bucket |
| `active` | the instances of `Config` with `Active`; the rest of the registry is `InstOwner`, `InstZone` |
| `trouble` | how many times something went wrong; it only bounds the checking |

Every accepted call that changes something is one action with the guards of `apply` and
`node` as conjuncts: `CreateVolume`, `DeleteVolume`, `ResizeVolume`, `CreateAttachment`,
`DeleteAttachment` (by ID), `DeleteLatestAttachment` (by volume and VM), `AcquireUse`,
`ReleaseUse`, `MarkInitialized`. `CheckUse`, `RecordPublish` and the reads change nothing.
A rejected call and a repeated one are stutters.

The pass is `BeginReconcile`, then for each volume in any order either `ReconcileDelete` or
`ObserveVolume` and perhaps `ReconcileEnsure`, then `VolumesDone`, then for each attachment
`ReconcileDetach` or `ObserveAttachment` and perhaps `ReconcileAttach`, then
`CommitReconcile`. The provider's effect is immediate; the copies become durable only at the
commit. A mutating provider call is `ok`, `fail` (no effect, an error) or `lost` (the effect,
and an error). `Crash` drops the copies anywhere in a pass; `RestartWithRegistry` also
changes the registry; `Drift` changes the cloud, between passes (`"drift"`) or inside one
(`"window"`). `Troubles` selects which of these an instance has.

A pass in the model cannot be interleaved with a call: both hold the writer lock. That is
the code's own serialisation, not a simplification.

### WriterLease

One volume's disk as a lease: granted to one VM at a time under a new generation; while its
gate is open the disk may go to the holder and uses may be registered; once it is closed
uses only go, the disk leaves after the last, and the lease is retired. `Platform`
implements it (`ImplementsLease`), and `NodeAgent` uses it in place of the platform, so
the two models meet at one interface instead of being multiplied. On the other side there is
nothing to check: `NodeAgent` changes `lease` only by the operators of `Lease` under their own
guards, so it keeps to the lease by construction. What ties the lease to the code is
`ImplementsLease`.

### NodeAgent

| model | code |
|---|---|
| `journal[i]` | the `stages` map saved by `n.save` on VM `i` |
| `mounts[i]` | `Simulated`'s mounts of VM `i` |
| `rpc[i]` | the RPC that holds `n.mu`, and the point it has reached; its local variables |
| `lease[v]` | the platform |
| `late` | API requests whose client timed out and which the server has yet to execute |

An RPC is a sequence of actions, one for each effect: `StageBegin` (all checks up to
`AcquireUse`), `StageAcquire`, `StageRecord`, `StageMount`, `StageMark`, `StageReady`; and so
for publish, unpublish and unstage. Between any two it may `Break` (an error or a crash of
the agent: journal and mounts stay), `TimeOut`, or lose its VM (`Reboot`: the mounts go).
The kubelet may call anything at any time with any generation it was ever given.

The use identifier is a hash of volume, path and generation; the model has the pair
`<<path, g>>` in the lease of the volume, injective like the hash.

`InOrder` says whether an agent's requests take effect in the order sent. The code does not
guarantee it; the runs that need it name it, and `node_late_release` shows what happens
without.

### LinuxNode

`LinuxNode` extends `NodeAgent`: it keeps its checks, journal writes and API calls, and
replaces the mount steps of the simulated host by the commands of the Linux host.

| model | code |
|---|---|
| `mode[v]`, `device[v]` | the volume's mode; what `wipefs` finds on its device, whether somebody's data is on it, `AllowFormat`, and its capacity in the cloud, in the platform's table, in the VM and in the file system |
| `granted[i]` | the volume that `AcquireUse` returned, which `NodeStageVolume` keeps in a local variable |
| `staged`, `published`, `grown` | not in the code: what the kubelet was answered and now relies on |
| `StageProbe`, `Mkfs`, `StageFsMount` | `Linux.Stage`: existing mounts and `formatRequired`, `mkfs`, `mount` |
| `LinuxBind`, `RemountReadOnly`, `PublishAnswer` | `Linux.Publish`: the checks of an existing target, the bind, the remount; then the reply |
| `LinuxMark` | `MarkInitialized`, which withdraws the grant to format |
| `ExpandBegin`, `ExpandCheck`, `ExpandResize`, `ExpandNote` | `NodeExpandVolume` and `Linux.Expand` |
| `MkfsKilled`, `RemountFails`, `HostBreak` | `run` under a context whose deadline kills the command, or a crash |
| `PodWrites`, `Damage`, `CloudGrows`, `PlatformNotes`, `VMNotices` | the surroundings |

A killed `mkfs` leaves the device blank or with a file system that does not mount.

### Provisioning

A pure module: `Place`, `Meaning` and `Size` are functions of the CreateVolume request, and
`Asks` says that the platform is asked at all. `Suitable` are the positions of the terms,
preferred before requisite, that are complete and that some requisite term admits; `Choice` is
the first.

### CsiController

The controller keeps no state, so its state here is that of its callers: `claim[n]` is what
the external provisioner and resizer know about a PersistentVolumeClaim, `va[v][i]` what the
attacher knows about a VolumeAttachment, `late` the calls that are executed after their client
has given up.

| model | code |
|---|---|
| `CreateCall` ... `UnpublishCall`, `Accepted` | the storage API call each RPC makes |
| `Pend` | it is accepted, and answered `Aborted` or not at all |
| `CreateOK`, `ExpandOK`, `DeleteOK`, `PublishOK`, `UnpublishOK` | it is answered OK: the conditions after the call |
| `Deliver` | a request in the server's queue whose client has gone |
| `RequestVolume`, `Reschedule`, `Grow`, `ReleaseClaim`, `WantAttachment`, `Withdraw` | users, scheduler and attach controller |
| `PassStep`, `NodeStep` | `Platform` |

`DetachedIsFree` is about volumes of the controller's own cluster (`Owned(Self, v)`): a
VolumeAttachment is an object of one cluster, and says nothing of other clusters' volumes.

A claim's request may change while it is retried (`Reschedule`), as the scheduler or the
set of nodes changes the topology terms; the platform then refuses the retry
(`SameConfiguration`, `engine.go:109-117`), and the claim waits.

## 3. The runs

| run | instance | shows |
|---|---|---|
| `platform_drift` | 1 volume, 2 VMs, 3 attachment IDs, 2 uses, sizes 1..2; fail, lost, crash, drift; 3 troubles | the inductive invariant `RecordInv`, `SingleWriter`, `GenerationOrder`, `CloudIntent`, `DeletionIsFinal`, `CapacityBacked`, `DetachBarrier`, `NoImplicitRecreate`, `NoReattachUnderUse`, `DeviceKeyStable` |
| `platform_tenants` | 2 clusters, 2 zones, 2 volumes, a certificate naming a foreign VM; fail, lost, crash, registry | `OneScope`, `UseHoldsDisk`, `OneWay`, `CallerScope`, and the refinement `ImplementsLease` |
| `platform_live` | 1 volume, sizes 1..2, 2 attachments; 2 troubles; fair | `DetachCompletes`, `CapacityConverges` |
| `csi_answers` | 1 claim name, 2 volume and 2 attachment IDs, 2 VMs, sizes 1..2, two requests with different topology; fail, lost, crash; 1 late create, delete or expand | the inductive invariant `CsiInv`, `AttachedIsServed`, `DetachedIsFree`, `PromiseKept`, `GoneIsGone` |
| `csi_live` | 1 claim, 2 VMs, 2 attachments, fail, lost, crash; fair | `ClaimBinds`, `ReleaseCompletes`, `WithdrawalCompletes`, `AttachmentServed` |
| `node_paths` | 2 volumes, 1 VM, 3 paths, 2 configurations; breaks, reboots, late requests out of order; 2 troubles | `MountTracked`, `TargetOnStage`, `PathHasOneOwner` |
| `linux_safety` | 1 volume, 2 VMs, 2 paths, 2 grants, raw and formatted, blank and foreign devices, growth; a break before any command; 1 trouble | `LinuxTypeOK`, `GrantSpentOnFS`, `NoDataLost`, `PublishedIsServed`, `GrownIsThere`, `MountHasUse`, `MountedOnOneVM`, `StagedIsUsable` |
| `linux_recover` | 1 volume, 1 VM, 2 paths, 2 grants; breaks, a late release, reboots; 2 troubles; fair | `DrainCompletes`, `StageRecovers`, `PublishRecovers` |
| `platform_window_recreate`, `node_late_release`, `node_leak`, `linux_readonly_stuck` | smallest instance | a violation each, section 4 |

`PROJECT.json` also names, for each property of a passing run, a plausible slip in the code
under which that run fails. The slips are the operators marked `Slip:` in the modules.

**Bounds, and why they are enough.**
One volume suffices for what is about one volume's attachments: the engine relates records
of different volumes only in `CreateVolume`'s name check and in the caller's scope, which
`platform_tenants` and `csi_answers` check with two, both visited by one pass.
Three incarnations allow an old attachment, a live one and the next; two VMs a move between
VMs. `MaxSize` 2 is the least that has a growth; `platform_tenants` has 1, so there the part of
`OneWay` about the desired size is idle and rests on `NothingIsReopened`. Two troubles allow a failure during the
recovery of another, three in the drift run a drift on top; the runs that multiply two
components have one. Identifiers are drawn from a finite set that may run out; then only
creation stops, so no deadlock arises and deadlock is checked everywhere. Identifiers are
interchangeable and symmetric in the safety runs; liveness runs use no symmetry. `MaxGen`
bounds grants: 2 let an old incarnation's calls meet the next. In `csi_answers` the second
volume identifier is there for a second volume under one name, which must not come to be;
the first request's first preference is not admitted by its requisite terms, as in
`controller_test.go:19`. What no bound limits is proved instead (section 5).

**Fairness.**
`Platform` assumes `WF(ReconcileStep)` and nothing of callers: `cmd/storage-api/main.go:46-59`
runs `Reconcile` every 100 ms for ever, and a pass visits every record. Trouble is bounded,
which says "when trouble ends", not "trouble never happens". A registry change and drift are
excluded from the liveness runs, because the code deliberately stops there ("fencing
required", `engine.go:336, 345`) and waits for an operator. No fairness is needed within a
pass for one record rather than another: the pass visits all before it can end.

`CsiFairness` adds that a sidecar repeats the call of an object until it is answered OK,
and that the nodes release what is being detached, each with strong fairness: a call waits
for the writer lock, which passes take again and again, and bbolt's mutex starves no waiter.
What the nodes do there is `DrainCompletes` here. Nothing is assumed of users or scheduler;
in `csi_live` a claim has one request, for a claim whose request changed on the way waits
until it is changed back.

`LinuxFairness` assumes that a running RPC goes on, that a request already in the server's
queue is executed, that the platform gives the disk back and retires (which
`DetachCompletes` of `Platform` justifies), and that the kubelet repeats `NodeStage` of an
attached volume, `NodePublish` of a target it has begun with, and `NodeUnpublish` and
`NodeUnstage` of a volume it is to lose, with strong fairness as other RPCs may hold the
mutex in between (Go's mutex does not starve a waiter). A volume is to be lost (`ToLose`)
when its gate is closed, or when the journal still has an entry of an earlier generation:
an unstage that stopped between `ReleaseUse` and the journal write leaves one, and stage
refuses the next generation with `AlreadyExists` until that unstage is repeated. Nothing is
assumed of grants.

## 4. Where code and documents disagree

Four runs check one statement of the repository each, and TLC finds a behaviour of the code
that contradicts it.

* **`platform_window_recreate`**, `engine.go:304`. `docs/api.md:64-65` says that the platform
  "never recreates a previously observed disk after disappearance". The check looks at what
  `GetVolume` answered at 290; if a `RESIZING` volume's disk disappears between that and
  `EnsureVolume`, `EnsureVolume` creates an empty one under the recorded identity. Without
  drift inside a pass the statement holds (`platform_drift`).
* **`node_late_release`**, `node.go:256`. `ReleaseUse` names the use but not the stage it
  ends. A release whose client timed out may be executed after the kubelet unstaged and
  staged again at the same path and generation. The volume is then mounted without a use and
  a detach passes; `README.md:56` says it does not.
* **`node_leak`**, `node.go:244`. A stage that stops between `AcquireUse` (110) and the journal
  write (123) leaves a use no clean-up call releases when the gate closes before the next
  stage: unstage finds no entry and answers OK, stage is refused. The detach waits for ever;
  `docs/architecture.ru.md:280` says that finish and cancel converge. `linux_recover`
  shows that with breaks anywhere else in an RPC, a late release or a reboot it is
  drained; an `AcquireUse` that takes effect after its client timed out leaves the same use
  without an entry and is excluded there too (`Losable`).
* **`linux_readonly_stuck`**, `linux.go:235`. A read-only publish is a bind (232) and a remount
  (236). An agent that stops in between leaves the target mounted writable; the `umount` at 237
  does not help when the RPC's deadline killed the remount, for it has the same context. Line
  207 then refuses every retry until the target is unpublished, while
  `docs/architecture.ru.md:291` says that the same paths are retried.

Four more can be seen by changing one constant of a passing run:

* `NoReattachUnderUse` with `"window"` among the `Troubles` of `PlatformDrift.cfg`,
  `engine.go:351`: a disk detached between 339 and 351 is attached again under live uses;
  `docs/architecture.ru.md:286` calls a lost attachment an error that needs recovery.
* `DetachedIsFree` with `Losable = {"publish"}` in `CsiAnswers.cfg`, `controller.go:134`: a
  CreateAttachment that is executed after its VolumeAttachment is gone makes an attachment
  nobody ends; `docs/architecture.ru.md:280`.
* `AttachedIsServed` with `Losable = {"unpublish"}`, `controller.go:148`, `engine.go:182-188`:
  DeleteAttachment names volume and VM, and executed late closes the latest attachment, which
  may be the next one of the same VM; `docs/architecture.ru.md:294`.
* `PublishedIsServed` with `Contract = FALSE` in `LinuxSafety.cfg`, `linux.go:232`: after a
  reboot the journal says that the volume is staged, and a publish without a new stage binds
  the empty directory of the VM's own disk; the simulated host refuses this
  (`host.go:59-60`). A kubelet that stages first, as CSI prescribes, does not meet it.

One more divergence has no run, being about a drawing: the state diagram of
`docs/architecture.ru.md:249-260` has no arrows from `CREATING` and `RESIZING` to
`DELETING`, which `engine.go:133-140` takes.

## 5. The proofs

The theorems hold for every value of the constants that satisfies the assumptions of the
module they are about; the sets may be infinite, and TLC evaluates the assumptions in every
run that extends the module.

`ProviderAssumption` and `PlatformAssumption`: the size limit is a positive number, the empty
identifier is no identifier, volume and attachment identifiers are different (they have
different prefixes), principals and registry are of their types, and the bound on trouble is
a number. `CsiControllerAssumption`: the controller has the role of a controller, and claims
ask for requests. `LeaseAssumption`, `NodeAgentAssumption` and `LinuxNodeAssumption`: nobody is
not a VM, the bounds are numbers, the places where something may break or be late are points
of an RPC, a device or an empty directory is not one of the paths, and modes, flags and
contents are those of the code.

Some theorems have a hypothesis of their own, named in the last column. No drift and no
`"window"` means that `Troubles` has neither; `OneController`, that no other principal has the
controller's role for the cluster; `ReleasesInOrder` and `Contract` are explained below, and
section 4 shows what happens without them, or with the late call that is excluded.

| theorem | says | given |
|---|---|---|
| **`PlatformProofs`** | | |
| `TypeCorrect` | `Spec => []TypeOK` | - |
| `Inductive` | `Spec => []IInv`, under every kind of trouble | - |
| `SingleWriterHolds`, `GenerationsFence`, `CloudHasIntent`, `DeletionHolds` | `[]` of `SingleWriter`, `GenerationOrder`, `CloudIntent`, `DeletionIsFinal` | - |
| **`PlatformRecordProofs`** | | |
| `RecordsInductive` | `Spec => []RecordInv`, under every kind of trouble | - |
| `ScopeHolds`, `CapacityHolds` | `[]` of `OneScope`, `CapacityBacked` | - |
| `CallersKeepToTheirOwn`, `IdentityStays`, `NothingIsReopened` | `CallerScope`, `DeviceKeyStable`, `OneWay` | - |
| `NamesStayUnique` | no cluster ever has two volumes of one name | - |
| `NoDiskIsRemade`, `NoDiskIsGivenBack` | `NoImplicitRecreate`, `NoReattachUnderUse` | no `"window"` |
| `DisksStay` | a volume past its creation keeps its disk | no drift, no `"window"` |
| **`PlatformLeaseProofs`** | | |
| `BarrierHolds` | `Spec => DetachBarrier`, also when drift happens elsewhere or inside the pass | - |
| `UsesHold` | `Spec => []UseHoldsDisk` | no drift, no `"window"` |
| `PlatformImplementsLease` | `Spec => ImplementsLease`: `WriterLease` under the refinement mapping, for every volume | no drift, no `"window"` |
| **`CsiControllerProofs`** | | |
| `CsiImplementsPlatform` | `CsiSpec => Spec` | - |
| `CsiInvHolds`, `GoneStaysGone` | `[]` of `CsiInv`, `GoneIsGone` | - |
| `PromisesAreKept` | `[]PromiseKept` | `OneController`, no drift, no `"window"` |
| `AttachmentsAreServed` | `[]AttachedIsServed` | the same, and no detach is executed late |
| `DetachedStaysFree` | `[]DetachedIsFree` | `OneController`, and no attach is executed late |
| **`NodeProofs`, `NodeJournalProofs`** | | |
| `NodeInvariantHolds` | `Spec => []NodeInv` of `NodeAgent`, with requests in order or not | - |
| `MountHasUseHolds`, `MountedOnOneVMHolds` | `[]` of `MountHasUse`, `MountedOnOneVM` | `ReleasesInOrder` |
| `PathHasOneOwnerHolds`, `MountTrackedHolds`, `TargetOnStageHolds` | `[]` of `PathHasOneOwner`, `MountTracked`, `TargetOnStage` | - |
| **`LinuxProofs`** | | |
| `LinuxInvariantHolds` | `NodeInv`, `JournalInv` and `LinuxInv` hold of `LinuxSpec` | `ReleasesInOrder` |
| `NoDataLostHolds`, `GrantSpentOnFSHolds`, `LinuxAgentIsSafe` | `NoDataLost`; `[]` of `GrantSpentOnFS`, of `MountHasUse` and `MountedOnOneVM` | `ReleasesInOrder` |
| `LinuxPathHasOneOwner` | `[]PathHasOneOwner` | - |
| `SizesHold`, `GrownIsThereHolds` | `[]` of `SizesInv`, `GrownIsThere` | - |
| `PublishedIsServedHolds` | `[]PublishedIsServed`, releases in order or not | `Contract` |
| `StagedIsUsableHolds` | `[]StagedIsUsable` | `Contract`, `ReleasesInOrder` |
| `LinuxTypesHold` | `[]LinuxTypeOK` | `Contract`, `RW \in Conf` |
| **`ProvisioningProofs`** | | |
| `PlaceIsReachable`, `CompleteRequisiteIsServed`, `PreferredComesFirst` | for topology terms of any number, order and keys: the place asked for is one the requisite terms admit; there is one if a requisite term is complete; it is a preferred one if a preferred one is suitable | - |

**The platform: attachments and the cloud.** `SingleWriter` and `GenerationOrder` are about durable
tables, but a commit replaces these by the copies, so nothing about `att` survives a commit
unless it is known of `watt`. `IInv` therefore adds:

* `PassKeepsIntent`: the copies differ from the tables only in what a pass may write (state,
  error, size, identity), and an attachment live in the copy is live in the table, so a
  pass can end attachments but not revive them;
* `StatesOK`: the state names tell whether the end was requested, and nobody uses what was
  not confirmed. That makes the barrier work: `AcquireUse` needs `ATTACHED`,
  and what reaches `DETACHED` has no use;
* `CloudFollows`: what is attached in the cloud is attached for an attachment the *copy* has
  not given up. It is about the copy because the pass detaches first and commits later; and
  it implies `CloudIntent`, about the table, by `PassKeepsIntent`. A rollback restores a copy
  that has given up less, so it keeps this too;
* `PendingIsWanted`: between `GetVolume` and the mutating call the record is still wanted;
* `DeletedHasNoWriter`: needed by the pass, which deletes disks in its first loop and
  attaches in its second.

The proof has one lemma per action. Two frames carry most of it: a call changes both tables
and their copies alike (`CallKeeps`, `VolumeCall`, `AttachmentCall`), and a visit changes one
copy and one disk (`VolumeVisit`, `AttachmentVisit`).

**The platform: records.** `RecordInv` is `IInv` with what is known of single fields:

* `OneScope`, the property itself, once an attachment takes owner and zone from its volume
  and nothing but creation writes them;
* `PassLeavesDone`: a pass leaves alone what is over, and a volume it has still to visit is in
  the copy as in the table. `OneWay` and `DeviceKeyStable` are about a table a commit
  replaces, so they are facts about the copy the moment before;
* `DiskSizes`: `size` of a record, in table and copy, is at most the disk's, that at most what
  was asked for, and `AVAILABLE` means it is all of it. A rollback forgets an observed size
  but not the disk's growth; the inequality goes that way;
* `PendingIsSeen`, for instances without `"window"`: what `GetVolume` answered is still so at
  the mutating call of the same visit. It is what `NoDiskIsRemade` and `NoDiskIsGivenBack`
  rest on, and what drift inside a visit takes away (section 4).

`AnyCallEffect` and the lemmas on the effects of a visit (`ObserveVolumeEffect` and so on) say once
what an action makes of one record; the step lemmas and the action properties cite these.

**The platform as leases.** `UsesHold` and the refinement need one thing more,
`ConfirmedIsHeld`: without drift an attachment which the table or the copy shows as
`ATTACHED`, or that has uses, has the disk; it is kept because the only step that takes a
disk away is `BarrierHolds`' detach. The mapping takes gate and uses from the live attachment
of the table and the disk from the cloud, so a pass's provider calls are lease steps at the
moment of their effect and its commit is at most a retirement: `PassKeepsIntent` makes all the
rest of a commit invisible, and `ConfirmedIsHeld` provides the disk that `AcquireUse` needs. With
drift the refinement is false, since the abstract lease does not lose its disk.

**The CSI controller.** `CsiImplementsPlatform` says that whatever the controller, its sidecars and
their late calls do is a step of the platform or none, so every theorem above holds
of `CsiSpec` too. What the sidecars believe then needs `CsiInv`:

* `ClaimOK`: from its first OK on, a claim names the cluster's volume of its name. A stateless
  controller is sent the name again and again; that it never gets a second
  volume is `NamesUnique`;
* `LateOK`: a deletion on its way was sent for a claim that was released, so it cannot take
  the volume of a later one, whose identifier is new;
* `VAOK`: the publish context names the attachment of its volume and VM with its generation.

`GoneStaysGone` follows for every kind of late call: a create executed after the claim is gone
finds the deleted record under its name. `PromisesAreKept` adds `DisksStay` and `OneController`
(another controller of the same cluster could delete what this one promised).
`AttachmentsAreServed` and `DetachedStaysFree` exclude one kind of late call each, that of
section 4; no other kind does harm.

**The agents.** `MountHasUse` relates mounts, journal and the platform, and is about states in
the middle of RPCs, so `NodeInv` says what each point of an RPC knows. For each VM:

* `JournalAsSeen`: what a running RPC has read in the journal is still so, since it holds the
  agent's mutex: a stage past its journal write has its entry, an unstage has an entry
  without targets, and past its unmount nothing of the volume is mounted;
* `PromiseHolds`: between the platform's yes to `AcquireUse` or `RecordPublish` and the mount
  it is for, the use stays on record. This is the step that is easy to get wrong: the disk
  may be asked for in between, and what keeps it is only the use;
* `MountsListed`: a mount is at the staging path or a target of an entry of its volume, so an
  unstage, which finds no target in its entry, leaves no mount behind when it releases;
* `LateIsHarmless`: a release still to be executed is of a volume that is not mounted.

`ReleasesInOrder` is assumed where it is needed: an agent's requests take effect in the
order sent, or no release outlives its client. Without it `node_late_release` shows a mount
without a use. It is a premise inside `NodeInv`'s parts about leases, so that the parts about
journal and mounts hold without it and can be reused.

No order is needed for what is only about the VM. `JournalInv`: the checks of stage and
publish look at the journal only, and a path that is checked stays free until it is recorded
(`PathsOwned`); what has a target is ready (`TargetsAreReady`). `SourceInv`: a mount at a staging
path is of the device and one at a target is of the staging path, with the staging mount there
and the configuration the journal has (`MountSourced`). It is the unpublish that has to be
watched: it unmounts whatever it was told, which must be a target and not a staging path
(`TargetAsSeen`). `MountTracked` and `TargetOnStage` follow.

The other VMs are framed by `Bystander`: a step of one VM can at most remove its own use
(`Undisturbed`), and the platform closes gates, but gives a disk away only without uses.

**The Linux host.** A step of `LinuxNext` either is a step of `NodeAgent`'s `Next` with
something of the host besides, for which the lemmas of `NodeProofs` are reused
(`NodeAgentSteps`), or one of the host's own, which has a lemma here (`LinuxSteps`).
`LinuxInv` then says why data is safe:

* `DataIsProtected`: what holds data is no blank device with a grant. A Pod writes only
  through a target the kubelet was told of (`PublishedIsTracked`), which is the target of a
  ready stage (`TargetsAreReady`), whose grant is withdrawn (`ReadyIsMarked`);
* `GrantIsFresh`: the answer of `AcquireUse`, on which `formatRequired` decides, is a copy.
  It stays as good as the platform's until `mkfs`, because `MarkInitialized` of another VM
  needs that VM's use, and `PromiseHolds` says that this VM has the volume;
* `MountIsFS`: a mount from a device that is not raw shows a file system, so that
  `MarkInitialized` after it finds one.

`NoDataLost` follows: only `mkfs` takes data away, and where it runs the device is blank and
the grant fresh, so there is none.

`SizesInv` is about growth: cloud, VM and file system learn a size one from another, so each
knows at most what its source has, and no step of any of them shrinks (`DevicesOnlyGrow`).
A running `NodeExpandVolume` past its resize has a `need` that is usable, and stays so until it
is confirmed, whatever other VMs, stages and expansions do.

`ServedInv` is about what the kubelet relies on. `Linux.Publish` binds what is at the staging
path, so the volume it staged must still be mounted there (`StagedIsMounted`): true under
`Contract`, by which the kubelet stages after a reboot before it publishes. A target then shows
the volume (`TargetsServed`): the bind is answered only after the remount (`HostAsSeen`), a
retry accepts a target only with the flag it asks for, and a target that was answered is not
bound again. The kubelet stops relying on a target when it asks for the unpublish, so no
RPC takes away what it still counts on (`PublishedIsTracked`). The leases play no part, so no order of
releases is assumed.

`KeptInv` adds the leases: what is staged has a ready entry with its use on record, and no
release of it is on its way. Nothing but the mount would tell that a formatted volume is in
use, and a raw one has no mount until it is published, so `MountHasUse` does not cover the
time between stage and publish; the use does. It was checked by `MarkInitialized`, and must still
be there when the stage is confirmed (the point `ready`): the agent sends nothing while an
earlier request of it may still be executed, and its own releases are of what is not staged.
A second stage of the volume takes the same use again, and nothing it does when it
fails, at a gate that has closed meanwhile for one, gives that use back. With `StagedIsMounted`,
which needs `Contract`, `StagedIsUsable` follows; `ReleasesInOrder` is needed as for
`MountHasUse`.

`TypedInv` has the bounds that `LinuxTypeOK` needs and the other invariants leave open: every
generation asked with, in a use or in a journal is between 1 and the bound on grants
(`LeaseBounded`, `TypedOK`), and an expansion runs only on what is staged. `Contract` is needed because a publish of what is
not staged binds the directory that happens to be there, and `RW \in Conf` because a
read-only target is bound read-write before its remount.

That the loops of `CreateVolume` find a first suitable term (`ChoiceIsFirst`) follows from the
order of the natural numbers being well-founded.

**Only model-checked.** Liveness and fairness (`DetachCompletes`, `CapacityConverges`,
`ClaimBinds`, `ReleaseCompletes`, `WithdrawalCompletes`, `AttachmentServed`,
`DrainCompletes`, `StageRecovers`, `PublishRecovers`), which are out of the prover's reach.
Every safety property that a passing run checks is stated by a theorem.

## 6. What is left out

* **Audit records**, log output and error texts: no decision reads them. `LastError` is kept
  as whether there is one.
* **Identifier and path syntax**, symbolic links, JSON, HTTP status codes, TLS: checks that
  reject a request before it reaches anything modelled. A principal is what
  `transport.Handler` makes of a client certificate.
* **Capabilities** are opaque values in `Platform`; capacity is a small
  number; the volume type is always `standard`, and StorageClass parameters, content
  sources and an expansion's upper limit (`node.go:304`, `controller.go:177`), which only
  reject a request, are left out.
* **A smaller disk in another's place**: drift takes a disk away, detaches it or changes its
  identity; a device that replaces it has its size. `CapacityBacked` under drift is about that.
* **The registry in `NodeAgent`**: a VM whose registry entry is inactive cannot release its
  uses either (`engine.go:209`). There `UnstageRelease` would fail and be repeated.
* **Duplicates among late requests**: two equal requests are one element of `late`. Executing
  `AcquireUse` or `ReleaseUse` twice in a row equals once; executing one copy before and one
  after something else is what a longer delay shows.
* **Reads**: `NodeGetVolumeStats`, `Host.Stats`, `ValidateVolumeCapabilities`, `NodeSelf` at
  start. They change nothing and nothing decides on them.
* **Linux details**: how commands' output is parsed, device numbers, `blkid` and `wipefs`
  disagreeing, a raw device bound read-only. A half-made file system never mounts.
* **MarkInitialized and AcquireUse executed late on the Linux host**: `NodeAgent` has late
  acquires and releases; a late `MarkInitialized` only withdraws the grant to format.
* **A lost or damaged journal**: the agent refuses to start on a file it cannot decode.
* **Growth on the simulated host** and the drift of a disk below its staging mount.
* **Processes' wiring, demo, fixtures, manifests**: no behaviour of their own.

## 7. Plan

Done: everything in section 2; a theorem for every safety property that a passing run checks.
To come, most important first:

1. The registry in `NodeAgent`: a VM that leaves it and comes back, a second agent of
   the same VM.
2. A journal that is lost with its VM, and what a new one must not do.
3. `transport.Handler`: which principal a certificate makes, as a pure module.
