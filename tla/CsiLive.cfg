SPECIFICATION CsiFairSpec
CONSTANTS
  t1 = t1
  t2 = t2
  vm1 = vm1
  vm2 = vm2
  z1 = z1
  z2 = z2
  ext4 = ext4
  bogus = bogus
  None = None
  InstanceID = {vm1, vm2}
  VolumeID = {v1}
  AttachmentID = {a1, a2}
  MaxSize = 1
  UseID = {u1}
  Troubles = {"fail", "lost", "crash"}
  MaxTrouble = 1
  Name = {pvc}
  Capability <- CsiCapability
  ValidCapability <- CsiCapability
  Owner = {t1}
  Zone <- CsiZones
  InstOwner <- OneClusterOwner
  InstZone <- AllHere
  Principal <- OneClusterPrincipal
  Self <- TheController
  Key = {"region", "zone"}
  Segment = {"r1", "z1", "z2"}
  Absent = Absent
  DefaultPlace <- FlagPlace
  DefaultSize = 1
  Wants <- OneWish
  Losable = {}
  MaxLate = 0
PROPERTIES
  ClaimBinds
  ReleaseCompletes
  WithdrawalCompletes
  AttachmentServed
