SPECIFICATION CsiSpec
CONSTANTS
  t1 = t1
  t2 = t2
  vm1 = vm1
  vm2 = vm2
  z1 = z1
  z2 = z2
  ext4 = ext4
  bogus = bogus
  None = None
  InstanceID = {vm1, vm2}
  VolumeID = {v1, v2}
  AttachmentID = {a1, a2}
  MaxSize = 2
  UseID = {u1}
  Troubles = {"fail", "lost", "crash"}
  MaxTrouble = 1
  Name = {pvc}
  Capability <- CsiCapability
  ValidCapability <- CsiCapability
  Owner = {t1}
  Zone <- CsiZones
  InstOwner <- OneClusterOwner
  InstZone <- AllHere
  Principal <- OneClusterPrincipal
  Self <- TheController
  Key = {"region", "zone"}
  Segment = {"r1", "z1", "z2"}
  Absent = Absent
  DefaultPlace <- FlagPlace
  DefaultSize = 1
  Wants <- Moving
  Losable = {"create", "delete", "expand"}
  MaxLate = 1
SYMMETRY IdSymmetry
INVARIANTS
  CsiInv
  AttachedIsServed
  DetachedIsFree
  PromiseKept
  GoneIsGone
