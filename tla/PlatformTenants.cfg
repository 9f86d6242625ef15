SPECIFICATION Spec
CONSTANTS
  t1 = t1
  t2 = t2
  vm1 = vm1
  vm2 = vm2
  z1 = z1
  z2 = z2
  ext4 = ext4
  bogus = bogus
  None = None
  InstanceID = {vm1, vm2}
  VolumeID = {v1, v2}
  AttachmentID = {a1, a2}
  MaxSize = 1
  UseID = {u1}
  Troubles = {"fail", "lost", "crash", "registry"}
  MaxTrouble = 1
  Name = {pvc}
  Capability = {ext4, bogus}
  ValidCapability = {ext4}
  Owner = {t1, t2}
  Zone = {z1, z2}
  InstOwner <- TwoClusterOwner
  InstZone <- TwoClusterZone
  Principal <- TwoClusterPrincipal
SYMMETRY IdSymmetry
INVARIANTS
  OneScope
  UseHoldsDisk
PROPERTIES
  ImplementsLease
  OneWay
  CallerScope
