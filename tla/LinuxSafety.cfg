SPECIFICATION LinuxSpec
CONSTANTS
  Volume = {v1}
  VM = {vm1, vm2}
  NoVM = NoVM
  Path = {p1, p2}
  RW = RW
  RO = RO
  Conf = {RW, RO}
  MaxGen = 2
  MaxTrouble = 1
  Breakable <- AnyPoint
  Losable = {}
  InOrder = TRUE
  Mode = {"mount", "block"}
  Content = {"blank", "other"}
  MaxCap = 2
  HostBreakable <- AnyHostPoint
  Contract = TRUE
SYMMETRY PathSymmetry
INVARIANTS
  LinuxTypeOK
  GrantSpentOnFS
  PublishedIsServed
  StagedIsUsable
  GrownIsThere
  MountHasUse
  MountedOnOneVM
PROPERTIES
  NoDataLost
