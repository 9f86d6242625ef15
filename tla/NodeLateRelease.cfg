SPECIFICATION Spec
CONSTANTS
  Volume = {v1}
  VM = {vm1}
  NoVM = NoVM
  Path = {p1}
  Conf = {c1}
  MaxGen = 1
  MaxTrouble = 1
  Breakable <- AnyPoint
  Losable = {"acquire", "release"}
  InOrder = FALSE
INVARIANTS
  MountHasUse
