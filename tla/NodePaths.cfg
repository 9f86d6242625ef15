SPECIFICATION Spec
CONSTANTS
  Volume = {v1, v2}
  VM = {vm1}
  NoVM = NoVM
  Path = {p1, p2, p3}
  Conf = {c1, c2}
  MaxGen = 1
  MaxTrouble = 2
  Breakable <- AnyPoint
  Losable = {"acquire", "release"}
  InOrder = FALSE
SYMMETRY PathSymmetry
INVARIANTS
  MountTracked
  TargetOnStage
  PathHasOneOwner
