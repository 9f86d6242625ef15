SPECIFICATION LinuxFairSpec
CONSTANTS
  Volume = {v1}
  VM = {vm1}
  NoVM = NoVM
  Path = {p1, p2}
  RW = RW
  RO = RO
  Conf = {RW}
  MaxGen = 2
  MaxTrouble = 2
  Breakable <- NotBeforeRecord
  Losable = {"release"}
  InOrder = TRUE
  Mode = {"mount", "block"}
  Content = {"blank"}
  MaxCap = 1
  HostBreakable <- AnyHostPoint
  Contract = TRUE
PROPERTIES
  DrainCompletes
  StageRecovers
  PublishRecovers
