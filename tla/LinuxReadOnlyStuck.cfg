SPECIFICATION LinuxFairSpec
CONSTANTS
  Volume = {v1}
  VM = {vm1}
  NoVM = NoVM
  Path = {p1, p2}
  RW = RW
  RO = RO
  Conf = {RO}
  MaxGen = 1
  MaxTrouble = 1
  Breakable = {}
  Losable = {}
  InOrder = TRUE
  Mode = {"mount"}
  Content = {"blank"}
  MaxCap = 1
  HostBreakable = {"remount"}
  Contract = TRUE
PROPERTIES
  PublishRecovers
