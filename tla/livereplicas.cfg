CONSTANTS
  VM = {v1, v2}
  MaxReplicas = 1
  BurstReplicas = 2
  Faults = {"createFail", "createLost", "deleteFail", "vmEnds", "vmUnknown", "vmDelete", "relist", "expire"}
  MaxFaults = 2
SPECIFICATION FairSpec
PROPERTIES Converges StatusSettles
