CONSTANTS
  VM = {v1, v2, v3}
  MaxReplicas = 2
  BurstReplicas = 1
  Faults = {"rsDelete", "createFail", "deleteFail", "vmEnds", "restart", "relist"}
  MaxFaults = 2
SPECIFICATION Spec
SYMMETRY Symmetry
INVARIANTS TypeOK NothingInherited
PROPERTIES NoSurplus KeepsReplicas
