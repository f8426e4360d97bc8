CONSTANTS
  Node = {d1}
  Name = {p1, p2}
  Uid = {u1, u2}
  Migration = {}
  Ctl = ctl
  None = None
  Policies = {"RerunOnFailure", "Halted"}
  Powers = {"PowerOn", "PowerOff", "Reset", "Pause", "Resume"}
  Faults = {"lostWrite", "vmDelete", "guestOff", "podFail", "podUnknown"}
  Prompt = {d1}
SPECIFICATION MCSpec
SYMMETRY Symmetry
INVARIANTS TypeOK FinalizerProtectsGuest StartsFromNothing EndedMeansStopped
PROPERTIES PowerOnKept
CHECK_DEADLOCK FALSE
