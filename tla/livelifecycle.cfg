CONSTANTS
  Node = {d1}
  Name = {p1,p2}
  Uid = {u1,u2}
  Migration = {}
  Ctl = ctl
  None = None
  Policies = {"Always"}
  Powers = {}
  Faults = {"guestOff"}
  Prompt = {d1}
SPECIFICATION MCFairSpec
PROPERTIES AlwaysRuns PodEndNoticed
CHECK_DEADLOCK FALSE
