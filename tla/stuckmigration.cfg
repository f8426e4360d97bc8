CONSTANTS
  Node = {d1,d2}
  Name = {p1,p2}
  Uid = {u1,u2}
  Migration = {m1}
  Ctl = ctl
  None = None
  Policies = {"Once"}
  Powers = {}
  Faults = {"guestOff"}
  Prompt = {d1,d2,ctl}
SPECIFICATION MCFairSpec
PROPERTIES PodEndNoticed
CHECK_DEADLOCK FALSE
