CONSTANTS
  Node = {d1, d2}
  Name = {p1, p2}
  Uid = {u1, u2}
  Migration = {m1, m2}
  Ctl = ctl
  None = None
  Policies = {"Once"}
  Powers = {}
  Faults = {"vmmDelete", "restart"}
  Prompt = {d1, d2}
SPECIFICATION MCSpec
SYMMETRY Symmetry
INVARIANTS GuestInv
PROPERTIES MigrationNotDisplaced ImplementsGuestLocation
CHECK_DEADLOCK FALSE
