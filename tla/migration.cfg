CONSTANTS
  Node = {d1, d2}
  Name = {p1, p2}
  Uid = {u1, u2}
  Migration = {m1}
  Ctl = ctl
  None = None
  Policies = {"Once"}
  Powers = {}
  Faults = {"sendFail", "guestOff", "podFail", "podDelete"}
  Prompt = {d1, d2}
SPECIFICATION MCSpec
SYMMETRY Symmetry
INVARIANTS AtMostOneGuest GuestTracked
CHECK_DEADLOCK FALSE
