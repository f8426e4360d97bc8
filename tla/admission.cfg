SPECIFICATION Spec
CONSTANTS
  ByteBits = 3
  Bytes = 2
  Block = {"b"}
  Manifest <- MCManifest
  Edits <- MCEdits
  VolumeName = {"a", "b"}
  CPU = {0, 1, 3}
INVARIANTS ReapplyIsNoChange PartsKept MigratableHolds DefaultsAdmitted   PinnedOneToOne GuestReachesDisks AddressesUsable
CHECK_DEADLOCK FALSE
