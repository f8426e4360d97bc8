CONSTANTS
  Volume = {1, 2}
  Block = {1, 2}
  Imported = {}
  Minor <- MCMinor
  VolumePod = {11, 12}
  None = 0
  Cgroup = {2}
  Faults = {"crash", "command", "podLost", "hasty"}
  MaxEvents = 2
SPECIFICATION MCSpec
INVARIANTS TypeOK MountsRecorded  ReadyIsDisk
PROPERTIES ImplementsVolumeAttachment
CHECK_DEADLOCK FALSE
