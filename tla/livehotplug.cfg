CONSTANTS
  Volume = {1, 2}
  Block = {1}
  Imported = {2}
  Minor <- MCMinor
  VolumePod = {11, 12, 13}
  None = 0
  Cgroup = {1}
  Faults = {"crash"}
  MaxEvents = 2
SPECIFICATION PromptSpec
PROPERTIES BecomesDisk 
CHECK_DEADLOCK FALSE
