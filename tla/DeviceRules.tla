---------------------------- MODULE DeviceRules ----------------------------
(***************************************************************************)
(* The device rules of the cgroup of a VM pod (pkg/daemon/cgroup).  Only   *)
(* block devices are told apart; a set of rules is the set of the minor    *)
(* numbers it allows.  The rules for character devices never change.       *)
(***************************************************************************)
EXTENDS Naturals

\* A minor number as v2Manager reads it back: stat prints it in hexadecimal
\* and ParseInt takes the digits for base 26.  The major number is below 16, which
\* both read alike.
getBlockFileMajorMinor(minor) == 26 * (minor \div 16) + (minor % 16)

\* What v2Manager finds again: the device files of the hotplug volumes of the spec.
generateDeviceRuleForVM(files) == {getBlockFileMajorMinor(m) : m \in files}

\* v1Manager puts the new rule before those in force, which therefore win.
v1Set(allowed, minor, allow) ==
  allowed \cup (IF allow THEN {minor} ELSE {})

\* v2Manager replaces all rules by the new one and those it can generate,
\* except for the same device.  Mutant: by the new one only.
v2SetNewOnly(files, minor, allow) == IF allow THEN {minor} ELSE {}
v2Set(files, minor, allow) ==
  (generateDeviceRuleForVM(files) \ {minor}) \cup (IF allow THEN {minor} ELSE {})
=============================================================================
