---------------------------- MODULE NodeServices ----------------------------
(***************************************************************************)
(* The console server and the device plugins as parts of one virt-daemon   *)
(* process (cmd/virt-daemon): when it dies, both start again with what     *)
(* they have left in the file system.                                      *)
(***************************************************************************)
EXTENDS ConsoleServer, DevicePlugin

CONSTANT MaxCrashes

VARIABLE crashes
vars == <<session, link, alive, run, socket, removed, known, kubelet, restarts, crashes>>

Init == InitConsole /\ InitPlugins /\ crashes = 0

DaemonCrash ==
  /\ crashes < MaxCrashes /\ crashes' = crashes + 1
  /\ ConsoleCrash /\ PluginCrash

Next ==
  \/ NextConsole /\ UNCHANGED <<pluginVars, crashes>>
  \/ NextPlugins /\ UNCHANGED <<consoleVars, crashes>>
  \/ DaemonCrash

Spec == Init /\ [][Next]_vars
FairSpec == Spec /\ ConsoleFairness /\ PluginFairness
=============================================================================
