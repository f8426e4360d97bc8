---------------------------- MODULE DevicePlugin ----------------------------
(***************************************************************************)
(* The device plugins of virt-daemon (pkg/daemon/deviceplugin), which tell *)
(* the kubelet of /dev/kvm and /dev/net/tun.  Each is a loop: listen on a  *)
(* socket, register it with the kubelet, and wait until the socket's file  *)
(* is removed, which is what a kubelet does when it starts.                *)
(***************************************************************************)
EXTENDS Integers

CONSTANTS
  Plugin,
  MaxRestarts    \* how often the kubelet stops

ASSUME PluginAssumption == MaxRestarts \in Nat

\* blocked: the plugin sends to dp.health, a channel that is never made.
RunStep == {"sleep", "listening", "registering", "registered", "watching", "blocked"}

VARIABLES
  run,        \* where each plugin is in run()
  socket,     \* the plugins whose socket file is there
  removed,    \* the plugins whose watcher has reported its removal
  known,      \* the plugins the kubelet has a connection with
  kubelet,    \* it runs
  restarts

pluginVars == <<run, socket, removed, known, kubelet, restarts>>

InitPlugins ==
  /\ run = [d \in Plugin |-> "sleep"] /\ socket = {} /\ removed = {} /\ known = {}
  /\ kubelet = TRUE /\ restarts = 0

\* What listener.Close and the end of the process leave.
Stopped(d) == socket' = socket \ {d} /\ known' = known \ {d} /\ removed' = removed \ {d}
Runs(d, step) == run' = [run EXCEPT ![d] = step]

\* The file may have been left by a process that has died.  Mutant: it is not removed,
\* and the address is in use.
ListenOnly(d) ==
  /\ run[d] = "sleep" /\ d \notin socket
  /\ Runs(d, "listening") /\ socket' = socket \cup {d}
  /\ UNCHANGED <<removed, known, kubelet, restarts>>
Listen(d) ==
  /\ run[d] = "sleep"
  /\ Runs(d, "listening") /\ socket' = socket \cup {d}
  /\ UNCHANGED <<removed, known, kubelet, restarts>>

\* waitForGRPCServer times out if the file is no longer there.
WaitForServer(d) ==
  /\ run[d] = "listening"
  /\ IF d \in socket THEN Runs(d, "registering") /\ UNCHANGED <<socket, known, removed>>
     ELSE Runs(d, "sleep") /\ Stopped(d)
  /\ UNCHANGED <<kubelet, restarts>>

\* The dial blocks until there is a kubelet, which connects with the socket.  If it
\* cannot, some versions of the kubelet answer with an error and some do not.
register(d) ==
  /\ run[d] = "registering" /\ kubelet
  /\ IF d \in socket
     THEN Runs(d, "registered") /\ known' = known \cup {d} /\ UNCHANGED <<socket, removed>>
     ELSE \/ Runs(d, "registered") /\ UNCHANGED <<socket, known, removed>>
          \/ Runs(d, "sleep") /\ Stopped(d)
  /\ UNCHANGED <<kubelet, restarts>>

\* healthCheck: from here the removal of the file is noticed.
Watch(d) ==
  /\ run[d] = "registered" /\ Runs(d, "watching")
  /\ UNCHANGED <<socket, removed, known, kubelet, restarts>>

healthCheck(d) ==
  /\ run[d] = "watching" /\ d \in removed
  /\ Runs(d, "sleep") /\ Stopped(d)
  /\ UNCHANGED <<kubelet, restarts>>

\* A change of the device file.
DeviceChange(d) ==
  /\ run[d] = "watching" /\ Runs(d, "blocked")
  /\ UNCHANGED <<socket, removed, known, kubelet, restarts>>

KubeletStops ==
  /\ kubelet /\ restarts < MaxRestarts
  /\ kubelet' = FALSE /\ known' = {} /\ restarts' = restarts + 1
  /\ UNCHANGED <<run, socket, removed>>

\* A starting kubelet removes the sockets.
KubeletStarts ==
  /\ ~kubelet /\ kubelet' = TRUE
  /\ socket' = {} /\ removed' = removed \cup {d \in socket : run[d] = "watching"}
  /\ UNCHANGED <<run, known, restarts>>

\* The process dies, or stops and removes its sockets, and is started again by the
\* kubelet.
PluginCrash ==
  /\ kubelet
  /\ run' = [d \in Plugin |-> "sleep"] /\ socket' \in {socket, {}} /\ removed' = {} /\ known' = {}
  /\ UNCHANGED <<kubelet, restarts>>

RunPlugin(d) == Listen(d) \/ WaitForServer(d) \/ register(d) \/ Watch(d) \/ healthCheck(d)

NextPlugins ==
  \/ \E d \in Plugin : RunPlugin(d) \/ DeviceChange(d)
  \/ KubeletStops \/ KubeletStarts

\* The loop never ends, and a kubelet is started again.
PluginFairness ==
  /\ \A d \in Plugin : WF_pluginVars(RunPlugin(d))
  /\ WF_pluginVars(KubeletStarts)

-----------------------------------------------------------------------------
\* The plugin no longer notices a restart of the kubelet: a change of the device file has
\* blocked it, or the socket was removed between the registration and the watch.
Deaf(d) == run[d] = "blocked" \/ (run[d] = "watching" /\ d \notin socket \cup removed)

\* The kubelet always learns of the devices again, after its own restarts at any moment
\* and after those of the daemon, which may leave its sockets behind, unless the plugin
\* has become deaf.
DevicesKnown == \A d \in Plugin : []<>(d \in known \/ Deaf(d))
=============================================================================
