------------------------------ MODULE VMDaemon ------------------------------
(***************************************************************************)
(* virt-daemon's VMReconciler on one node (pkg/daemon/vm_controller.go).   *)
(*                                                                         *)
(* Each action is one whole call of Reconcile by the daemon of node d: it  *)
(* reads the VM and its pod from its informer caches, talks to the         *)
(* cloud-hypervisor of a pod on its node, and writes the VM back.  A call  *)
(* that returns an error before it has changed anything is no step.        *)
(***************************************************************************)
EXTENDS Cluster

\* shouldReconcile, and the pod must be found in the cache.
Concerns(d) ==
  LET v == vmCache[d] IN
  /\ v.exists
  /\ v.nodeName = d \/ (v.migUID # None /\ v.targetNodeName = d)
  /\ v.podName # None /\ podCache[d][v.podName].uid # None

\* The pod on node d whose ch.sock is under UID u and answers requests.
Answering(u, d) ==
  {n \in PodsOf(u) : pods[n].node = d /\ ch[n] \notin {"none", "exited"}}

\* vm.info: no answer from a process that is blocked or sending.
VmInfo(u, d) ==
  {n \in Answering(u, d) :
     ch[n] # "receiving" /\ ~\E s \in sends : s.src = u}

Write(d, new) ==
  /\ \E ok \in Outcomes(d) : UpdateVM(new, ok)
  /\ UNCHANGED <<vmCache, pods, podCache, isTarget, vmmVars>>

\* reconcileDeletingVM
DaemonDeletesVM(d) ==
  LET v == vmCache[d] IN
  /\ Concerns(d) /\ v.deleting /\ v.nodeName = d
  /\ IF podCache[d][v.podName].phase = "Running"
     THEN \E n \in VmInfo(v.podUID, d) : ch' = [ch EXCEPT ![n] = "empty"]
     ELSE UNCHANGED ch
  /\ Write(d, [v EXCEPT !.phase = "Succeeded"])
  /\ UNCHANGED sendVars

\* A Scheduled VM: vm.create and vm.boot, of which the second may fail.
\* Mutant: any pod the status names is booted, whatever the phase.
BootAnyPod(d) ==
  LET v == vmCache[d] IN
  /\ Concerns(d) /\ ~v.deleting
  /\ \E n \in VmInfo(v.podUID, d) \cup VmInfo(v.targetPodUID, d) :
       ch[n] \in {"empty", "created"} /\ ch' = [ch EXCEPT ![n] = "running"]
  /\ Write(d, v)
  /\ UNCHANGED sendVars
BootVM(d) ==
  LET v == vmCache[d] IN
  /\ Concerns(d) /\ ~v.deleting /\ v.phase = "Scheduled"
  /\ \E n \in VmInfo(v.podUID, d) :
       /\ ch[n] \in {"empty", "created"}
       /\ \E state \in {"created", "running"} :
            ch' = [ch EXCEPT ![n] = state]
  /\ Write(d, v)
  /\ UNCHANGED sendVars

ObserveBoot(d) ==
  LET v == vmCache[d] IN
  /\ Concerns(d) /\ ~v.deleting /\ v.phase = "Scheduled"
  /\ \E n \in VmInfo(v.podUID, d) :
       \/ /\ ch[n] \in {"running", "paused"}
          /\ Write(d, [v EXCEPT !.phase = "Running"])
       \/ /\ ch[n] = "shutdown"
          /\ Write(d, [v EXCEPT !.phase = "Failed"])
  /\ UNCHANGED <<ch, sendVars>>

\* A Running VM that is not being migrated, seen by the daemon of its node.
Serves(d) ==
  LET v == vmCache[d] IN
  /\ Concerns(d) /\ ~v.deleting /\ v.phase = "Running"
  /\ v.migUID = None /\ v.nodeName = d

HaltVM(d) ==
  LET v == vmCache[d] IN
  /\ Serves(d) /\ v.runPolicy = "Halted"
  /\ \E n \in VmInfo(v.podUID, d) :
       /\ HasGuest(n)
       /\ \E state \in {"created", "shutdown"} : ch' = [ch EXCEPT ![n] = state]
  /\ Write(d, v)
  /\ UNCHANGED sendVars

\* The states a guest may be in after the request of a power action: the
\* request can fail, and the guest reacts to the power button in its own time.
\* Mutant: the state is spelled as in the action.
AfterPowerSpelled(action, state) == {state, action}
AfterPower(action, state) ==
  {state} \cup
  CASE action = "PowerOff" -> {"created", "shutdown"}
    [] action \in {"Reset", "Reboot"} -> {"running", "created"}
    [] action = "Pause" -> {"paused"}
    [] action = "Resume" -> {"running"}
    [] OTHER -> {}

\* The action is forgotten whether or not the request succeeded.
DoPowerAction(d) ==
  LET v == vmCache[d] IN
  /\ Serves(d) /\ v.runPolicy # "Halted" /\ v.powerAction # ""
  /\ \E n \in VmInfo(v.podUID, d) :
       /\ HasGuest(n)
       /\ \E state \in AfterPower(v.powerAction, ch[n]) :
            ch' = [ch EXCEPT ![n] = state]
  /\ Write(d, [v EXCEPT !.powerAction = ""])
  /\ UNCHANGED sendVars

ObserveShutdown(d) ==
  LET v == vmCache[d] IN
  /\ Serves(d)
  /\ \E n \in VmInfo(v.podUID, d) : ch[n] \in {"created", "shutdown"}
  /\ Write(d, [v EXCEPT !.phase = "Succeeded"])
  /\ UNCHANGED <<ch, sendVars>>

-----------------------------------------------------------------------------
(***************************************************************************)
(* Live migration.  The control block of the VM is kept in memory only.    *)
(***************************************************************************)
Migrates(d, phase) ==
  LET v == vmCache[d] IN
  /\ Concerns(d) /\ ~v.deleting /\ v.phase = "Running"
  /\ v.migUID # None /\ v.migPhase = phase

\* Scheduled, on the target: wait for ch.sock and for vm.receive-migration to
\* open rx.sock, then start the relay.  A wait that times out fails the
\* migration; an error later on leaves it as it is, with the receiver open.
PrepareTarget(d) ==
  LET v == vmCache[d]
      up == Answering(v.targetPodUID, d)
  IN
  /\ Migrates(d, "Scheduled") /\ v.targetNodeName = d
  /\ \/ \E n \in up :
          /\ ch[n] \in {"empty", "receiving"}
          /\ ch' = [ch EXCEPT ![n] = "receiving"]
          /\ \E phase \in {"TargetReady", "Scheduled"}
                            \cup (IF ch[n] = "empty" THEN {"Failed"} ELSE {}) :
               Write(d, [v EXCEPT !.migPhase = phase])
     \/ /\ \A n \in up : ch[n] # "receiving"
        /\ Write(d, [v EXCEPT !.migPhase = "Failed"])
        /\ UNCHANGED ch
  /\ UNCHANGED sendVars

\* TargetReady, on the source: the relay is started and a goroutine calls
\* vm.send-migration; its error, if any, goes to a channel of the new block.
StartSend(d) ==
  LET v == vmCache[d]
      up == {n \in Answering(v.podUID, d) : HasGuest(n)}
  IN
  /\ Migrates(d, "TargetReady") /\ v.nodeName = d
  /\ LET old == {IF \E n \in PodsOf(s.src) : pods[n].node = d
                 THEN [s EXCEPT !.tracked = FALSE] ELSE s : s \in sends}
     IN  sends' = IF up = {} THEN old
                  ELSE old \cup {[src |-> v.podUID, dst |-> v.targetPodUID,
                                  tracked |-> TRUE]}
  /\ sendErrCh' = [sendErrCh EXCEPT ![d] = IF up = {} THEN "error" ELSE "open"]
  /\ Write(d, [v EXCEPT !.migPhase = "Running"])
  /\ UNCHANGED ch

\* Running, on the source: a pod that ended with Succeeded has sent the VM.
SourceSent(d) ==
  LET v == vmCache[d] IN
  /\ Migrates(d, "Running") /\ v.nodeName = d
  /\ podCache[d][v.podName].phase = "Succeeded"
  /\ Write(d, [v EXCEPT !.migPhase = "Sent"])
  /\ sendErrCh' = [sendErrCh EXCEPT ![d] = "nil"]
  /\ UNCHANGED <<ch, sends>>

\* No control block (the daemon was restarted), or an error in the channel.
\* Mutants: a transfer that is under way counts as failed; a daemon without a
\* control block waits.
SourceGivesUp(d) ==
  LET v == vmCache[d] IN
  /\ Migrates(d, "Running") /\ v.nodeName = d
  /\ podCache[d][v.podName].phase # "Succeeded"
  /\ Write(d, [v EXCEPT !.migPhase = "Failed"])
  /\ sendErrCh' = [sendErrCh EXCEPT ![d] = "nil"]
  /\ UNCHANGED <<ch, sends>>
SourceTold(d) == sendErrCh[d] = "error" /\ SourceGivesUp(d)
SourceFailed(d) ==
  LET v == vmCache[d] IN
  /\ Migrates(d, "Running") /\ v.nodeName = d
  /\ podCache[d][v.podName].phase # "Succeeded"
  /\ sendErrCh[d] # "open"
  /\ Write(d, [v EXCEPT !.migPhase = "Failed"])
  /\ sendErrCh' = [sendErrCh EXCEPT ![d] = "nil"]
  /\ UNCHANGED <<ch, sends>>

\* Sent, on the target: once the guest runs here the status names this pod.
TargetTakesOver(d) ==
  LET v == vmCache[d] IN
  /\ Migrates(d, "Sent") /\ v.targetNodeName = d
  /\ \E n \in VmInfo(v.targetPodUID, d) : ch[n] = "running"
  /\ Write(d, [v EXCEPT !.migPhase = "Succeeded",
                        !.nodeName = v.targetNodeName,
                        !.podName = v.targetPodName,
                        !.podUID = v.targetPodUID])
  /\ sendErrCh' = [sendErrCh EXCEPT ![d] = "nil"]
  /\ UNCHANGED <<ch, sends>>

ForgetMigration(d) ==
  LET v == vmCache[d] IN
  /\ \/ Migrates(d, "Succeeded") \/ Migrates(d, "Failed")
     \/ Migrates(d, "Sent") /\ v.nodeName = d
  /\ Write(d, v)
  /\ sendErrCh' = [sendErrCh EXCEPT ![d] = "nil"]
  /\ UNCHANGED <<ch, sends>>

DaemonReconcile(d) ==
  \/ DaemonDeletesVM(d) \/ BootVM(d) \/ ObserveBoot(d)
  \/ HaltVM(d) \/ DoPowerAction(d) \/ ObserveShutdown(d)
  \/ PrepareTarget(d) \/ StartSend(d) \/ SourceSent(d) \/ SourceFailed(d)
  \/ TargetTakesOver(d) \/ ForgetMigration(d)

\* The process restarts: control blocks are gone, the relays with their
\* connections too, and the caches are filled from the API server.
DaemonRestart(d) ==
  LET onNode(u) == \E n \in PodsOf(u) : pods[n].node = d
      broken == {s \in sends : onNode(s.src) \/ onNode(s.dst)}
  IN
  /\ "restart" \in Faults
  /\ \E R \in SUBSET Receivers(broken) : ch' = GiveUp(R)
  /\ sends' = sends \ broken
  /\ sendErrCh' = [ErrorsOf(broken) EXCEPT ![d] = "nil"]
  /\ vmCache' = [vmCache EXCEPT ![d] = vm]
  /\ podCache' = [podCache EXCEPT ![d] = pods]
  /\ UNCHANGED <<vm, pods, isTarget, vmmVars>>

=============================================================================
