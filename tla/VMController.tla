---------------------------- MODULE VMController ----------------------------
(***************************************************************************)
(* virt-controller's VMReconciler (pkg/controller/vm_controller.go).       *)
(*                                                                         *)
(* Each action is one whole call of Reconcile: it reads the VM and the     *)
(* pods from the informer caches, changes pods, writes the VM back, and,   *)
(* if that write is accepted, garbage-collects the pods the new status     *)
(* does not name.  Hotpluggable volumes are not modelled here.             *)
(***************************************************************************)
EXTENDS Cluster

CachedVM == vmCache[Ctl]
CachedPods == podCache[Ctl]

ctlUnchanged == UNCHANGED <<vmCache, podCache, sendVars, vmmVars>>

\* gcVMPods: the pods in the cache that the status does not name.
Unnamed(new) ==
  {n \in Listed(CachedPods) :
     /\ ~CachedPods[n].deleting
     /\ n # new.podName
     /\ ~(new.migUID # None /\ n = new.targetPodName)}

\* Reconcile's tail: the object is written; gcVMPods runs only if that worked.
\* podsNow is what reconcile made of the pods.
Finish(new, podsNow) ==
  \E ok \in Outcomes(Ctl) :
    /\ UpdateVM(new, ok)
    /\ pods' = [n \in Name |->
                  IF ok /\ n \in Unnamed(new) /\ podsNow[n].uid # None
                  THEN [podsNow[n] EXCEPT !.deleting = TRUE] ELSE podsNow[n]]

\* deleteAllVMPods: all pods in the cache are deleted; done when there are none.
\* Mutant: a pod that is being deleted counts as deleted.
AllVMPodsDeleting == \A n \in Listed(CachedPods) : CachedPods[n].deleting
AllVMPodsDeleted == Listed(CachedPods) = {}
DeleteAllVMPods ==
  Deleted({n \in Listed(CachedPods) : ~CachedPods[n].deleting})

\* The phases in which the controller itself takes a deleted VM down.
\* Mutant: a VM that has Succeeded is left to its daemon.
UndeployedOrFailed == {"", "Pending", "Scheduling", "Failed"}
Undeployed == {"", "Pending", "Scheduling", "Failed", "Succeeded"}

AddFinalizer ==
  /\ CachedVM.exists /\ ~CachedVM.deleting /\ ~CachedVM.finalizer
  /\ Finish([CachedVM EXCEPT !.finalizer = TRUE], pods)
  /\ UNCHANGED <<ch, isTarget>> /\ ctlUnchanged

\* Removing the last finalizer removes the object.  The status update that
\* follows fails, so nothing is garbage-collected.
RemoveFinalizer ==
  /\ CachedVM.exists /\ CachedVM.deleting /\ CachedVM.phase \in Undeployed
  /\ AllVMPodsDeleted
  /\ \E ok \in Outcomes(Ctl) : UpdateVM(NoVM(CachedVM.runPolicy), ok)
  /\ UNCHANGED <<pods, ch, isTarget>> /\ ctlUnchanged

\* The switch on the phase is reached by a VM that is not being deleted, and
\* by a deleted one whose pods are not all gone: this is what has happened to
\* the pods before it.
AtSwitch(phases) ==
  /\ CachedVM.exists
  /\ CachedVM.phase \in phases
  /\ IF CachedVM.deleting
     THEN CachedVM.phase \in Undeployed => ~AllVMPodsDeleted
     ELSE CachedVM.finalizer

PodsAtSwitch ==
  IF CachedVM.deleting /\ CachedVM.phase \in Undeployed
  THEN DeleteAllVMPods ELSE pods

NewPod(u) == [uid |-> u, phase |-> "Pending", node |-> None, deleting |-> FALSE]

\* Create: refused if the name is taken; reconcile then returns the error.
CreatePod(n, new, target) ==
  \/ /\ pods[n].uid = None
     /\ \E u \in Uid \ UsedUids :
          Finish(new, [PodsAtSwitch EXCEPT ![n] = NewPod(u)])
     /\ isTarget' = IF target THEN isTarget \cup {n} ELSE isTarget
  \/ /\ pods[n].uid # None
     /\ \E ok \in Outcomes(Ctl) : UpdateVM(new, ok)
     /\ pods' = PodsAtSwitch
     /\ UNCHANGED isTarget

NameVMPod ==
  /\ AtSwitch({"Pending"})
  /\ \E n \in Name \ UsedNames :
       Finish([CachedVM EXCEPT !.podName = n, !.phase = "Scheduling"],
              PodsAtSwitch)
  /\ UNCHANGED <<ch, isTarget>> /\ ctlUnchanged

CreateVMPod ==
  /\ AtSwitch({"Scheduling"})
  /\ CachedPods[CachedVM.podName].uid = None
  /\ CreatePod(CachedVM.podName, CachedVM, FALSE)
  /\ UNCHANGED ch /\ ctlUnchanged

VMPodLost ==
  /\ AtSwitch({"Scheduled"})
  /\ CachedPods[CachedVM.podName].uid = None
  /\ Finish([CachedVM EXCEPT !.phase = "Failed"], pods)
  /\ UNCHANGED <<ch, isTarget>> /\ ctlUnchanged

\* The VM phase that follows from the pod's phase.
\* Mutant: a pod that cannot be reached has failed.
PhaseOfUnreachable(podPhase, phase) ==
  CASE podPhase = "Succeeded" -> "Succeeded"
    [] podPhase \in {"Failed", "Unknown"} -> "Failed"
    [] podPhase = "Running" /\ phase = "Scheduling" -> "Scheduled"
    [] OTHER -> phase
PhaseOf(podPhase, phase) ==
  CASE podPhase = "Succeeded" -> "Succeeded"
    [] podPhase = "Failed" -> "Failed"
    [] podPhase = "Unknown" -> "Unknown"
    [] podPhase = "Running" /\ phase = "Scheduling" -> "Scheduled"
    [] OTHER -> phase

FollowVMPod ==
  LET pod == CachedPods[CachedVM.podName] IN
  /\ AtSwitch({"Scheduling", "Scheduled"})
  /\ pod.uid # None
  /\ Finish([CachedVM EXCEPT !.podUID = pod.uid, !.nodeName = pod.node,
                             !.phase = PhaseOf(pod.phase, @)],
            PodsAtSwitch)
  /\ UNCHANGED <<ch, isTarget>> /\ ctlUnchanged

\* A Running VM whose pod is gone or has ended.  While a migration is under
\* way the source pod is expected to end with Succeeded.
\* Mutant: a pod that has Succeeded is always taken for a migrated one.
RunningPhaseOnFailure ==
  LET pod == CachedPods[CachedVM.podName] IN
  CASE pod.uid = None -> "Failed"
    [] pod.phase = "Succeeded" -> "Running"
    [] OTHER -> PhaseOf(pod.phase, "Running")
RunningPhase ==
  LET pod == CachedPods[CachedVM.podName] IN
  CASE pod.uid = None -> "Failed"
    [] pod.phase = "Succeeded" ->
         IF CachedVM.migUID = None THEN "Succeeded" ELSE "Running"
    [] OTHER -> PhaseOf(pod.phase, "Running")

RunningVMEnded ==
  /\ AtSwitch({"Running"})
  /\ RunningPhase # "Running"
  /\ Finish([CachedVM EXCEPT !.phase = RunningPhase], pods)
  /\ UNCHANGED <<ch, isTarget>> /\ ctlUnchanged

\* reconcileVMConditions for a VM whose spec is migratable.
StillRunning == AtSwitch({"Running"}) /\ RunningPhase = "Running"
Checked == [CachedVM EXCEPT !.migratable = TRUE]

\* No migration, or one that is in the hands of the daemons.
RunningVM ==
  /\ StillRunning
  /\ CachedVM.migUID # None =>
       CachedVM.migPhase \notin {"", "Pending", "Scheduling"}
  /\ Finish(Checked, pods)
  /\ UNCHANGED <<ch, isTarget>> /\ ctlUnchanged

NameTargetPod ==
  /\ StillRunning
  /\ CachedVM.migUID # None /\ CachedVM.migPhase \in {"", "Pending"}
  /\ \E n \in Name \ UsedNames :
       Finish([Checked EXCEPT !.targetPodName = n, !.migPhase = "Scheduling"],
              pods)
  /\ UNCHANGED <<ch, isTarget>> /\ ctlUnchanged

CreateTargetPod ==
  /\ StillRunning
  /\ CachedVM.migUID # None /\ CachedVM.migPhase = "Scheduling"
  /\ CachedPods[CachedVM.targetPodName].uid = None
  /\ CreatePod(CachedVM.targetPodName, Checked, TRUE)
  /\ UNCHANGED ch /\ ctlUnchanged

FollowTargetPod ==
  LET pod == CachedPods[CachedVM.targetPodName] IN
  /\ StillRunning
  /\ CachedVM.migUID # None /\ CachedVM.migPhase = "Scheduling"
  /\ pod.uid # None
  /\ Finish([Checked EXCEPT
               !.targetPodUID = pod.uid, !.targetNodeName = pod.node,
               !.migPhase = CASE pod.phase = "Running" -> "Scheduled"
                              [] pod.phase = "Pending" -> "Scheduling"
                              [] OTHER -> "Failed"],
            pods)
  /\ UNCHANGED <<ch, isTarget>> /\ ctlUnchanged

\* Mutant: Always is treated like RerunOnFailure.
ShouldRerun(v) == v.phase \in {"Failed", ""} \/ v.powerAction = "PowerOn"
\* Whether a VM that is not deployed is to be run.
ShouldRun(v) ==
  LET on == v.powerAction = "PowerOn" IN
  CASE v.runPolicy = "Always" -> TRUE
    [] v.runPolicy = "RerunOnFailure" -> v.phase \in {"Failed", ""} \/ on
    [] v.runPolicy = "Once" -> v.phase = "" \/ on
    [] v.runPolicy = "Manual" -> on
    [] OTHER -> FALSE

\* The whole status is replaced: only the phase survives.
ResetStatus(v, phase) ==
  [NoVM(v.runPolicy) EXCEPT !.exists = TRUE, !.finalizer = v.finalizer,
                            !.deleting = v.deleting, !.phase = phase]

TakeDown ==
  /\ AtSwitch({"", "Succeeded", "Failed"})
  /\ ~AllVMPodsDeleted
  /\ Finish(CachedVM, DeleteAllVMPods)
  /\ UNCHANGED <<ch, isTarget>> /\ ctlUnchanged

RunOrRest ==
  /\ AtSwitch({"", "Succeeded", "Failed"})
  /\ AllVMPodsDeleted
  /\ Finish(ResetStatus(CachedVM, IF ShouldRun(CachedVM) THEN "Pending"
                                  ELSE CachedVM.phase), pods)
  /\ UNCHANGED <<ch, isTarget>> /\ ctlUnchanged

\* A VM in phase Unknown is left alone, but its other pods are collected.
UnknownVM ==
  /\ AtSwitch({"Unknown"})
  /\ Finish(CachedVM, pods)
  /\ UNCHANGED <<ch, isTarget>> /\ ctlUnchanged

VMControllerReconcile ==
  \/ AddFinalizer \/ RemoveFinalizer
  \/ NameVMPod \/ CreateVMPod \/ VMPodLost \/ FollowVMPod
  \/ RunningVMEnded \/ RunningVM
  \/ NameTargetPod \/ CreateTargetPod \/ FollowTargetPod
  \/ TakeDown \/ RunOrRest \/ UnknownVM

=============================================================================
