----------------------------- MODULE TypeProofs -----------------------------
(***************************************************************************)
(* Type correctness of VirtualMachine, for all constants.                  *)
(***************************************************************************)
EXTENDS GuestInvariant, TLAPS

\* A write to the VM leaves it alone or replaces it, and then the writer's copy
\* was current.
LEMMA WriteOutcome ==
  ASSUME NEW a, NEW new, NEW ok \in Outcomes(a), UpdateVM(new, ok)
  PROVE  vm' = vm \/ (vm' = new /\ vm.exists /\ vmCache[a] = vm)
BY DEF Outcomes, UpdateVM, Accepted

\* Nothing a copy says is news to Views.
LEMMA ViewsInclude ==
  ASSUME NEW a \in Actor
  PROVE  vm \in Views /\ vmCache[a] \in Views
BY DEF Views

\* What a step of any kind has to show.
LEMMA NamedFrame ==
  ASSUME NamedInv, vmCache' = vmCache, Named(vm')
  PROVE  NamedInv'
BY DEF NamedInv, Views, Named

\* What an actor acts on is one of the views.
LEMMA CopyTypes ==
  ASSUME TypeInv, NEW a \in Actor
  PROVE  vmCache[a] \in VirtualMachine /\ Named(vmCache[a]) /\ Named(vm)
BY ViewsInclude DEF TypeInv, TypeOK, NamedInv

\* The controller has a cache of its own.
LEMMA CtlIsActor == Ctl \in Actor
BY DEF Actor

\* Marking pods as deleted yields pods.
LEMMA DeletedTypes ==
  ASSUME TypeOK, NEW S
  PROVE  Deleted(S) \in [Name -> Pod]
BY DEF Deleted, TypeOK, Pod

\* The tail of the controller's Reconcile.
LEMMA FinishTypes ==
  ASSUME TypeInv, NEW new \in VirtualMachine, Named(new),
         NEW podsNow \in [Name -> Pod], Finish(new, podsNow)
  PROVE  vm' \in VirtualMachine /\ Named(vm') /\ pods' \in [Name -> Pod]
<1>1. PICK ok \in Outcomes(Ctl) :
        /\ UpdateVM(new, ok)
        /\ pods' = [n \in Name |->
                      IF ok /\ n \in Unnamed(new) /\ podsNow[n].uid # None
                      THEN [podsNow[n] EXCEPT !.deleting = TRUE]
                      ELSE podsNow[n]]
  BY DEF Finish
<1>2. vm' \in VirtualMachine /\ Named(vm')
  BY <1>1, CopyTypes, CtlIsActor DEF UpdateVM, TypeInv, TypeOK
<1>3. pods' \in [Name -> Pod]
  BY <1>1 DEF Pod
<1> QED BY <1>2, <1>3

\* A step of the controller that leaves processes and caches alone.
LEMMA ControllerFrame ==
  ASSUME TypeInv, NEW new \in VirtualMachine, Named(new),
         NEW podsNow \in [Name -> Pod], Finish(new, podsNow),
         UNCHANGED <<ch, isTarget>>, ctlUnchanged
  PROVE  TypeInv'
<1>1. vm' \in VirtualMachine /\ Named(vm') /\ pods' \in [Name -> Pod]
  BY FinishTypes
<1>2. NamedInv'
  BY <1>1, NamedFrame DEF TypeInv, ctlUnchanged
<1>3. TypeOK'
  BY <1>1 DEF TypeInv, TypeOK, ctlUnchanged, sendVars, vmmVars
<1> QED BY <1>2, <1>3 DEF TypeInv

\* So does deleteAllVMPods before the switch on the phase.
LEMMA PodsAtSwitchTypes ==
  ASSUME TypeInv
  PROVE  PodsAtSwitch \in [Name -> Pod] /\ pods \in [Name -> Pod]
         /\ DeleteAllVMPods \in [Name -> Pod]
BY DeletedTypes DEF TypeInv, TypeOK, PodsAtSwitch, DeleteAllVMPods

\* The pod that a step looks up is in the cache.
LEMMA CachedPodTypes ==
  ASSUME TypeInv, NEW n \in Name
  PROVE  CachedPods[n] \in Pod
BY CtlIsActor DEF TypeInv, TypeOK, CachedPods

\* The phases that the controller derives from a pod are phases.
LEMMA PhaseTypes ==
  ASSUME NEW p, NEW q \in Phase
  PROVE  PhaseOf(p, q) \in Phase /\ RunningPhase \in Phase
BY DEF PhaseOf, RunningPhase, Phase

\* CreateVMPod and CreateTargetPod.
LEMMA CreatePodTypes ==
  ASSUME TypeInv, NEW n \in Name, NEW new \in VirtualMachine, Named(new),
         NEW target \in BOOLEAN, CreatePod(n, new, target),
         UNCHANGED ch, ctlUnchanged
  PROVE  TypeInv'
<1>1. /\ vm' \in VirtualMachine /\ Named(vm') /\ pods' \in [Name -> Pod]
      /\ isTarget' \in SUBSET Name
  <2>1. CASE /\ pods[n].uid = None
             /\ \E u \in Uid \ UsedUids :
                  Finish(new, [PodsAtSwitch EXCEPT ![n] = NewPod(u)])
             /\ isTarget' = IF target THEN isTarget \cup {n} ELSE isTarget
    <3>1. PICK u \in Uid \ UsedUids :
            Finish(new, [PodsAtSwitch EXCEPT ![n] = NewPod(u)])
      BY <2>1
    <3>2. NewPod(u) \in Pod
      BY DEF NewPod, Pod, PodPhase
    <3>3. [PodsAtSwitch EXCEPT ![n] = NewPod(u)] \in [Name -> Pod]
      BY <3>2, PodsAtSwitchTypes
    <3>4. isTarget' \in SUBSET Name
      BY <2>1 DEF TypeInv, TypeOK
    <3> QED BY <3>1, <3>3, <3>4, FinishTypes
  <2>2. CASE /\ \E ok \in Outcomes(Ctl) : UpdateVM(new, ok)
             /\ pods' = PodsAtSwitch
             /\ UNCHANGED isTarget
    BY <2>2, PodsAtSwitchTypes, CopyTypes, CtlIsActor
    DEF UpdateVM, TypeInv, TypeOK
  <2> QED BY <2>1, <2>2 DEF CreatePod
<1>2. NamedInv'
  BY <1>1, NamedFrame DEF TypeInv, ctlUnchanged
<1>3. TypeOK'
  BY <1>1 DEF TypeInv, TypeOK, ctlUnchanged, sendVars, vmmVars
<1> QED BY <1>2, <1>3 DEF TypeInv

\* One case for each action of the VM controller.
LEMMA ControllerTypes ==
  ASSUME TypeInv, VMControllerReconcile
  PROVE  TypeInv'
<1>0. /\ CachedVM \in VirtualMachine /\ Named(CachedVM)
      /\ None \notin Name
  BY CopyTypes, CtlIsActor, ClusterAssumption DEF CachedVM
<1>a. PodsAtSwitch \in [Name -> Pod] /\ pods \in [Name -> Pod]
      /\ DeleteAllVMPods \in [Name -> Pod]
  BY PodsAtSwitchTypes
<1>1. CASE AddFinalizer
  <2> DEFINE new == [CachedVM EXCEPT !.finalizer = TRUE]
  <2>a. new \in VirtualMachine
    BY <1>0 DEF VirtualMachine
  <2>b. Named(new)
    BY <1>0 DEF VirtualMachine, Named
  <2>1. new \in VirtualMachine /\ Named(new)
    BY <2>a, <2>b
  <2> HIDE DEF new
  <2>2. Finish(new, pods) /\ UNCHANGED <<ch, isTarget>> /\ ctlUnchanged
    BY <1>1 DEF AddFinalizer, new
  <2> QED BY <2>1, <2>2, <1>a, ControllerFrame
<1>2. CASE RemoveFinalizer
  <2>1. NoVM(CachedVM.runPolicy) \in VirtualMachine
        /\ Named(NoVM(CachedVM.runPolicy))
    BY <1>0 DEF VirtualMachine, Named, NoVM, Phase, PowerAction, MigrationPhase
  <2>2. vm' \in VirtualMachine /\ Named(vm')
    BY <1>2, <2>1, CopyTypes, CtlIsActor
    DEF RemoveFinalizer, UpdateVM, TypeInv, TypeOK
  <2>3. NamedInv'
    BY <1>2, <2>2, NamedFrame DEF RemoveFinalizer, TypeInv, ctlUnchanged
  <2>4. TypeOK'
    BY <1>2, <2>2
    DEF RemoveFinalizer, TypeInv, TypeOK, ctlUnchanged, sendVars, vmmVars
  <2> QED BY <2>3, <2>4 DEF TypeInv
<1>3. CASE NameVMPod
  <2>0. PICK n \in Name \ UsedNames :
          Finish([CachedVM EXCEPT !.podName = n, !.phase = "Scheduling"],
                 PodsAtSwitch)
    BY <1>3 DEF NameVMPod
  <2> DEFINE new == [CachedVM EXCEPT !.podName = n, !.phase = "Scheduling"]
  <2>a. new \in VirtualMachine
    BY <1>0 DEF VirtualMachine, Phase
  <2>b. Named(new)
    BY <1>0 DEF VirtualMachine, Named
  <2>1. new \in VirtualMachine /\ Named(new)
    BY <2>a, <2>b
  <2> HIDE DEF new
  <2>2. Finish(new, PodsAtSwitch) /\ UNCHANGED <<ch, isTarget>> /\ ctlUnchanged
    BY <2>0, <1>3 DEF NameVMPod, new
  <2> QED BY <2>1, <2>2, <1>a, ControllerFrame
<1>4. CASE CreateVMPod
  <2>1. CachedVM.podName \in Name
    BY <1>4, <1>0 DEF CreateVMPod, AtSwitch, VirtualMachine, Named
  <2>2. CreatePod(CachedVM.podName, CachedVM, FALSE)
        /\ UNCHANGED ch /\ ctlUnchanged
    BY <1>4 DEF CreateVMPod
  <2> QED BY <2>1, <2>2, <1>0, CreatePodTypes
<1>5. CASE VMPodLost
  <2> DEFINE new == [CachedVM EXCEPT !.phase = "Failed"]
  <2>a. new \in VirtualMachine
    BY <1>0 DEF VirtualMachine, Phase
  <2>b. Named(new)
    BY <1>0 DEF VirtualMachine, Named
  <2>1. new \in VirtualMachine /\ Named(new)
    BY <2>a, <2>b
  <2> HIDE DEF new
  <2>2. Finish(new, pods) /\ UNCHANGED <<ch, isTarget>> /\ ctlUnchanged
    BY <1>5 DEF VMPodLost, new
  <2> QED BY <2>1, <2>2, <1>a, ControllerFrame
<1>6. CASE FollowVMPod
  <2> DEFINE pod == CachedPods[CachedVM.podName]
             new == [CachedVM EXCEPT !.podUID = pod.uid, !.nodeName = pod.node,
                                     !.phase = PhaseOf(pod.phase, @)]
  <2>1. CachedVM.podName \in Name
    BY <1>6, <1>0 DEF FollowVMPod, AtSwitch, VirtualMachine, Named
  <2>2. pod.uid \in Uid \cup {None} /\ pod.node \in Node \cup {None}
    BY <2>1, CachedPodTypes DEF Pod
  <2>3. PhaseOf(pod.phase, CachedVM.phase) \in Phase
    BY <1>0, PhaseTypes DEF VirtualMachine
  <2>a. new \in VirtualMachine
    BY <1>0, <2>2, <2>3 DEF VirtualMachine
  <2>b. /\ new.podName = CachedVM.podName /\ new.migPhase = CachedVM.migPhase
        /\ new.targetPodName = CachedVM.targetPodName
    BY <1>0 DEF VirtualMachine
  <2>5. Finish(new, PodsAtSwitch) /\ UNCHANGED <<ch, isTarget>> /\ ctlUnchanged
    BY <1>6 DEF FollowVMPod
  <2> HIDE DEF new
  <2>c. CachedVM.podName # None
    BY <2>1, ClusterAssumption
  <2>d. Named(new)
    BY <1>0, <2>b, <2>c DEF Named
  <2> QED BY <2>a, <2>d, <2>5, <1>a, ControllerFrame
<1>7. CASE RunningVMEnded
  <2> DEFINE new == [CachedVM EXCEPT !.phase = RunningPhase]
  <2>1. RunningPhase \in Phase
    BY PhaseTypes DEF Phase
  <2>2. new \in VirtualMachine
    BY <1>0, <2>1 DEF VirtualMachine
  <2>3. Finish(new, pods) /\ UNCHANGED <<ch, isTarget>> /\ ctlUnchanged
    BY <1>7 DEF RunningVMEnded
  <2>4. /\ new.podName = CachedVM.podName /\ new.migPhase = CachedVM.migPhase
        /\ new.targetPodName = CachedVM.targetPodName
    BY <1>0 DEF VirtualMachine
  <2> HIDE DEF new
  <2>5. CachedVM.podName # None
    BY <1>7, <1>0 DEF RunningVMEnded, AtSwitch, Named
  <2>6. Named(new)
    BY <1>0, <2>4, <2>5 DEF Named
  <2> QED BY <2>2, <2>3, <2>6, <1>a, ControllerFrame
<1>b. Checked \in VirtualMachine /\ Named(Checked)
  <2>1. Checked \in VirtualMachine
    BY <1>0 DEF Checked, VirtualMachine
  <2>2. Named(Checked)
    BY <1>0 DEF Checked, VirtualMachine, Named
  <2> QED BY <2>1, <2>2
<1>8. CASE RunningVM
  <2>1. Finish(Checked, pods) /\ UNCHANGED <<ch, isTarget>> /\ ctlUnchanged
    BY <1>8 DEF RunningVM
  <2> QED BY <2>1, <1>b, <1>a, ControllerFrame
<1>9. CASE NameTargetPod
  <2>0. PICK n \in Name \ UsedNames :
          Finish([Checked EXCEPT !.targetPodName = n, !.migPhase = "Scheduling"],
                 pods)
    BY <1>9 DEF NameTargetPod
  <2> DEFINE new == [Checked EXCEPT !.targetPodName = n, !.migPhase = "Scheduling"]
  <2>a. new \in VirtualMachine
    BY <1>b DEF VirtualMachine, MigrationPhase
  <2>b. Named(new)
    BY <1>b, <1>0 DEF VirtualMachine, Named
  <2>1. new \in VirtualMachine /\ Named(new)
    BY <2>a, <2>b
  <2> HIDE DEF new
  <2>2. Finish(new, pods) /\ UNCHANGED <<ch, isTarget>> /\ ctlUnchanged
    BY <2>0, <1>9 DEF NameTargetPod, new
  <2> QED BY <2>1, <2>2, <1>a, ControllerFrame
<1>10. CASE CreateTargetPod
  <2>1. CachedVM.targetPodName \in Name
    BY <1>10, <1>0 DEF CreateTargetPod, VirtualMachine, Named
  <2>2. CreatePod(CachedVM.targetPodName, Checked, TRUE)
        /\ UNCHANGED ch /\ ctlUnchanged
    BY <1>10 DEF CreateTargetPod
  <2> QED BY <2>1, <2>2, <1>b, CreatePodTypes
<1>11. CASE FollowTargetPod
  <2> DEFINE pod == CachedPods[CachedVM.targetPodName]
             phase == CASE pod.phase = "Running" -> "Scheduled"
                        [] pod.phase = "Pending" -> "Scheduling"
                        [] OTHER -> "Failed"
             new == [Checked EXCEPT !.targetPodUID = pod.uid,
                                    !.targetNodeName = pod.node,
                                    !.migPhase = phase]
  <2>1. CachedVM.targetPodName \in Name
    BY <1>11, <1>0 DEF FollowTargetPod, VirtualMachine, Named
  <2>2. pod.uid \in Uid \cup {None} /\ pod.node \in Node \cup {None}
    BY <2>1, CachedPodTypes DEF Pod
  <2>3. phase \in MigrationPhase
    BY DEF MigrationPhase
  <2>4. Checked.targetPodName # None
    BY <2>1, <1>0 DEF Checked, VirtualMachine
  <2> HIDE DEF phase
  <2>a. new \in VirtualMachine
    BY <1>b, <2>2, <2>3, ZenonT(40) DEF VirtualMachine
  <2>b. Named(new)
    BY <1>b, <2>4 DEF VirtualMachine, Named
  <2>5. new \in VirtualMachine /\ Named(new)
    BY <2>a, <2>b
  <2>6. Finish(new, pods) /\ UNCHANGED <<ch, isTarget>> /\ ctlUnchanged
    BY <1>11 DEF FollowTargetPod, phase
  <2> QED BY <2>5, <2>6, <1>a, ControllerFrame
<1>12. CASE TakeDown
  <2>1. Finish(CachedVM, DeleteAllVMPods)
        /\ UNCHANGED <<ch, isTarget>> /\ ctlUnchanged
    BY <1>12 DEF TakeDown
  <2> QED BY <2>1, <1>0, <1>a, ControllerFrame
<1>13. CASE RunOrRest
  <2> DEFINE phase == IF ShouldRun(CachedVM) THEN "Pending" ELSE CachedVM.phase
             new == ResetStatus(CachedVM, phase)
  <2>1. phase \in Phase /\ phase \notin {"Scheduling", "Scheduled", "Running"}
    BY <1>13, <1>0 DEF RunOrRest, AtSwitch, VirtualMachine, Phase
  <2> HIDE DEF phase
  <2>a. new \in VirtualMachine
    BY <2>1, <1>0, ZenonT(40)
    DEF VirtualMachine, ResetStatus, NoVM, PowerAction, MigrationPhase
  <2>b. Named(new)
    BY <2>1, <1>0 DEF VirtualMachine, Named, ResetStatus, NoVM
  <2>2. new \in VirtualMachine /\ Named(new)
    BY <2>a, <2>b
  <2>3. Finish(new, pods) /\ UNCHANGED <<ch, isTarget>> /\ ctlUnchanged
    BY <1>13 DEF RunOrRest, phase
  <2> QED BY <2>2, <2>3, <1>a, ControllerFrame
<1>14. CASE UnknownVM
  <2>1. Finish(CachedVM, pods) /\ UNCHANGED <<ch, isTarget>> /\ ctlUnchanged
    BY <1>14 DEF UnknownVM
  <2> QED BY <2>1, <1>0, <1>a, ControllerFrame
<1> QED
  BY <1>1, <1>2, <1>3, <1>4, <1>5, <1>6, <1>7, <1>8, <1>9, <1>10, <1>11,
     <1>12, <1>13, <1>14
  DEF VMControllerReconcile
-----------------------------------------------------------------------------
\* A daemon's call changes the VM, one process and its own bookkeeping.
LEMMA DaemonFrame ==
  ASSUME TypeInv, NEW d \in Node, NEW new \in VirtualMachine, Named(new),
         Write(d, new),
         ch' \in [Name -> HypervisorState], sends' \in SUBSET Send,
         sendErrCh' \in [Node -> {"nil", "open", "error"}]
  PROVE  TypeInv'
<1>1. vm' \in VirtualMachine /\ Named(vm')
  BY CopyTypes, CtlIsActor DEF Write, UpdateVM, TypeInv, TypeOK
<1>2. NamedInv'
  BY <1>1, NamedFrame DEF TypeInv, Write
<1>3. TypeOK'
  BY <1>1 DEF TypeInv, TypeOK, Write, vmmVars
<1> QED BY <1>2, <1>3 DEF TypeInv

\* The fields a daemon writes.
LEMMA DaemonWrites ==
  ASSUME NEW v \in VirtualMachine, Named(v), NEW phase \in Phase,
         phase \in {"Scheduling", "Scheduled", "Running"} => v.podName # None,
         NEW migPhase \in MigrationPhase,
         migPhase \notin {"", "Pending"} => v.targetPodName # None
  PROVE  /\ [v EXCEPT !.phase = phase] \in VirtualMachine
         /\ Named([v EXCEPT !.phase = phase])
         /\ [v EXCEPT !.migPhase = migPhase] \in VirtualMachine
         /\ Named([v EXCEPT !.migPhase = migPhase])
         /\ [v EXCEPT !.powerAction = ""] \in VirtualMachine
         /\ Named([v EXCEPT !.powerAction = ""])
<1>1. [v EXCEPT !.phase = phase] \in VirtualMachine
  BY DEF VirtualMachine
<1>2. [v EXCEPT !.migPhase = migPhase] \in VirtualMachine
  BY DEF VirtualMachine
<1>3. [v EXCEPT !.powerAction = ""] \in VirtualMachine
  BY DEF VirtualMachine
<1>4. /\ Named([v EXCEPT !.phase = phase])
      /\ Named([v EXCEPT !.migPhase = migPhase])
      /\ Named([v EXCEPT !.powerAction = ""])
  BY DEF VirtualMachine, Named
<1> QED BY <1>1, <1>2, <1>3, <1>4

\* Changing the state of one process yields states.
LEMMA ChTypes ==
  ASSUME TypeInv, NEW n \in Name, NEW state \in HypervisorState
  PROVE  [ch EXCEPT ![n] = state] \in [Name -> HypervisorState]
BY DEF TypeInv, TypeOK

\* The daemons talk to pods.
LEMMA AnsweringInName ==
  ASSUME NEW u, NEW d
  PROVE  Answering(u, d) \subseteq Name /\ VmInfo(u, d) \subseteq Name
BY DEF Answering, VmInfo, PodsOf

\* A power action leaves the process in one of its states.
LEMMA AfterPowerTypes ==
  ASSUME NEW action, NEW state \in HypervisorState
  PROVE  AfterPower(action, state) \subseteq HypervisorState
BY DEF AfterPower, HypervisorState

\* One case for each action of a daemon.
LEMMA DaemonTypes ==
  ASSUME TypeInv, NEW d \in Node, DaemonReconcile(d)
  PROVE  TypeInv'
<1> DEFINE v == vmCache[d]
<1>0. /\ v \in VirtualMachine /\ Named(v)
      /\ None \notin Name
      /\ ch \in [Name -> HypervisorState] /\ sends \in SUBSET Send
      /\ sendErrCh \in [Node -> {"nil", "open", "error"}]
  BY CopyTypes, ClusterAssumption DEF Actor, TypeInv, TypeOK
<1>a. \A phase \in {"Running", "Succeeded", "Failed"} :
        (phase = "Running" => v.podName # None) =>
          [v EXCEPT !.phase = phase] \in VirtualMachine
          /\ Named([v EXCEPT !.phase = phase])
  BY <1>0, DaemonWrites DEF Phase, MigrationPhase
<1>b. \A migPhase \in {"TargetReady", "Scheduled", "Failed", "Running", "Sent"} :
        v.targetPodName # None =>
          [v EXCEPT !.migPhase = migPhase] \in VirtualMachine
          /\ Named([v EXCEPT !.migPhase = migPhase])
  BY <1>0, DaemonWrites DEF Phase, MigrationPhase
<1> HIDE DEF v
<1>1. CASE DaemonDeletesVM(d)
  <2>1. ch' \in [Name -> HypervisorState]
    BY <1>1, <1>0, ChTypes, AnsweringInName DEF DaemonDeletesVM, HypervisorState
  <2>2. Write(d, [v EXCEPT !.phase = "Succeeded"]) /\ UNCHANGED sendVars
    BY <1>1 DEF DaemonDeletesVM, v
  <2> QED BY <2>1, <2>2, <1>0, <1>a, DaemonFrame DEF sendVars
<1>2. CASE BootVM(d)
  <2>1. ch' \in [Name -> HypervisorState]
    BY <1>2, <1>0, ChTypes, AnsweringInName DEF BootVM, HypervisorState
  <2>2. Write(d, v) /\ UNCHANGED sendVars
    BY <1>2 DEF BootVM, v
  <2> QED BY <2>1, <2>2, <1>0, DaemonFrame DEF sendVars
<1>3. CASE ObserveBoot(d)
  <2>1. \E phase \in {"Running", "Failed"} : Write(d, [v EXCEPT !.phase = phase])
    BY <1>3 DEF ObserveBoot, v
  <2>2. v.podName # None /\ UNCHANGED <<ch, sendVars>>
    BY <1>3 DEF ObserveBoot, Concerns, v
  <2> QED BY <2>1, <2>2, <1>0, <1>a, DaemonFrame DEF sendVars
<1>4. CASE HaltVM(d)
  <2>1. ch' \in [Name -> HypervisorState]
    BY <1>4, <1>0, ChTypes, AnsweringInName DEF HaltVM, HypervisorState
  <2>2. Write(d, v) /\ UNCHANGED sendVars
    BY <1>4 DEF HaltVM, v
  <2> QED BY <2>1, <2>2, <1>0, DaemonFrame DEF sendVars
<1>5. CASE DoPowerAction(d)
  <2>0. PICK n \in VmInfo(v.podUID, d) :
          \E state \in AfterPower(v.powerAction, ch[n]) :
            ch' = [ch EXCEPT ![n] = state]
    BY <1>5 DEF DoPowerAction, v
  <2>a. n \in Name /\ ch[n] \in HypervisorState
    BY <1>0, AnsweringInName
  <2>1. ch' \in [Name -> HypervisorState]
    BY <2>0, <2>a, ChTypes, AfterPowerTypes
  <2>2. Write(d, [v EXCEPT !.powerAction = ""]) /\ UNCHANGED sendVars
    BY <1>5 DEF DoPowerAction, v
  <2>3. /\ [v EXCEPT !.powerAction = ""] \in VirtualMachine
        /\ Named([v EXCEPT !.powerAction = ""])
    BY <1>0, DaemonWrites DEF Phase, MigrationPhase
  <2> QED BY <2>1, <2>2, <2>3, <1>0, DaemonFrame DEF sendVars
<1>6. CASE ObserveShutdown(d)
  <2>1. Write(d, [v EXCEPT !.phase = "Succeeded"]) /\ UNCHANGED <<ch, sendVars>>
    BY <1>6 DEF ObserveShutdown, v
  <2> QED BY <2>1, <1>0, <1>a, DaemonFrame DEF sendVars
<1>7. CASE PrepareTarget(d)
  <2>1. v.targetPodName # None /\ UNCHANGED sendVars
    BY <1>7, <1>0 DEF PrepareTarget, Migrates, Named, v
  <2>2. ch' \in [Name -> HypervisorState]
    BY <1>7, <1>0, ChTypes, AnsweringInName DEF PrepareTarget, HypervisorState
  <2>3. \E phase \in {"TargetReady", "Scheduled", "Failed"} :
          Write(d, [v EXCEPT !.migPhase = phase])
    BY <1>7 DEF PrepareTarget, v
  <2> QED BY <2>1, <2>2, <2>3, <1>0, <1>b, DaemonFrame DEF sendVars
<1>8. CASE StartSend(d)
  <2>1. v.targetPodName # None
    BY <1>8, <1>0 DEF StartSend, Migrates, Named, v
  <2>2. Write(d, [v EXCEPT !.migPhase = "Running"]) /\ UNCHANGED ch
    BY <1>8 DEF StartSend, v
  <2>3. sendErrCh' \in [Node -> {"nil", "open", "error"}]
    BY <1>8, <1>0 DEF StartSend
  <2>4. sends' \in SUBSET Send
    <3> DEFINE old == {IF \E n \in PodsOf(s.src) : pods[n].node = d
                       THEN [s EXCEPT !.tracked = FALSE] ELSE s : s \in sends}
               up == {n \in Answering(v.podUID, d) : HasGuest(n)}
               send == [src |-> v.podUID, dst |-> v.targetPodUID, tracked |-> TRUE]
    <3>1. sends' = IF up = {} THEN old ELSE old \cup {send}
      BY <1>8 DEF StartSend, v
    <3>2. old \subseteq Send
      BY <1>0 DEF Send
    <3>3. up # {} => v.podUID # None
      BY DEF Answering, PodsOf
    <3>4. up # {} => send \in Send
      BY <3>3, <1>0 DEF Send, VirtualMachine
    <3> HIDE DEF old, up, send
    <3> QED BY <3>1, <3>2, <3>4
  <2> QED BY <2>1, <2>2, <2>3, <2>4, <1>0, <1>b, DaemonFrame
<1>9. CASE SourceSent(d)
  <2>1. v.targetPodName # None
    BY <1>9, <1>0 DEF SourceSent, Migrates, Named, v
  <2>2. Write(d, [v EXCEPT !.migPhase = "Sent"]) /\ UNCHANGED <<ch, sends>>
    BY <1>9 DEF SourceSent, v
  <2>3. sendErrCh' \in [Node -> {"nil", "open", "error"}]
    BY <1>9, <1>0 DEF SourceSent
  <2> QED BY <2>1, <2>2, <2>3, <1>0, <1>b, DaemonFrame
<1>10. CASE SourceFailed(d)
  <2>1. v.targetPodName # None
    BY <1>10, <1>0 DEF SourceFailed, Migrates, Named, v
  <2>2. Write(d, [v EXCEPT !.migPhase = "Failed"]) /\ UNCHANGED <<ch, sends>>
    BY <1>10 DEF SourceFailed, v
  <2>3. sendErrCh' \in [Node -> {"nil", "open", "error"}]
    BY <1>10, <1>0 DEF SourceFailed
  <2> QED BY <2>1, <2>2, <2>3, <1>0, <1>b, DaemonFrame
<1>11. CASE TargetTakesOver(d)
  <2> DEFINE new == [v EXCEPT !.migPhase = "Succeeded",
                              !.nodeName = v.targetNodeName,
                              !.podName = v.targetPodName,
                              !.podUID = v.targetPodUID]
  <2>1. v.targetPodName # None
    BY <1>11, <1>0 DEF TargetTakesOver, Migrates, Named, v
  <2>2. new \in VirtualMachine
    BY <1>0 DEF VirtualMachine, MigrationPhase
  <2>3. Named(new)
    BY <1>0, <2>1 DEF VirtualMachine, Named
  <2>4. Write(d, new) /\ UNCHANGED <<ch, sends>>
    BY <1>11 DEF TargetTakesOver, v
  <2>5. sendErrCh' \in [Node -> {"nil", "open", "error"}]
    BY <1>11, <1>0 DEF TargetTakesOver
  <2> HIDE DEF new
  <2> QED BY <2>2, <2>3, <2>4, <2>5, <1>0, DaemonFrame
<1>12. CASE ForgetMigration(d)
  <2>1. Write(d, v) /\ UNCHANGED <<ch, sends>>
    BY <1>12 DEF ForgetMigration, v
  <2>2. sendErrCh' \in [Node -> {"nil", "open", "error"}]
    BY <1>12, <1>0 DEF ForgetMigration
  <2> QED BY <2>1, <2>2, <1>0, DaemonFrame
<1> QED
  BY <1>1, <1>2, <1>3, <1>4, <1>5, <1>6, <1>7, <1>8, <1>9, <1>10, <1>11, <1>12
  DEF DaemonReconcile

\* The errors that a failed request reports, and receivers that give up.
LEMMA TransferTypes ==
  ASSUME TypeInv, NEW S, NEW R
  PROVE  /\ ErrorsOf(S) \in [Node -> {"nil", "open", "error"}]
         /\ GiveUp(R) \in [Name -> HypervisorState]
BY DEF TypeInv, TypeOK, ErrorsOf, GiveUp, HypervisorState

\* A cache that is refreshed shows the object itself.
LEMMA SyncTypes ==
  ASSUME TypeInv, NEW a \in Actor, UNCHANGED vm,
         vmCache' = [vmCache EXCEPT ![a] = vm]
  PROVE  vmCache' \in [Actor -> VirtualMachine] /\ NamedInv'
<1>1. vmCache' \in [Actor -> VirtualMachine]
  BY DEF TypeInv, TypeOK
<1>2. Views' \subseteq Views
  BY DEF TypeInv, TypeOK, Views
<1> QED BY <1>1, <1>2 DEF TypeInv, NamedInv

\* A restart fills the caches with what the API server holds.
LEMMA RestartTypes ==
  ASSUME TypeInv, NEW d \in Node, DaemonRestart(d)
  PROVE  TypeInv'
<1>1. d \in Actor
  BY DEF Actor
<1>2. vmCache' \in [Actor -> VirtualMachine] /\ NamedInv'
  BY <1>1, SyncTypes DEF DaemonRestart
<1>3. podCache' \in [Actor -> [Name -> Pod]] /\ sends' \in SUBSET Send
  BY <1>1 DEF DaemonRestart, TypeInv, TypeOK
<1>4. ch' \in [Name -> HypervisorState]
  BY TransferTypes DEF DaemonRestart
<1>5. sendErrCh' \in [Node -> {"nil", "open", "error"}]
  BY TransferTypes DEF DaemonRestart
<1>6. UNCHANGED <<vm, pods, isTarget, vmmVars>>
  BY DEF DaemonRestart
<1> QED BY <1>2, <1>3, <1>4, <1>5, <1>6 DEF TypeInv, TypeOK, vmmVars

\* A step of the migration controller or of a user, which touches VM and VMMs only.
LEMMA ObjectFrame ==
  ASSUME TypeInv, vm' \in VirtualMachine, Named(vm'),
         vmms' \in [Migration -> VMM], vmmCache' \in [Migration -> VMM],
         UNCHANGED <<vmCache, podVars, sendVars>>
  PROVE  TypeInv'
<1>1. NamedInv'
  BY NamedFrame DEF TypeInv
<1>2. TypeOK'
  BY DEF TypeInv, TypeOK, podVars, sendVars
<1> QED BY <1>1, <1>2 DEF TypeInv

\* Changing one field of an object yields an object.
LEMMA FieldTypes ==
  /\ \A u \in VMM, state \in {"new", "live", "deleted"} :
       [u EXCEPT !.state = state] \in VMM
  /\ \A p \in Pod, phase \in PodPhase : [p EXCEPT !.phase = phase] \in Pod
  /\ \A p \in Pod, d \in Node : [p EXCEPT !.node = d] \in Pod
<1>1. \A u \in VMM, state \in {"new", "live", "deleted"} :
        [u EXCEPT !.state = state] \in VMM
  BY DEF VMM
<1>2. \A p \in Pod, phase \in PodPhase : [p EXCEPT !.phase = phase] \in Pod
  BY DEF Pod
<1>3. \A p \in Pod, d \in Node : [p EXCEPT !.node = d] \in Pod
  BY DEF Pod
<1> QED BY <1>1, <1>2, <1>3

\* The VMM controller, and the admission of a VMM.
LEMMA MigrationTypes ==
  ASSUME TypeInv, NEW m \in Migration,
         CreateVMM(m) \/ VMMReconcile(m) \/ DeleteVMM(m) \/ SyncVMM(m)
  PROVE  TypeInv'
<1> DEFINE v == vmCache[Ctl]
           u == vmmCache[m]
<1>0. /\ v \in VirtualMachine /\ Named(v) /\ vm \in VirtualMachine /\ Named(vm)
      /\ u \in VMM
      /\ vmms \in [Migration -> VMM] /\ vmmCache \in [Migration -> VMM]
  BY CopyTypes, CtlIsActor DEF TypeInv, TypeOK
<1> HIDE DEF v, u
<1>1. CASE CreateVMM(m) \/ DeleteVMM(m)
  <2>0. \A state \in {"live", "deleted"} :
          [vmms EXCEPT ![m].state = state] \in [Migration -> VMM]
    BY <1>0, FieldTypes
  <2>1. vmms' \in [Migration -> VMM]
    BY <1>1, <2>0 DEF CreateVMM, DeleteVMM
  <2> QED BY <1>1, <2>1, <1>0, ObjectFrame DEF CreateVMM, DeleteVMM, vmVars
<1>2. CASE SyncVMM(m)
  <2>1. vmmCache' \in [Migration -> VMM]
    BY <1>2, <1>0 DEF SyncVMM
  <2> QED BY <1>2, <2>1, <1>0, ObjectFrame DEF SyncVMM, vmVars
<1>3. CASE ReleaseVM(m)
  <2> DEFINE new == [v EXCEPT !.migUID = None, !.migPhase = "",
                              !.targetPodName = None, !.targetPodUID = None,
                              !.targetNodeName = None]
  <2>1. new \in VirtualMachine
    BY <1>0, ZenonT(40) DEF VirtualMachine, MigrationPhase
  <2>2. Named(new)
    BY <1>0 DEF VirtualMachine, Named
  <2>3. /\ vm' \in {new, vm}
        /\ UNCHANGED <<vmCache, podVars, sendVars, vmmVars>>
    BY <1>3 DEF ReleaseVM, UpdateVM, v
  <2> HIDE DEF new
  <2> QED BY <2>1, <2>2, <2>3, <1>0, ObjectFrame DEF vmmVars
<1>4. CASE RefuseVMM(m)
  <2>1. [u EXCEPT !.phase = "Failed"] \in VMM
    BY <1>0 DEF VMM, MigrationPhase
  <2>2. vmms' \in [Migration -> VMM]
    BY <1>4, <2>1, <1>0 DEF RefuseVMM, UpdateVMM, u
  <2> QED BY <1>4, <2>2, <1>0, ObjectFrame DEF RefuseVMM, vmVars
<1>5. CASE ClaimVM(m)
  <2> DEFINE new == [v EXCEPT !.migUID = m]
             newVMM == [u EXCEPT !.source = v.nodeName]
  <2>1. new \in VirtualMachine
    BY <1>0 DEF VirtualMachine
  <2>2. Named(new)
    BY <1>0 DEF VirtualMachine, Named
  <2>3. newVMM \in VMM
    BY <1>0 DEF VMM, VirtualMachine
  <2>4. /\ vm' \in {new, vm}
        /\ vmms' \in {vmms, [vmms EXCEPT ![m] = newVMM]}
        /\ UNCHANGED <<vmCache, podVars, sendVars, vmmCache>>
    BY <1>5 DEF ClaimVM, UpdateVM, UpdateVMM, v, u
  <2> HIDE DEF new, newVMM
  <2>5. vmms' \in [Migration -> VMM]
    BY <2>3, <2>4, <1>0
  <2> QED BY <2>1, <2>2, <2>4, <2>5, <1>0, ObjectFrame
<1>6. CASE FollowVM(m)
  <2>1. [u EXCEPT !.phase = v.migPhase] \in VMM
    BY <1>0 DEF VMM, VirtualMachine
  <2>2. vmms' \in [Migration -> VMM]
    BY <1>6, <2>1, <1>0 DEF FollowVM, UpdateVMM, u, v
  <2> QED BY <1>6, <2>2, <1>0, ObjectFrame DEF FollowVM, vmVars
<1> QED
  BY <1>1, <1>2, <1>3, <1>4, <1>5, <1>6 DEF VMMReconcile

\* A step of Kubernetes or of a hypervisor.
LEMMA PodFrame ==
  ASSUME TypeInv, pods' \in [Name -> Pod], ch' \in [Name -> HypervisorState],
         isTarget' \in SUBSET Name, UNCHANGED <<vmVars, podCache, sendVars, vmmVars>>
  PROVE  TypeInv'
<1>1. NamedInv'
  BY DEF TypeInv, NamedInv, Views, vmVars
<1>2. TypeOK'
  BY DEF TypeInv, TypeOK, vmVars, sendVars, vmmVars
<1> QED BY <1>1, <1>2 DEF TypeInv

\* One case for each thing that happens to a pod.
LEMMA KubernetesTypes ==
  ASSUME TypeInv, NEW n \in Name, Kubelet(n) \/ PodFault(n)
  PROVE  TypeInv'
<1>0. /\ pods \in [Name -> Pod] /\ ch \in [Name -> HypervisorState]
      /\ isTarget \in SUBSET Name
      /\ \A S : Deleted(S) \in [Name -> Pod]
  BY DeletedTypes DEF TypeInv, TypeOK
<1>a. \A phase \in PodPhase : [pods EXCEPT ![n].phase = phase] \in [Name -> Pod]
  BY <1>0, FieldTypes
<1>b. \A d \in Node : [pods EXCEPT ![n].node = d] \in [Name -> Pod]
  BY <1>0, FieldTypes
<1>c. \A state \in HypervisorState :
        [ch EXCEPT ![n] = state] \in [Name -> HypervisorState]
  BY <1>0
<1>1. ASSUME NEW d \in Node, SchedulePod(n, d) PROVE TypeInv'
  BY <1>1, <1>0, <1>b, PodFrame DEF SchedulePod
<1>2. CASE StartPod(n)
  BY <1>2, <1>0, <1>a, PodFrame DEF StartPod, PodPhase
<1>3. CASE HypervisorUp(n)
  BY <1>3, <1>0, <1>c, PodFrame DEF HypervisorUp, HypervisorState
<1>4. CASE ReportExit(n)
  BY <1>4, <1>0, <1>a, <1>c, PodFrame DEF ReportExit, PodPhase, HypervisorState
<1>5. CASE CollectPod(n)
  BY <1>5, <1>0, PodFrame DEF CollectPod
<1>6. CASE StopPod(n)
  BY <1>6, <1>0, <1>a, <1>c, PodFrame DEF StopPod, PodPhase, HypervisorState
<1>7. CASE RemovePod(n)
  <2>1. NoPod \in Pod
    BY DEF NoPod, Pod, PodPhase
  <2>2. pods' \in [Name -> Pod] /\ isTarget' \in SUBSET Name
    BY <1>7, <1>0, <2>1 DEF RemovePod
  <2> QED BY <1>7, <2>2, <1>c, PodFrame DEF RemovePod, HypervisorState
<1>8. CASE PodFails(n)
  BY <1>8, <1>0, <1>a, <1>c, PodFrame DEF PodFails, PodPhase, HypervisorState
<1>9. CASE PodLost(n)
  BY <1>9, <1>0, <1>a, PodFrame DEF PodLost, PodPhase
<1>10. CASE DeletePod(n)
  BY <1>10, <1>0, PodFrame DEF DeletePod
<1>11. CASE GuestPowersOff(n)
  BY <1>11, <1>0, <1>c, PodFrame DEF GuestPowersOff, HypervisorState
<1> QED
  BY <1>1, <1>2, <1>3, <1>4, <1>5, <1>6, <1>7, <1>8, <1>9, <1>10, <1>11
  DEF Kubelet, PodFault

\* The end of a transfer.
LEMMA SendTypes ==
  ASSUME TypeInv, Transfer
  PROVE  TypeInv'
<1>1. PICK s \in sends : SendSucceeds(s) \/ SendFails(s)
  BY DEF Transfer
<1>2. ch' \in [Name -> HypervisorState]
  <2>1. CASE SendSucceeds(s)
    BY <2>1 DEF SendSucceeds, TypeInv, TypeOK, HypervisorState, PodsOf
  <2>2. CASE SendFails(s)
    BY <2>2, TransferTypes DEF SendFails
  <2> QED BY <1>1, <2>1, <2>2
<1>3. sendErrCh' \in [Node -> {"nil", "open", "error"}]
  BY <1>1, TransferTypes DEF SendSucceeds, SendFails
<1>4. sends' \in SUBSET Send
  BY <1>1 DEF SendSucceeds, SendFails, TypeInv, TypeOK
<1>5. UNCHANGED <<vmVars, pods, podCache, isTarget, vmmVars>>
  BY <1>1 DEF SendSucceeds, SendFails
<1>6. NamedInv'
  BY <1>5 DEF TypeInv, NamedInv, Views, vmVars
<1>7. TypeOK'
  BY <1>2, <1>3, <1>4, <1>5 DEF TypeInv, TypeOK, vmVars, vmmVars
<1> QED BY <1>6, <1>7 DEF TypeInv

\* What a user may ask for.
LEMMA UserTypes ==
  ASSUME TypeInv, User
  PROVE  TypeInv'
<1>0. /\ vm \in VirtualMachine /\ Named(vm)
      /\ vmms \in [Migration -> VMM] /\ vmmCache \in [Migration -> VMM]
  BY CopyTypes, CtlIsActor DEF TypeInv, TypeOK
<1>1. CASE DeleteVM
  <2>1. [vm EXCEPT !.deleting = TRUE] \in VirtualMachine
    BY <1>0 DEF VirtualMachine
  <2>2. Named([vm EXCEPT !.deleting = TRUE])
    BY <1>0 DEF VirtualMachine, Named
  <2>3. NoVM(vm.runPolicy) \in VirtualMachine /\ Named(NoVM(vm.runPolicy))
    BY <1>0 DEF VirtualMachine, Named, NoVM, Phase, PowerAction, MigrationPhase
  <2>4. /\ vm' \in {[vm EXCEPT !.deleting = TRUE], NoVM(vm.runPolicy)}
        /\ UNCHANGED <<vmCache, podVars, sendVars, vmmVars>>
    BY <1>1 DEF DeleteVM
  <2> QED BY <2>1, <2>2, <2>3, <2>4, <1>0, ObjectFrame DEF vmmVars
<1>2. ASSUME NEW policy \in Policies, SetRunPolicy(policy) PROVE TypeInv'
  <2>1. [vm EXCEPT !.runPolicy = policy] \in VirtualMachine
    BY <1>0, ClusterAssumption DEF VirtualMachine
  <2>2. Named([vm EXCEPT !.runPolicy = policy])
    BY <1>0 DEF VirtualMachine, Named
  <2> QED BY <1>2, <2>1, <2>2, <1>0, ObjectFrame DEF SetRunPolicy, vmmVars
<1>3. ASSUME NEW action \in Powers, SetPowerAction(action) PROVE TypeInv'
  <2>1. action \in PowerAction
    BY ClusterAssumption
  <2>2. [vm EXCEPT !.powerAction = action] \in VirtualMachine
    BY <1>0, <2>1 DEF VirtualMachine
  <2>3. Named([vm EXCEPT !.powerAction = action])
    BY <1>0 DEF VirtualMachine, Named
  <2> QED BY <1>3, <2>2, <2>3, <1>0, ObjectFrame DEF SetPowerAction, vmmVars
<1> QED BY <1>1, <1>2, <1>3, MigrationTypes DEF User

\* What an informer delivers is what the API server holds.
LEMMA InformerTypes ==
  ASSUME TypeInv, Informers
  PROVE  TypeInv'
<1>1. ASSUME NEW a \in Actor, SyncVM(a) PROVE TypeInv'
  <2>1. vmCache' \in [Actor -> VirtualMachine] /\ NamedInv'
    BY <1>1, SyncTypes DEF SyncVM
  <2> QED BY <1>1, <2>1 DEF SyncVM, TypeInv, TypeOK, podVars, sendVars, vmmVars
<1>2. ASSUME NEW a \in Actor, SyncPods(a) PROVE TypeInv'
  <2>1. podCache' \in [Actor -> [Name -> Pod]]
    BY <1>2 DEF SyncPods, TypeInv, TypeOK
  <2>2. NamedInv'
    BY <1>2 DEF SyncPods, TypeInv, NamedInv, Views, vmVars
  <2> QED BY <1>2, <2>1, <2>2 DEF SyncPods, TypeInv, TypeOK, vmVars, sendVars, vmmVars
<1> QED BY <1>1, <1>2, MigrationTypes DEF Informers

-----------------------------------------------------------------------------
\* The initial states.
LEMMA InitTypes ==
  ASSUME Init
  PROVE  TypeInv
<1>1. PICK policy \in Policies :
        /\ vm = [NoVM(policy) EXCEPT !.exists = TRUE]
        /\ vmCache = [a \in Actor |-> NoVM(policy)]
  BY DEF Init
<1>2. NoVM(policy) \in VirtualMachine /\ Named(NoVM(policy))
  BY ClusterAssumption
  DEF VirtualMachine, Named, NoVM, Phase, PowerAction, MigrationPhase
<1>3. vm \in VirtualMachine /\ Named(vm)
  BY <1>1, ClusterAssumption
  DEF VirtualMachine, Named, NoVM, Phase, PowerAction, MigrationPhase
<1>4. NamedInv
  BY <1>1, <1>2, <1>3 DEF NamedInv, Views
<1>5. NoPod \in Pod
  BY DEF NoPod, Pod, PodPhase
<1>6. vmms \in [Migration -> VMM] /\ vmmCache \in [Migration -> VMM]
  BY DEF Init, VMM, MigrationPhase
<1>7. TypeOK
  BY <1>1, <1>2, <1>3, <1>5, <1>6 DEF Init, TypeOK, HypervisorState
<1> QED BY <1>4, <1>7 DEF TypeInv

\* Every step preserves TypeInv.
LEMMA NextTypes ==
  ASSUME TypeInv, [Next]_vars
  PROVE  TypeInv'
<1>1. CASE UNCHANGED vars
  <2>1. NamedInv'
    BY <1>1 DEF TypeInv, NamedInv, Views, vars
  <2> QED BY <1>1, <2>1 DEF TypeInv, TypeOK, vars
<1>2. CASE Virtink
  BY <1>2, ControllerTypes, MigrationTypes, DaemonTypes, RestartTypes DEF Virtink
<1>3. CASE Environment
  BY <1>3, InformerTypes, KubernetesTypes, SendTypes, UserTypes DEF Environment
<1> QED BY <1>1, <1>2, <1>3 DEF Next

\* Every object and every copy of it has the type its Go struct gives it, and
\* the names that the reconcilers look up are there, whatever the interleaving.
THEOREM TypeInvHolds == Spec => []TypeInv
<1>1. Init => TypeInv
  BY InitTypes
<1>2. TypeInv /\ [Next]_vars => TypeInv'
  BY NextTypes
<1> QED BY <1>1, <1>2, PTL DEF Spec

\* Every object, and every copy of it in a cache, has the type that its Go struct
\* and the enumerations of types.go give it.  TypeOK is not inductive: the
\* reconcilers look pods up by names that must have been given (NamedInv).
THEOREM TypeCorrect == Spec => []TypeOK
<1>1. TypeInv => TypeOK
  BY DEF TypeInv
<1> QED BY <1>1, TypeInvHolds, PTL

=============================================================================
