---------------------------- MODULE UpdateProofs ----------------------------
(***************************************************************************)
(* What no writer of the VM object overwrites, for all constants: the      *)
(* claim of a migration and a user's PowerOn.                              *)
(*                                                                         *)
(* Several actors compute a new object from copies that may be old.  The   *)
(* proofs have two halves: what a writer makes of its copy respects both   *)
(* (one case for each action), and a write is accepted only if the copy is *)
(* the object (WriteOutcome).  Outcomes is not looked at anywhere else.    *)
(***************************************************************************)
EXTENDS TypeProofs

\* The migration that has claimed old is not displaced in new.
ClaimKept(old, new) ==
  old.migUID # None /\ new.migUID # old.migUID => new.migUID = None

\* The PowerOn in old is in new as well, or has started the VM.
RequestKept(old, new) ==
  /\ old.exists /\ old.phase \in {"", "Succeeded", "Failed"}
  /\ old.runPolicy # "Halted" /\ ~old.deleting
  /\ old.powerAction = "PowerOn" /\ new.powerAction = "" /\ new.exists
  => new.phase = "Pending"

Respects(old, new) == ClaimKept(old, new) /\ RequestKept(old, new)

\* An object with the same claim and the same request.
LEMMA SameRespects ==
  ASSUME NEW old, NEW new,
         new.migUID = old.migUID, new.powerAction = old.powerAction
  PROVE  Respects(old, new)
BY DEF Respects, ClaimKept, RequestKept

\* Whoever writes what respects its copy respects the object.
LEMMA WriteRespects ==
  ASSUME NEW a, NEW new, Respects(vmCache[a], new),
         \E ok \in Outcomes(a) : UpdateVM(new, ok)
  PROVE  Respects(vm, vm')
<1>1. vm' = vm \/ (vm' = new /\ vmCache[a] = vm)
  BY WriteOutcome
<1> QED BY <1>1, SameRespects

LEMMA FinishRespects ==
  ASSUME NEW new, NEW podsNow, Respects(CachedVM, new), Finish(new, podsNow)
  PROVE  Respects(vm, vm')
BY WriteRespects DEF Finish, CachedVM

\* Changing the fields that neither is about.
LEMMA OtherFields ==
  ASSUME NEW v \in VirtualMachine
  PROVE  /\ Respects(v, v)
         /\ \A x : Respects(v, [v EXCEPT !.finalizer = x])
         /\ \A x : Respects(v, [v EXCEPT !.phase = x])
         /\ \A x : Respects(v, [v EXCEPT !.migPhase = x])
         /\ \A x : Respects(v, [v EXCEPT !.migratable = x])
<1>1. Respects(v, v)
  BY SameRespects
<1>2. ASSUME NEW x
      PROVE  /\ Respects(v, [v EXCEPT !.finalizer = x])
             /\ Respects(v, [v EXCEPT !.phase = x])
             /\ Respects(v, [v EXCEPT !.migPhase = x])
             /\ Respects(v, [v EXCEPT !.migratable = x])
  BY DEF Respects, ClaimKept, RequestKept, VirtualMachine
<1> QED BY <1>1, <1>2

\* One case for each action of the VM controller.  Two of them replace the
\* status as a whole.
LEMMA ControllerRespects ==
  ASSUME TypeInv, VMControllerReconcile
  PROVE  Respects(vm, vm')
<1>0. CachedVM \in VirtualMachine
  BY CopyTypes, CtlIsActor DEF CachedVM
<1>a. Respects(CachedVM, Checked)
  BY <1>0, OtherFields DEF Checked
<1>b. ASSUME NEW n, NEW new, NEW target, CreatePod(n, new, target),
             Respects(CachedVM, new)
      PROVE  Respects(vm, vm')
  BY <1>b, FinishRespects, WriteRespects DEF CreatePod, CachedVM
<1>1. CASE AddFinalizer
  BY <1>1, <1>0, OtherFields, FinishRespects DEF AddFinalizer
<1>2. CASE RemoveFinalizer
  <2>1. Respects(CachedVM, NoVM(CachedVM.runPolicy))
    BY DEF Respects, ClaimKept, RequestKept, NoVM
  <2>2. \E ok \in Outcomes(Ctl) : UpdateVM(NoVM(CachedVM.runPolicy), ok)
    BY <1>2 DEF RemoveFinalizer
  <2> QED BY <2>1, <2>2, WriteRespects DEF CachedVM
<1>3. CASE NameVMPod
  <2>1. PICK n \in Name :
          Finish([CachedVM EXCEPT !.podName = n, !.phase = "Scheduling"],
                 PodsAtSwitch)
    BY <1>3 DEF NameVMPod
  <2>2. Respects(CachedVM,
                 [CachedVM EXCEPT !.podName = n, !.phase = "Scheduling"])
    BY <1>0 DEF Respects, ClaimKept, RequestKept, VirtualMachine
  <2> QED BY <2>1, <2>2, FinishRespects
<1>4. CASE CreateVMPod
  BY <1>4, <1>b, <1>0, OtherFields DEF CreateVMPod
<1>5. CASE VMPodLost
  BY <1>5, <1>0, OtherFields, FinishRespects DEF VMPodLost
<1>6. CASE FollowVMPod
  <2> DEFINE pod == CachedPods[CachedVM.podName]
             new == [CachedVM EXCEPT !.podUID = pod.uid, !.nodeName = pod.node,
                                     !.phase = PhaseOf(pod.phase, @)]
  <2>1. Respects(CachedVM, new)
    BY <1>0 DEF Respects, ClaimKept, RequestKept, VirtualMachine
  <2>2. Finish(new, PodsAtSwitch)
    BY <1>6 DEF FollowVMPod
  <2> HIDE DEF new
  <2> QED BY <2>1, <2>2, FinishRespects
<1>7. CASE RunningVMEnded
  BY <1>7, <1>0, OtherFields, FinishRespects DEF RunningVMEnded
<1>8. CASE RunningVM
  BY <1>8, <1>a, FinishRespects DEF RunningVM
<1>9. CASE NameTargetPod
  <2>1. PICK n \in Name :
          Finish([Checked EXCEPT !.targetPodName = n, !.migPhase = "Scheduling"],
                 pods)
    BY <1>9 DEF NameTargetPod
  <2>2. Respects(CachedVM,
                 [Checked EXCEPT !.targetPodName = n, !.migPhase = "Scheduling"])
    BY <1>0 DEF Checked, Respects, ClaimKept, RequestKept, VirtualMachine
  <2> QED BY <2>1, <2>2, FinishRespects
<1>10. CASE CreateTargetPod
  BY <1>10, <1>a, <1>b DEF CreateTargetPod
<1>11. CASE FollowTargetPod
  <2> DEFINE pod == CachedPods[CachedVM.targetPodName]
             phase == CASE pod.phase = "Running" -> "Scheduled"
                        [] pod.phase = "Pending" -> "Scheduling"
                        [] OTHER -> "Failed"
             new == [Checked EXCEPT !.targetPodUID = pod.uid,
                                    !.targetNodeName = pod.node,
                                    !.migPhase = phase]
  <2>1. Finish(new, pods)
    BY <1>11 DEF FollowTargetPod
  <2> HIDE DEF phase
  <2>2. Respects(CachedVM, new)
    BY <1>0 DEF Checked, Respects, ClaimKept, RequestKept, VirtualMachine
  <2> HIDE DEF new
  <2> QED BY <2>1, <2>2, FinishRespects
<1>12. CASE TakeDown
  BY <1>12, <1>0, OtherFields, FinishRespects DEF TakeDown
<1>13. CASE RunOrRest
  <2> DEFINE phase == IF ShouldRun(CachedVM) THEN "Pending" ELSE CachedVM.phase
             new == ResetStatus(CachedVM, phase)
  <2>1. Finish(new, pods)
    BY <1>13 DEF RunOrRest
  <2>2. new.migUID = None /\ new.phase = phase
    BY DEF ResetStatus, NoVM
  <2>3. CachedVM.runPolicy # "Halted" /\ CachedVM.powerAction = "PowerOn"
          => ShouldRun(CachedVM)
    BY <1>0 DEF ShouldRun, VirtualMachine, RunPolicy
  <2>4. Respects(CachedVM, new)
    BY <2>2, <2>3 DEF Respects, ClaimKept, RequestKept
  <2> HIDE DEF new
  <2> QED BY <2>1, <2>4, FinishRespects
<1>14. CASE UnknownVM
  BY <1>14, <1>0, OtherFields, FinishRespects DEF UnknownVM
<1> QED
  BY <1>1, <1>2, <1>3, <1>4, <1>5, <1>6, <1>7, <1>8, <1>9, <1>10, <1>11,
     <1>12, <1>13, <1>14
  DEF VMControllerReconcile

\* One case for each action of a daemon.  It forgets a power action only while
\* the VM is Running.
LEMMA DaemonRespects ==
  ASSUME TypeInv, NEW d \in Node, DaemonReconcile(d)
  PROVE  Respects(vm, vm')
<1> DEFINE v == vmCache[d]
<1>0. v \in VirtualMachine
  BY CopyTypes DEF Actor
<1>a. ASSUME NEW new, Write(d, new), Respects(v, new)
      PROVE  Respects(vm, vm')
  BY <1>a, WriteRespects DEF Write
<1>b. /\ Respects(v, v)
      /\ \A x : Respects(v, [v EXCEPT !.phase = x])
      /\ \A x : Respects(v, [v EXCEPT !.migPhase = x])
  BY <1>0, OtherFields
<1> HIDE DEF v
<1>1. CASE DaemonDeletesVM(d) \/ ObserveBoot(d) \/ ObserveShutdown(d)
  <2>1. \E x : Write(d, [v EXCEPT !.phase = x])
    BY <1>1 DEF DaemonDeletesVM, ObserveBoot, ObserveShutdown, v
  <2> QED BY <2>1, <1>a, <1>b
<1>2. CASE BootVM(d) \/ HaltVM(d) \/ ForgetMigration(d)
  <2>1. Write(d, v)
    BY <1>2 DEF BootVM, HaltVM, ForgetMigration, v
  <2> QED BY <2>1, <1>a, <1>b
<1>3. CASE DoPowerAction(d)
  <2>1. Write(d, [v EXCEPT !.powerAction = ""]) /\ v.phase = "Running"
    BY <1>3 DEF DoPowerAction, Serves, v
  <2>2. Respects(v, [v EXCEPT !.powerAction = ""])
    BY <1>0, <2>1 DEF Respects, ClaimKept, RequestKept, VirtualMachine
  <2> QED BY <2>1, <2>2, <1>a
<1>4. CASE PrepareTarget(d) \/ StartSend(d) \/ SourceSent(d) \/ SourceFailed(d)
  <2>1. \E x : Write(d, [v EXCEPT !.migPhase = x])
    BY <1>4 DEF PrepareTarget, StartSend, SourceSent, SourceFailed, v
  <2> QED BY <2>1, <1>a, <1>b
<1>5. CASE TargetTakesOver(d)
  <2> DEFINE new == [v EXCEPT !.migPhase = "Succeeded",
                              !.nodeName = v.targetNodeName,
                              !.podName = v.targetPodName,
                              !.podUID = v.targetPodUID]
  <2>1. Write(d, new)
    BY <1>5 DEF TargetTakesOver, v
  <2>2. Respects(v, new)
    BY <1>0 DEF Respects, ClaimKept, RequestKept, VirtualMachine
  <2> HIDE DEF new
  <2> QED BY <2>1, <2>2, <1>a
<1> QED BY <1>1, <1>2, <1>3, <1>4, <1>5 DEF DaemonReconcile

\* The VMM controller claims a VM that its copy shows unclaimed, and releases it.
LEMMA MigrationRespects ==
  ASSUME TypeInv, NEW m \in Migration,
         CreateVMM(m) \/ VMMReconcile(m) \/ DeleteVMM(m) \/ SyncVMM(m)
  PROVE  Respects(vm, vm')
<1> DEFINE v == vmCache[Ctl]
<1>0. v \in VirtualMachine
  BY CopyTypes, CtlIsActor
<1>1. CASE ReleaseVM(m)
  <2> DEFINE new == [v EXCEPT !.migUID = None, !.migPhase = "",
                              !.targetPodName = None, !.targetPodUID = None,
                              !.targetNodeName = None]
  <2>1. \E ok \in Outcomes(Ctl) : UpdateVM(new, ok)
    BY <1>1 DEF ReleaseVM
  <2>2. Respects(v, new)
    BY <1>0 DEF Respects, ClaimKept, RequestKept, VirtualMachine
  <2> HIDE DEF new
  <2> QED BY <2>1, <2>2, WriteRespects
<1>2. CASE ClaimVM(m)
  <2> DEFINE new == [v EXCEPT !.migUID = m]
  <2>1. (\E ok \in Outcomes(Ctl) : UpdateVM(new, ok)) /\ v.migUID = None
    BY <1>2 DEF ClaimVM
  <2>2. Respects(v, new)
    BY <1>0, <2>1 DEF Respects, ClaimKept, RequestKept, VirtualMachine
  <2> HIDE DEF new
  <2> QED BY <2>1, <2>2, WriteRespects
<1>3. CASE CreateVMM(m) \/ RefuseVMM(m) \/ FollowVM(m) \/ DeleteVMM(m)
           \/ SyncVMM(m)
  BY <1>3, SameRespects
  DEF CreateVMM, RefuseVMM, FollowVM, DeleteVMM, SyncVMM, vmVars
<1> QED BY <1>1, <1>2, <1>3 DEF VMMReconcile

\* The user's patches touch one field each; there is no patch that takes a
\* power action back.
LEMMA UserRespects ==
  ASSUME TypeInv, User
  PROVE  Respects(vm, vm')
<1>0. vm \in VirtualMachine
  BY DEF TypeInv, TypeOK
<1>1. CASE DeleteVM
  <2>1. Respects(vm, [vm EXCEPT !.deleting = TRUE])
    BY <1>0 DEF Respects, ClaimKept, RequestKept, VirtualMachine
  <2>2. Respects(vm, NoVM(vm.runPolicy))
    BY DEF Respects, ClaimKept, RequestKept, NoVM
  <2> QED BY <1>1, <2>1, <2>2 DEF DeleteVM
<1>2. ASSUME NEW policy \in Policies, SetRunPolicy(policy)
      PROVE  Respects(vm, vm')
  BY <1>0, <1>2
  DEF SetRunPolicy, Respects, ClaimKept, RequestKept, VirtualMachine
<1>3. ASSUME NEW action \in Powers, SetPowerAction(action)
      PROVE  Respects(vm, vm')
  <2>1. action # ""
    BY ClusterAssumption DEF PowerAction
  <2>2. vm'.powerAction = action /\ vm'.migUID = vm.migUID
    BY <1>0, <1>3 DEF SetPowerAction, VirtualMachine
  <2> QED BY <2>1, <2>2 DEF Respects, ClaimKept, RequestKept
<1> QED BY <1>1, <1>2, <1>3, MigrationRespects DEF User

\* Every step.
LEMMA NextRespects ==
  ASSUME TypeInv, [Next]_vars
  PROVE  Respects(vm, vm')
<1>1. CASE vm' = vm
  BY <1>1, SameRespects
<1>2. CASE Virtink
  <2>1. ASSUME NEW d \in Node, DaemonRestart(d) PROVE vm' = vm
    BY <2>1 DEF DaemonRestart
  <2> QED
    BY <1>1, <1>2, <2>1, ControllerRespects, MigrationRespects, DaemonRespects
    DEF Virtink
<1>3. CASE Environment
  <2>1. ASSUME Informers PROVE vm' = vm
    BY <2>1 DEF Informers, SyncVM, SyncPods, SyncVMM, vmVars
  <2>2. ASSUME NEW n \in Name, Kubelet(n) PROVE vm' = vm
    BY <2>2 DEF Kubelet, SchedulePod, StartPod, HypervisorUp, ReportExit,
                CollectPod, StopPod, RemovePod, vmVars
  <2>3. ASSUME NEW n \in Name, PodFault(n) PROVE vm' = vm
    BY <2>3 DEF PodFault, PodFails, PodLost, DeletePod, GuestPowersOff, vmVars
  <2>4. ASSUME Transfer PROVE vm' = vm
    BY <2>4 DEF Transfer, SendSucceeds, SendFails, vmVars
  <2> QED BY <1>1, <1>3, <2>1, <2>2, <2>3, <2>4, UserRespects DEF Environment
<1>4. CASE UNCHANGED vars
  BY <1>1, <1>4 DEF vars
<1> QED BY <1>2, <1>3, <1>4 DEF Next

-----------------------------------------------------------------------------
\* However many VirtualMachineMigrations are reconciled from old copies, and
\* whichever writes are refused or lost, the one that has claimed the VM keeps
\* it until it gives it back.
THEOREM ClaimHolds == Spec => MigrationNotDisplaced
<1>1. TypeInv /\ [Next]_vars =>
        [vm.migUID # None /\ vm'.migUID # vm.migUID => vm'.migUID = None]_vars
  BY NextRespects DEF Respects, ClaimKept
<1> QED BY <1>1, TypeInvHolds, PTL DEF Spec, MigrationNotDisplaced

\* A PowerOn for a stopped VM survives every writer of the object, also the
\* reset of the whole status, until the VM is started.
THEOREM PowerOnHolds == Spec => PowerOnKept
<1>1. TypeInv /\ [Next]_vars =>
        [ /\ vm.exists /\ vm.phase \in {"", "Succeeded", "Failed"}
          /\ vm.runPolicy # "Halted" /\ ~vm.deleting
          /\ vm.powerAction = "PowerOn" /\ vm'.powerAction = "" /\ vm'.exists
          => vm'.phase = "Pending" ]_vars
  BY NextRespects DEF Respects, RequestKept
<1> QED BY <1>1, TypeInvHolds, PTL DEF Spec, PowerOnKept

=============================================================================
