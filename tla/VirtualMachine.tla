--------------------------- MODULE VirtualMachine ---------------------------
(***************************************************************************)
(* The life of one VirtualMachine: virt-controller's VM and VMM            *)
(* reconcilers and the virt-daemons of all nodes, in a cluster.            *)
(***************************************************************************)
EXTENDS VMController, VMDaemon, VMMController

Virtink ==
  \/ VMControllerReconcile
  \/ \E m \in Migration : CreateVMM(m) \/ VMMReconcile(m)
  \/ \E d \in Node : DaemonReconcile(d) \/ DaemonRestart(d)

Next == Virtink \/ Environment

Spec == Init /\ [][Next]_vars

(***************************************************************************)
(* Reconcilers are called again until nothing is left to do: on every      *)
(* event, after an error or a conflict, and by the daemons every 15 s.     *)
(* Informers deliver, Kubernetes advances pods, and a transfer ends.       *)
(* Nothing is assumed of the user, of faults and of DaemonRestart.         *)
(***************************************************************************)
Fairness ==
  /\ WF_vars(VMControllerReconcile)
  /\ \A m \in Migration : WF_vars(VMMReconcile(m)) /\ WF_vars(SyncVMM(m))
  /\ \A d \in Node : WF_vars(DaemonReconcile(d))
  /\ \A a \in Actor : WF_vars(SyncVM(a)) /\ WF_vars(SyncPods(a))
  /\ \A n \in Name : WF_vars(Kubelet(n))
  /\ WF_vars(Transfer)

FairSpec == Spec /\ Fairness

-----------------------------------------------------------------------------
\* The guest never runs in two pods, whatever the caches show and whatever is
\* lost: two would write to the same disks.  It is what the order of deleting
\* the old pods, naming, creating and booting is for.
AtMostOneGuest == \A m, n \in Name : HasGuest(m) /\ HasGuest(n) => m = n

\* While a guest runs the VM object is there: the finalizer holds it until the
\* daemon has stopped the guest or its pod is gone.
FinalizerProtectsGuest == ~vm.exists => \A n \in Name : ~HasGuest(n)

\* Both of these and the order of events: the reconcilers together implement
\* GuestLocation.
Guest == INSTANCE GuestLocation WITH
           Place <- Name,
           guest <- {n \in Name : HasGuest(n)},
           exists <- vm.exists
ImplementsGuestLocation == Guest!Spec

\* A VM that is reported as Succeeded or Failed has stopped: its guest does not
\* run on in a pod that has failed, was deleted or cannot be reached.  (A VM that
\* is being deleted is Succeeded before its guest has gone, if the daemon has
\* not yet seen its pod run.)
EndedMeansStopped ==
  vm.exists /\ ~vm.deleting /\ vm.phase \in {"Succeeded", "Failed"} =>
    \A n \in Name : ~HasGuest(n)

\* A new run starts from nothing: deleteAllVMPods finds no pod in a cache that
\* may lag behind, and yet none is left when the phase becomes Pending.
StartsFromNothing == vm.phase = "Pending" => Listed(pods) = {}

\* While the VM is Running its guest is in a pod that the status names, so that
\* gcVMPods does not collect it.
GuestTracked ==
  vm.exists /\ vm.phase = "Running" =>
    \A n \in Name : HasGuest(n) => pods[n].uid \in {vm.podUID, vm.targetPodUID}

\* A user's PowerOn for a stopped VM is not overwritten by a reconciler that
\* has not seen it: it stays until the VM starts.
PowerOnKept ==
  [][ /\ vm.exists /\ vm.phase \in {"", "Succeeded", "Failed"}
      /\ vm.runPolicy # "Halted" /\ ~vm.deleting
      /\ vm.powerAction = "PowerOn" /\ vm'.powerAction = "" /\ vm'.exists
      => vm'.phase = "Pending" ]_vars

\* A migration that has claimed the VM is not displaced by another one.
MigrationNotDisplaced ==
  [][ vm.migUID # None /\ vm'.migUID # vm.migUID => vm'.migUID = None ]_vars

-----------------------------------------------------------------------------
\* A VM that is deleted goes: its guest is stopped, its pods are removed and
\* the finalizer is released, whatever the VM was doing.
DeletionCompletes == vm.deleting ~> ~vm.exists

\* A VM with run policy Always is started again whenever it stops.
AlwaysRuns == []<>(\E n \in Name : HasGuest(n))

\* A Running VM whose pod has Succeeded does not stay Running unless its guest
\* runs in another pod (the tests of the VM controller: "should update VM phase
\* to Succeeded").
PodEndNoticed ==
  (/\ vm.phase = "Running"
   /\ \E n \in PodsOf(vm.podUID) : pods[n].phase = "Succeeded")
    ~> (vm.phase # "Running" \/ \E n \in Name : HasGuest(n))

\* A migration that has claimed the VM comes to an end and gives the VM back.
MigrationSettles == vm.migUID # None ~> vm.migUID = None

=============================================================================
