------------------------------ MODULE Cluster ------------------------------
(***************************************************************************)
(* The state that the Virtink components share, and everything that is     *)
(* not Virtink: the API server and the informer caches, pods and the       *)
(* kubelet, the cloud-hypervisor process of each pod, and the user.        *)
(*                                                                         *)
(* One VirtualMachine object is modelled.  A pod name and a pod UID are    *)
(* values that no object and no cache holds when they are generated, so    *)
(* that a finite pool can be recycled for ever.                            *)
(***************************************************************************)
EXTENDS Naturals, FiniteSets

CONSTANTS
  Node,       \* the nodes; a virt-daemon runs on each of them
  Name,       \* pod names (metadata.name)
  Uid,        \* pod UIDs (metadata.uid)
  Migration,  \* UIDs of the VirtualMachineMigration objects
  Ctl,        \* the virt-controller process
  None,       \* the empty string or nil, where a name, UID or node may stand
  Policies,   \* the run policies a user of this instance asks for
  Powers,     \* the power actions a user of this instance asks for
  Faults      \* the faults that may happen in this instance

RunPolicy == {"Always", "RerunOnFailure", "Once", "Manual", "Halted"}
PowerAction ==
  {"PowerOn", "PowerOff", "Shutdown", "Reset", "Reboot", "Pause", "Resume"}
Fault == {"lostWrite", "podDelete", "podFail", "podUnknown", "restart",
          "guestOff", "sendFail", "vmDelete", "vmmDelete"}

ASSUME ClusterAssumption ==
  /\ None \notin Node \cup Name \cup Uid \cup Migration
  /\ Ctl \notin Node
  /\ Policies \subseteq RunPolicy
  /\ Powers \subseteq PowerAction
  /\ Faults \subseteq Fault

Actor == Node \cup {Ctl}

Phase == {"", "Pending", "Scheduling", "Scheduled", "Running",
          "Succeeded", "Failed", "Unknown"}
MigrationPhase == {"", "Pending", "Scheduling", "Scheduled", "TargetReady",
                   "Running", "Sent", "Succeeded", "Failed"}
PodPhase == {"Pending", "Running", "Succeeded", "Failed", "Unknown"}

(***************************************************************************)
(* What the cloud-hypervisor process of a pod is doing.  "none": no        *)
(* process yet, "empty": the API socket answers and no VM is created,      *)
(* "created", "running", "paused", "shutdown": vm.info's State,            *)
(* "receiving": blocked in vm.receive-migration with rx.sock present,      *)
(* "exited": the process has ended and the kubelet has not yet said so.    *)
(***************************************************************************)
HypervisorState == {"none", "empty", "created", "running", "paused",
                    "shutdown", "receiving", "exited"}

\* The VirtualMachine object: metadata and spec fields the controllers branch
\* on, and its status.  Status.Migration is nil iff migUID = None.
VirtualMachine ==
  [exists: BOOLEAN, finalizer: BOOLEAN, deleting: BOOLEAN,
   runPolicy: RunPolicy,
   phase: Phase, podName: Name \cup {None}, podUID: Uid \cup {None},
   nodeName: Node \cup {None}, powerAction: PowerAction \cup {""},
   migratable: BOOLEAN,
   migUID: Migration \cup {None}, migPhase: MigrationPhase,
   targetPodName: Name \cup {None}, targetPodUID: Uid \cup {None},
   targetNodeName: Node \cup {None}]

\* A pod the VM controls, as the API server stores it (uid = None: no such pod).
Pod == [uid: Uid \cup {None}, phase: PodPhase, node: Node \cup {None},
        deleting: BOOLEAN]

\* A VirtualMachineMigration object; its deletion needs no finalizer.
VMM == [state: {"new", "live", "deleted"}, phase: MigrationPhase,
        source: Node \cup {None}]

NoPod == [uid |-> None, phase |-> "Pending", node |-> None, deleting |-> FALSE]

VARIABLES
  vm,        \* the VM object in the API server
  vmCache,   \* vmCache[a]: the VM object in the informer cache of a
  pods,      \* pods[n]: the pod of that name in the API server
  podCache,  \* podCache[a]: the pods in the informer cache of a
  ch,        \* ch[n]: the cloud-hypervisor process in pod n
  isTarget,  \* the names whose pod was built by buildTargetVMPod
  sends,     \* the vm.send-migration requests that are in flight
  sendErrCh, \* sendErrCh[d]: daemon d's migrationControlBlock for the VM
  vmms,      \* the VMM objects in the API server
  vmmCache   \* the VMM objects in the informer cache of the controller

vmVars == <<vm, vmCache>>
podVars == <<pods, podCache, ch, isTarget>>
sendVars == <<sends, sendErrCh>>
vmmVars == <<vmms, vmmCache>>
vars == <<vm, vmCache, pods, podCache, ch, isTarget, sends, sendErrCh,
          vmms, vmmCache>>

NoVM(policy) ==
  [exists |-> FALSE, finalizer |-> FALSE, deleting |-> FALSE,
   runPolicy |-> policy, phase |-> "", podName |-> None, podUID |-> None,
   nodeName |-> None, powerAction |-> "", migratable |-> FALSE,
   migUID |-> None, migPhase |-> "", targetPodName |-> None,
   targetPodUID |-> None, targetNodeName |-> None]

Send == [src: Uid, dst: Uid \cup {None}, tracked: BOOLEAN]

TypeOK ==
  /\ vm \in VirtualMachine
  /\ vmCache \in [Actor -> VirtualMachine]
  /\ pods \in [Name -> Pod]
  /\ podCache \in [Actor -> [Name -> Pod]]
  /\ ch \in [Name -> HypervisorState]
  /\ isTarget \in SUBSET Name
  /\ sends \in SUBSET Send
  /\ sendErrCh \in [Node -> {"nil", "open", "error"}]
  /\ vmms \in [Migration -> VMM]
  /\ vmmCache \in [Migration -> VMM]

\* A user has just created the VM; no cache has seen it.
Init ==
  /\ \E policy \in Policies :
       /\ vm = [NoVM(policy) EXCEPT !.exists = TRUE]
       /\ vmCache = [a \in Actor |-> NoVM(policy)]
  /\ pods = [n \in Name |-> NoPod]
  /\ podCache = [a \in Actor |-> [n \in Name |-> NoPod]]
  /\ ch = [n \in Name |-> "none"]
  /\ isTarget = {}
  /\ sends = {}
  /\ sendErrCh = [d \in Node |-> "nil"]
  /\ vmms = [m \in Migration |->
               [state |-> "new", phase |-> "", source |-> None]]
  /\ vmmCache = vmms

-----------------------------------------------------------------------------
(***************************************************************************)
(* The API server.  An update carries the resourceVersion of the copy the  *)
(* actor read: it is refused when the object has changed since.  It can    *)
(* also be lost: the call fails, the actor dies before it, or a write to a *)
(* field that is not modelled (a condition, an annotation) moved the       *)
(* resourceVersion.                                                        *)
(***************************************************************************)
Accepted(a) == vm.exists /\ vmCache[a] = vm

\* Mutant: updates without a resourceVersion.
UncheckedOutcomes(a) == {TRUE}
Outcomes(a) ==
  (IF Accepted(a) THEN {TRUE} ELSE {FALSE})
    \cup (IF "lostWrite" \in Faults THEN {FALSE} ELSE {})

\* The actor's Update or Status().Update of its copy, changed into new.
UpdateVM(new, ok) == vm' = IF ok THEN new ELSE vm

\* Delete sets the deletion timestamp; the kubelet does the rest.
Deleted(S) ==
  [n \in Name |-> IF n \in S /\ pods[n].uid # None
                  THEN [pods[n] EXCEPT !.deleting = TRUE] ELSE pods[n]]

Listed(view) == {n \in Name : view[n].uid # None}

\* The VM as anyone sees it.
Views == {vm} \cup {vmCache[a] : a \in Actor}

UsedNames ==
  Listed(pods) \cup UNION {Listed(podCache[a]) : a \in Actor}
    \cup {w.podName : w \in Views} \cup {w.targetPodName : w \in Views}
RefUids == {w.podUID : w \in Views} \cup {w.targetPodUID : w \in Views}
SendUids == {s.src : s \in sends} \cup {s.dst : s \in sends}
PodUids ==
  {pods[n].uid : n \in Name}
    \cup UNION {{podCache[a][n].uid : n \in Name} : a \in Actor}
UsedUids == PodUids \cup RefUids \cup SendUids

\* An informer delivers the next events: its copy is the object of some moment
\* since the last delivery, and never goes back.
SyncVM(a) ==
  /\ vmCache[a] # vm
  /\ vmCache' = [vmCache EXCEPT ![a] = vm]
  /\ UNCHANGED <<vm, podVars, sendVars, vmmVars>>

SyncPods(a) ==
  /\ podCache[a] # pods
  /\ podCache' = [podCache EXCEPT ![a] = pods]
  /\ UNCHANGED <<vmVars, pods, ch, isTarget, sendVars, vmmVars>>

SyncVMM(m) ==
  /\ vmmCache[m] # vmms[m]
  /\ vmmCache' = [vmmCache EXCEPT ![m] = vmms[m]]
  /\ UNCHANGED <<vmVars, podVars, sendVars, vmms>>

-----------------------------------------------------------------------------
(***************************************************************************)
(* The scheduler, the kubelet and the garbage collector.                   *)
(***************************************************************************)
\* A pod built by buildTargetVMPod is kept off the nodes of the VM's other pods.
SchedulePod(n, d) ==
  /\ pods[n].uid # None /\ pods[n].phase = "Pending"
  /\ pods[n].node = None /\ ~pods[n].deleting
  /\ n \in isTarget =>
       \A m \in Listed(pods) :
         pods[m].phase \notin {"Succeeded", "Failed"} => pods[m].node # d
  /\ pods' = [pods EXCEPT ![n].node = d]
  /\ UNCHANGED <<vmVars, podCache, ch, isTarget, sendVars, vmmVars>>

StartPod(n) ==
  /\ pods[n].phase = "Pending" /\ pods[n].node # None /\ ~pods[n].deleting
  /\ pods' = [pods EXCEPT ![n].phase = "Running"]
  /\ UNCHANGED <<vmVars, podCache, ch, isTarget, sendVars, vmmVars>>

\* virt-prerunner has written vm-config.json and cloud-hypervisor serves ch.sock.
HypervisorUp(n) ==
  /\ pods[n].phase = "Running" /\ ch[n] = "none"
  /\ ch' = [ch EXCEPT ![n] = "empty"]
  /\ UNCHANGED <<vmVars, pods, podCache, isTarget, sendVars, vmmVars>>

\* cloud-hypervisor-finish.sh halts the container with the exit code 0.
ReportExit(n) ==
  /\ ch[n] = "exited"
  /\ pods' = [pods EXCEPT ![n].phase = "Succeeded"]
  /\ ch' = [ch EXCEPT ![n] = "none"]
  /\ UNCHANGED <<vmVars, podCache, isTarget, sendVars, vmmVars>>

\* An eviction, a crash of cloud-hypervisor or of the node.
PodFails(n) ==
  /\ "podFail" \in Faults
  /\ pods[n].uid # None /\ pods[n].phase \in {"Pending", "Running"}
  /\ pods' = [pods EXCEPT ![n].phase = "Failed"]
  /\ ch' = [ch EXCEPT ![n] = "none"]
  /\ UNCHANGED <<vmVars, podCache, isTarget, sendVars, vmmVars>>

\* The kubelet stops reporting; the processes of the pod are still there.
PodLost(n) ==
  /\ "podUnknown" \in Faults
  /\ pods[n].phase = "Running"
  /\ pods' = [pods EXCEPT ![n].phase = "Unknown"]
  /\ UNCHANGED <<vmVars, podCache, ch, isTarget, sendVars, vmmVars>>

\* Someone other than Virtink deletes the pod.
DeletePod(n) ==
  /\ "podDelete" \in Faults
  /\ pods[n].uid # None /\ ~pods[n].deleting
  /\ pods' = Deleted({n})
  /\ UNCHANGED <<vmVars, podCache, ch, isTarget, sendVars, vmmVars>>

\* The pods of a VM that is gone are deleted by their owner reference.
CollectPod(n) ==
  /\ ~vm.exists
  /\ pods[n].uid # None /\ ~pods[n].deleting
  /\ pods' = Deleted({n})
  /\ UNCHANGED <<vmVars, podCache, ch, isTarget, sendVars, vmmVars>>

\* The kubelet stops the containers of a pod that is being deleted.
StopPod(n) ==
  /\ pods[n].deleting /\ pods[n].phase \in {"Running", "Unknown"}
  /\ \E phase \in {"Succeeded", "Failed"} :
       pods' = [pods EXCEPT ![n].phase = phase]
  /\ ch' = [ch EXCEPT ![n] = "none"]
  /\ UNCHANGED <<vmVars, podCache, isTarget, sendVars, vmmVars>>

\* A pod leaves the API server once its containers are gone.
RemovePod(n) ==
  /\ pods[n].deleting /\ pods[n].phase \notin {"Running", "Unknown"}
  /\ pods' = [pods EXCEPT ![n] = NoPod]
  /\ isTarget' = isTarget \ {n}
  /\ ch' = [ch EXCEPT ![n] = "none"]
  /\ UNCHANGED <<vmVars, podCache, sendVars, vmmVars>>

-----------------------------------------------------------------------------
(***************************************************************************)
(* The guest and the live migration protocol of cloud-hypervisor.          *)
(***************************************************************************)
HasGuest(n) == ch[n] \in {"running", "paused"}

GuestPowersOff(n) ==
  /\ "guestOff" \in Faults
  /\ ch[n] = "running"
  /\ \E state \in {"exited", "shutdown"} : ch' = [ch EXCEPT ![n] = state]
  /\ UNCHANGED <<vmVars, pods, podCache, isTarget, sendVars, vmmVars>>

\* The pod whose data directory is that of UID u, if it is there.
PodsOf(u) == {n \in Name : u # None /\ pods[n].uid = u}

\* The error of a failed request reaches the daemon that still listens for it.
ErrorsOf(S) ==
  [d \in Node |->
    IF \E s \in S : s.tracked /\ \E n \in PodsOf(s.src) : pods[n].node = d
    THEN "error" ELSE sendErrCh[d]]

\* A receiver whose connection breaks leaves vm.receive-migration.
Receivers(S) ==
  {n \in Name : ch[n] = "receiving" /\ \E s \in S : n \in PodsOf(s.dst)}
GiveUp(R) == [n \in Name |-> IF n \in R THEN "empty" ELSE ch[n]]

\* The target resumes the guest and the source process ends.
SendSucceeds(s) ==
  \E src \in PodsOf(s.src), dst \in PodsOf(s.dst) :
    LET others == {t \in sends : t.src = s.src /\ t # s} IN
    /\ HasGuest(src) /\ ch[dst] = "receiving"
    /\ ch' = [ch EXCEPT ![src] = "exited", ![dst] = "running"]
    /\ sends' = sends \ ({s} \cup others)
    /\ sendErrCh' = ErrorsOf(others)
    /\ UNCHANGED <<vmVars, pods, podCache, isTarget, vmmVars>>

\* The transfer fails, as it must when the guest or the receiver is gone; the
\* guest stays on the source and a receiver that was connected gives up.
SendFails(s) ==
  /\ \/ "sendFail" \in Faults
     \/ ~\E src \in PodsOf(s.src), dst \in PodsOf(s.dst) :
          HasGuest(src) /\ ch[dst] = "receiving"
  /\ \E R \in SUBSET Receivers({s}) : ch' = GiveUp(R)
  /\ sends' = sends \ {s}
  /\ sendErrCh' = ErrorsOf({s})
  /\ UNCHANGED <<vmVars, pods, podCache, isTarget, vmmVars>>

-----------------------------------------------------------------------------
(***************************************************************************)
(* The user.  Patches do not carry a resourceVersion.                      *)
(***************************************************************************)
DeleteVM ==
  /\ "vmDelete" \in Faults
  /\ vm.exists /\ ~vm.deleting
  /\ vm' = IF vm.finalizer THEN [vm EXCEPT !.deleting = TRUE]
           ELSE NoVM(vm.runPolicy)
  /\ UNCHANGED <<vmCache, podVars, sendVars, vmmVars>>

SetRunPolicy(policy) ==
  /\ vm.exists /\ vm.runPolicy # policy
  /\ vm' = [vm EXCEPT !.runPolicy = policy]
  /\ UNCHANGED <<vmCache, podVars, sendVars, vmmVars>>

SetPowerAction(action) ==
  /\ vm.exists /\ vm.powerAction # action
  /\ vm' = [vm EXCEPT !.powerAction = action]
  /\ UNCHANGED <<vmCache, podVars, sendVars, vmmVars>>

DeleteVMM(m) ==
  /\ "vmmDelete" \in Faults
  /\ vmms[m].state = "live"
  /\ vmms' = [vmms EXCEPT ![m].state = "deleted"]
  /\ UNCHANGED <<vmVars, podVars, sendVars, vmmCache>>

Informers ==
  \/ \E a \in Actor : SyncVM(a) \/ SyncPods(a)
  \/ \E m \in Migration : SyncVMM(m)

\* What Kubernetes does for a pod without being asked again.
Kubelet(n) ==
  \/ \E d \in Node : SchedulePod(n, d)
  \/ StartPod(n) \/ HypervisorUp(n) \/ ReportExit(n)
  \/ CollectPod(n) \/ StopPod(n) \/ RemovePod(n)

PodFault(n) == PodFails(n) \/ PodLost(n) \/ DeletePod(n) \/ GuestPowersOff(n)

Transfer == \E s \in sends : SendSucceeds(s) \/ SendFails(s)

User ==
  \/ DeleteVM
  \/ \E policy \in Policies : SetRunPolicy(policy)
  \/ \E action \in Powers : SetPowerAction(action)
  \/ \E m \in Migration : DeleteVMM(m)

Environment ==
  \/ Informers
  \/ \E n \in Name : Kubelet(n) \/ PodFault(n)
  \/ Transfer
  \/ User

=============================================================================
