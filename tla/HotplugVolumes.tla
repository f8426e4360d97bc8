--------------------------- MODULE HotplugVolumes ---------------------------
(***************************************************************************)
(* The hotplug volumes of one VM: the state, the part of virt-controller   *)
(* that keeps volume pods and the volume status                            *)
(* (pkg/controller/vm_controller.go), and Kubernetes and the user.  A      *)
(* volume pod holds the claims of all volumes on the VM's node; it is      *)
(* replaced when their set changes.                                        *)
(***************************************************************************)
EXTENDS DeviceRules, FiniteSets, Sequences, SequencesExt, FiniteSetsExt

CONSTANTS
  Volume,     \* names of hotpluggable volumes, in the order of spec.volumes
  Block,      \* those whose claim has volumeMode Block
  Imported,   \* those that are data volumes
  Minor,      \* the minor number of the device of each of these
  VolumePod,  \* UIDs for volume pods
  None,       \* the UID ""
  Cgroup,     \* the cgroup versions a node may have
  Faults,     \* the faults that may happen in this instance
  MaxEvents   \* how many faults and changes of spec.volumes happen

Fault == {"command", "crash", "podLost", "hasty", "readd"}

ASSUME HotplugAssumption ==
  /\ Volume \subseteq Nat /\ IsFiniteSet(Volume) /\ Block \subseteq Volume
  /\ Imported \subseteq Volume
  /\ Minor \in [Block -> Nat] /\ None \notin VolumePod
  /\ Cgroup \subseteq {1, 2} /\ Faults \subseteq Fault /\ MaxEvents \in Nat

VARIABLES
  vm,         \* the VM in the API server
  vmCtl,      \* the copy in virt-controller's cache
  vmNode,     \* the copy in the cache of the node's virt-daemon
  pods,       \* the volume pods of the VM pod, newest first
  podCache,   \* the copy in virt-controller's cache
  populated,  \* the volumes that have no data volume or whose data is there
  events,     \* how many faults and changes are left
  lost,       \* some volume pod has gone of itself
  sock,       \* cloud-hypervisor has opened ch.sock in the VM pod
  cgroup,     \* the cgroup version of the node
  record,     \* the volumes in the mount record file
  mounted,    \* the volumes that are mounted in the VM pod
  allowed,    \* the device rules of the VM pod
  guest,      \* cloud-hypervisor has booted the VM
  disks,      \* the volumes that are disks of the guest
  job         \* the Reconcile of virt-daemon that is under way

apiVars == <<vm, vmCtl, vmNode>>
podVars == <<pods, podCache>>
nodeVars == <<sock, cgroup, record, mounted, allowed, guest, disks>>
userVars == <<populated, events, lost>>
vars == <<apiVars, podVars, userVars, nodeVars, job>>

VolumePhase ==
  {"None", "Pending", "AttachedToNode", "MountedToPod", "Ready", "Detaching"}
VolumeStatus == [phase: VolumePhase, pod: VolumePod \cup {None}]
NoStatus == [phase |-> "None", pod |-> None]

\* boot are the volumes VM_DATA of the VM pod names.  Succeeded stands for
\* Failed too.
VirtualMachine ==
  [spec: SUBSET Volume, boot: SUBSET Volume,
   phase: {"Scheduling", "Scheduled", "Running", "Succeeded"},
   volumes: [Volume -> VolumeStatus]]

\* mounts are the volumes of the pod that its container mounts.
Pod == [uid: VolumePod, running: BOOLEAN, deleting: BOOLEAN,
        volumes: SUBSET Volume, mounts: SUBSET Volume]

TypeOK ==
  /\ vm \in VirtualMachine /\ vmCtl \in VirtualMachine /\ vmNode \in VirtualMachine
  /\ pods \in Seq(Pod) /\ podCache \in Seq(Pod)
  /\ populated \subseteq Volume /\ events \in 0..MaxEvents
  /\ lost \in BOOLEAN /\ sock \in BOOLEAN /\ guest \in BOOLEAN /\ cgroup \in Cgroup
  /\ record \subseteq Volume /\ mounted \subseteq Volume /\ allowed \subseteq Nat
  /\ disks \subseteq Volume
  /\ job \in [step: {"idle", "mount", "boot", "add", "remove", "umount",
                     "umountAll", "commit"},
              vm: VirtualMachine, todo: SUBSET Volume, pod: VolumePod \cup {None}]

Init ==
  /\ \E S \in SUBSET Volume :
       vm = [spec |-> S, boot |-> S, phase |-> "Scheduling",
             volumes |-> [v \in Volume |-> NoStatus]]
  /\ vmCtl = vm /\ vmNode = vm
  /\ pods = <<>> /\ podCache = <<>>
  /\ populated = Volume \ Imported
  /\ events = MaxEvents /\ lost = FALSE
  /\ sock = FALSE /\ cgroup \in Cgroup
  /\ record = {} /\ mounted = {} /\ allowed = {} /\ guest = FALSE /\ disks = {}
  /\ job = [step |-> "idle", vm |-> vm, todo |-> {}, pod |-> None]

\* A status update is refused if the object is no longer the one that was read.
Update(read, new) == vm' = IF vm = read THEN new ELSE vm

Spend == events > 0 /\ events' = events - 1

-----------------------------------------------------------------------------
(***************************************************************************)
(* virt-controller.  A Reconcile that ends with an error has written the   *)
(* status all the same.                                                    *)
(***************************************************************************)
IsBlock(v) == v \in Block

\* Claims exist; a data volume has its data once it has been imported.
IsReady(v) == v \in populated

\* The pods that the VM pod owns, the newest first.
getHotplugVolumePods == podCache

UIDs(ps) == {ps[i].uid : i \in DOMAIN ps}

\* The pods that hold v, of which the first is the newest.
Holders(ps, v) == {i \in DOMAIN ps : v \in ps[i].volumes}

\* Volumes are matched by their names.
isPodMatchVMHotplugVolumes(pod, ready) == pod.volumes = ready

\* The pod has the claims of all volumes, its container mounts those that have
\* still to be mounted into the VM pod.  Mutant: those that have no status.
MountsNew(x, v) == x.volumes[v].phase = "None"
MountsMissing(x, v) == x.volumes[v].phase \notin {"MountedToPod", "Ready"}

buildHotplugVolumePod(x, uid, ready) ==
  [uid |-> uid, running |-> FALSE, deleting |-> FALSE, volumes |-> ready,
   mounts |-> {v \in ready : MountsMissing(x, v)}]

\* A VM that has not started waits for all volumes.
ReadyVolumes(x) == {v \in x.spec : IsReady(v)}
Waits(x) == x.phase # "Running" /\ ReadyVolumes(x) # x.spec

CurrentPod(x) ==
  LET ps == getHotplugVolumePods
      match == {i \in DOMAIN ps : isPodMatchVMHotplugVolumes(ps[i], ReadyVolumes(x))}
  IN  IF match = {} THEN {} ELSE {Min(match)}

\* The pods that handleHotplugVolumes deletes, one after the other.  It gives up
\* at one that is no longer there.
OldPods(x) == {i \in DOMAIN podCache \ CurrentPod(x) : ~podCache[i].deleting}
GonePods(x) == {i \in OldPods(x) : podCache[i].uid \notin UIDs(pods)}
DeletedPods(x) ==
  {podCache[i].uid : i \in {j \in OldPods(x) : \A g \in GonePods(x) : j < g}}

MarkDeleted(uids) ==
  [i \in DOMAIN pods |->
     IF pods[i].uid \in uids THEN [pods[i] EXCEPT !.deleting = TRUE] ELSE pods[i]]

\* UIDs that nobody remembers stand for new ones.
FreshUIDs ==
  VolumePod \
    (UIDs(pods) \cup UIDs(podCache) \cup {job.pod}
      \cup UNION {{x.volumes[v].pod : v \in Volume} : x \in {vm, vmCtl, vmNode, job.vm}})

handleHotplugVolumes(x) ==
  \/ Waits(x) /\ UNCHANGED pods
  \/ /\ ~Waits(x) /\ (CurrentPod(x) # {} \/ ReadyVolumes(x) = {})
     /\ pods' = MarkDeleted(DeletedPods(x))
  \/ /\ ~Waits(x) /\ CurrentPod(x) = {} /\ ReadyVolumes(x) # {} /\ FreshUIDs # {}
     /\ pods' = <<buildHotplugVolumePod(x, Min(FreshUIDs), ReadyVolumes(x))>>
                  \o MarkDeleted(DeletedPods(x))

\* The status of a volume of the spec, which names the newest pod that holds it,
\* and of one that has left it, which names the oldest.  Mutant: the latter is
\* kept when its pod is gone.
Attach(x, v) ==
  LET held == Holders(getHotplugVolumePods, v)
      pod == getHotplugVolumePods[Min(held)]
      phase == IF x.volumes[v].phase = "None" THEN "Pending" ELSE x.volumes[v].phase
  IN  IF held = {} THEN [phase |-> "Pending", pod |-> None]
      ELSE [pod |-> pod.uid,
            phase |-> IF phase = "Pending" /\ pod.running THEN "AttachedToNode" ELSE phase]

DetachKept(x, v) ==
  IF x.volumes[v].phase = "None" THEN NoStatus
  ELSE [x.volumes[v] EXCEPT !.phase = "Detaching"]
Detach(x, v) ==
  LET held == Holders(getHotplugVolumePods, v) IN
  IF x.volumes[v].phase = "None" \/ held = {} THEN NoStatus
  ELSE [phase |-> "Detaching", pod |-> getHotplugVolumePods[Max(held)].uid]

updateHotplugVolumeStatus(x) ==
  [v \in Volume |-> IF v \in x.spec THEN Attach(x, v) ELSE Detach(x, v)]

\* The VM pod runs; its VM is Scheduled once all volumes are attached.
allHotplugVolumesAttached(x) ==
  \A v \in x.spec : x.volumes[v].phase = "AttachedToNode"

ReconcileVolumes ==
  /\ vmCtl.phase # "Succeeded"
  /\ handleHotplugVolumes(vmCtl)
  /\ IF ~Waits(vmCtl) /\ GonePods(vmCtl) # {}
     THEN UNCHANGED vm
     ELSE Update(vmCtl,
            [vmCtl EXCEPT
               !.phase = IF @ = "Scheduling" /\ allHotplugVolumesAttached(vmCtl)
                         THEN "Scheduled" ELSE @,
               !.volumes = updateHotplugVolumeStatus(vmCtl)])
  /\ UNCHANGED <<vmCtl, vmNode, podCache, userVars, nodeVars, job>>

-----------------------------------------------------------------------------
(***************************************************************************)
(* Kubernetes, the data importer, cloud-hypervisor and the user.           *)
(***************************************************************************)
SyncCtl ==
  /\ vmCtl' = vm /\ podCache' = pods
  /\ UNCHANGED <<vm, vmNode, pods, userVars, nodeVars, job>>

\* A copy is not replaced while a Reconcile works on it.
SyncNode ==
  /\ job.step = "idle" /\ vmNode' = vm /\ job' = [job EXCEPT !.vm = vm]
  /\ UNCHANGED <<vm, vmCtl, podVars, userVars, nodeVars>>

StartPod(i) ==
  /\ ~pods[i].running /\ ~pods[i].deleting
  /\ pods' = [pods EXCEPT ![i].running = TRUE]
  /\ UNCHANGED <<apiVars, podCache, userVars, nodeVars, job>>

RemovePod(i) ==
  /\ pods[i].deleting /\ pods' = RemoveAt(pods, i)
  /\ UNCHANGED <<apiVars, podCache, userVars, nodeVars, job>>

\* Someone else deletes a volume pod.
LosePod(i) ==
  /\ "podLost" \in Faults /\ Spend /\ lost' = TRUE
  /\ pods' = [pods EXCEPT ![i].deleting = TRUE]
  /\ UNCHANGED <<apiVars, podCache, populated, nodeVars, job>>

\* The VM pod owns the volume pods and goes once the VM has ended.
GarbageCollect ==
  /\ vm.phase = "Succeeded" /\ pods' = MarkDeleted(UIDs(pods))
  /\ UNCHANGED <<apiVars, podCache, userVars, nodeVars, job>>

Populate(v) ==
  /\ populated' = populated \cup {v}
  /\ UNCHANGED <<apiVars, podVars, events, lost, nodeVars, job>>

OpenSocket ==
  /\ ~sock /\ sock' = TRUE /\ vm.phase # "Succeeded"
  /\ UNCHANGED <<apiVars, podVars, userVars, cgroup, record, mounted, allowed, guest, disks, job>>

\* ValidateVMUpdate lets hotpluggable volumes come and go.  A user who is not
\* hasty waits until the pods of an earlier change are gone, and one who does not
\* re-add waits until nothing is left of a volume before it is added again.
Change(spec) ==
  /\ "hasty" \in Faults \/ \A i \in DOMAIN pods : ~pods[i].deleting
  /\ Spend /\ vm.phase = "Running" /\ vm' = [vm EXCEPT !.spec = spec]
  /\ UNCHANGED <<vmCtl, vmNode, podVars, populated, lost, nodeVars, job>>

Traces == {v \in Volume : vm.volumes[v] # NoStatus \/ Holders(pods, v) # {}} \cup record

AddVolume(v) ==
  v \notin vm.spec /\ ("readd" \in Faults \/ v \notin Traces) /\ Change(vm.spec \cup {v})
RemoveVolume(v) == v \in vm.spec /\ Change(vm.spec \ {v})

\* The guest powers off, or the VM pod ends.
EndVM ==
  /\ vm.phase = "Running" /\ vm' = [vm EXCEPT !.phase = "Succeeded"]
  /\ sock' = FALSE /\ guest' = FALSE /\ disks' = {}
  /\ UNCHANGED <<vmCtl, vmNode, podVars, userVars, cgroup, record, mounted, allowed, job>>
=============================================================================
