------------------------------ MODULE Hotplug ------------------------------
(***************************************************************************)
(* Hotplug volumes: virt-controller, virt-daemon, Kubernetes and the user  *)
(* together, and what must hold of them.                                   *)
(***************************************************************************)
EXTENDS HotplugDaemon

Daemon ==
  \/ Reconcile \/ mountHotplugVolumes \/ mountedAll \/ boot \/ bootFails
  \/ addHotplugVolumesToVM \/ addedAll \/ removeHotplugVolumesFromVM \/ removedAll
  \/ umountHotplugVolumes \/ commit

Kubernetes ==
  \/ \E i \in DOMAIN pods : StartPod(i) \/ RemovePod(i)
  \/ GarbageCollect \/ OpenSocket
  \/ \E v \in Volume : Populate(v)

Next ==
  \/ ReconcileVolumes \/ SyncCtl \/ SyncNode \/ Daemon \/ Kubernetes \/ Crash \/ CommandFails
  \/ \E i \in DOMAIN pods : LosePod(i)
  \/ \E v \in Volume : AddVolume(v) \/ RemoveVolume(v)
  \/ EndVM

Spec == Init /\ [][Next]_vars

\* Reconcilers are called again after every error and every 15 s, caches catch
\* up, Kubernetes starts and removes pods.  The daemon's cache catches up even if
\* it is never idle for long.
Fairness ==
  /\ WF_vars(ReconcileVolumes) /\ WF_vars(SyncCtl)
  /\ SF_vars(SyncNode) /\ WF_vars(Daemon)
  /\ \A v \in Volume : WF_vars(Populate(v))
  /\ WF_vars(GarbageCollect) /\ WF_vars(OpenSocket)
  /\ WF_vars(\E i \in DOMAIN pods : StartPod(i))
  /\ WF_vars(\E i \in DOMAIN pods : RemovePod(i))

FairSpec == Spec /\ Fairness

-----------------------------------------------------------------------------
\* Every mount is in the record, whenever the daemon dies: addVolumeToVMMountRecord
\* comes before the mount, the record is rewritten after the unmount.  What is not
\* in it no later daemon would unmount.
MountsRecorded == mounted \subseteq record

\* A volume is mounted beneath the guest for as long as it is a disk of the guest.
Attachment == INSTANCE VolumeAttachment
ImplementsVolumeAttachment == Attachment!Spec

\* The device of a block volume that is a disk stays allowed when Set replaces the
\* rules for another volume.
DiskAllowed ==
  \A v \in disks \cap Block \cap vm.spec : Minor[v] \in allowed

\* A status Ready is never ahead of the guest: the volume is its disk.
ReadyIsDisk ==
  vm.phase = "Running" => \A v \in vm.spec : vm.volumes[v].phase = "Ready" => v \in disks

\* A volume that stays in the spec of a running VM becomes a disk of its guest,
\* unless someone takes the volume pods away.
BecomesDisk ==
  \A v \in Volume :
    [](vm.phase = "Running" /\ v \in vm.spec => <>(v \in disks \/ v \notin vm.spec
         \/ vm.phase = "Succeeded" \/ lost))

\* A volume that leaves the spec leaves the guest, the node and the record, and so
\* do all when the VM ends.
LeavesNode ==
  \A v \in Volume :
    (v \notin vm.spec \/ vm.phase = "Succeeded") ~>
      (v \notin disks \cup mounted \cup record \/ (v \in vm.spec /\ vm.phase = "Running"))
=============================================================================
