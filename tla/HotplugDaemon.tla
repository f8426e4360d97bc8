--------------------------- MODULE HotplugDaemon ---------------------------
(***************************************************************************)
(* virt-daemon's part in hotplugging (pkg/daemon/vm_controller.go):        *)
(* volumes are mounted from the volume pod into the VM pod, given to the   *)
(* guest, taken back and unmounted.  A Reconcile is split where the daemon *)
(* can die and leave the node changed.                                     *)
(***************************************************************************)
EXTENDS HotplugVolumes

rest == <<vmCtl, vmNode, podVars, userVars, sock, cgroup>>

\* An error ends reconcile; what it has put into the status is still written.
Fail == job' = [job EXCEPT !.step = "commit", !.todo = {}, !.pod = None]
Goto(step, todo) == job' = [job EXCEPT !.step = step, !.todo = todo, !.pod = None]

Reconcile ==
  /\ job.step = "idle" /\ vmNode.phase # "Scheduling"
  /\ vmNode.phase = "Running" => guest
  /\ IF vmNode.phase = "Succeeded" THEN Goto("umountAll", record)
     ELSE Goto("mount", vmNode.spec)
  /\ UNCHANGED <<vm, rest, record, mounted, allowed, guest, disks>>

-----------------------------------------------------------------------------
\* mountHotplugVolumes.  The volume pod of the first attached volume is used for
\* all that follow, whatever their phase.
Wanted(v) ==
  /\ job.vm.volumes[v].phase # "None"
  /\ job.pod # None \/ job.vm.volumes[v].phase = "AttachedToNode"
SourcePod(v) == IF job.pod # None THEN job.pod ELSE job.vm.volumes[v].pod
HasSource(v) ==
  \E i \in DOMAIN pods :
    pods[i].uid = SourcePod(v) /\ pods[i].running /\ v \in pods[i].mounts

\* A mounted file is left alone; the source of a device is looked at in any case.
Satisfied(v) == v \in mounted /\ ~IsBlock(v)

\* Without ch.sock there is no manager.
NewManager == IF sock THEN cgroup ELSE 0

SetRules(v, allow, files) ==
  allowed' = IF NewManager = 1 THEN v1Set(allowed, Minor[v], allow)
             ELSE v2Set({Minor[w] : w \in files \cap Block \cap job.vm.spec}, Minor[v], allow)

\* Mutant: a phase the API does not know.
MountedSpelled(v) ==
  job' = [job EXCEPT !.todo = @ \ {v}, !.pod = SourcePod(v), !.vm.volumes[v].phase = "Mounted"]
Mounted(v) ==
  job' = [job EXCEPT
    !.todo = @ \ {v}, !.pod = SourcePod(v),
    !.vm.volumes[v].phase = IF @ = "AttachedToNode" THEN "MountedToPod" ELSE @]

\* addVolumeToVMMountRecord, before anything is mounted.  Mutant: the record is
\* written when the volumes have been mounted.
RecordLater(v) == v \notin record /\ v \in mounted
RecordFirst(v) == v \notin record

recordVolume(v) ==
  /\ Wanted(v) /\ ~Satisfied(v) /\ HasSource(v) /\ RecordFirst(v)
  /\ record' = record \cup {v}
  /\ UNCHANGED <<vm, rest, mounted, allowed, guest, disks, job>>

\* Without a cgroup manager the daemon panics.
mountBlockVolume(v) ==
  /\ Wanted(v) /\ IsBlock(v) /\ HasSource(v) /\ ~RecordFirst(v)
  /\ mounted' = mounted \cup {v}
  /\ IF NewManager # 0 THEN SetRules(v, TRUE, mounted') /\ Mounted(v)
     ELSE job' = [step |-> "idle", vm |-> vmNode, todo |-> {}, pod |-> None] /\ UNCHANGED allowed
  /\ UNCHANGED <<vm, rest, record, guest, disks>>

mountFileSystemVolume(v) ==
  /\ Wanted(v) /\ ~IsBlock(v)
  /\ Satisfied(v) \/ (HasSource(v) /\ ~RecordFirst(v))
  /\ mounted' = mounted \cup {v} /\ Mounted(v)
  /\ UNCHANGED <<vm, rest, record, allowed, guest, disks>>

skipVolume(v) ==
  /\ ~Wanted(v) /\ job' = [job EXCEPT !.todo = @ \ {v}]
  /\ UNCHANGED <<vm, rest, record, mounted, allowed, guest, disks>>

mountFails(v) ==
  /\ Wanted(v) /\ ~Satisfied(v) /\ ~HasSource(v) /\ Fail
  /\ UNCHANGED <<vm, rest, record, mounted, allowed, guest, disks>>

mountHotplugVolumes ==
  /\ job.step = "mount" /\ job.todo # {}
  /\ LET v == Min(job.todo) IN
     \/ skipVolume(v) \/ mountFails(v)
     \/ recordVolume(v) \/ mountBlockVolume(v) \/ mountFileSystemVolume(v)

mountedAll ==
  /\ job.step = "mount" /\ job.todo = {}
  /\ IF job.vm.phase = "Running" THEN Goto("add", job.vm.spec) ELSE Goto("boot", {})
  /\ UNCHANGED <<vm, rest, record, mounted, allowed, guest, disks>>

-----------------------------------------------------------------------------
\* cloud-hypervisor can open the file or device of a volume.
Opens(v) == v \in mounted /\ (IsBlock(v) => Minor[v] \in allowed)

\* A guest that is there already has been booted by an earlier Reconcile.
boot ==
  /\ job.step = "boot" /\ sock
  /\ \/ /\ guest /\ job' = [job EXCEPT !.step = "commit", !.vm.phase = "Running"]
        /\ UNCHANGED <<guest, disks>>
     \/ /\ ~guest /\ \A v \in job.vm.boot : Opens(v)
        /\ guest' = TRUE /\ disks' = job.vm.boot /\ Fail
  /\ UNCHANGED <<vm, rest, record, mounted, allowed>>

bootFails ==
  /\ job.step = "boot"
  /\ ~sock \/ (~guest /\ \E v \in job.vm.boot : ~Opens(v))
  /\ Fail /\ UNCHANGED <<vm, rest, record, mounted, allowed, guest, disks>>

\* VmAddDisk.  Mutant: its error is not looked at.
AddDiskUnchecked(v) ==
  /\ disks' \in {disks, disks \cup {w \in {v} : guest /\ Opens(w)}}
  /\ job' = [job EXCEPT !.todo = @ \ {v}, !.vm.volumes[v].phase = "Ready"]
AddDisk(v) ==
  \/ /\ v \in disks \/ (guest /\ Opens(v))
     /\ disks' = disks \cup {v}
     /\ job' = [job EXCEPT !.todo = @ \ {v}, !.vm.volumes[v].phase = "Ready"]
  \/ /\ v \notin disks /\ (~guest \/ ~Opens(v))
     /\ Fail /\ UNCHANGED disks

addHotplugVolumesToVM ==
  /\ job.step = "add" /\ job.todo # {}
  /\ LET v == Min(job.todo) IN
     IF job.vm.volumes[v].phase = "MountedToPod" THEN AddDisk(v)
     ELSE job' = [job EXCEPT !.todo = @ \ {v}] /\ UNCHANGED disks
  /\ UNCHANGED <<vm, rest, record, mounted, allowed, guest>>

\* The stage after the disks have been added.  Mutant: volumes are unmounted
\* before their disks are removed.
ThenUmount == Goto("umount", {v \in record : job.vm.volumes[v].phase = "None"})
ThenRemove == Goto("remove", disks \ job.vm.spec)

addedAll ==
  /\ job.step = "add" /\ job.todo = {} /\ ThenRemove
  /\ UNCHANGED <<vm, rest, record, mounted, allowed, guest, disks>>

removeHotplugVolumesFromVM ==
  /\ job.step = "remove" /\ job.todo # {}
  /\ \E v \in job.todo :
       \/ /\ guest /\ disks' = disks \ {v} /\ job' = [job EXCEPT !.todo = @ \ {v}]
       \/ /\ ~guest /\ Fail /\ UNCHANGED disks
  /\ UNCHANGED <<vm, rest, record, mounted, allowed, guest>>

removedAll ==
  /\ job.step = "remove" /\ job.todo = {}
  /\ Goto("umount", {v \in record : job.vm.volumes[v].phase = "None"})
  /\ UNCHANGED <<vm, rest, record, mounted, allowed, guest, disks>>

\* umountHotplugVolume, for the volumes without a status or, when the VM has
\* ended, for all.
umountHotplugVolume(v) ==
  /\ mounted' = mounted \ {v}
  /\ IF IsBlock(v) /\ v \in mounted /\ NewManager # 0
     THEN SetRules(v, FALSE, mounted) ELSE UNCHANGED allowed
  /\ job' = [job EXCEPT !.todo = @ \ {v}]
  /\ UNCHANGED record

umountHotplugVolumes ==
  /\ job.step \in {"umount", "umountAll"}
  /\ \/ /\ job.todo # {}
        /\ \E v \in job.todo : umountHotplugVolume(v)
     \/ /\ job.todo = {} /\ job' = [job EXCEPT !.step = "commit"]
        /\ record' = IF job.step = "umountAll" THEN {}
                     ELSE {v \in record : job.vm.volumes[v].phase # "None"}
        /\ UNCHANGED <<mounted, allowed>>
  /\ UNCHANGED <<vm, rest, guest, disks>>

commit ==
  /\ job.step = "commit" /\ Update(vmNode, job.vm)
  /\ job' = [step |-> "idle", vm |-> vmNode, todo |-> {}, pod |-> None]
  /\ UNCHANGED <<rest, record, mounted, allowed, guest, disks>>

\* A command or a call fails.
CommandFails ==
  /\ "command" \in Faults /\ Spend /\ job.step \notin {"idle", "commit"} /\ Fail
  /\ UNCHANGED <<apiVars, podVars, populated, lost, nodeVars>>

\* The daemon dies; a new one finds the record.
Crash ==
  /\ "crash" \in Faults /\ Spend /\ job.step # "idle"
  /\ job' = [step |-> "idle", vm |-> vmNode, todo |-> {}, pod |-> None]
  /\ UNCHANGED <<apiVars, podVars, populated, lost, nodeVars>>
=============================================================================
