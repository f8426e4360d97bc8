--------------------------- MODULE HotplugProofs ---------------------------
(***************************************************************************)
(* No mount is ever forgotten, whatever the volumes, the faults and the    *)
(* caches: MountsRecorded is an invariant of the whole specification.      *)
(***************************************************************************)
EXTENDS Hotplug, TLAPS

\* The volumes that the Reconcile under way is about to strike from the record.
Struck ==
  IF job.step = "umountAll" THEN record
  ELSE IF job.step = "umount" THEN {v \in record : job.vm.volumes[v].phase = "None"}
  ELSE {}

\* Those of them that are still mounted are still to be unmounted.  This is why
\* the record can be rewritten once the list is empty.
RecordInv ==
  /\ DOMAIN job = {"step", "vm", "todo", "pod"}
  /\ mounted \subseteq record
  /\ mounted \cap Struck \subseteq job.todo

\* Initially nothing is mounted.
LEMMA RecordInit == Init => RecordInv
BY DEF Init, RecordInv, Struck

\* Steps that leave the node and the daemon's Reconcile alone.
LEMMA RecordElsewhere ==
  RecordInv /\ UNCHANGED <<record, mounted, job>> => RecordInv'
BY DEF RecordInv, Struck

\* A step of the daemon before it unmounts, which may mount what is recorded and
\* may add to the record.
LEMMA RecordBefore ==
  ASSUME RecordInv,
         DOMAIN job' = DOMAIN job,
         record \subseteq record', mounted' \subseteq record',
         job'.step \notin {"umount", "umountAll"}
  PROVE  RecordInv'
BY DEF RecordInv, Struck

\* Every step keeps the invariant.
LEMMA RecordStep == RecordInv /\ [Next]_vars => RecordInv'
<1> SUFFICES ASSUME RecordInv, [Next]_vars PROVE RecordInv'
  OBVIOUS
<1> USE DEF RecordInv
<1>1. CASE ReconcileVolumes
  BY <1>1, RecordElsewhere DEF ReconcileVolumes, nodeVars
<1>2. CASE SyncCtl
  BY <1>2, RecordElsewhere DEF SyncCtl, nodeVars
<1>3. CASE SyncNode
  BY <1>3 DEF SyncNode, nodeVars, Struck
<1>4. CASE Reconcile
  <2>1. CASE vmNode.phase = "Succeeded"
    BY <1>4, <2>1 DEF Reconcile, Goto, Struck
  <2>2. CASE vmNode.phase # "Succeeded"
    BY <1>4, <2>2 DEF Reconcile, Goto, Struck
  <2> QED BY <2>1, <2>2
<1>5. CASE mountHotplugVolumes
  <2> DEFINE v == Min(job.todo)
  <2>1. CASE skipVolume(v)
    BY <1>5, <2>1 DEF mountHotplugVolumes, skipVolume, Struck
  <2>2. CASE mountFails(v)
    BY <1>5, <2>2 DEF mountHotplugVolumes, mountFails, Fail, Struck
  <2>3. CASE recordVolume(v)
    BY <1>5, <2>3 DEF mountHotplugVolumes, recordVolume, Struck
  <2>4. CASE mountBlockVolume(v)
    <3>1. mounted' \subseteq record'
      BY <2>4 DEF mountBlockVolume, RecordFirst
    <3>2. job'.step \notin {"umount", "umountAll"} /\ DOMAIN job' = DOMAIN job
      <4>1. CASE NewManager # 0
        BY <1>5, <2>4, <4>1 DEF mountHotplugVolumes, mountBlockVolume, Mounted
      <4>2. CASE NewManager = 0
        <5>1. job' = [step |-> "idle", vm |-> vmNode, todo |-> {}, pod |-> None]
          BY <2>4, <4>2 DEF mountBlockVolume
        <5> QED BY <5>1
      <4> QED BY <4>1, <4>2
    <3> QED BY <2>4, <3>1, <3>2, RecordBefore DEF mountBlockVolume
  <2>5. CASE mountFileSystemVolume(v)
    <3>1. mounted' \subseteq record'
      BY <2>5 DEF mountFileSystemVolume, RecordFirst, Satisfied
    <3>2. job'.step \notin {"umount", "umountAll"} /\ DOMAIN job' = DOMAIN job
      BY <1>5, <2>5 DEF mountHotplugVolumes, mountFileSystemVolume, Mounted
    <3> QED BY <2>5, <3>1, <3>2, RecordBefore DEF mountFileSystemVolume
  <2> QED BY <1>5, <2>1, <2>2, <2>3, <2>4, <2>5 DEF mountHotplugVolumes
<1>6. CASE mountedAll
  BY <1>6 DEF mountedAll, Goto, Struck
<1>7. CASE boot
  BY <1>7 DEF boot, Fail, Struck
<1>8. CASE bootFails
  BY <1>8 DEF bootFails, Fail, Struck
<1>9. CASE addHotplugVolumesToVM
  <2>1. job'.step \notin {"umount", "umountAll"} /\ DOMAIN job' = DOMAIN job
    BY <1>9 DEF addHotplugVolumesToVM, AddDisk, Fail
  <2> QED BY <1>9, <2>1, RecordBefore DEF addHotplugVolumesToVM
<1>10. CASE addedAll
  BY <1>10 DEF addedAll, ThenRemove, Goto, Struck
<1>11. CASE removeHotplugVolumesFromVM
  BY <1>11 DEF removeHotplugVolumesFromVM, Fail, Struck
<1>12. CASE removedAll
  BY <1>12 DEF removedAll, Goto, Struck
<1>13. CASE umountHotplugVolumes
  <2>1. CASE job.todo # {}
    <3>1. PICK v \in job.todo : umountHotplugVolume(v)
      BY <1>13, <2>1 DEF umountHotplugVolumes
    <3>2. /\ job'.step = job.step /\ job'.vm = job.vm /\ job'.todo = job.todo \ {v}
          /\ DOMAIN job' = DOMAIN job
      BY <3>1 DEF umountHotplugVolume
    <3> QED BY <3>1, <3>2 DEF umountHotplugVolume, Struck
  <2>2. CASE job.todo = {}
    <3>1. job'.step = "commit" /\ DOMAIN job' = DOMAIN job
      BY <1>13, <2>2 DEF umountHotplugVolumes
    <3>2. record' = record \ Struck
      BY <1>13, <2>2 DEF umountHotplugVolumes, Struck
    <3>3. mounted' = mounted
      BY <1>13, <2>2 DEF umountHotplugVolumes
    <3> QED BY <2>2, <3>1, <3>2, <3>3 DEF Struck
  <2> QED BY <2>1, <2>2
<1>14. CASE commit
  BY <1>14 DEF commit, Struck
<1>15. CASE Kubernetes
  BY <1>15, RecordElsewhere
  DEF Kubernetes, StartPod, RemovePod, GarbageCollect, OpenSocket, Populate, nodeVars
<1>16. CASE Crash
  BY <1>16 DEF Crash, nodeVars, Struck
<1>17. CASE CommandFails
  BY <1>17 DEF CommandFails, Fail, nodeVars, Struck
<1>18. CASE \E i \in DOMAIN pods : LosePod(i)
  BY <1>18, RecordElsewhere DEF LosePod, nodeVars
<1>19. CASE \E v \in Volume : AddVolume(v) \/ RemoveVolume(v)
  BY <1>19, RecordElsewhere DEF AddVolume, RemoveVolume, Change, nodeVars
<1>20. CASE EndVM
  BY <1>20, RecordElsewhere DEF EndVM
<1>21. CASE UNCHANGED vars
  BY <1>21, RecordElsewhere DEF vars, nodeVars
<1> QED
  BY <1>1, <1>2, <1>3, <1>4, <1>5, <1>6, <1>7, <1>8, <1>9, <1>10, <1>11, <1>12,
     <1>13, <1>14, <1>15, <1>16, <1>17, <1>18, <1>19, <1>20, <1>21
  DEF Next, Daemon

\* A volume is in the mount record for as long as it is mounted, though the daemon
\* dies at any point between writing the record, mounting, unmounting and rewriting
\* the record, and for any number of volumes, pods and events.
THEOREM MountsAlwaysRecorded == Spec => []MountsRecorded
<1>1. RecordInv => MountsRecorded
  BY DEF RecordInv, MountsRecorded
<1> QED BY RecordInit, RecordStep, <1>1, PTL DEF Spec
=============================================================================
