-------------------------- MODULE VolumeAttachment --------------------------
(***************************************************************************)
(* What hotplugging promises of the volumes of one VM: a volume is mounted *)
(* beneath the guest before the guest gets it as a disk, and it stays      *)
(* mounted until the guest has given the disk back.                        *)
(***************************************************************************)
CONSTANT Volume

VARIABLES
  mounted, \* the volumes mounted in the VM pod
  disks    \* the volumes that are disks of the guest

attachment == <<mounted, disks>>

Init == mounted = {} /\ disks = {}

Mount(v) == mounted' = mounted \cup {v} /\ UNCHANGED disks

\* A guest that boots gets several at once.
Plug(S) == S \subseteq mounted /\ disks' = disks \cup S /\ UNCHANGED mounted

\* A guest that ends gives all of them back.
Unplug(S) == disks' = disks \ S /\ UNCHANGED mounted

Unmount(v) == v \notin disks /\ mounted' = mounted \ {v} /\ UNCHANGED disks

Next ==
  \/ \E v \in Volume : Mount(v) \/ Unmount(v)
  \/ \E S \in SUBSET Volume : Plug(S) \/ Unplug(S)

Spec == Init /\ [][Next]_attachment
=============================================================================
