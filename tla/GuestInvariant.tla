--------------------------- MODULE GuestInvariant ---------------------------
(***************************************************************************)
(* Why the guest of a VM never runs twice: an inductive invariant.         *)
(*                                                                         *)
(* A guest comes to life only in a pod whose UID some daemon's copy of the *)
(* VM names.  Such a UID was written by the controller, which has seen the *)
(* pod, and a pod stays in its cache until it is gone.  So when the        *)
(* controller finds no pod and starts a new run, no pod is left that any   *)
(* copy of the VM, however old, names.                                     *)
(***************************************************************************)
EXTENDS VirtualMachine

\* The names that the reconcilers look up have been given.
Named(w) ==
  /\ w.phase \in {"Scheduling", "Scheduled", "Running"} => w.podName # None
  /\ w.migPhase \notin {"", "Pending"} => w.targetPodName # None
NamedInv == \A w \in Views : Named(w)

TypeInv == TypeOK /\ NamedInv

Alive(n) == pods[n].uid # None
Names(w, n) == Alive(n) /\ pods[n].uid \in {w.podUID, w.targetPodUID}
Boots(w, n) == Alive(n) /\ w.phase = "Scheduled" /\ pods[n].uid = w.podUID
Seen(n) == podCache[Ctl][n].uid = pods[n].uid
Ended(n) == ch[n] = "exited" \/ pods[n].phase \in {"Succeeded", "Failed"}

\* A process belongs to a pod that has not ended; UIDs are unique.
PodInv ==
  /\ \A n \in Name :
       /\ ~Alive(n) => pods[n] = NoPod /\ ch[n] = "none"
       /\ pods[n].phase \in {"Succeeded", "Failed"} => ch[n] = "none"
  /\ \A m, n \in Name : Alive(n) =>
       /\ pods[m].uid = pods[n].uid => m = n
       /\ podCache[Ctl][m].uid = pods[n].uid => m = n

\* The controller has seen every pod that a copy of the VM names or that has
\* been put to use.
SeenInv ==
  \A n \in Name :
    /\ \A w \in Views : Names(w, n) => Seen(n)
    /\ ch[n] \notin {"none", "empty"} => Seen(n)

\* Before the VM is Scheduled there is no guest, and no copy can boot one.
FreshInv ==
  vm.phase \in {"Pending", "Scheduling"} =>
    \A n \in Name : ~HasGuest(n) /\ \A w \in Views : ~Boots(w, n)

\* Until it is Running, it runs nowhere but in its VM pod, and nothing is left
\* of an earlier migration.
HomeInv ==
  /\ vm.phase \in {"Pending", "Scheduling", "Scheduled"} =>
       \A n \in Name :
         /\ ch[n] # "receiving"
         /\ \A w \in Views : Alive(n) => pods[n].uid # w.targetPodUID
  /\ vm.phase = "Scheduled" =>
       \A n \in Name :
         (HasGuest(n) \/ \E w \in Views : Boots(w, n)) => n = vm.podName

\* All copies that can boot a pod mean the same one, and while it has not ended
\* the guest is nowhere else.
BootInv ==
  \A w \in Views, n \in Name : Boots(w, n) =>
    /\ \A x \in Views, m \in Name : Boots(x, m) => m = n
    /\ ~Ended(n) => \A m \in Name : HasGuest(m) => m = n

\* An object that nothing holds has neither a guest nor a pod that can boot.
FinalizerInv ==
  /\ vm.deleting => vm.exists /\ vm.finalizer
  /\ ~(vm.exists /\ vm.finalizer) =>
       \A n \in Name : ~HasGuest(n) /\ \A w \in Views : ~Names(w, n)

GuestInv ==
  /\ NamedInv /\ PodInv /\ SeenInv /\ FreshInv /\ HomeInv /\ BootInv /\ FinalizerInv
  /\ AtMostOneGuest
=============================================================================
