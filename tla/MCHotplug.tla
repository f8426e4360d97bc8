----------------------------- MODULE MCHotplug -----------------------------
(***************************************************************************)
(* Instances of Hotplug.  Nobody else looks at what virt-daemon changes on *)
(* the node before it commits, so that its Reconcile may run without a     *)
(* break.  That it works on an old copy of the VM, and that commands fail  *)
(* and the daemon dies in it, is left.                                     *)
(***************************************************************************)
EXTENDS Hotplug

MCMinor == [v \in Block |-> 7 + v]

\* The VM starts with volume 1; the other may come later.
MCInit == Init /\ 1 \in vm.spec

MCNext == IF job.step = "idle" THEN Next ELSE Daemon \/ Crash \/ CommandFails
MCSpec == MCInit /\ [][MCNext]_vars

\* For liveness virt-controller's caches catch up at once; virt-daemon's lags.
Behind == vmCtl # vm \/ podCache # pods
PromptNext == IF job.step = "idle" /\ Behind THEN SyncCtl ELSE MCNext
PromptSpec == MCInit /\ [][PromptNext]_vars /\ Fairness
=============================================================================
