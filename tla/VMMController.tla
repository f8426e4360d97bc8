---------------------------- MODULE VMMController ----------------------------
(***************************************************************************)
(* virt-controller's VMMReconciler (pkg/controller/vmm_controller.go) and  *)
(* the admission check of VirtualMachineMigration objects.  It runs in the *)
(* process of the VM controller and shares its informer caches.            *)
(***************************************************************************)
EXTENDS Cluster

Terminal == {"Succeeded", "Failed"}

\* VMMValidator: the VM exists and its Migratable condition is True.
CreateVMM(m) ==
  /\ vmms[m].state = "new"
  /\ vmCache[Ctl].exists /\ vmCache[Ctl].migratable
  /\ vmms' = [vmms EXCEPT ![m].state = "live"]
  /\ UNCHANGED <<vmVars, podVars, sendVars, vmmCache>>

\* The VMM's own status update: conflicts like any other.
UpdateVMM(m, new) ==
  vmms' = IF vmmCache[m] = vmms[m] THEN [vmms EXCEPT ![m] = new] ELSE vmms

\* The VM cannot be migrated by m.
Refused(m) ==
  LET v == vmCache[Ctl] IN
  ~v.exists \/ v.deleting \/ v.migUID \notin {None, m}

\* A finished migration gives the VM back.
ReleaseVM(m) ==
  LET v == vmCache[Ctl] IN
  /\ vmmCache[m].state = "live" /\ vmmCache[m].phase \in Terminal
  /\ v.exists /\ ~v.deleting /\ v.migUID = m
  /\ \E ok \in Outcomes(Ctl) :
       UpdateVM([v EXCEPT !.migUID = None, !.migPhase = "",
                          !.targetPodName = None, !.targetPodUID = None,
                          !.targetNodeName = None], ok)
  /\ UNCHANGED <<vmCache, podVars, sendVars, vmmVars>>

RefuseVMM(m) ==
  /\ vmmCache[m].state = "live" /\ vmmCache[m].phase \notin Terminal
  /\ Refused(m)
  /\ UpdateVMM(m, [vmmCache[m] EXCEPT !.phase = "Failed"])
  /\ UNCHANGED <<vmVars, podVars, sendVars, vmmCache>>

\* Mutant: the VM is claimed from another migration.
ClaimAnyVM(m) ==
  LET v == vmCache[Ctl] IN
  /\ vmmCache[m].state = "live" /\ vmmCache[m].phase \notin Terminal
  /\ v.exists /\ v.migUID # m
  /\ \E ok \in Outcomes(Ctl) : UpdateVM([v EXCEPT !.migUID = m], ok)
  /\ UNCHANGED <<vmCache, podVars, sendVars, vmmVars>>
\* The VM is claimed first; an error of that update leaves the VMM as it was.
ClaimVM(m) ==
  LET v == vmCache[Ctl] IN
  /\ vmmCache[m].state = "live" /\ vmmCache[m].phase \notin Terminal
  /\ ~Refused(m) /\ v.migUID = None
  /\ \E ok \in Outcomes(Ctl) :
       /\ UpdateVM([v EXCEPT !.migUID = m], ok)
       /\ IF ok THEN UpdateVMM(m, [vmmCache[m] EXCEPT !.source = v.nodeName])
          ELSE UNCHANGED vmms
  /\ UNCHANGED <<vmCache, podVars, sendVars, vmmCache>>

FollowVM(m) ==
  LET v == vmCache[Ctl] IN
  /\ vmmCache[m].state = "live" /\ vmmCache[m].phase \notin Terminal
  /\ ~Refused(m) /\ v.migUID = m
  /\ UpdateVMM(m, [vmmCache[m] EXCEPT !.phase = v.migPhase])
  /\ UNCHANGED <<vmVars, podVars, sendVars, vmmCache>>

VMMReconcile(m) == ReleaseVM(m) \/ RefuseVMM(m) \/ ClaimVM(m) \/ FollowVM(m)

=============================================================================
