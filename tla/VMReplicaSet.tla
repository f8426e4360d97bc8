---------------------------- MODULE VMReplicaSet ----------------------------
(***************************************************************************)
(* virt-controller's VMReplicaSetReconciler                                *)
(* (pkg/controller/vmrs_controller.go) for one VirtualMachineReplicaSet,   *)
(* with its event handlers, the goroutines that create and delete VMs, and *)
(* the VMs, whose own controller is reduced to what is seen from here.     *)
(***************************************************************************)
EXTENDS Expectations

CONSTANTS
  VM,            \* the VMs for which there is room in the namespace
  MaxReplicas,   \* the largest spec.replicas a user asks for
  BurstReplicas, \* how many VMs one Reconcile creates or deletes at most
  Faults,        \* the faults that may happen in this instance
  MaxFaults      \* how many of them, and of the user's requests, happen

Fault == {"createFail", "createLost", "deleteFail", "vmEnds", "vmUnknown", "vmDelete",
          "restart", "relist", "expire", "rsDelete"}

ASSUME ReplicaSetAssumption ==
  /\ MaxReplicas \in Nat /\ BurstReplicas \in Nat \ {0} /\ MaxFaults \in Nat
  /\ Faults \subseteq Fault

VARIABLES
  rs,       \* the replica set in the API server
  rsCache,  \* the copy in the informer cache
  vms,      \* the VMs it controls, in the API server
  vmCache,  \* their copies in the informer cache
  exp,      \* its expectations
  queued,   \* its key is in the work queue
  job,      \* the Reconcile that is under way
  budget    \* how many faults and requests are left

vars == <<rs, rsCache, vms, vmCache, exp, queued, job, budget>>

\* metadata and spec; count, failure, pausedCond and observed are the status.
ReplicaSet ==
  [exists: BOOLEAN, deleting: BOOLEAN, replicas: 0..MaxReplicas,
   paused: BOOLEAN, generation: Nat, count: Nat, failure: BOOLEAN,
   pausedCond: BOOLEAN, observed: Nat]

New(n, paused) ==
  [exists |-> TRUE, deleting |-> FALSE, replicas |-> n, paused |-> paused,
   generation |-> 1, count |-> 0, failure |-> FALSE, pausedCond |-> FALSE,
   observed |-> 0]

\* A VM that is gone keeps its place until the cache has seen it go.  Phases:
\* "Final" is Succeeded or Failed, "Active" any but these and Unknown.
Stage == {"absent", "live", "deleting", "gone"}
VMState == [stage: Stage, phase: {"Active", "Unknown", "Final"}]
Absent == [stage |-> "absent", phase |-> "Active"]

\* The local variables of Reconcile; create, delete and clean are goroutines
\* that have not finished, wg is the WaitGroup of cleanVMs, and leaked are the
\* goroutines it has not waited for.
NoJob == [step |-> "idle", copy |-> New(0, FALSE), sync |-> FALSE,
          active |-> {}, finished |-> {}, create |-> 0, delete |-> {},
          clean |-> {}, leaked |-> {}, wg |-> 0, err |-> FALSE]

TypeOK ==
  /\ rs \in ReplicaSet /\ rsCache \in ReplicaSet
  /\ vms \in [VM -> VMState] /\ vmCache \in [VM -> VMState]
  /\ exp \in [exists: BOOLEAN, add: Int, del: Int, expired: BOOLEAN,
              uids: SUBSET VM]
  /\ queued \in BOOLEAN /\ budget \in 0..MaxFaults
  /\ job \in [step: {"idle", "list", "expect", "scale", "clean", "status"},
              copy: ReplicaSet, sync: BOOLEAN, active: SUBSET VM,
              finished: SUBSET VM, create: 0..BurstReplicas,
              delete: SUBSET VM, clean: SUBSET VM, leaked: SUBSET VM,
              wg: 0..BurstReplicas, err: BOOLEAN]

Init ==
  /\ \E n \in 0..MaxReplicas, paused \in BOOLEAN :
       rs = New(n, paused)
  /\ rsCache = rs
  /\ vms = [v \in VM |-> Absent] /\ vmCache = vms
  /\ exp = NoExpectations
  /\ queued = TRUE
  /\ job = NoJob
  /\ budget = MaxFaults

Spend(fault) == fault \in Faults /\ budget > 0 /\ budget' = budget - 1

isVMActive(x) == x.stage = "live" /\ x.phase # "Final"
isVMFinished(x) == x.stage \in {"live", "deleting"} /\ x.phase = "Final"
isVMUnknown(x) == x.stage \in {"live", "deleting"} /\ x.phase = "Unknown"

ActiveVMs == {v \in VM : isVMActive(vms[v])}
LiveVMs == {v \in VM : vms[v].stage = "live"}

\* As many of n as one Reconcile handles.  Mutant: all of them.
Unlimited(n) == n
Burst(n) == IF n < BurstReplicas THEN n ELSE BurstReplicas

-----------------------------------------------------------------------------
(***************************************************************************)
(* Reconcile.  There is one at a time for a key; events arrive between its *)
(* steps.                                                                  *)
(***************************************************************************)
\* Get, and the expectations are looked at before the VMs are listed.
Get ==
  /\ job.step = "idle" /\ queued
  /\ queued' = FALSE
  /\ IF rsCache.exists
     THEN /\ job' = [NoJob EXCEPT !.step = "list", !.copy = rsCache,
                                  !.sync = SatisfiedExpectations(exp),
                                  !.leaked = job.leaked]
          /\ UNCHANGED exp
     ELSE exp' = DeleteExpectations(exp) /\ UNCHANGED job
  /\ UNCHANGED <<rs, rsCache, vms, vmCache, budget>>

getControlledVMs ==
  /\ job.step = "list"
  /\ job' = [job EXCEPT
       !.step = IF job.sync /\ ~job.copy.paused /\ ~job.copy.deleting
                THEN "expect" ELSE "status",
       !.active = {v \in VM : isVMActive(vmCache[v])},
       !.finished = {v \in VM : isVMFinished(vmCache[v]) \/ isVMUnknown(vmCache[v])}]
  /\ UNCHANGED <<rs, rsCache, vms, vmCache, exp, queued, budget>>

\* scaleVMs up to the point where its goroutines are started.  The newest VMs
\* are deleted; timestamps of one second leave open which these are.
scaleVMs ==
  LET diff == Cardinality(job.active) - job.copy.replicas IN
  /\ job.step = "expect"
  /\ \/ /\ diff = 0
        /\ job' = [job EXCEPT !.step = "scale"] /\ UNCHANGED exp
     \/ /\ diff < 0
        /\ exp' = ExpectCreations(exp, Burst(-diff))
        /\ job' = [job EXCEPT !.step = "scale", !.create = Burst(-diff)]
     \/ /\ diff > 0
        /\ \E victims \in SUBSET job.active :
             /\ Cardinality(victims) = Burst(diff)
             /\ exp' = ExpectDeletions(exp, victims)
             /\ job' = [job EXCEPT !.step = "scale", !.delete = victims]
  /\ UNCHANGED <<rs, rsCache, vms, vmCache, queued, budget>>

\* Create in the API server, while there is room.  GenerateName gives the VM a
\* name that nobody remembers.
Room ==
  {v \in VM : vms[v] = Absent /\ vmCache[v] = Absent} \
    (job.active \cup job.finished \cup job.leaked \cup exp.uids)
Created == \E v \in Room : vms' = [vms EXCEPT ![v].stage = "live"]

\* One goroutine of scaleVMs: the expectation of a VM that could not be created
\* is taken back, also when the API server did create it and the answer was
\* lost.  Mutant: that of every VM.
createVMObserved ==
  /\ job.step = "scale" /\ job.create > 0
  /\ Created /\ exp' = CreationObserved(exp)
  /\ job' = [job EXCEPT !.create = @ - 1]
  /\ UNCHANGED <<rs, rsCache, vmCache, queued, budget>>
createVM ==
  /\ job.step = "scale" /\ job.create > 0
  /\ \/ /\ Created
        /\ job' = [job EXCEPT !.create = @ - 1]
        /\ UNCHANGED <<exp, budget>>
     \/ /\ \/ Room = {} /\ UNCHANGED <<vms, budget>>
           \/ Spend("createFail") /\ UNCHANGED vms
           \/ Spend("createLost") /\ Created
        /\ exp' = CreationObserved(exp)
        /\ job' = [job EXCEPT !.create = @ - 1, !.err = TRUE]
  /\ UNCHANGED <<rs, rsCache, vmCache, queued>>

\* Delete in the API server: a VM without the finalizer is gone at once.
Deleted(v) ==
  IF vms[v].stage = "live"
  THEN \E stage \in {"deleting", "gone"} : vms' = [vms EXCEPT ![v].stage = stage]
  ELSE UNCHANGED vms

\* DeleteVM: NotFound counts as success, and then nothing is observed.
DeleteVM(v, fails) ==
  IF fails
  THEN Spend("deleteFail") /\ exp' = DeletionObserved(exp, v) /\ UNCHANGED vms
  ELSE Deleted(v) /\ UNCHANGED <<exp, budget>>

\* One goroutine of scaleVMs.
deleteVM(v) ==
  /\ job.step = "scale" /\ v \in job.delete
  /\ \E fails \in BOOLEAN :
       /\ DeleteVM(v, fails)
       /\ job' = [job EXCEPT !.delete = @ \ {v}, !.err = @ \/ fails]
  /\ UNCHANGED <<rs, rsCache, vmCache, queued>>

\* wg.Wait returns; cleanVMs starts a goroutine for every finished VM.
scaledVMs ==
  /\ job.step = "scale" /\ job.create = 0 /\ job.delete = {}
  /\ job' = IF job.finished # {} /\ ~job.err
            THEN [job EXCEPT !.step = "clean", !.clean = job.finished,
                             !.wg = Burst(Cardinality(job.finished))]
            ELSE [job EXCEPT !.step = "status"]
  /\ UNCHANGED <<rs, rsCache, vms, vmCache, exp, queued, budget>>

\* One goroutine of cleanVMs.
cleanVM(v) ==
  /\ job.step = "clean" /\ v \in job.clean /\ job.wg > 0
  /\ \E fails \in BOOLEAN :
       /\ DeleteVM(v, fails)
       /\ job' = [job EXCEPT !.clean = @ \ {v}, !.err = @ \/ fails, !.wg = @ - 1]
  /\ UNCHANGED <<rs, rsCache, vmCache, queued>>

\* wg.Wait returns after as many goroutines as were added to wg.
cleanedVMs ==
  /\ job.step = "clean" /\ job.wg = 0
  /\ job' = [job EXCEPT !.step = "status", !.leaked = @ \cup job.clean,
                        !.clean = {}]
  /\ UNCHANGED <<rs, rsCache, vms, vmCache, exp, queued, budget>>

\* calculateStatus: of the VMs that were listed, before they were scaled.
\* Mutant: the condition Paused stays.
StatusStaysPaused(r) ==
  [r EXCEPT !.count = Cardinality(job.active), !.failure = job.err,
            !.pausedCond = @ \/ job.copy.paused, !.observed = job.copy.generation]
calculateStatus(r) ==
  [r EXCEPT !.count = Cardinality(job.active), !.failure = job.err,
            !.pausedCond = job.copy.paused, !.observed = job.copy.generation]

\* The end of Reconcile.  An error of scaleVMs or cleanVMs is in the status, and
\* Reconcile itself succeeds; a status update that fails is retried.
UpdateStatus ==
  LET new == calculateStatus(job.copy) IN
  /\ job.step = "status"
  /\ IF new = job.copy THEN UNCHANGED <<rs, queued>>
     ELSE IF rs = job.copy THEN rs' = new /\ UNCHANGED queued
     ELSE queued' = TRUE /\ UNCHANGED rs
  /\ job' = [NoJob EXCEPT !.leaked = job.leaked]
  /\ UNCHANGED <<rsCache, vms, vmCache, exp, budget>>

Reconcile ==
  \/ Get \/ getControlledVMs \/ scaleVMs \/ createVM \/ scaledVMs
  \/ cleanedVMs \/ UpdateStatus
  \/ \E v \in VM : deleteVM(v) \/ cleanVM(v)

\* The process starts again: it has no expectations, its caches are filled from
\* the API server, and every object it lists is queued.
Starts(now) ==
  /\ rsCache' = rs
  /\ vms' = [v \in VM |-> IF now[v].stage = "gone" THEN Absent ELSE now[v]]
  /\ vmCache' = vms'
  /\ exp' = NoExpectations /\ queued' = TRUE /\ job' = NoJob
  /\ UNCHANGED rs

Restart == Spend("restart") /\ Starts(vms)

\* A goroutine that was not waited for is done with its VM: its wg.Done makes
\* the counter negative, and the panic ends the process.
Panic ==
  /\ \E v \in job.leaked :
       \E stage \in {vms[v].stage} \cup (IF vms[v].stage = "live"
                                        THEN {"deleting", "gone"} ELSE {}) :
         Starts([vms EXCEPT ![v].stage = stage])
  /\ UNCHANGED budget

-----------------------------------------------------------------------------
(***************************************************************************)
(* The informers and the event handlers of SetupWithManager.  The events   *)
(* of an object come one by one, except for those that a new list hides.   *)
(***************************************************************************)
RSEvent ==
  /\ rsCache # rs
  /\ rsCache' = rs /\ queued' = TRUE
  /\ UNCHANGED <<rs, vms, vmCache, exp, job, budget>>

\* CreateFunc
VMCreated(v) ==
  /\ vmCache[v].stage = "absent" /\ vms[v].stage # "absent"
  /\ vmCache' = [vmCache EXCEPT ![v] = [vms[v] EXCEPT !.stage = "live"]]
  /\ exp' = IF rsCache.exists THEN CreationObserved(exp) ELSE exp
  /\ queued' = TRUE
  /\ UNCHANGED <<rs, rsCache, vms, job, budget>>

\* UpdateFunc, for a change of the status
VMUpdated(v) ==
  /\ vmCache[v].stage \in {"live", "deleting"} /\ vms[v].phase # vmCache[v].phase
  /\ vmCache' = [vmCache EXCEPT ![v].phase = vms[v].phase]
  /\ queued' = TRUE
  /\ UNCHANGED <<rs, rsCache, vms, exp, job, budget>>

\* deleteVM: called by UpdateFunc when there is a deletion timestamp, by
\* DeleteFunc, and by CreateFunc for a VM that is first seen with a timestamp.
DeleteSeen(v) == exp' = IF rsCache.exists THEN DeletionObserved(exp, v) ELSE exp

VMDeleting(v) ==
  /\ vms[v].stage \in {"deleting", "gone"}
  /\ \/ vmCache[v].stage = "live" /\ UNCHANGED budget
     \/ vmCache[v].stage = "absent" /\ vms[v].stage = "deleting" /\ Spend("relist")
  /\ vmCache' = [vmCache EXCEPT ![v] = [vms[v] EXCEPT !.stage = "deleting"]]
  /\ DeleteSeen(v)
  /\ queued' = TRUE
  /\ UNCHANGED <<rs, rsCache, vms, job>>

VMDeleted(v) ==
  /\ vms[v].stage = "gone" /\ vmCache[v].stage \in {"live", "deleting"}
  /\ vms' = [vms EXCEPT ![v] = Absent] /\ vmCache' = [vmCache EXCEPT ![v] = Absent]
  /\ DeleteSeen(v)
  /\ queued' = TRUE
  /\ UNCHANGED <<rs, rsCache, job, budget>>

\* A VM that came and went while the watch was down.
VMNeverSeen(v) ==
  /\ vms[v].stage = "gone" /\ vmCache[v].stage = "absent"
  /\ Spend("relist")
  /\ vms' = [vms EXCEPT ![v] = Absent]
  /\ UNCHANGED <<rs, rsCache, vmCache, exp, queued, job>>

VMEvent(v) ==
  VMCreated(v) \/ VMUpdated(v) \/ VMDeleting(v) \/ VMDeleted(v) \/ VMNeverSeen(v)

Quiet == rsCache = rs /\ vmCache = vms /\ job.step = "idle" /\ ~queued

\* ExpectationsTimeout has passed; with the fault "expire" it passes before all
\* events have arrived.
Expire ==
  /\ exp.exists /\ ~exp.expired /\ ~Fulfilled(exp)
  /\ (Quiet /\ UNCHANGED budget) \/ Spend("expire")
  /\ exp' = [exp EXCEPT !.expired = TRUE]
  /\ UNCHANGED <<rs, rsCache, vms, vmCache, queued, job>>

\* The informers hand out all objects again every ten hours.
Resync ==
  /\ Quiet
  /\ queued' = TRUE
  /\ UNCHANGED <<rs, rsCache, vms, vmCache, exp, job, budget>>

-----------------------------------------------------------------------------
\* The VM controller and the guests.
VMChanges(v) ==
  /\ vms[v].stage = "live" /\ vms[v].phase = "Active"
  /\ \/ Spend("vmEnds") /\ vms' = [vms EXCEPT ![v].phase = "Final"]
     \/ Spend("vmUnknown") /\ vms' = [vms EXCEPT ![v].phase = "Unknown"]
  /\ UNCHANGED <<rs, rsCache, vmCache, exp, queued, job>>

VMRemoved(v) ==
  /\ vms[v].stage = "deleting"
  /\ vms' = [vms EXCEPT ![v].stage = "gone"]
  /\ UNCHANGED <<rs, rsCache, vmCache, exp, queued, job, budget>>

\* The garbage collector, once the replica set is deleted.
CollectVM(v) ==
  /\ ~rs.exists \/ rs.deleting
  /\ vms[v].stage = "live" /\ Deleted(v)
  /\ UNCHANGED <<rs, rsCache, vmCache, exp, queued, job, budget>>
CollectRS ==
  /\ rs.exists /\ rs.deleting /\ \A v \in VM : vms[v].stage \in {"absent", "gone"}
  /\ rs' = [rs EXCEPT !.exists = FALSE]
  /\ UNCHANGED <<rsCache, vms, vmCache, exp, queued, job, budget>>

\* The user; every change of the spec is a new generation.
UserDeletesVM(v) ==
  /\ Spend("vmDelete") /\ vms[v].stage = "live" /\ Deleted(v)
  /\ UNCHANGED <<rs, rsCache, vmCache, exp, queued, job>>

ChangeRS ==
  /\ budget > 0 /\ budget' = budget - 1
  /\ rs.exists /\ ~rs.deleting
  /\ \/ \E n \in 0..MaxReplicas \ {rs.replicas} :
          rs' = [rs EXCEPT !.replicas = n, !.generation = @ + 1]
     \/ rs' = [rs EXCEPT !.paused = ~@, !.generation = @ + 1]
     \/ "rsDelete" \in Faults /\ rs' = [rs EXCEPT !.exists = FALSE]
     \/ "rsDelete" \in Faults /\ rs' = [rs EXCEPT !.deleting = TRUE, !.generation = @ + 1]
  /\ UNCHANGED <<rsCache, vms, vmCache, exp, queued, job>>

Next ==
  \/ Reconcile \/ Restart \/ Panic
  \/ RSEvent \/ Expire \/ Resync \/ CollectRS \/ ChangeRS
  \/ \E v \in VM :
       VMEvent(v) \/ VMChanges(v) \/ VMRemoved(v) \/ CollectVM(v) \/ UserDeletesVM(v)

Spec == Init /\ [][Next]_vars

(***************************************************************************)
(* The work queue is served, informers deliver, and VMs that are deleted   *)
(* go.  Time passes: an expectation expires between two resyncs.           *)
(***************************************************************************)
Fairness ==
  /\ WF_vars(Reconcile)
  /\ WF_vars(RSEvent) /\ SF_vars(Expire) /\ WF_vars(Resync) /\ WF_vars(CollectRS)
  /\ \A v \in VM : WF_vars(VMEvent(v)) /\ WF_vars(VMRemoved(v)) /\ WF_vars(CollectVM(v))

FairSpec == Spec /\ Fairness

-----------------------------------------------------------------------------
\* However far the cache lags behind, a VM is created only if there are fewer
\* active ones than the replicas that Reconcile has read: the expectations keep
\* it from acting on a cache that does not show what it has created.
NoSurplus ==
  [][Cardinality(ActiveVMs') > Cardinality(ActiveVMs)
       => Cardinality(ActiveVMs') <= job.copy.replicas]_vars

\* A scale-down does not delete below the replicas that Reconcile has read,
\* although the VMs it has deleted stay in the cache for a while.  (A VM that
\* has ended in the meantime still counts, and a replica set that is deleted
\* has its VMs collected.)
KeepsReplicas ==
  [][job.delete # job'.delete /\ job'.step = "scale" /\ job.step = "scale"
       /\ rs.exists /\ ~rs.deleting
       => Cardinality(LiveVMs') >= job.copy.replicas]_vars

\* Once faults and requests stop, the active VMs are as many as asked for, and
\* finished ones are gone (the comment on Reconcile: "It ensures the desired
\* state matches the actual state in the cluster").
Converges ==
  <>[](rs.exists /\ ~rs.deleting /\ ~rs.paused =>
         /\ Cardinality(ActiveVMs) = rs.replicas
         /\ \A v \in VM : vms[v].stage # "absent" => vms[v].phase = "Active")

\* ... and the status says so, though it is computed before VMs are scaled.
StatusSettles ==
  <>[](rs.exists =>
         /\ rs.observed = rs.generation /\ rs.count = Cardinality(ActiveVMs)
         /\ rs.pausedCond = rs.paused /\ ~rs.failure)

\* The expectations of a deleted replica set are forgotten once its key is at
\* rest, also when Reconcile has raised them with a copy from before the
\* deletion: the next replica set of this name would inherit them.
NothingInherited == Quiet /\ ~rs.exists => exp = NoExpectations
=============================================================================
