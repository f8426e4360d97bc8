------------------------------ MODULE VMLaunch ------------------------------
(***************************************************************************)
(* From a manifest to a guest: the user creates and edits a VM, the        *)
(* webhooks fill in and check what is stored, virt-controller builds pods  *)
(* from its copy of the VM, and virt-prerunner configures the guest inside *)
(* the pod.  A guest that is migrated keeps its configuration in a pod     *)
(* built from a later spec.                                                *)
(*                                                                         *)
(* vm, cached, pod, target and config are <<>> or hold one element.        *)
(***************************************************************************)
EXTENDS Prerunner

CONSTANTS
  Manifest,   \* the manifests a user may create a VM from
  Edits(_),   \* what the user may make of a manifest
  VolumeName,
  CPU         \* the CPUs of a node

\* The fields of a spec.
Fields == {"runPolicy", "cpu", "memory", "requests", "limits", "kernel", "disks", "fileSystems",
           "interfaces", "volumes", "networks", "sidecars", "sidecarVolumes"}
ASSUME ManifestAssumption == \A m \in Manifest : DOMAIN m = Fields

VARIABLES
  request,    \* the manifest of the last request that was stored
  denied,     \* the manifest whose creation was denied
  vm,         \* the stored spec
  born,       \* the spec that was stored first
  cached,     \* the controller's copy of vm
  migratable, \* condition Migratable: "unknown", "True" or "False"
  claims,     \* the claims of the volumes
  pod,        \* the pod with the guest
  target,     \* the pod the guest is migrated to
  failed,     \* the prerunner of the pod has failed
  config      \* the configuration the guest was started with

vars == <<request, denied, vm, born, cached, migratable, claims, pod, target, failed, config>>
apiVars == <<request, denied, vm, born>>
podVars == <<pod, target, failed, config>>

Init ==
  /\ request = <<>> /\ denied = <<>> /\ vm = <<>> /\ born = <<>> /\ cached = <<>>
  /\ migratable = "unknown" /\ claims = [v \in VolumeName |-> "none"]
  /\ pod = <<>> /\ target = <<>> /\ failed = FALSE /\ config = <<>>

-----------------------------------------------------------------------------
\* The API server calls both webhooks.  A denied request changes nothing: a creation
\* after one is as a creation before it, and is left out.
CreateVM(m) ==
  LET spec == MutateVM(m, <<>>, 10)
  IN  /\ vm = <<>> /\ denied = <<>>
      /\ IF ValidateVMSpec(spec)
         THEN request' = <<m>> /\ vm' = <<spec>> /\ born' = <<spec>> /\ UNCHANGED denied
         ELSE denied' = <<m>> /\ UNCHANGED <<request, vm, born>>
      /\ UNCHANGED <<cached, migratable, claims, podVars>>

Admitted(spec) == ValidateVMSpec(spec) /\ ValidateVMUpdate(spec, vm[1])

UpdateVM(m) ==
  LET spec == MutateVM(m, vm[1].interfaces, 20)
  IN  /\ Admitted(spec)
      /\ request' = <<m>> /\ vm' = <<spec>>
      /\ UNCHANGED <<denied, born, cached, migratable, claims, podVars>>

SyncVM ==
  /\ cached # vm /\ cached' = vm
  /\ UNCHANGED <<apiVars, migratable, claims, podVars>>

\* The claims of the VM's volumes are created, bound and populated.
ClaimStep(v) ==
  /\ vm # <<>> /\ \E w \in VolumesOf(vm[1]) : w.name = v /\ OnClaim(w)
  /\ claims[v] # "populated"
  /\ claims' = [claims EXCEPT ![v] = CASE @ = "none" -> "pending" [] @ = "pending" -> "bound"
                                      [] OTHER -> "populated"]
  /\ UNCHANGED <<apiVars, cached, migratable, podVars>>

-----------------------------------------------------------------------------
CreatePod ==
  /\ cached # <<>> /\ pod = <<>> /\ Builds(cached[1], claims)
  /\ pod' = <<buildVMPod(cached[1])>>
  /\ UNCHANGED <<apiVars, cached, migratable, claims, target, failed, config>>

\* The kubelet's static policy gives a container of a Guaranteed pod with an integer
\* number of CPUs that many CPUs, and any other the shared ones.
Guaranteed(spec) ==
  /\ spec.sidecars # "burstable"
  /\ spec.requests.cpu = spec.limits.cpu /\ spec.requests.cpu # 0
  /\ spec.requests.memory = spec.limits.memory /\ spec.requests.memory # 0
Assignable(spec) ==
  IF Guaranteed(spec) /\ spec.limits.cpu % 2 = 0
  THEN {cpus \in SUBSET CPU : 2 * Cardinality(cpus) = spec.limits.cpu} ELSE {CPU}

\* The containers of the pod start.
Prerun(cpus) ==
  /\ pod # <<>> /\ config = <<>> /\ ~failed
  /\ cpus \in Assignable(pod[1].data)
  /\ IF ConfigBuilds(pod[1], Format(cpus))
     THEN config' = <<buildVMConfig(pod[1], Format(cpus))>> /\ UNCHANGED failed
     ELSE failed' = TRUE /\ UNCHANGED config
  /\ UNCHANGED <<apiVars, cached, migratable, claims, pod, target>>

\* The condition is computed once in a run.
reconcileVMConditions ==
  /\ pod # <<>> /\ cached # <<>> /\ migratable = "unknown"
  /\ migratable' = IF calculateMigratableCondition(cached[1]) THEN "True" ELSE "False"
  /\ UNCHANGED <<apiVars, cached, claims, podVars>>

\* A migration is admitted (ValidateVMName) if the condition is True.
CreateTargetPod ==
  /\ config # <<>> /\ target = <<>> /\ migratable = "True" /\ Builds(cached[1], claims)
  /\ target' = <<buildVMPod(cached[1])>>
  /\ UNCHANGED <<apiVars, cached, migratable, claims, pod, failed, config>>

\* The guest has moved, or has not; the other pod is deleted.  The prerunner of the
\* target sets up its network before a guest can arrive.
Migrated ==
  /\ target # <<>> /\ target' = <<>>
  /\ pod' \in (IF ConfigBuilds(target[1], Format(CPU)) THEN {pod, target} ELSE {pod})
  /\ UNCHANGED <<apiVars, cached, migratable, claims, failed, config>>

\* The run ends, its pod is deleted and the status is reset.
EndRun ==
  /\ pod # <<>> /\ target = <<>>
  /\ pod' = <<>> /\ failed' = FALSE /\ config' = <<>> /\ migratable' = "unknown"
  /\ UNCHANGED <<apiVars, cached, claims, target>>

Next ==
  \/ \E m \in Manifest : CreateVM(m)
  \/ request # <<>> /\ \E m \in Edits(request[1]) : UpdateVM(m)
  \/ SyncVM \/ \E v \in VolumeName : ClaimStep(v)
  \/ CreatePod \/ \E cpus \in SUBSET CPU : Prerun(cpus)
  \/ reconcileVMConditions \/ CreateTargetPod \/ Migrated \/ EndRun

Spec == Init /\ [][Next]_vars

-----------------------------------------------------------------------------
\* The documents' rules that the webhook leaves to the user: one interface at most on
\* the pod network, and masquerade nowhere else.  A sidecar without resources takes the
\* CPUs of a dedicated VM away, and so does a CPU request that is not a whole number;
\* vhost-user needs a Multus network, and two such interfaces the userspace CNI.
Documented(spec) ==
  LET onPod(i) == \E n \in Range(spec.networks) :
                    n.name = spec.interfaces[i].name /\ "pod" \in n.sources
  IN  /\ \A i, j \in DOMAIN spec.interfaces : onPod(i) /\ onPod(j) => i = j
      /\ \A i \in DOMAIN spec.interfaces :
           /\ "masquerade" \in spec.interfaces[i].methods => onPod(i)
           /\ "vhostUser" \in spec.interfaces[i].methods => ~onPod(i)
      /\ \A i, j \in DOMAIN spec.interfaces :
           i # j /\ "vhostUser" \in spec.interfaces[i].methods \cap spec.interfaces[j].methods =>
             \A n \in Range(spec.networks) : n.nad # "kube-ovn"
      /\ spec.cpu.dedicated => spec.sidecars # "burstable" /\ spec.requests.cpu % 2 = 0

\* Applying the same manifest once more is admitted and changes nothing: the webhook
\* generates no second MAC and its defaults are those of the first time.
ReapplyIsNoChange ==
  vm # <<>> => LET spec == MutateVM(request[1], vm[1].interfaces, 30)
               IN  Admitted(spec) /\ spec = vm[1]

\* After any number of updates the VM is the one that was created, but for its run
\* policy, its disks and its hotpluggable volumes.
PartsKept ==
  vm # <<>> =>
    /\ vm[1] = [born[1] EXCEPT !.runPolicy = vm[1].runPolicy, !.disks = vm[1].disks, !.volumes = vm[1].volumes]
    /\ {v \in VolumesOf(vm[1]) : ~IsHotpluggable(v)} = {v \in VolumesOf(born[1]) : ~IsHotpluggable(v)}

\* The condition Migratable, computed once and from a copy that may be old, is right for
\* the VM as it is.
MigratableHolds ==
  migratable # "unknown" => (migratable = "True" <=> calculateMigratableCondition(vm[1]))

\* A VM that gives no resources is not denied for those MutateVM has filled in.
DefaultsAdmitted ==
  denied # <<>> /\ (\A rs \in {denied[1].requests, denied[1].limits} :
                      rs.cpu = 0 /\ rs.memory = 0 /\ rs.hugepages = 0)
    => ~ValidateParts(MutateVM(denied[1], <<>>, 10))

\* The API server takes the pod: names are unique and what is mounted is a volume.
PodIsValid ==
  \A p \in Range(pod) : Documented(p.data) =>
    /\ \A i, j \in DOMAIN p.inits : p.inits[i].name = p.inits[j].name => i = j
    /\ \A i, j \in DOMAIN p.volumes : p.volumes[i] = p.volumes[j] => i = j
    /\ \A i, j \in DOMAIN p.mounts : p.mounts[i].path = p.mounts[j].path => i = j
    /\ \A m \in Range(p.mounts \o p.devices) \cup UNION {Range(c.mounts) : c \in Range(p.inits)} :
         m.volume \in Range(p.volumes)

\* What the webhook admits and the controller builds, the prerunner can set up.
PrerunnerSucceeds == failed => ~Documented(pod[1].data)

\* Each vCPU of a VM with dedicated CPUs has a CPU of its own.
PinnedOneToOne ==
  \A c \in Range(config) : born[1].cpu.dedicated =>
    /\ Len(c.affinity) = c.vcpus
    /\ \A i, j \in DOMAIN c.affinity : i # j => c.affinity[i] \cap c.affinity[j] = {}

Reaches(p, path) ==
  \/ \E d \in Range(p.devices) : d.path = path
  \/ \E m \in Range(p.mounts) : IsStrictPrefix(m.path, path)

\* Whatever the guest was configured with is in its pod, and still is after a migration
\* to a pod built from a later spec: a device for a block volume, a directory with the
\* file for the others.  File systems on block or hotpluggable volumes aside.
GuestReachesDisks ==
  config # <<>> =>
    /\ \A d \in config[1].disks : Reaches(pod[1], d.path)
    /\ \A k \in Range(config[1].kernel) : Reaches(pod[1], k)
    /\ \A path \in config[1].fileSystems :
         \/ \E m \in Range(pod[1].mounts) : m.path = path
         \/ \E v \in VolumesOf(pod[1].data) : <<"mnt", v.name>> = path /\ (v.name \in Block \/ IsHotpluggable(v))

\* Every masquerade subnet that is admitted has an address for the bridge and another one
\* for the guest, neither of them the first or the last of the subnet.
AddressesUsable ==
  \A c \in Range(config) : \A n \in Range(c.net) : n.guest # <<>> =>
    LET offset(ip) == Value(ip) - Value(n.subnet.ip)
    IN  /\ n.guest # n.bridge
        /\ {offset(n.guest), offset(n.bridge)} \subseteq 1..(HostSize(n.subnet.ones) - 2)
=============================================================================
