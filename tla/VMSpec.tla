------------------------------- MODULE VMSpec -------------------------------
(***************************************************************************)
(* The spec of a VirtualMachine as its webhooks see it (pkg/controller/    *)
(* vm_webhook.go): MutateVM fills in what a manifest leaves out, ValidateVM*)
(* decides whether the result is stored.                                   *)
(*                                                                         *)
(* CPU quantities are counted in halves of a CPU and memory in units of    *)
(* 256Mi, 0 is a quantity that is not given, "" a name that is not given.  *)
(* A volume, a network and a kernel say whether the required field of      *)
(* their source is set ("complete"); several sources or binding methods    *)
(* may be given at once.  MACs are numbers: 0 is none, a negative one does *)
(* not parse.  Sockets and cores are small: their product fits a uint32.   *)
(***************************************************************************)
EXTENDS Subnet, SequencesExt

memoryOverhead == 1
DefaultSize == 4
DefaultCIDR == <<AddressOf(2^(ByteBits + 1)), Bits - 2>>

vCPUs(spec) == spec.cpu.sockets * spec.cpu.coresPerSocket
Given(q, default) == IF q # 0 THEN q ELSE default
Hugepages(spec) == spec.memory.pageSize # 0

-----------------------------------------------------------------------------
\* MutateVM

DefaultSizes(spec) ==
  [spec EXCEPT
    !.runPolicy = IF @ = "" THEN "Once" ELSE @,
    !.cpu.sockets = Given(@, 1), !.cpu.coresPerSocket = Given(@, 1),
    !.memory.size = Given(@, Given(spec.requests.memory, DefaultSize))]

Required(spec) == memoryOverhead + (IF Hugepages(spec) THEN 0 ELSE spec.memory.size)

\* Mutant: the guest's memory without what the hypervisor needs.
DefaultDedicatedBare(spec) ==
  LET fill(rs) == [rs EXCEPT !.cpu = Given(@, 2 * vCPUs(spec)), !.memory = Given(@, spec.memory.size)]
  IN  IF spec.cpu.dedicated
      THEN [spec EXCEPT !.requests = fill(@), !.limits = fill(@)] ELSE spec
DefaultDedicated(spec) ==
  LET fill(rs) == [rs EXCEPT !.cpu = Given(@, 2 * vCPUs(spec)), !.memory = Given(@, Required(spec))]
  IN  IF spec.cpu.dedicated
      THEN [spec EXCEPT !.requests = fill(@), !.limits = fill(@)] ELSE spec

NoCPUOrMemory(spec) ==
  \A rs \in {spec.requests, spec.limits} : rs.cpu = 0 /\ rs.memory = 0

DefaultHugepages(spec) ==
  LET limit == Given(spec.limits.hugepages, spec.memory.size)
  IN  IF Hugepages(spec)
      THEN [spec EXCEPT
             !.limits.hugepages = limit,
             !.requests.hugepages = Given(@, limit),
             !.requests.memory = IF NoCPUOrMemory(spec) THEN memoryOverhead ELSE @]
      ELSE spec

\* The MAC that the VM already has for an interface of this name.  Mutant: the old
\* VM is not looked at.
KnownMACIgnored(name, old) == 0
KnownMAC(name, old) ==
  LET same == SelectSeq(old, LAMBDA iface : iface.name = name)
  IN  IF same = <<>> THEN 0 ELSE same[1].mac

DefaultInterface(iface, old, generated) ==
  LET methods == IF iface.methods = {} THEN {"bridge"} ELSE iface.methods
  IN  [iface EXCEPT
        !.mac = Given(@, Given(KnownMAC(iface.name, old), generated)),
        !.methods = methods,
        !.cidr = IF "masquerade" \in methods /\ @ = <<>> THEN DefaultCIDR ELSE @]

\* old is the interfaces of the VM that is updated, <<>> on creation; the i-th
\* interface gets the MAC generated + i if it needs one.
MutateVM(spec, old, generated) ==
  [DefaultHugepages(DefaultDedicated(DefaultSizes(spec))) EXCEPT
    !.interfaces = [i \in DOMAIN @ |-> DefaultInterface(@[i], old, generated + i)]]

-----------------------------------------------------------------------------
\* ValidateVM: TRUE when the list of errors is empty.

NoDuplicate(items) ==
  \A i, j \in DOMAIN items : items[i].name = items[j].name => i = j
Named(items) == \A i \in DOMAIN items : items[i].name # ""

\* Quantity.Value rounds up.
ValidateDedicated(spec) ==
  /\ spec.requests.cpu # 0 /\ (spec.requests.cpu + 1) \div 2 = vCPUs(spec)
  /\ spec.limits.cpu = spec.requests.cpu
  /\ spec.requests.memory >= Required(spec) /\ spec.limits.memory = spec.requests.memory

ValidateHugepages(spec) ==
  /\ ~NoCPUOrMemory(spec)
  /\ spec.requests.hugepages = spec.memory.size
  /\ spec.limits.hugepages = spec.requests.hugepages

ValidateCPU(cpu) == cpu.sockets # 0 /\ cpu.coresPerSocket # 0
ValidateMemory(memory) ==
  memory.size > 0 /\ (memory.pageSize # 0 => memory.size % memory.pageSize = 0)
ValidateKernel(kernel) == kernel # "incomplete"
ValidateMAC(mac) == mac > 0

\* Exactly one binding method.
ValidateInterfaceBindingMethod(iface) ==
  /\ \E method \in iface.methods : iface.methods = {method}
  /\ "masquerade" \in iface.methods => ValidateCIDR(iface.cidr, 4)

ValidateInterface(iface, spec) ==
  /\ "vhostUser" \in iface.methods => spec.cpu.dedicated /\ Hugepages(spec)
  /\ iface.name # "" /\ ValidateMAC(iface.mac) /\ ValidateInterfaceBindingMethod(iface)

\* Disks and file systems share their names.
ValidateInstance(spec) ==
  /\ ValidateCPU(spec.cpu) /\ ValidateMemory(spec.memory) /\ ValidateKernel(spec.kernel)
  /\ NoDuplicate(spec.disks \o spec.fileSystems) /\ Named(spec.disks) /\ Named(spec.fileSystems)
  /\ NoDuplicate(spec.interfaces)
  /\ \A i \in DOMAIN spec.interfaces : ValidateInterface(spec.interfaces[i], spec)

ValidateCloudInit(volume) ==
  \A data \in {volume.userData, volume.networkData} : \A x, y \in data : x = y

\* Exactly one source, with its required fields.
ValidateVolumeSource(volume) ==
  /\ \E source \in volume.sources : volume.sources = {source}
  /\ IF "cloudInit" \in volume.sources THEN ValidateCloudInit(volume) ELSE volume.complete
ValidateVolume(volume) == volume.name # "" /\ ValidateVolumeSource(volume)

ValidateNetworkSource(network) ==
  /\ \E source \in network.sources : network.sources = {source}
  /\ "multus" \in network.sources => network.complete
ValidateNetwork(network) == network.name # "" /\ ValidateNetworkSource(network)

\* What is asked of a spec apart from its resources.
ValidateParts(spec) ==
  /\ ValidateInstance(spec)
  /\ NoDuplicate(spec.volumes) /\ \A i \in DOMAIN spec.volumes : ValidateVolume(spec.volumes[i])
  /\ NoDuplicate(spec.networks) /\ \A i \in DOMAIN spec.networks : ValidateNetwork(spec.networks[i])

ValidateVMSpec(spec) ==
  /\ spec.cpu.dedicated => ValidateDedicated(spec)
  /\ Hugepages(spec) => ValidateHugepages(spec)
  /\ ValidateParts(spec)

OnClaim(volume) == volume.sources \cap {"persistentVolumeClaim", "dataVolume"} # {}
IsHotpluggable(volume) == OnClaim(volume) /\ volume.hotpluggable

VolumesOf(spec) == {spec.volumes[i] : i \in DOMAIN spec.volumes}

\* Mutant: what is added is not looked at.
ValidateVolumesKept(spec, old) ==
  \A was \in VolumesOf(old) :
    IF \E is \in VolumesOf(spec) : is.name = was.name
    THEN was \in VolumesOf(spec) ELSE IsHotpluggable(was)
\* A volume that stays is not changed, one that comes or goes is hotpluggable.
ValidateVolumes(spec, old) ==
  /\ \A was \in VolumesOf(old) :
       IF \E is \in VolumesOf(spec) : is.name = was.name
       THEN was \in VolumesOf(spec) ELSE IsHotpluggable(was)
  /\ \A is \in VolumesOf(spec) :
       (\A was \in VolumesOf(old) : was.name # is.name) => IsHotpluggable(is)

\* Mutant: the file systems, too, may be updated.
ValidateVMUpdateMore(spec, old) ==
  /\ [old EXCEPT !.runPolicy = spec.runPolicy, !.volumes = spec.volumes,
                 !.disks = spec.disks, !.fileSystems = spec.fileSystems] = spec
  /\ ValidateVolumes(spec, old)
\* Nothing but runPolicy, volumes and disks is updated.
ValidateVMUpdate(spec, old) ==
  /\ [old EXCEPT !.runPolicy = spec.runPolicy, !.volumes = spec.volumes, !.disks = spec.disks] = spec
  /\ ValidateVolumes(spec, old)
=============================================================================
