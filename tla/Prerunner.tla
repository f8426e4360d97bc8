----------------------------- MODULE Prerunner -----------------------------
(***************************************************************************)
(* virt-prerunner (cmd/virt-prerunner): the first process in the container *)
(* of the hypervisor.  It sets up the network and writes the configuration *)
(* of the guest, from the VM as it was when the pod was built, the pod's   *)
(* environment and the cgroup's CPUs.  Its failure is the pod's failure.   *)
(***************************************************************************)
EXTENDS VMPod, CPUSet

\* One vCPU on each CPU of the cgroup, in ascending order.  Mutant: each on all of them.
AffinityToAll(cpus) == [i \in 1..Cardinality(cpus) |-> cpus]
Affinity(cpus) == LET pcpus == ToSlice(cpus) IN [i \in DOMAIN pcpus |-> {pcpus[i]}]

\* Where the hypervisor finds a disk.
DiskPath(volume, block) ==
  CASE "containerDisk" \in volume.sources -> <<"mnt", volume.name, "disk.raw">>
    [] "cloudInit" \in volume.sources -> <<"mnt", volume.name, "cloud-init.iso">>
    [] "containerRootfs" \in volume.sources -> <<"mnt", volume.name, "rootfs.raw">>
    [] IsHotpluggable(volume) -> IF volume.name \in block THEN <<"hotplug-volumes", volume.name>>
                                 ELSE <<"hotplug-volumes", volume.name, ".img">>
    [] OTHER -> IF volume.name \in block THEN <<"mnt", volume.name>>
                ELSE <<"mnt", volume.name, "disk.img">>

\* A disk without a volume is left out.
Disks(spec, block) ==
  {[id |-> v.name, path |-> DiskPath(v, block)] :
     v \in {w \in VolumesOf(spec) : \E d \in Range(spec.disks) : d.name = w.name}}

\* The directories virtiofsd serves: those of volumes, and any other that exists.
FileSystems(pod) ==
  {<<"mnt", fs.name>> : fs \in {f \in Range(pod.data.fileSystems) :
     \/ \E v \in VolumesOf(pod.data) : v.name = f.name
     \/ \E m \in Range(pod.mounts) : m.path = <<"mnt", f.name>>}}

-----------------------------------------------------------------------------
\* The network.  links are the names of the links in the pod's network namespace;
\* adding one that exists fails.

linkName(spec, i) == IF "pod" \in spec.networks[i].sources THEN <<"eth0">> ELSE <<"net", i>>

LinkMAC == 0   \* the MAC the link had

LinkAdd(ns, names) ==
  [ns EXCEPT !.ok = @ /\ names \cap ns.links = {}, !.links = @ \cup names]

\* The bridge gets an address of a link-local /30 of its own.  A link with an address
\* hands its MAC and its address to the guest: it is renamed, and a dummy takes its
\* name and keeps the address.
setupBridgeNetwork(ns, link, iface, i) ==
  LET subnet == ParseCIDR(<<[AddressOf(1) EXCEPT ![Bytes - 1] = i], Bits - 2>>)
      added == {<<"br">> \o link, <<"tap">> \o link}
  IN  [LinkAdd(ns, IF link \in ns.addressed THEN added \cup {link \o <<"nic">>} ELSE added) EXCEPT
        !.ok = @ /\ InSubnet(subnet, nextIP(subnet.ip)),
        !.net = Append(@, [id |-> iface.name, tap |-> <<"tap">> \o link, mac |-> LinkMAC,
                           bridge |-> nextIP(subnet.ip), guest |-> <<>>, subnet |-> subnet])]

\* The bridge gets the first address of the subnet and the guest the second.  Mutant:
\* they follow the address the user has written.
FromGivenIP(cidr) == nextIP(cidr[1])
BridgeIP(cidr) == nextIP(ParseCIDR(cidr).ip)

setupMasqueradeNetwork(ns, link, iface) ==
  LET subnet == ParseCIDR(iface.cidr)
      bridgeIP == BridgeIP(iface.cidr)
      vmIP == nextIP(bridgeIP)
  IN  [LinkAdd(ns, {<<"br">> \o link, <<"tap">> \o link}) EXCEPT
        !.ok = @ /\ InSubnet(subnet, bridgeIP) /\ InSubnet(subnet, vmIP),
        !.net = Append(@, [id |-> iface.name, tap |-> <<"tap">> \o link, mac |-> iface.mac,
                           bridge |-> bridgeIP, guest |-> vmIP, subnet |-> subnet])]

\* Without a vhost-user network in the pod's environment there is no NET_TYPE.
setupVhostUserNetwork(ns, pod, iface) ==
  [ns EXCEPT
    !.ok = @ /\ \E e \in Range(pod.env) : e[1] = "NET_TYPE",
    !.net = Append(@, [id |-> iface.name, tap |-> <<>>, mac |-> iface.mac,
                       bridge |-> <<>>, guest |-> <<>>, subnet |-> <<>>])]

\* The interface with its network, if it has one.  SR-IOV and vDPA devices need no
\* setup: the configuration names what the CNI reports.
SetupInterface(ns, pod, iface) ==
  LET matches == {i \in DOMAIN pod.data.networks : pod.data.networks[i].name = iface.name}
      i == Min(matches)
      link == linkName(pod.data, i)
  IN  CASE matches = {} -> ns
        [] "bridge" \in iface.methods -> setupBridgeNetwork(ns, link, iface, i)
        [] "masquerade" \in iface.methods -> setupMasqueradeNetwork(ns, link, iface)
        [] "vhostUser" \in iface.methods -> setupVhostUserNetwork(ns, pod, iface)
        [] OTHER -> ns

\* What the CNI has left in the namespace: the pod's link with an address, and one
\* link for each Multus network.
PodNamespace(pod) ==
  [ok |-> TRUE, net |-> <<>>, addressed |-> {<<"eth0">>},
   links |-> {<<"eth0">>} \cup {linkName(pod.data, i) : i \in DOMAIN pod.data.networks}]

Network(pod) ==
  FoldLeft(LAMBDA ns, iface : SetupInterface(ns, pod, iface), PodNamespace(pod), pod.data.interfaces)

-----------------------------------------------------------------------------
\* cpuset is what the kernel prints for the cgroup of the container.
ConfigBuilds(pod, cpuset) ==
  /\ pod.data.cpu.dedicated => Parses(cpuset) /\ Len(ToSlice(Parse(cpuset))) = vCPUs(pod.data)
  /\ Network(pod).ok

buildVMConfig(pod, cpuset) ==
  [vcpus |-> vCPUs(pod.data),
   affinity |-> IF pod.data.cpu.dedicated THEN Affinity(Parse(cpuset)) ELSE <<>>,
   kernel |-> IF pod.data.kernel = "none" THEN <<>> ELSE <<<<"mnt", "virtink-kernel", "vmlinux">>>>,
   disks |-> Disks(pod.data, pod.block),
   fileSystems |-> FileSystems(pod),
   net |-> Network(pod).net]
=============================================================================
