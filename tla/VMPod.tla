------------------------------- MODULE VMPod -------------------------------
(***************************************************************************)
(* The pod that virt-controller builds for a VM (buildVMPod): the pod's    *)
(* volumes, the init containers, and what the container of the hypervisor  *)
(* mounts and finds in its environment.                                    *)
(*                                                                         *)
(* Names and paths are sequences: <<"mnt", "a">> is /mnt/a, and            *)
(* <<"init-volume", "a">> is init-volume-a.                                *)
(***************************************************************************)
EXTENDS VMSpec

CONSTANT Block   \* the names of the volumes whose claims are block devices

Nothing == [volumes |-> <<>>, mounts |-> <<>>, devices |-> <<>>, inits |-> <<>>, env |-> <<>>]
Plus(pod, part) ==
  [volumes |-> pod.volumes \o part.volumes, mounts |-> pod.mounts \o part.mounts,
   devices |-> pod.devices \o part.devices, inits |-> pod.inits \o part.inits,
   env |-> pod.env \o part.env]
Sum(parts) == FoldLeft(Plus, Nothing, parts)
Mount(volume, path) == [volume |-> volume, path |-> path]
Container(name, mounts) == [name |-> name, mounts |-> mounts]
If(condition, part) == IF condition THEN part ELSE Nothing

BasePart ==
  [Nothing EXCEPT
    !.volumes = <<<<"virtink">>, <<"hotplug-volumes">>>>,
    !.mounts = <<Mount(<<"virtink">>, <<"var", "run", "virtink">>),
                 Mount(<<"hotplug-volumes">>, <<"hotplug-volumes">>)>>]

KernelPart ==
  LET mount == Mount(<<"virtink-kernel">>, <<"mnt", "virtink-kernel">>)
  IN  [Nothing EXCEPT !.volumes = <<mount.volume>>, !.mounts = <<mount>>,
                      !.inits = <<Container(<<"init-kernel">>, <<mount>>)>>]

HugepagesPart ==
  [Nothing EXCEPT !.volumes = <<<<"hugepages">>>>,
                  !.mounts = <<Mount(<<"hugepages">>, <<"dev", "hugepages">>)>>]

At(volume) == Mount(<<volume.name>>, <<"mnt", volume.name>>)

\* A container disk or root file system: an init container fills an empty directory.
ContainerPart(volume) ==
  [Nothing EXCEPT
    !.volumes = <<<<volume.name>>>>, !.mounts = <<At(volume)>>,
    !.inits = <<Container(<<"init-volume", volume.name>>, <<At(volume)>>)>>]

\* The secret with the user data is mounted in the init container, the one with the
\* network data in the hypervisor's container.
CloudInitPart(volume) ==
  LET user == Mount(<<"virtink-cloud-init-user-data">>, <<"mnt", "virtink-cloud-init-user-data">>)
      network == Mount(<<"virtink-cloud-init-network-data">>, <<"mnt", "virtink-cloud-init-network-data">>)
      users == IF volume.userData = {"secret"} THEN <<user>> ELSE <<>>
      networks == IF volume.networkData = {"secret"} THEN <<network>> ELSE <<>>
  IN  [Nothing EXCEPT
        !.volumes = [i \in DOMAIN users |-> users[i].volume]
                    \o [i \in DOMAIN networks |-> networks[i].volume] \o <<<<volume.name>>>>,
        !.mounts = networks \o <<At(volume)>>,
        !.inits = <<Container(<<"init-volume", volume.name>>, users \o <<At(volume)>>)>>]

\* A claim is mounted, or is a device of the container, unless it is hotpluggable:
\* then it comes to /hotplug-volumes later.  Mutant: it is always mounted.
ClaimPartMounted(volume) ==
  IF IsHotpluggable(volume) THEN Nothing
  ELSE [Nothing EXCEPT !.volumes = <<<<volume.name>>>>, !.mounts = <<At(volume)>>]
ClaimPart(volume) ==
  IF IsHotpluggable(volume) THEN Nothing
  ELSE [Nothing EXCEPT
         !.volumes = <<<<volume.name>>>>,
         !.mounts = IF volume.name \in Block THEN <<>> ELSE <<At(volume)>>,
         !.devices = IF volume.name \in Block THEN <<At(volume)>> ELSE <<>>]

VolumePart(volume) ==
  CASE volume.sources \cap {"containerDisk", "containerRootfs"} # {} -> ContainerPart(volume)
    [] "cloudInit" \in volume.sources -> CloudInitPart(volume)
    [] OTHER -> ClaimPart(volume)

IfaceOf(spec, network) == SelectSeq(spec.interfaces, LAMBDA iface : iface.name = network.name)

\* Mutant: the container's name has no index.
ArpContainerUnnumbered(i) == Container(<<"enable-arp-ignore">>, <<>>)
ArpContainer(i) == Container(<<"enable-arp-ignore", i>>, <<>>)

\* The socket directory of a vhost-user interface; the volume is the one the network
\* attachment definition names, or is shared by all interfaces of the userspace CNI.
VhostUserPart(network, first) ==
  LET volume == IF network.nad = "kube-ovn" THEN <<"socket", network.name>> ELSE <<"vhost-user-sockets">>
  IN  If(network.nad = "kube-ovn" \/ first,
         [Nothing EXCEPT !.volumes = <<volume>>,
                         !.mounts = <<Mount(volume, <<"var", "run", "vhost-user">>)>>,
                         !.env = <<<<"NET_TYPE", network.nad>>>>])

\* The i-th network of the spec, counted from 1, with its interface.
NetworkPart(spec, i) ==
  LET network == spec.networks[i]
      iface == IfaceOf(spec, network)[1]
      userspace(k) == spec.networks[k].nad = "userspace"
                      /\ "vhostUser" \in IfaceOf(spec, spec.networks[k])[1].methods
  IN  Sum(<<If("masquerade" \in iface.methods,
               [Nothing EXCEPT !.inits = <<Container(<<"enable-ip-forward">>, <<>>)>>]),
            If("bridge" \in iface.methods, [Nothing EXCEPT !.inits = <<ArpContainer(i)>>]),
            If("multus" \in network.sources,
               [Nothing EXCEPT !.env = <<<<"NETWORK_STATUS", network.name>>>>]),
            If("multus" \in network.sources /\ "vhostUser" \in iface.methods,
               VhostUserPart(network, \A k \in 1..(i - 1) : ~userspace(k)))>>)

\* Sidecar volumes that a file system uses are mounted for virtiofsd.
SidecarPart(spec) ==
  LET used == SelectSeq(spec.fileSystems, LAMBDA fs : \E v \in Range(spec.sidecarVolumes) : v.name = fs.name)
  IN  [Nothing EXCEPT
        !.volumes = [i \in DOMAIN spec.sidecarVolumes |-> <<spec.sidecarVolumes[i].name>>],
        !.mounts = [i \in DOMAIN used |-> At(used[i])]]

-----------------------------------------------------------------------------
\* volumeutil: a claim is "none" (not found), "pending", "bound" or "populated".
IsReady(volume, claims) == "dataVolume" \notin volume.sources \/ claims[volume.name] = "populated"

\* A claim that is not found is an error; a data volume that is not populated is
\* waited for once its claim has left Pending.
VolumeBuilds(volume, claims) ==
  OnClaim(volume) =>
    /\ claims[volume.name] # "none"
    /\ IsReady(volume, claims) \/ claims[volume.name] = "pending"

\* Every network has its interface and, with Multus, its definition, which must be of
\* a known type for vhost-user.
NetworkBuilds(spec, network) ==
  /\ IfaceOf(spec, network) # <<>>
  /\ "multus" \in network.sources =>
       /\ network.nad # "none"
       /\ "vhostUser" \in IfaceOf(spec, network)[1].methods => network.nad \in {"kube-ovn", "userspace"}

\* buildVMPod returns a pod, not an error.
Builds(spec, claims) ==
  /\ \A i \in DOMAIN spec.volumes : VolumeBuilds(spec.volumes[i], claims)
  /\ \A i \in DOMAIN spec.networks : NetworkBuilds(spec, spec.networks[i])

buildVMPod(spec) ==
  LET parts == Sum(<<BasePart, If(spec.kernel # "none", KernelPart), If(Hugepages(spec), HugepagesPart),
                     Sum([i \in DOMAIN spec.volumes |-> VolumePart(spec.volumes[i])]),
                     Sum([i \in DOMAIN spec.networks |-> NetworkPart(spec, i)]), SidecarPart(spec)>>)
  IN  parts @@ [data |-> spec,
                block |-> {v.name : v \in {w \in VolumesOf(spec) : OnClaim(w) /\ w.name \in Block}}]

-----------------------------------------------------------------------------
\* The Migratable condition.
calculateMigratableCondition(spec) ==
  /\ ~spec.cpu.dedicated /\ spec.fileSystems = <<>>
  /\ \A network \in Range(spec.networks), iface \in Range(spec.interfaces) :
       iface.name = network.name =>
         /\ ~("pod" \in network.sources /\ "bridge" \in iface.methods)
         /\ iface.methods \cap {"sriov", "vhostUser"} = {}
  /\ \A volume \in VolumesOf(spec) :
       volume.sources \cap {"containerRootfs", "containerDisk"} = {}
=============================================================================
