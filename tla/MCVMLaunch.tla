----------------------------- MODULE MCVMLaunch -----------------------------
(***************************************************************************)
(* Manifests for VMLaunch.  Each varies one aspect of a VM: its CPUs and   *)
(* memory, its volumes, or its networks.                                   *)
(***************************************************************************)
EXTENDS VMLaunch

NoResources == [cpu |-> 0, memory |-> 0, hugepages |-> 0]
Volume(n, s) ==
  [name |-> n, sources |-> s, complete |-> TRUE, hotpluggable |-> FALSE, userData |-> {}, networkData |-> {}]
Claim(n, s, hot) == [Volume(n, {s}) EXCEPT !.hotpluggable = hot]
Item(n) == [name |-> n]

Base ==
  [runPolicy |-> "", cpu |-> [sockets |-> 0, coresPerSocket |-> 0, dedicated |-> FALSE],
   memory |-> [size |-> 0, pageSize |-> 0], requests |-> NoResources, limits |-> NoResources,
   kernel |-> "none", disks |-> <<Item("a")>>, fileSystems |-> <<>>, interfaces |-> <<>>,
   volumes |-> <<Volume("a", {"containerDisk"})>>, networks |-> <<>>, sidecars |-> "none",
   sidecarVolumes |-> <<>>]

\* CPUs and memory: 3 half CPUs are rounded up to 2, 5 is the memory of 4 with overhead.
Resources ==
  {[Base EXCEPT !.cpu = [sockets |-> s, coresPerSocket |-> c, dedicated |-> d],
                !.memory = [size |-> m, pageSize |-> h],
                !.requests = r, !.limits = l] :
     s \in {0, 2}, c \in {0, 1}, d \in BOOLEAN, m \in {0, 6}, h \in {0, 4},
     r \in [cpu : {0, 3, 4}, memory : {0, 5}, hugepages : {0, 4}],
     l \in [cpu : {0, 4}, memory : {0, 5}, hugepages : {0, 4}]}
  \cup {[Base EXCEPT !.cpu.dedicated = TRUE, !.sidecars = "burstable"]}

Sources(n) ==
  {Volume(n, {s}) : s \in {"containerDisk", "cloudInit", "containerRootfs"}}
  \cup {Claim(n, s, hot) : s \in {"persistentVolumeClaim", "dataVolume"}, hot \in BOOLEAN}
Secrets(n) ==
  {[Volume(n, {"cloudInit"}) EXCEPT !.userData = u, !.networkData = w] :
     u \in {{"secret"}, {"inline", "secret"}}, w \in {{}, {"secret"}}}
Unsound(n) == {Volume(n, {}), Volume(n, {"cloudInit", "dataVolume"}),
               [Volume(n, {"containerDisk"}) EXCEPT !.complete = FALSE]}

VolumeLists ==
  {<<v>> : v \in Sources("a") \cup Secrets("a") \cup Unsound("a") \cup Unsound("")}
  \cup {<<v, w>> : v \in Sources("a"), w \in Sources("b")}
  \cup {<<Volume("a", {"cloudInit"}), w>> : w \in Secrets("b") \cup {Volume("a", {"containerDisk"})}}
DiskLists == {<<Item("a")>>, <<Item("a"), Item("b")>>}

Volumes ==
  {[Base EXCEPT !.volumes = vs, !.disks = ds] : vs \in VolumeLists, ds \in DiskLists}
  \cup {[Base EXCEPT !.volumes = <<v, w>>, !.fileSystems = <<Item("b")>>] :
           v \in Sources("a"), w \in Sources("b")}
  \cup {[Base EXCEPT !.fileSystems = <<Item("c")>>, !.sidecarVolumes = sv] : sv \in {<<>>, <<Item("c")>>}}
  \cup {[Base EXCEPT !.kernel = k] : k \in {"complete", "incomplete"}}

Iface(n, ms, c) == [name |-> n, mac |-> 0, methods |-> ms, cidr |-> c]
Ifaces(n) ==
  {Iface(n, ms, <<>>) : ms \in {{}, {"bridge"}, {"masquerade"}, {"sriov"}, {"vdpa"}, {"vhostUser"},
                                {"bridge", "sriov"}}}
  \cup {[Iface(n, {"bridge"}, <<>>) EXCEPT !.mac = mac] : mac \in {-1, 5}}
CIDRs == {<<"bad">>} \cup {<<AddressOf(a), ones>> : a \in {0, 5, 22, 61}, ones \in 0..Bits}
Nets(n) ==
  {[name |-> n, sources |-> s, complete |-> TRUE, nad |-> "none"] : s \in {{"pod"}, {}}}
  \cup {[name |-> n, sources |-> {"multus"}, complete |-> c, nad |-> d] :
          c \in BOOLEAN, d \in {"none", "bridge", "kube-ovn", "userspace"}}

\* vhost-user needs dedicated CPUs and hugepages.
Netted(is, ns) ==
  [Base EXCEPT !.interfaces = is, !.networks = ns, !.volumes = <<Volume("a", {"cloudInit"})>>,
               !.cpu.dedicated = \E i \in Range(is) : "vhostUser" \in i.methods,
               !.memory.pageSize = IF \E i \in Range(is) : "vhostUser" \in i.methods THEN 4 ELSE 0]
Networks ==
  {Netted(<<i>>, <<n>>) : i \in Ifaces("m") \cup {Iface("m", {"masquerade"}, c) : c \in CIDRs}, n \in Nets("m")}
  \cup {Netted(<<i, j>>, <<n, o>>) :
          i \in Ifaces("m"), j \in Ifaces("n"),
          n \in {x \in Nets("m") : x.complete /\ x.sources # {} /\ x.nad # "bridge"},
          o \in {x \in Nets("n") : x.complete /\ x.sources # {} /\ x.nad \notin {"none", "bridge"}}}

MCManifest == Resources \cup Volumes \cup Networks

\* Volumes come and go, and some edits are denied.
Claims(n) == {Claim(n, "persistentVolumeClaim", hot) : hot \in BOOLEAN} \cup {Claim(n, "dataVolume", TRUE)}
VolumeEdits(m) ==
  IF m.volumes[1].name = "a" /\ m.disks = <<Item("a"), Item("b")>>
  THEN {[m EXCEPT !.volumes = vs] :
          vs \in {<<m.volumes[1]>>} \cup {<<m.volumes[1], w>> : w \in Claims("b")} \cup {<<w>> : w \in Claims("a")}}
       \cup {[m EXCEPT !.fileSystems = <<Item("c")>>]}
  ELSE {}
MCEdits(m) ==
  {[m EXCEPT !.interfaces = [i \in DOMAIN @ |-> [@[i] EXCEPT !.mac = 5]]]}
  \cup VolumeEdits(m)
  \cup (IF Len(m.interfaces) = 1 THEN {[m EXCEPT !.runPolicy = "Always"]} ELSE {})
=============================================================================
