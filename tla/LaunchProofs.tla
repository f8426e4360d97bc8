---------------------------- MODULE LaunchProofs ----------------------------
(***************************************************************************)
(* For all manifests and edits: updates leave a VM what it was created as, *)
(* and the condition Migratable, computed once from an old copy, is right. *)
(***************************************************************************)
EXTENDS VMLaunch, TLAPS

\* A version of the VM: stored now, or earlier and still in the controller's cache.
Fixed(s) == {v \in VolumesOf(s) : ~IsHotpluggable(v)}
Version(s, first) ==
  /\ s = [s EXCEPT !.runPolicy = s.runPolicy] /\ DOMAIN s = Fields
  /\ \A f \in Fields \ {"runPolicy", "disks", "volumes"} : s[f] = first[f]
  /\ Fixed(s) = Fixed(first)
  /\ \A v \in VolumesOf(s) : ValidateVolume(v)

\* The inductive invariant.
LaunchInv ==
  /\ request # <<>> => vm # <<>>
  /\ vm # <<>> => vm = <<vm[1]>> /\ Version(vm[1], born[1]) /\ Version(born[1], born[1])
  /\ cached # <<>> => vm # <<>> /\ Version(cached[1], born[1])
  /\ migratable # "unknown" =>
       vm # <<>> /\ (migratable = "True" <=> calculateMigratableCondition(born[1]))

\* MutateVM fills in fields and adds none.
LEMMA MutateFields ==
  ASSUME NEW m, NEW old, NEW g, DOMAIN m = Fields
  PROVE  LET s == MutateVM(m, old, g)
         IN  DOMAIN s = Fields /\ s = [s EXCEPT !.runPolicy = s.runPolicy]
<1>1. DOMAIN DefaultSizes(m) = Fields
  BY DEF DefaultSizes
<1>2. DOMAIN DefaultDedicated(DefaultSizes(m)) = Fields
  BY <1>1 DEF DefaultDedicated
<1>3. DOMAIN DefaultHugepages(DefaultDedicated(DefaultSizes(m))) = Fields
  BY <1>2 DEF DefaultHugepages
<1> QED
  BY <1>3 DEF MutateVM

\* The condition does not depend on what may be updated.
LEMMA SameCondition ==
  ASSUME NEW s, NEW t, Version(s, t), Version(t, t)
  PROVE  calculateMigratableCondition(s) <=> calculateMigratableCondition(t)
<1>1. /\ s.cpu = t.cpu /\ s.fileSystems = t.fileSystems
      /\ s.networks = t.networks /\ s.interfaces = t.interfaces
  BY DEF Version, Fields
<1>2. ASSUME NEW r, Version(r, t)
      PROVE  (\A v \in VolumesOf(r) : v.sources \cap {"containerRootfs", "containerDisk"} = {})
             <=> (\A v \in Fixed(t) : v.sources \cap {"containerRootfs", "containerDisk"} = {})
  <2>1. ASSUME NEW v \in VolumesOf(r), IsHotpluggable(v)
        PROVE  v.sources \cap {"containerRootfs", "containerDisk"} = {}
    <3>1. PICK x \in v.sources : v.sources = {x}
      BY <1>2, <2>1 DEF Version, ValidateVolume, ValidateVolumeSource
    <3>2. x \in {"persistentVolumeClaim", "dataVolume"}
      BY <2>1, <3>1 DEF IsHotpluggable, OnClaim
    <3> QED
      BY <3>1, <3>2
  <2>2. Fixed(r) = Fixed(t)
    BY <1>2 DEF Version
  <2> QED
    BY <2>1, <2>2 DEF Fixed
<1> QED
  BY <1>1, <1>2 DEF calculateMigratableCondition

\* An update that is admitted makes another version of the same VM.
LEMMA UpdateKeeps ==
  ASSUME NEW s, NEW old, NEW first, Version(old, first), ValidateVMUpdate(s, old), ValidateVMSpec(s)
  PROVE  Version(s, first)
<1>1. DOMAIN s = Fields /\ s = [s EXCEPT !.runPolicy = s.runPolicy]
  BY DEF ValidateVMUpdate, Version
<1>2. \A f \in Fields \ {"runPolicy", "disks", "volumes"} : s[f] = old[f]
  BY DEF ValidateVMUpdate, Version
<1>3. \A v \in VolumesOf(s) : ValidateVolume(v)
  BY DEF ValidateVMSpec, ValidateParts, VolumesOf
<1>4. Fixed(s) = Fixed(old)
  <2>1. ValidateVolumes(s, old)
    BY DEF ValidateVMUpdate
  <2>2. ASSUME NEW v \in Fixed(old) PROVE v \in Fixed(s)
    BY <2>1 DEF ValidateVolumes, Fixed
  <2>3. ASSUME NEW v \in Fixed(s) PROVE v \in Fixed(old)
    <3>1. PICK w \in VolumesOf(old) : w.name = v.name
      BY <2>1 DEF ValidateVolumes, Fixed
    <3>2. w \in VolumesOf(s)
      BY <2>1, <3>1 DEF ValidateVolumes, Fixed
    <3>3. w = v
      BY <3>1, <3>2 DEF ValidateVMSpec, ValidateParts, NoDuplicate, VolumesOf, Fixed
    <3> QED
      BY <3>3 DEF Fixed
  <2> QED
    BY <2>2, <2>3
<1> QED
  BY <1>1, <1>2, <1>3, <1>4 DEF Version

LEMMA LaunchInit == Init => LaunchInv
  BY DEF Init, LaunchInv

LEMMA LaunchStep == LaunchInv /\ [Next]_vars => LaunchInv'
<1> SUFFICES ASSUME LaunchInv, [Next]_vars PROVE LaunchInv'
  OBVIOUS
<1> USE DEF LaunchInv
<1>1. ASSUME NEW m \in Manifest, CreateVM(m) PROVE LaunchInv'
  <2> DEFINE s == MutateVM(m, <<>>, 10)
  <2>1. DOMAIN s = Fields /\ s = [s EXCEPT !.runPolicy = s.runPolicy]
    BY MutateFields, ManifestAssumption
  <2> HIDE DEF s
  <2>2. vm = <<>> /\ UNCHANGED <<cached, migratable>>
    BY <1>1 DEF CreateVM
  <2>3. CASE ValidateVMSpec(s)
    <3>1. vm' = <<s>> /\ born' = <<s>>
      BY <1>1, <2>3 DEF CreateVM, s
    <3>2. \A v \in VolumesOf(s) : ValidateVolume(v)
      BY <2>3 DEF ValidateVMSpec, ValidateParts, VolumesOf
    <3>3. Version(s, s)
      BY <2>1, <3>2 DEF Version
    <3> QED
      BY <2>2, <3>1, <3>3
  <2>4. CASE ~ValidateVMSpec(s)
    BY <1>1, <2>2, <2>4 DEF CreateVM, s
  <2> QED
    BY <2>3, <2>4
<1>2. ASSUME NEW m, request # <<>>, UpdateVM(m), vm # <<>> PROVE LaunchInv'
  <2> DEFINE s == MutateVM(m, vm[1].interfaces, 20)
  <2>1. /\ ValidateVMSpec(s) /\ ValidateVMUpdate(s, vm[1])
        /\ vm' = <<s>> /\ UNCHANGED <<born, cached, migratable>>
    BY <1>2 DEF UpdateVM, Admitted
  <2> HIDE DEF s
  <2>2. Version(s, born[1])
    BY <1>2, <2>1, UpdateKeeps
  <2> QED
    BY <1>2, <2>1, <2>2
<1>3. CASE SyncVM
  BY <1>3 DEF SyncVM, apiVars
<1>4. CASE reconcileVMConditions
  <2>1. cached # <<>> /\ migratable' = IF calculateMigratableCondition(cached[1]) THEN "True" ELSE "False"
    BY <1>4 DEF reconcileVMConditions
  <2>2. UNCHANGED <<request, vm, born, cached>>
    BY <1>4 DEF reconcileVMConditions, apiVars
  <2>3. calculateMigratableCondition(cached[1]) <=> calculateMigratableCondition(born[1])
    BY <2>1, SameCondition
  <2> QED
    BY <2>1, <2>2, <2>3
<1>5. CASE EndRun
  BY <1>5 DEF EndRun, apiVars
<1>6. CASE UNCHANGED <<request, vm, born, cached, migratable>>
  BY <1>6
<1> QED
  BY <1>1, <1>2, <1>3, <1>4, <1>5, <1>6
  DEF Next, vars, apiVars, ClaimStep, CreatePod, Prerun, CreateTargetPod, Migrated

LEMMA LaunchInvariance == Spec => []LaunchInv
  BY LaunchInit, LaunchStep, PTL DEF Spec

\* For all manifests and all sequences of edits, ValidateVMUpdate leaves nothing but the
\* run policy, the disks and the hotpluggable volumes to change.
THEOREM PartsAlwaysKept == Spec => []PartsKept
<1>1. LaunchInv => PartsKept
  <2> SUFFICES ASSUME LaunchInv, vm # <<>> PROVE PartsKept
    BY DEF PartsKept
  <2>1. Version(vm[1], born[1]) /\ Version(born[1], born[1])
    BY DEF LaunchInv
  <2> DEFINE s == vm[1] t == born[1]
             u == [t EXCEPT !.runPolicy = s.runPolicy, !.disks = s.disks, !.volumes = s.volumes]
  <2>2. s = u
    <3>1. DOMAIN s = Fields /\ DOMAIN u = Fields
      BY <2>1 DEF Version
    <3>2. \A f \in Fields : s[f] = u[f]
      BY <2>1 DEF Version, Fields
    <3> QED
      BY <2>1, <3>1, <3>2 DEF Version
  <2> QED
    BY <2>1, <2>2 DEF PartsKept, Version, Fixed
<1> QED
  BY <1>1, LaunchInvariance, PTL

\* For all manifests and all sequences of edits, the condition Migratable that
\* calculateMigratableCondition computed once stays right.
THEOREM MigratableAlwaysHolds == Spec => []MigratableHolds
<1>1. LaunchInv => MigratableHolds
  BY SameCondition DEF LaunchInv, MigratableHolds
<1> QED
  BY <1>1, LaunchInvariance, PTL
=============================================================================
