---------------------------- MODULE GuestProofs ----------------------------
(***************************************************************************)
(* GuestInv is an invariant of VirtualMachine, for all constants, and so   *)
(* the guest of a VM is never in two pods.                                 *)
(*                                                                         *)
(* Nearly all steps are of one kind: what they write into the VM is        *)
(* Harmless, and what happens to the pods is Quiet.  Five steps are not: a *)
(* new run or the end of the object (Restart), a boot, a receiver that     *)
(* opens, a transfer that succeeds, and the controller's pod cache.        *)
(***************************************************************************)
EXTENDS TypeProofs

\* What a write may make of the VM.
Harmless(v, new) ==
  /\ \A u \in {new.podUID, new.targetPodUID} :
       \/ u \in {v.podUID, v.targetPodUID, None}
       \/ /\ v.exists /\ (v.deleting \/ v.finalizer)
          /\ \E n \in Name : u = podCache[Ctl][n].uid
  /\ new.phase \in {"Pending", "Scheduling", "Scheduled"} =>
       new.targetPodUID \in {v.targetPodUID, None}
  /\ new.phase \in {"Pending", "Scheduling"} => v.phase \in {"Pending", "Scheduling"}
  /\ new.phase = "Scheduled" =>
       /\ new.podName = v.podName
       /\ \/ v.phase = "Scheduled" /\ new.podUID \in {v.podUID, None}
          \/ /\ v.phase \in {"Scheduling", "Scheduled"} /\ v.podName \in Name
             /\ new.podUID = podCache[Ctl][v.podName].uid
  /\ v.exists /\ v.finalizer => new.exists /\ new.finalizer
  /\ (v.deleting => v.exists /\ v.finalizer) =>
       (new.deleting => new.exists /\ new.finalizer)

VMStep ==
  Views' \subseteq Views \cup {vm'} /\ Harmless(vm, vm') /\ (vm' = vm \/ vm.exists)

\* What may become of the pods and their processes.
Quiet(n) ==
  /\ ~Alive(n)' => pods'[n] = NoPod /\ ch'[n] = "none"
  /\ pods'[n].phase \in {"Succeeded", "Failed"} => ch'[n] = "none"
  /\ Alive(n)' /\ pods'[n].uid # pods[n].uid =>
       pods'[n].uid \notin UsedUids /\ ch'[n] = "none"
  /\ HasGuest(n)' => HasGuest(n)
  /\ Alive(n)' /\ pods'[n].uid = pods[n].uid /\ Ended(n) => Ended(n)'
  /\ ch'[n] \notin {"none", "empty"} => ch[n] \notin {"none", "empty"}
  /\ ch'[n] = "receiving" => ch[n] = "receiving"

PodStep ==
  /\ podCache'[Ctl] = podCache[Ctl]
  /\ \A n \in Name : Quiet(n)
  /\ \A m, n \in Name : Alive(n)' /\ pods'[m].uid = pods'[n].uid => m = n

\* What becomes of the guest in a step, in the terms of GuestLocation.
Guests == {n \in Name : HasGuest(n)}
GuestStep ==
  \/ Guests' = Guests /\ vm'.exists = vm.exists
  \/ Guests' = {} /\ vm'.exists = vm.exists
  \/ Guests = {} /\ Guests' = {} /\ vm.exists /\ ~vm'.exists
  \/ Guests = {} /\ vm.exists /\ vm'.exists /\ \E n \in Name : Guests' = {n}
  \/ /\ vm'.exists = vm.exists
     /\ \E m, n \in Name : Guests = {m} /\ Guests' = {n}

\* What every step has to achieve.
Correct == GuestInv' /\ GuestStep

\* A UID that a copy of the VM names, or that the controller has seen, is not
\* given to another pod.
LEMMA RefsUsed ==
  /\ \A w \in Views : w.podUID \in UsedUids /\ w.targetPodUID \in UsedUids
  /\ \A n \in Name : podCache[Ctl][n].uid \in UsedUids
<1>1. ASSUME NEW w \in Views
      PROVE  w.podUID \in UsedUids /\ w.targetPodUID \in UsedUids
  <2>1. w.podUID \in RefUids /\ w.targetPodUID \in RefUids
    BY DEF RefUids
  <2>2. RefUids \subseteq UsedUids
    BY DEF UsedUids
  <2> QED BY <2>1, <2>2
<1>2. ASSUME NEW n \in Name
      PROVE  podCache[Ctl][n].uid \in UsedUids
  <2>1. podCache[Ctl][n].uid \in {podCache[Ctl][m].uid : m \in Name}
    OBVIOUS
  <2>2. podCache[Ctl][n].uid \in UNION {{podCache[a][m].uid : m \in Name} : a \in Actor}
    BY <2>1, CtlIsActor
  <2>3. podCache[Ctl][n].uid \in PodUids
    BY <2>2 DEF PodUids
  <2> QED BY <2>3 DEF UsedUids
<1> QED BY <1>1, <1>2

\* A copy that is not new names after a step only what it named before.
LEMMA OldCopies ==
  ASSUME PodStep, NEW w \in Views, NEW n \in Name
  PROVE  /\ Names(w, n)' => Names(w, n) /\ pods'[n].uid = pods[n].uid
         /\ Boots(w, n)' => Boots(w, n) /\ pods'[n].uid = pods[n].uid
<1>1. Quiet(n)
  BY DEF PodStep
<1>2. w.podUID \in UsedUids /\ w.targetPodUID \in UsedUids
  BY RefsUsed
<1>3. Alive(n)' /\ pods'[n].uid \in {w.podUID, w.targetPodUID}
        => pods'[n].uid = pods[n].uid
  BY <1>1, <1>2 DEF Quiet
<1> QED BY <1>3 DEF Names, Boots, Alive

\* The parts of GuestInv, one by one, under a VMStep and a PodStep.
LEMMA PodInvPreserved ==
  ASSUME GuestInv, PodStep
  PROVE  PodInv'
<1>1. \A n \in Name :
        /\ ~Alive(n)' => pods'[n] = NoPod /\ ch'[n] = "none"
        /\ pods'[n].phase \in {"Succeeded", "Failed"} => ch'[n] = "none"
  BY DEF PodStep, Quiet
<1>2. ASSUME NEW m \in Name, NEW n \in Name, Alive(n)',
             podCache'[Ctl][m].uid = pods'[n].uid
      PROVE  m = n
  <2>1. podCache[Ctl][m].uid = pods'[n].uid
    BY <1>2 DEF PodStep
  <2>2. pods'[n].uid = pods[n].uid
    BY <1>2, <2>1, RefsUsed DEF PodStep, Quiet
  <2> QED BY <1>2, <2>1, <2>2 DEF Alive, GuestInv, PodInv
<1>3. \A m, n \in Name : Alive(n)' /\ pods'[m].uid = pods'[n].uid => m = n
  BY DEF PodStep
<1> QED BY <1>1, <1>2, <1>3 DEF PodInv

\* The controller keeps its sight of a pod that stays.
LEMMA SeenKept ==
  ASSUME PodStep, NEW n \in Name, Seen(n), pods'[n].uid = pods[n].uid
  PROVE  Seen(n)'
BY DEF PodStep, Seen

\* A pod that is named stays in the cache of the controller.
LEMMA SeenInvPreserved ==
  ASSUME GuestInv, VMStep, PodStep
  PROVE  SeenInv'
<1>1. PICK old \in Views : old = vm
  BY ViewsInclude, CtlIsActor
<1>2. ASSUME NEW n \in Name, NEW w \in Views', Names(w, n)'
      PROVE  Seen(n)'
  <2>1. CASE w \in Views
    BY <1>2, <2>1, OldCopies, SeenKept DEF GuestInv, SeenInv
  <2>2. CASE w = vm'
    <3> DEFINE u == pods'[n].uid
    <3>1. u # None /\ u \in {vm'.podUID, vm'.targetPodUID}
      BY <1>2, <2>2 DEF Names, Alive
    <3>2. CASE u \in {vm.podUID, vm.targetPodUID}
      <4>1. Names(old, n)'
        BY <1>1, <3>1, <3>2 DEF Names, Alive
      <4> QED BY <1>1, <4>1, OldCopies, SeenKept DEF GuestInv, SeenInv
    <3>3. ASSUME NEW m \in Name, u = podCache[Ctl][m].uid
          PROVE  Seen(n)'
      <4>1. pods'[n].uid = pods[n].uid
        BY <3>1, <3>3, RefsUsed DEF PodStep, Quiet, Alive
      <4>2. Seen(n)
        BY <3>1, <3>3, <4>1 DEF GuestInv, PodInv, Alive, Seen
      <4> QED BY <4>1, <4>2, SeenKept
    <3> QED BY <3>1, <3>2, <3>3 DEF VMStep, Harmless
  <2> QED BY <2>1, <2>2, <1>2 DEF VMStep
<1>3. ASSUME NEW n \in Name, ch'[n] \notin {"none", "empty"}
      PROVE  Seen(n)'
  <2>1. pods'[n].uid = pods[n].uid
    BY <1>3 DEF PodStep, Quiet
  <2>2. Seen(n)
    BY <1>3 DEF PodStep, Quiet, GuestInv, SeenInv
  <2> QED BY <2>1, <2>2, SeenKept
<1> QED BY <1>2, <1>3 DEF SeenInv

\* What can boot after a step could before, but for the pod that the status
\* names when the controller makes the VM Scheduled.
LEMMA BootsAfter ==
  ASSUME GuestInv, VMStep, PodStep, NEW w \in Views', NEW n \in Name, Boots(w, n)'
  PROVE  \/ \E x \in Views : Boots(x, n)
         \/ /\ vm'.phase = "Scheduled" /\ n = vm'.podName
            /\ vm.phase \in {"Scheduling", "Scheduled"}
<1>1. PICK old \in Views : old = vm
  BY ViewsInclude, CtlIsActor
<1>2. CASE w \in Views
  BY <1>2, OldCopies
<1>3. CASE w = vm'
  <2>1. /\ vm'.phase = "Scheduled" /\ pods'[n].uid = vm'.podUID
        /\ pods'[n].uid # None /\ Alive(n)'
    BY <1>3 DEF Boots, Alive
  <2>2. CASE vm.phase = "Scheduled" /\ vm'.podUID \in {vm.podUID, None}
    <3>1. Boots(old, n)'
      BY <1>1, <2>1, <2>2 DEF Boots, Alive
    <3> QED BY <3>1, OldCopies
  <2>3. CASE /\ vm.phase \in {"Scheduling", "Scheduled"} /\ vm.podName \in Name
             /\ vm'.podUID = podCache[Ctl][vm.podName].uid
    <3>1. pods'[n].uid = pods[n].uid
      BY <2>1, <2>3, RefsUsed DEF PodStep, Quiet
    <3>2. n = vm.podName
      BY <2>1, <2>3, <3>1 DEF GuestInv, PodInv, Alive
    <3> QED BY <2>1, <2>3, <3>2 DEF VMStep, Harmless
  <2> QED BY <2>1, <2>2, <2>3 DEF VMStep, Harmless
<1> QED BY <1>2, <1>3 DEF VMStep

\* No step of these kinds starts a guest before the VM is Scheduled.
LEMMA FreshInvPreserved ==
  ASSUME GuestInv, VMStep, PodStep
  PROVE  FreshInv'
<1> SUFFICES ASSUME vm'.phase \in {"Pending", "Scheduling"}, NEW n \in Name
             PROVE  ~HasGuest(n)' /\ \A w \in Views' : ~Boots(w, n)'
  BY DEF FreshInv
<1>1. vm.phase \in {"Pending", "Scheduling"}
  BY DEF VMStep, Harmless
<1>2. ~HasGuest(n) /\ \A w \in Views : ~Boots(w, n)
  BY <1>1 DEF GuestInv, FreshInv
<1>3. ~HasGuest(n)'
  BY <1>2 DEF PodStep, Quiet
<1>4. \A w \in Views' : ~Boots(w, n)'
  BY <1>2, BootsAfter
<1> QED BY <1>3, <1>4

\* Nor anywhere but in the VM pod.
LEMMA HomeInvPreserved ==
  ASSUME GuestInv, VMStep, PodStep
  PROVE  HomeInv'
<1>1. ASSUME vm'.phase \in {"Pending", "Scheduling", "Scheduled"}, NEW n \in Name
      PROVE  /\ ch'[n] # "receiving"
             /\ \A w \in Views' : Alive(n)' => pods'[n].uid # w.targetPodUID
  <2>1. vm.phase \in {"Pending", "Scheduling", "Scheduled"}
    BY <1>1 DEF VMStep, Harmless
  <2>2. /\ ch[n] # "receiving"
        /\ \A w \in Views : Alive(n) => pods[n].uid # w.targetPodUID
    BY <2>1 DEF GuestInv, HomeInv
  <2>3. ch'[n] # "receiving"
    BY <2>2 DEF PodStep, Quiet
  <2>4. ASSUME NEW w \in Views, Alive(n)', pods'[n].uid = w.targetPodUID
        PROVE  FALSE
    <3>1. Names(w, n)'
      BY <2>4 DEF Names
    <3> QED BY <3>1, <2>2, <2>4, OldCopies DEF Names
  <2>5. Alive(n)' => pods'[n].uid # vm'.targetPodUID
    BY <1>1, <2>4, ViewsInclude, CtlIsActor DEF VMStep, Harmless, Alive
  <2> QED BY <2>3, <2>4, <2>5 DEF VMStep
<1>2. ASSUME vm'.phase = "Scheduled", NEW n \in Name,
             HasGuest(n)' \/ \E w \in Views' : Boots(w, n)'
      PROVE  n = vm'.podName
  <2>1. /\ vm'.podName = vm.podName
        /\ vm.phase \in {"Scheduling", "Scheduled"}
    BY <1>2 DEF VMStep, Harmless
  <2>2. HasGuest(n) \/ (\E w \in Views : Boots(w, n)) => n = vm'.podName
    BY <2>1 DEF GuestInv, HomeInv, FreshInv
  <2>3. HasGuest(n)' => HasGuest(n)
    BY DEF PodStep, Quiet
  <2> QED BY <1>2, <2>2, <2>3, BootsAfter
<1> QED BY <1>1, <1>2 DEF HomeInv

\* Nor makes a second pod bootable.
LEMMA BootInvPreserved ==
  ASSUME GuestInv, VMStep, PodStep
  PROVE  BootInv'
<1> SUFFICES ASSUME NEW w \in Views', NEW n \in Name, Boots(w, n)'
             PROVE  /\ \A x \in Views', m \in Name : Boots(x, m)' => m = n
                    /\ ~Ended(n)' => \A m \in Name : HasGuest(m)' => m = n
  BY DEF BootInv
<1>1. CASE vm'.phase = "Scheduled"
  BY <1>1, HomeInvPreserved DEF HomeInv
<1>2. CASE vm'.phase # "Scheduled"
  <2>1. \A x \in Views', m \in Name : Boots(x, m)' => x \in Views /\ Boots(x, m)
    <3> TAKE x \in Views', m \in Name
    <3>1. x \in Views \/ x = vm'
      BY DEF VMStep
    <3>2. x = vm' => ~Boots(x, m)'
      BY <1>2 DEF Boots
    <3> QED BY <3>1, <3>2, OldCopies
  <2>2. \A x \in Views', m \in Name : Boots(x, m)' => m = n
    BY <2>1 DEF GuestInv, BootInv
  <2>3. ASSUME ~Ended(n)', NEW m \in Name, HasGuest(m)'
        PROVE  m = n
    <3>1. w \in Views /\ Boots(w, n) /\ pods'[n].uid = pods[n].uid
      BY <2>1, OldCopies
    <3>2. ~Ended(n)
      BY <2>3, <3>1 DEF PodStep, Quiet, Boots
    <3>3. HasGuest(m)
      BY <2>3 DEF PodStep, Quiet
    <3> QED BY <3>1, <3>2, <3>3 DEF GuestInv, BootInv
  <2> QED BY <2>2, <2>3
<1> QED BY <1>1, <1>2

\* Nor puts a guest into a VM that nothing holds.
LEMMA FinalizerInvPreserved ==
  ASSUME GuestInv, VMStep, PodStep
  PROVE  FinalizerInv'
<1>1. vm'.deleting => vm'.exists /\ vm'.finalizer
  BY DEF GuestInv, FinalizerInv, VMStep, Harmless
<1>2. ASSUME ~(vm'.exists /\ vm'.finalizer), NEW n \in Name
      PROVE  ~HasGuest(n)' /\ \A w \in Views' : ~Names(w, n)'
  <2>1. ~(vm.exists /\ vm.finalizer)
    BY <1>2 DEF VMStep, Harmless
  <2>2. ~HasGuest(n) /\ \A w \in Views : ~Names(w, n)
    BY <2>1 DEF GuestInv, FinalizerInv
  <2>3. ~HasGuest(n)'
    BY <2>2 DEF PodStep, Quiet
  <2>4. \A w \in Views : ~Names(w, n)'
    BY <2>2, OldCopies
  <2>5. PICK old \in Views : old = vm
    BY ViewsInclude, CtlIsActor
  <2>6. \A u \in {vm'.podUID, vm'.targetPodUID} :
          u \in {old.podUID, old.targetPodUID, None}
    BY <2>1, <2>5 DEF VMStep, Harmless, GuestInv, FinalizerInv
  <2>7. \A w \in Views' : w = vm' => ~Names(w, n)'
    BY <2>4, <2>6 DEF Names, Alive
  <2> QED BY <2>3, <2>4, <2>7 DEF VMStep
<1> QED BY <1>1, <1>2 DEF FinalizerInv

\* A guest may go; the object goes only when there is none.
LEMMA QuietGuest ==
  ASSUME GuestInv, vm \in VirtualMachine, vm' \in VirtualMachine,
         vm' = vm \/ vm.exists,
         ~vm'.exists => ~(vm.exists /\ vm.finalizer) \/ Guests = {},
         Guests' \subseteq Guests
  PROVE  GuestStep
<1>1. Guests' = Guests \/ Guests' = {}
  BY DEF Guests, GuestInv, AtMostOneGuest
<1>2. vm.exists \in BOOLEAN /\ vm'.exists \in BOOLEAN
  BY DEF VirtualMachine
<1>3. CASE vm'.exists = vm.exists
  BY <1>1, <1>3 DEF GuestStep
<1>4. CASE vm'.exists # vm.exists
  <2>1. vm.exists /\ ~vm'.exists
    BY <1>2, <1>4
  <2>2. Guests = {}
    BY <2>1 DEF GuestInv, FinalizerInv, Guests
  <2> QED BY <2>1, <2>2 DEF GuestStep
<1> QED BY <1>3, <1>4

\* The first kind of step.
LEMMA StepPreserves ==
  ASSUME TypeInv, GuestInv, TypeInv', VMStep, PodStep
  PROVE  Correct
<1>1. AtMostOneGuest'
  BY DEF GuestInv, AtMostOneGuest, PodStep, Quiet
<1>2. NamedInv'
  BY DEF TypeInv
<1>3. GuestInv'
  BY <1>1, <1>2, PodInvPreserved, SeenInvPreserved, FreshInvPreserved,
     HomeInvPreserved, BootInvPreserved, FinalizerInvPreserved
  DEF GuestInv
<1>4. Guests' \subseteq Guests
  BY DEF Guests, PodStep, Quiet
<1>5. GuestStep
  BY <1>4, QuietGuest DEF VMStep, Harmless, TypeInv, TypeOK
<1> QED BY <1>3, <1>5 DEF Correct

-----------------------------------------------------------------------------
\* Nothing is left that could become a guest: what the controller may conclude
\* from a cache without pods.
Deserted ==
  \A n \in Name :
    ch[n] \in {"none", "empty"} /\ \A w \in Views : ~Names(w, n)

\* Pods that the controller does not see are not named by anyone.
LEMMA NoPodsCached ==
  ASSUME GuestInv, AllVMPodsDeleted
  PROVE  Deserted
BY DEF GuestInv, PodInv, SeenInv, AllVMPodsDeleted, CachedPods, Listed, Deserted,
       Seen, Names, Alive

\* The second kind: a new run, or the end of the object.
LEMMA RestartPreserves ==
  ASSUME TypeInv, GuestInv, TypeInv', PodStep, Deserted,
         Views' \subseteq Views \cup {vm'}, vm.exists,
         vm'.podUID = None, vm'.targetPodUID = None,
         vm'.deleting => vm'.exists /\ vm'.finalizer
  PROVE  Correct
<1>1. \A n \in Name : ch'[n] \in {"none", "empty"}
  BY DEF Deserted, PodStep, Quiet
<1>2. ASSUME NEW n \in Name, NEW w \in Views'
      PROVE  ~Names(w, n)'
  <2>1. CASE w \in Views
    BY <2>1, OldCopies DEF Deserted
  <2>2. CASE w = vm'
    BY <2>2 DEF Names, Alive
  <2> QED BY <2>1, <2>2
<1>3. \A n \in Name, w \in Views' :
        ~Boots(w, n)' /\ (Alive(n)' => pods'[n].uid # w.targetPodUID)
  BY <1>2 DEF Boots, Names
<1>4. \A n \in Name : ~HasGuest(n)' /\ ch'[n] # "receiving"
  BY <1>1 DEF HasGuest
<1>5. PodInv'
  BY PodInvPreserved
<1>6. SeenInv' /\ FreshInv'
  BY <1>1, <1>2, <1>3, <1>4 DEF SeenInv, FreshInv
<1>7. HomeInv' /\ BootInv'
  BY <1>3, <1>4 DEF HomeInv, BootInv
<1>8. FinalizerInv' /\ AtMostOneGuest'
  BY <1>2, <1>4 DEF FinalizerInv, AtMostOneGuest
<1>9. GuestInv'
  BY <1>5, <1>6, <1>7, <1>8 DEF GuestInv, TypeInv
<1>10. GuestStep
  <2>1. Guests = {} /\ Guests' = {}
    BY <1>4 DEF Guests, Deserted, HasGuest
  <2> QED BY <2>1, QuietGuest DEF TypeInv, TypeOK
<1> QED BY <1>9, <1>10 DEF Correct

\* What the daemon's steps on a process leave alone.
OnlyProcess(n) ==
  /\ UNCHANGED pods /\ podCache'[Ctl] = podCache[Ctl]
  /\ \A m \in Name \ {n} : ch'[m] = ch[m]

\* The third kind: BootVM.  The copy of the VM that the daemon acts on may be
\* old, but it names a pod that has not ended, so no guest is elsewhere.
LEMMA BootPreserves ==
  ASSUME TypeInv, GuestInv, UNCHANGED vmVars,
         NEW v \in Views, NEW n \in Name, Boots(v, n), OnlyProcess(n),
         ch[n] \in {"empty", "created"}, ch'[n] \in {"created", "running"}
  PROVE  Correct
<1>1. /\ ~Ended(n) /\ pods[n].phase \notin {"Succeeded", "Failed"}
  BY DEF GuestInv, PodInv, Ended
<1>2. \A m \in Name : HasGuest(m)' => m = n
  BY <1>1 DEF GuestInv, BootInv, OnlyProcess, HasGuest
<1>3. \A w \in Views, m \in Name : Boots(w, m) => m = n
  BY DEF GuestInv, BootInv
<1>4. Views' = Views /\ vm' = vm /\ NamedInv'
  BY DEF Views, vmVars, GuestInv, NamedInv
<1>5. \A w \in Views, m \in Name :
        /\ Boots(w, m)' = Boots(w, m) /\ Names(w, m)' = Names(w, m)
        /\ Seen(m)' = Seen(m) /\ Alive(m)' = Alive(m)
  BY DEF OnlyProcess, Boots, Names, Seen, Alive
<1>6. Alive(n) /\ Names(v, n)
  BY DEF Boots, Names
<1>7. PodInv'
  BY <1>1, <1>6 DEF GuestInv, PodInv, OnlyProcess, Alive
<1>8. SeenInv'
  BY <1>4, <1>5, <1>6 DEF GuestInv, SeenInv, OnlyProcess
<1>9. FreshInv'
  BY <1>4 DEF GuestInv, FreshInv
<1>10. HomeInv'
  <2>1. \A m \in Name : ch'[m] = "receiving" => ch[m] = "receiving"
    BY DEF OnlyProcess
  <2>2. \A m \in Name : pods'[m].uid = pods[m].uid
    BY DEF OnlyProcess
  <2> QED BY <2>1, <2>2, <1>2, <1>4, <1>5, SMTT(30) DEF GuestInv, HomeInv
<1>11. BootInv'
  BY <1>2, <1>3, <1>4, <1>5 DEF BootInv
<1>12. FinalizerInv'
  BY <1>4, <1>6 DEF GuestInv, FinalizerInv
<1>13. AtMostOneGuest'
  BY <1>2 DEF AtMostOneGuest
<1>14. GuestInv'
  BY <1>4, <1>7, <1>8, <1>9, <1>10, <1>11, <1>12, <1>13 DEF GuestInv
<1>15. GuestStep
  <2>1. Guests = {}
    BY <1>1 DEF GuestInv, BootInv, Guests, HasGuest
  <2>2. Guests' = {} \/ Guests' = {n}
    BY <1>2 DEF Guests
  <2>3. vm.exists
    BY <1>6 DEF GuestInv, FinalizerInv
  <2> QED BY <2>1, <2>2, <2>3, <1>4 DEF GuestStep
<1> QED BY <1>14, <1>15 DEF Correct

\* The fourth kind: PrepareTarget.  A copy with a target is never acted on
\* before the VM is Running, for such a target is gone.
LEMMA ReceiverPreserves ==
  ASSUME TypeInv, GuestInv, TypeInv', VMStep,
         NEW v \in Views, NEW n \in Name, Alive(n), pods[n].uid = v.targetPodUID,
         OnlyProcess(n),
         ch[n] \in {"empty", "receiving"}, ch'[n] = "receiving"
  PROVE  Correct
<1>1. vm.phase \notin {"Pending", "Scheduling", "Scheduled"}
  BY DEF GuestInv, HomeInv
<1>2. vm'.phase \notin {"Pending", "Scheduling", "Scheduled"}
  BY <1>1 DEF VMStep, Harmless
<1>3. /\ pods[n].phase \notin {"Succeeded", "Failed"} /\ ~Ended(n) /\ Seen(n)
  BY DEF GuestInv, PodInv, SeenInv, Ended, Names
<1>4. \A m \in Name : HasGuest(m)' = HasGuest(m)
  BY DEF HasGuest, OnlyProcess
<1>5. \A m \in Name : Ended(m)' = Ended(m)
  BY <1>3 DEF Ended, OnlyProcess
<1>6. PodInv'
  BY <1>3 DEF GuestInv, PodInv, OnlyProcess, Alive
<1>7. \A m \in Name, w \in Views :
        /\ Names(w, m)' = Names(w, m) /\ Boots(w, m)' = Boots(w, m)
        /\ Seen(m)' = Seen(m) /\ Alive(m)' = Alive(m)
  BY DEF OnlyProcess, Names, Boots, Seen, Alive
<1>8. \A m \in Name, w \in Views' : w = vm' => ~Boots(w, m)'
  BY <1>2 DEF Boots
<1>9. ASSUME NEW m \in Name, NEW w \in Views', w = vm', Names(w, m)'
      PROVE  Seen(m) /\ (Names(vm, m) \/ (vm.exists /\ vm.finalizer))
  <2>1. Alive(m) /\ pods[m].uid # None /\ pods[m].uid \in {vm'.podUID, vm'.targetPodUID}
    BY <1>9 DEF Names, Alive, OnlyProcess
  <2>2. CASE pods[m].uid \in {vm.podUID, vm.targetPodUID}
    <3>1. Names(vm, m)
      BY <2>1, <2>2 DEF Names
    <3>2. vm \in Views
      BY DEF Views
    <3>3. Seen(m)
      BY <3>1, <3>2, Zenon DEF GuestInv, SeenInv
    <3> QED BY <3>1, <3>3
  <2>3. ASSUME NEW k \in Name, pods[m].uid = podCache[Ctl][k].uid,
               vm.exists, vm.deleting \/ vm.finalizer
        PROVE  Seen(m) /\ vm.exists /\ vm.finalizer
    BY <2>1, <2>3 DEF GuestInv, PodInv, FinalizerInv, Seen
  <2> QED BY <2>1, <2>2, <2>3 DEF VMStep, Harmless
<1>10. SeenInv'
  <2>1. \A m \in Name, w \in Views' : Names(w, m)' => Seen(m)'
    BY <1>7, <1>9 DEF GuestInv, SeenInv, VMStep
  <2>2. \A m \in Name : ch'[m] \notin {"none", "empty"} => Seen(m)'
    BY <1>3, <1>7, ViewsInclude, CtlIsActor DEF GuestInv, SeenInv, OnlyProcess
  <2> QED BY <2>1, <2>2 DEF SeenInv
<1>11. FreshInv' /\ HomeInv'
  BY <1>2 DEF FreshInv, HomeInv
<1>12. BootInv'
  <2>1. \A m \in Name, w \in Views' : Boots(w, m)' => w \in Views /\ Boots(w, m)
    BY <1>7, <1>8 DEF VMStep
  <2> QED BY <2>1, <1>4, <1>5 DEF GuestInv, BootInv
<1>13. FinalizerInv'
  <2>1. vm'.deleting => vm'.exists /\ vm'.finalizer
    BY DEF GuestInv, FinalizerInv, VMStep, Harmless
  <2>2. vm.exists /\ vm.finalizer => vm'.exists /\ vm'.finalizer
    BY DEF VMStep, Harmless
  <2>3. Names(v, n)
    BY DEF Names
  <2> QED BY <2>1, <2>2, <2>3 DEF GuestInv, FinalizerInv
<1>14. AtMostOneGuest'
  BY <1>4 DEF GuestInv, AtMostOneGuest
<1>15. GuestInv'
  BY <1>6, <1>10, <1>11, <1>12, <1>13, <1>14 DEF GuestInv, TypeInv
<1>16. GuestStep
  <2>1. Guests' \subseteq Guests
    BY <1>4 DEF Guests
  <2> QED BY <2>1, QuietGuest DEF VMStep, Harmless, TypeInv, TypeOK
<1> QED BY <1>15, <1>16 DEF Correct

\* The fifth kind: a transfer that succeeds.
LEMMA SendPreserves ==
  ASSUME TypeInv, GuestInv, NEW s \in sends, SendSucceeds(s)
  PROVE  Correct
<1>1. PICK src \in PodsOf(s.src), dst \in PodsOf(s.dst) :
        /\ HasGuest(src) /\ ch[dst] = "receiving"
        /\ ch' = [ch EXCEPT ![src] = "exited", ![dst] = "running"]
        /\ UNCHANGED <<vmVars, pods, podCache>>
  BY DEF SendSucceeds
<1>2. src \in Name /\ dst \in Name /\ Alive(src) /\ Alive(dst) /\ src # dst
  BY <1>1 DEF PodsOf, Alive, HasGuest
<1>3. /\ \A m \in Name \ {src, dst} : ch'[m] = ch[m] /\ ~HasGuest(m)
      /\ ch'[src] = "exited" /\ ch'[dst] = "running"
  BY <1>1, <1>2 DEF TypeInv, TypeOK, GuestInv, AtMostOneGuest, HasGuest
<1>4. \A m \in Name : HasGuest(m)' => m = dst
  BY <1>3 DEF HasGuest
<1>5. Views' = Views /\ vm' = vm /\ NamedInv' /\ pods' = pods /\ podCache' = podCache
  BY <1>1 DEF Views, vmVars, GuestInv, NamedInv
<1>6. \A m \in Name, w \in Views :
        /\ Names(w, m)' = Names(w, m) /\ Boots(w, m)' = Boots(w, m)
        /\ Seen(m)' = Seen(m) /\ Alive(m)' = Alive(m)
  BY <1>5 DEF Names, Boots, Seen, Alive
<1>7. vm.phase \notin {"Pending", "Scheduling", "Scheduled"}
  BY <1>1, <1>2 DEF GuestInv, HomeInv
<1>8. PodInv'
  <2>1. \A m \in {src, dst} : pods[m].phase \notin {"Succeeded", "Failed"}
    BY <1>1, <1>2 DEF GuestInv, PodInv, HasGuest
  <2>2. \A m \in Name : Alive(m)' = Alive(m)
    BY <1>5 DEF Alive
  <2> QED BY <2>1, <2>2, <1>2, <1>3, <1>5 DEF GuestInv, PodInv
<1>9. SeenInv'
  <2>1. Seen(src) /\ Seen(dst)
    BY <1>1, <1>2 DEF GuestInv, SeenInv, HasGuest
  <2>2. Ctl \in Actor /\ vm \in Views
    BY ViewsInclude, CtlIsActor
  <2> QED BY <2>1, <2>2, <1>3, <1>5, <1>6 DEF GuestInv, SeenInv
<1>10. FreshInv' /\ HomeInv'
  BY <1>5, <1>7 DEF FreshInv, HomeInv
<1>11. ASSUME NEW w \in Views, NEW n \in Name, Boots(w, n)
       PROVE  Ended(n)'
  <2>1. CASE Ended(n)
    BY <2>1, <1>1, <1>2, <1>3, <1>5 DEF Ended, HasGuest
  <2>2. CASE ~Ended(n)
    <3>1. src = n
      BY <1>11, <2>2, <1>1, <1>2 DEF GuestInv, BootInv
    <3> QED BY <3>1, <1>3 DEF Ended
  <2> QED BY <2>1, <2>2
<1>12. BootInv'
  BY <1>5, <1>6, <1>11 DEF GuestInv, BootInv
<1>13. FinalizerInv' /\ AtMostOneGuest'
  BY <1>1, <1>2, <1>4, <1>5 DEF GuestInv, FinalizerInv, AtMostOneGuest
<1>14. GuestInv'
  BY <1>5, <1>8, <1>9, <1>10, <1>12, <1>13 DEF GuestInv
<1>15. GuestStep
  <2>1. Guests = {src} /\ Guests' = {dst}
    BY <1>1, <1>2, <1>3, <1>4 DEF Guests, HasGuest
  <2> QED BY <2>1, <1>2, <1>5 DEF GuestStep
<1> QED BY <1>14, <1>15 DEF Correct

\* The sixth kind: the controller's pod cache catches up.
LEMMA CachePreserves ==
  ASSUME TypeInv, GuestInv, SyncPods(Ctl)
  PROVE  Correct
<1>1. UNCHANGED <<vm, vmCache, pods, ch>> /\ podCache'[Ctl] = pods
  BY CtlIsActor DEF SyncPods, vmVars, TypeInv, TypeOK
<1>2. Views' = Views /\ NamedInv'
  BY <1>1 DEF Views, GuestInv, NamedInv
<1>3. PodInv'
  BY <1>1 DEF GuestInv, PodInv, Alive
<1>4. SeenInv'
  BY <1>1 DEF SeenInv, Seen
<1>5. FreshInv' /\ HomeInv'
  BY <1>1, <1>2 DEF GuestInv, FreshInv, HomeInv, HasGuest, Boots, Alive
<1>6. BootInv'
  BY <1>1, <1>2 DEF GuestInv, BootInv, HasGuest, Boots, Alive, Ended
<1>7. FinalizerInv' /\ AtMostOneGuest'
  BY <1>1, <1>2 DEF GuestInv, FinalizerInv, AtMostOneGuest, HasGuest, Names, Alive
<1>8. GuestInv'
  BY <1>2, <1>3, <1>4, <1>5, <1>6, <1>7 DEF GuestInv
<1>9. GuestStep
  BY <1>1 DEF GuestStep, Guests, HasGuest
<1> QED BY <1>8, <1>9 DEF Correct

-----------------------------------------------------------------------------
\* How steps on the VM come to be harmless.
LEMMA HarmlessSame ==
  ASSUME NEW v
  PROVE  Harmless(v, v)
BY DEF Harmless

\* An accepted write changes the object; a refused one nothing.
LEMMA WriteStep ==
  ASSUME NEW a \in Actor, NEW new, Harmless(vmCache[a], new),
         NEW ok \in Outcomes(a), UpdateVM(new, ok), UNCHANGED vmCache
  PROVE  VMStep
<1>1. vm' = vm \/ (vm' = new /\ vm.exists /\ vmCache[a] = vm)
  BY WriteOutcome
<1>2. Harmless(vm, vm')
  BY <1>1, HarmlessSame
<1>3. Views' \subseteq Views \cup {vm'}
  BY DEF Views
<1> QED BY <1>1, <1>2, <1>3 DEF VMStep

\* A step that leaves the object alone and shows no copy that was not there.
LEMMA CopyStep ==
  ASSUME UNCHANGED vm, Views' \subseteq Views
  PROVE  VMStep
<1>1. Harmless(vm, vm')
  BY HarmlessSame
<1> QED BY <1>1 DEF VMStep

\* A user's write.
LEMMA UserStep ==
  ASSUME Harmless(vm, vm'), vm.exists, UNCHANGED vmCache
  PROVE  VMStep
BY DEF VMStep, Views

-----------------------------------------------------------------------------
\* How steps on the pods come to be quiet.
LEMMA UnchangedPodQuiet ==
  ASSUME GuestInv, NEW m \in Name, pods'[m] = pods[m], ch'[m] = ch[m]
  PROVE  Quiet(m)
BY DEF Quiet, Alive, HasGuest, Ended, GuestInv, PodInv

\* The UIDs of pods differ.
LEMMA UidsDiffer ==
  ASSUME GuestInv
  PROVE  \A k, m \in Name : pods[m].uid # None /\ pods[k].uid = pods[m].uid => k = m
BY DEF GuestInv, PodInv, Alive

\* A change to one pod.
LEMMA OnePod ==
  ASSUME GuestInv, NEW n \in Name, podCache'[Ctl] = podCache[Ctl],
         \A m \in Name \ {n} : pods'[m] = pods[m] /\ ch'[m] = ch[m],
         pods'[n].uid \in {pods[n].uid, None}, Quiet(n)
  PROVE  PodStep
<1>1. \A m \in Name : Quiet(m)
  BY UnchangedPodQuiet
<1>2. ASSUME NEW k \in Name, NEW m \in Name, Alive(m)', pods'[k].uid = pods'[m].uid
      PROVE  k = m
  <2>1. pods'[k].uid \in {pods[k].uid, None} /\ pods'[m].uid \in {pods[m].uid, None}
    OBVIOUS
  <2> QED BY <1>2, <2>1, UidsDiffer DEF Alive
<1> QED BY <1>1, <1>2 DEF PodStep

\* The cases in which the pods stay as they are.
LEMMA StillStep ==
  ASSUME GuestInv, UNCHANGED <<pods, ch>>, podCache'[Ctl] = podCache[Ctl]
  PROVE  PodStep
<1>1. \A m \in Name : Quiet(m)
  BY UnchangedPodQuiet
<1>2. \A k, m \in Name : Alive(m)' /\ pods'[k].uid = pods'[m].uid => k = m
  BY DEF Alive, GuestInv, PodInv
<1> QED BY <1>1, <1>2 DEF PodStep

\* A request to a process that answers.
LEMMA ProcessStep ==
  ASSUME TypeInv, GuestInv, NEW n \in Name, NEW state,
         ch' = [ch EXCEPT ![n] = state], UNCHANGED <<pods, podCache>>,
         ch[n] \notin {"none", "exited"}, state \notin {"none", "receiving"},
         state \in {"running", "paused"} => HasGuest(n),
         state = "empty" \/ ch[n] # "empty"
  PROVE  PodStep
<1>1. ch'[n] = state /\ \A m \in Name \ {n} : ch'[m] = ch[m]
  BY DEF TypeInv, TypeOK
<1>2. Alive(n) /\ pods[n].phase \notin {"Succeeded", "Failed"}
  BY DEF GuestInv, PodInv
<1>3. Quiet(n)
  BY <1>1, <1>2 DEF Quiet, Alive, HasGuest, Ended
<1> QED BY <1>1, <1>3, OnePod

\* Deletion timestamps are all that the controller writes into existing pods.
OnlyMarked(q) ==
  \A n \in Name :
    /\ q[n].uid = pods[n].uid /\ q[n].phase = pods[n].phase
    /\ pods[n].uid = None => q[n] = pods[n]

\* Marking pods as deleted is a PodStep.
LEMMA MarkedStep ==
  ASSUME GuestInv, OnlyMarked(pods'), UNCHANGED <<ch, podCache>>
  PROVE  PodStep
<1>1. ASSUME NEW n \in Name PROVE Quiet(n)
  <2>1. /\ pods'[n].uid = pods[n].uid /\ pods'[n].phase = pods[n].phase
        /\ pods[n].uid = None => pods'[n] = pods[n]
    BY DEF OnlyMarked
  <2> QED BY <2>1 DEF Quiet, Alive, HasGuest, Ended, GuestInv, PodInv
<1>2. \A k, m \in Name : Alive(m)' /\ pods'[k].uid = pods'[m].uid => k = m
  BY DEF Alive, GuestInv, PodInv, OnlyMarked
<1> QED BY <1>1, <1>2 DEF PodStep

\* Marked pods are pods.
LEMMA MarkTypes ==
  ASSUME NEW p \in Pod
  PROVE  LET q == [p EXCEPT !.deleting = TRUE]
         IN  q.uid = p.uid /\ q.phase = p.phase
BY DEF Pod

\* deleteAllVMPods before the switch only marks pods.
LEMMA SwitchMarks ==
  ASSUME TypeInv
  PROVE  OnlyMarked(pods) /\ OnlyMarked(DeleteAllVMPods) /\ OnlyMarked(PodsAtSwitch)
<1>1. OnlyMarked(pods)
  BY DEF OnlyMarked
<1>2. OnlyMarked(DeleteAllVMPods)
  BY MarkTypes DEF OnlyMarked, DeleteAllVMPods, Deleted, TypeInv, TypeOK
<1> QED BY <1>1, <1>2 DEF PodsAtSwitch

\* Reconcile's tail only marks pods.
LEMMA FinishSteps ==
  ASSUME TypeInv, NEW new, NEW podsNow \in [Name -> Pod], OnlyMarked(podsNow),
         Finish(new, podsNow)
  PROVE  /\ OnlyMarked(pods')
         /\ \E ok \in Outcomes(Ctl) : UpdateVM(new, ok)
<1>1. PICK ok \in Outcomes(Ctl) :
        /\ UpdateVM(new, ok)
        /\ pods' = [n \in Name |->
                      IF ok /\ n \in Unnamed(new) /\ podsNow[n].uid # None
                      THEN [podsNow[n] EXCEPT !.deleting = TRUE]
                      ELSE podsNow[n]]
  BY DEF Finish
<1>2. \A n \in Name : /\ pods'[n].uid = podsNow[n].uid
                      /\ pods'[n].phase = podsNow[n].phase
                      /\ podsNow[n].uid = None => pods'[n] = podsNow[n]
  BY <1>1, MarkTypes
<1> QED BY <1>1, <1>2 DEF OnlyMarked

\* Reconcile of the controller, when it creates no pod.
LEMMA FinishPreserves ==
  ASSUME TypeInv, GuestInv, TypeInv',
         NEW new, NEW podsNow \in [Name -> Pod], OnlyMarked(podsNow),
         Finish(new, podsNow), Harmless(CachedVM, new),
         UNCHANGED ch, ctlUnchanged
  PROVE  Correct
<1>1. VMStep
  BY FinishSteps, WriteStep, CtlIsActor DEF CachedVM, ctlUnchanged
<1>2. PodStep
  BY FinishSteps, MarkedStep DEF ctlUnchanged
<1> QED BY <1>1, <1>2, StepPreserves

\* Create gives the pod a UID that nothing knows.
LEMMA CreateStep ==
  ASSUME TypeInv, GuestInv, NEW n \in Name, pods[n].uid = None,
         NEW new, NEW u \in Uid \ UsedUids,
         Finish(new, [PodsAtSwitch EXCEPT ![n] = NewPod(u)]),
         UNCHANGED <<ch, podCache>>
  PROVE  PodStep
<1> DEFINE podsNow == [PodsAtSwitch EXCEPT ![n] = NewPod(u)]
<1>1. NewPod(u) \in Pod /\ NewPod(u).uid = u /\ NewPod(u).phase = "Pending"
  BY DEF NewPod, Pod, PodPhase
<1>2. podsNow \in [Name -> Pod]
  BY <1>1, PodsAtSwitchTypes
<1>3. /\ podsNow[n].uid = u /\ podsNow[n].phase = "Pending"
      /\ \A m \in Name \ {n} : podsNow[m] = PodsAtSwitch[m]
  BY <1>1, PodsAtSwitchTypes
<1> HIDE DEF podsNow
<1>4. PICK ok \in Outcomes(Ctl) :
        pods' = [m \in Name |->
                   IF ok /\ m \in Unnamed(new) /\ podsNow[m].uid # None
                   THEN [podsNow[m] EXCEPT !.deleting = TRUE]
                   ELSE podsNow[m]]
  BY DEF Finish, podsNow
<1>5. \A m \in Name : /\ pods'[m].uid = podsNow[m].uid
                      /\ pods'[m].phase = podsNow[m].phase
                      /\ podsNow[m].uid = None => pods'[m] = podsNow[m]
  BY <1>2, <1>4, MarkTypes
<1>6. \A m \in Name \ {n} : /\ pods'[m].uid = pods[m].uid
                            /\ pods'[m].phase = pods[m].phase
                            /\ pods[m].uid = None => pods'[m] = pods[m]
  <2> TAKE m \in Name \ {n}
  <2>1. podsNow[m] = PodsAtSwitch[m]
    BY <1>3
  <2>2. /\ PodsAtSwitch[m].uid = pods[m].uid /\ PodsAtSwitch[m].phase = pods[m].phase
        /\ pods[m].uid = None => PodsAtSwitch[m] = pods[m]
    BY SwitchMarks DEF OnlyMarked
  <2> QED BY <2>1, <2>2, <1>5
<1>7. pods'[n].uid = u /\ pods'[n].phase = "Pending" /\ u # None
  BY <1>3, <1>5, ClusterAssumption
<1>8. \A m \in Name : pods[m].uid # u
  <2>1. {pods[m].uid : m \in Name} \subseteq PodUids
    BY DEF PodUids
  <2>2. PodUids \subseteq UsedUids
    BY DEF UsedUids
  <2> QED BY <2>1, <2>2
<1>9. ASSUME NEW m \in Name PROVE Quiet(m)
  <2>1. CASE m = n
    <3>1. ch[n] = "none"
      BY DEF GuestInv, PodInv, Alive
    <3> QED BY <2>1, <3>1, <1>7 DEF Quiet, Alive, HasGuest
  <2>2. CASE m # n
    BY <2>2, <1>6 DEF Quiet, Alive, HasGuest, Ended, GuestInv, PodInv
  <2> QED BY <2>1, <2>2
<1>10. \A k, m \in Name : Alive(m)' /\ pods'[k].uid = pods'[m].uid => k = m
  BY <1>6, <1>7, <1>8, UidsDiffer DEF Alive
<1> QED BY <1>9, <1>10 DEF PodStep

\* Creating a pod preserves GuestInv.
LEMMA CreatePodPreserves ==
  ASSUME TypeInv, GuestInv, TypeInv', NEW n \in Name, NEW new,
         Harmless(CachedVM, new), NEW target \in BOOLEAN,
         CreatePod(n, new, target), UNCHANGED ch, ctlUnchanged
  PROVE  Correct
<1>1. /\ \E ok \in Outcomes(Ctl) : UpdateVM(new, ok)
      /\ PodStep
  <2>1. CASE /\ pods[n].uid = None
             /\ \E u \in Uid \ UsedUids :
                  Finish(new, [PodsAtSwitch EXCEPT ![n] = NewPod(u)])
    <3>1. PodStep
      BY <2>1, CreateStep DEF ctlUnchanged
    <3>2. \E ok \in Outcomes(Ctl) : UpdateVM(new, ok)
      BY <2>1 DEF Finish
    <3> QED BY <3>1, <3>2
  <2>2. CASE /\ \E ok \in Outcomes(Ctl) : UpdateVM(new, ok)
             /\ pods' = PodsAtSwitch
    <3>1. PodStep
      BY <2>2, SwitchMarks, MarkedStep DEF ctlUnchanged
    <3> QED BY <3>1, <2>2
  <2> QED BY <2>1, <2>2 DEF CreatePod
<1>2. VMStep
  BY <1>1, WriteStep, CtlIsActor DEF CachedVM, ctlUnchanged
<1> QED BY <1>1, <1>2, StepPreserves

\* Starting a new run, or letting the object go, when no pod is cached.
LEMMA DesertedPreserves ==
  ASSUME TypeInv, GuestInv, TypeInv', AllVMPodsDeleted, PodStep,
         NEW new, NEW ok \in Outcomes(Ctl), UpdateVM(new, ok), UNCHANGED vmCache,
         new.podUID = None, new.targetPodUID = None,
         new.deleting => CachedVM.deleting /\ new.exists /\ CachedVM.finalizer = new.finalizer
  PROVE  Correct
<1>1. Views' \subseteq Views \cup {vm'}
  BY DEF Views
<1>2. CASE vm' = vm
  <2>1. VMStep
    BY <1>1, <1>2, CopyStep DEF Views
  <2> QED BY <2>1, StepPreserves
<1>3. CASE vm' = new /\ vm.exists /\ CachedVM = vm
  <2>1. vm'.deleting => vm'.exists /\ vm'.finalizer
    BY <1>3 DEF GuestInv, FinalizerInv
  <2> QED BY <1>1, <1>3, <2>1, NoPodsCached, RestartPreserves
<1> QED BY <1>2, <1>3, WriteOutcome DEF CachedVM

\* One case for each action of the VM controller.
LEMMA ControllerPreserves ==
  ASSUME TypeInv, GuestInv, TypeInv', VMControllerReconcile
  PROVE  Correct
<1>0. /\ CachedVM \in VirtualMachine /\ Named(CachedVM) /\ None \notin Name
      /\ Harmless(CachedVM, CachedVM)
  BY CopyTypes, CtlIsActor, ClusterAssumption, HarmlessSame DEF CachedVM
<1>a. /\ PodsAtSwitch \in [Name -> Pod] /\ pods \in [Name -> Pod]
      /\ DeleteAllVMPods \in [Name -> Pod]
      /\ OnlyMarked(pods) /\ OnlyMarked(DeleteAllVMPods) /\ OnlyMarked(PodsAtSwitch)
  BY PodsAtSwitchTypes, SwitchMarks
<1>1. CASE AddFinalizer
  <2> DEFINE new == [CachedVM EXCEPT !.finalizer = TRUE]
  <2>1. Harmless(CachedVM, new)
    BY <1>0 DEF Harmless, VirtualMachine
  <2> HIDE DEF new
  <2>2. Finish(new, pods) /\ UNCHANGED ch /\ ctlUnchanged
    BY <1>1 DEF AddFinalizer, new
  <2> QED BY <2>1, <2>2, <1>a, FinishPreserves
<1>2. CASE RemoveFinalizer
  <2> DEFINE new == NoVM(CachedVM.runPolicy)
  <2>1. new.podUID = None /\ new.targetPodUID = None /\ ~new.deleting
    BY DEF NoVM
  <2> HIDE DEF new
  <2>2. /\ AllVMPodsDeleted /\ \E ok \in Outcomes(Ctl) : UpdateVM(new, ok)
        /\ UNCHANGED <<pods, ch, podCache, vmCache>>
    BY <1>2 DEF RemoveFinalizer, ctlUnchanged, new
  <2>3. PodStep
    BY <2>2, StillStep
  <2> QED BY <2>1, <2>2, <2>3, DesertedPreserves
<1>3. CASE NameVMPod
  <2>0. PICK n \in Name \ UsedNames :
          Finish([CachedVM EXCEPT !.podName = n, !.phase = "Scheduling"],
                 PodsAtSwitch)
    BY <1>3 DEF NameVMPod
  <2> DEFINE new == [CachedVM EXCEPT !.podName = n, !.phase = "Scheduling"]
  <2>1. CachedVM.phase = "Pending" /\ UNCHANGED ch /\ ctlUnchanged
    BY <1>3 DEF NameVMPod, AtSwitch
  <2>2. Harmless(CachedVM, new)
    BY <1>0, <2>1 DEF Harmless, VirtualMachine
  <2> QED BY <2>0, <2>1, <2>2, <1>a, FinishPreserves
<1>4. CASE CreateVMPod
  <2>1. CachedVM.podName \in Name
    BY <1>4, <1>0 DEF CreateVMPod, AtSwitch, VirtualMachine, Named
  <2>2. CreatePod(CachedVM.podName, CachedVM, FALSE)
        /\ UNCHANGED ch /\ ctlUnchanged
    BY <1>4 DEF CreateVMPod
  <2> QED BY <2>1, <2>2, <1>0, CreatePodPreserves
<1>5. CASE VMPodLost
  <2> DEFINE new == [CachedVM EXCEPT !.phase = "Failed"]
  <2>1. Harmless(CachedVM, new)
    BY <1>0 DEF Harmless, VirtualMachine
  <2> HIDE DEF new
  <2>2. Finish(new, pods) /\ UNCHANGED ch /\ ctlUnchanged
    BY <1>5 DEF VMPodLost, new
  <2> QED BY <2>1, <2>2, <1>a, FinishPreserves
<1>6. CASE FollowVMPod
  <2> DEFINE pod == CachedPods[CachedVM.podName]
             phase == PhaseOf(pod.phase, CachedVM.phase)
             new == [CachedVM EXCEPT !.podUID = pod.uid, !.nodeName = pod.node,
                                     !.phase = phase]
  <2>1. /\ CachedVM.podName \in Name /\ CachedVM.exists
        /\ CachedVM.deleting \/ CachedVM.finalizer
        /\ CachedVM.phase \in {"Scheduling", "Scheduled"}
    BY <1>6, <1>0 DEF FollowVMPod, AtSwitch, VirtualMachine, Named
  <2>2. phase # "Pending" /\ (phase = "Scheduling" => CachedVM.phase = "Scheduling")
    BY <2>1 DEF PhaseOf
  <2>3. Finish(new, PodsAtSwitch) /\ UNCHANGED ch /\ ctlUnchanged
    BY <1>6 DEF FollowVMPod
  <2>4. pod.uid = podCache[Ctl][CachedVM.podName].uid
    BY DEF CachedPods
  <2> HIDE DEF pod, phase
  <2>5. /\ new.podUID = pod.uid /\ new.targetPodUID = CachedVM.targetPodUID
        /\ new.phase = phase /\ new.podName = CachedVM.podName
        /\ new.exists = CachedVM.exists /\ new.finalizer = CachedVM.finalizer
        /\ new.deleting = CachedVM.deleting
    BY <1>0 DEF VirtualMachine
  <2> HIDE DEF new
  <2>6. Harmless(CachedVM, new)
    BY <2>1, <2>2, <2>4, <2>5 DEF Harmless
  <2> QED BY <2>3, <2>6, <1>a, FinishPreserves
<1>7. CASE RunningVMEnded
  <2> DEFINE new == [CachedVM EXCEPT !.phase = RunningPhase]
  <2>1. RunningPhase \in {"Running", "Failed", "Succeeded", "Unknown"}
    BY DEF RunningPhase, PhaseOf
  <2>2. Harmless(CachedVM, new)
    BY <1>0, <2>1 DEF Harmless, VirtualMachine
  <2> HIDE DEF new
  <2>3. Finish(new, pods) /\ UNCHANGED ch /\ ctlUnchanged
    BY <1>7 DEF RunningVMEnded, new
  <2> QED BY <2>2, <2>3, <1>a, FinishPreserves
<1>b. /\ Checked \in VirtualMachine /\ Harmless(CachedVM, Checked)
      /\ \A f \in {"podUID", "targetPodUID", "phase", "podName", "exists",
                   "finalizer", "deleting", "targetPodName"} :
           Checked[f] = CachedVM[f]
  <2>1. Checked \in VirtualMachine
    BY <1>0 DEF Checked, VirtualMachine
  <2>2. \A f \in {"podUID", "targetPodUID", "phase", "podName", "exists",
                  "finalizer", "deleting", "targetPodName"} :
           Checked[f] = CachedVM[f]
    BY <1>0 DEF Checked, VirtualMachine
  <2>3. Harmless(CachedVM, Checked)
    BY <1>0 DEF Checked, Harmless, VirtualMachine
  <2> QED BY <2>1, <2>2, <2>3
<1>8. CASE RunningVM
  <2>1. Finish(Checked, pods) /\ UNCHANGED ch /\ ctlUnchanged
    BY <1>8 DEF RunningVM
  <2> QED BY <2>1, <1>b, <1>a, FinishPreserves
<1>9. CASE NameTargetPod
  <2>0. PICK n \in Name \ UsedNames :
          Finish([Checked EXCEPT !.targetPodName = n, !.migPhase = "Scheduling"],
                 pods)
    BY <1>9 DEF NameTargetPod
  <2> DEFINE new == [Checked EXCEPT !.targetPodName = n, !.migPhase = "Scheduling"]
  <2>1. /\ new.podUID = Checked.podUID /\ new.targetPodUID = Checked.targetPodUID
        /\ new.phase = Checked.phase /\ new.podName = Checked.podName
        /\ new.exists = Checked.exists /\ new.finalizer = Checked.finalizer
        /\ new.deleting = Checked.deleting
    BY <1>b DEF VirtualMachine
  <2>2. UNCHANGED ch /\ ctlUnchanged /\ Finish(new, pods)
    BY <1>9, <2>0 DEF NameTargetPod
  <2> HIDE DEF new
  <2>3. Harmless(CachedVM, new)
    BY <1>b, <2>1 DEF Harmless
  <2> QED BY <2>2, <2>3, <1>a, FinishPreserves
<1>10. CASE CreateTargetPod
  <2>1. CachedVM.targetPodName \in Name
    BY <1>10, <1>0 DEF CreateTargetPod, VirtualMachine, Named
  <2>2. CreatePod(CachedVM.targetPodName, Checked, TRUE)
        /\ UNCHANGED ch /\ ctlUnchanged
    BY <1>10 DEF CreateTargetPod
  <2> QED BY <2>1, <2>2, <1>b, CreatePodPreserves
<1>11. CASE FollowTargetPod
  <2> DEFINE pod == CachedPods[CachedVM.targetPodName]
             phase == CASE pod.phase = "Running" -> "Scheduled"
                        [] pod.phase = "Pending" -> "Scheduling"
                        [] OTHER -> "Failed"
             new == [Checked EXCEPT !.targetPodUID = pod.uid,
                                    !.targetNodeName = pod.node,
                                    !.migPhase = phase]
  <2>1. CachedVM.targetPodName \in Name
    BY <1>11, <1>0 DEF FollowTargetPod, VirtualMachine, Named
  <2>2. /\ CachedVM.exists /\ (CachedVM.deleting \/ CachedVM.finalizer)
        /\ CachedVM.phase = "Running"
    BY <1>11 DEF FollowTargetPod, StillRunning, AtSwitch
  <2>3. Finish(new, pods) /\ UNCHANGED ch /\ ctlUnchanged
    BY <1>11 DEF FollowTargetPod
  <2>4. pod.uid = podCache[Ctl][CachedVM.targetPodName].uid
    BY DEF CachedPods
  <2> HIDE DEF pod, phase
  <2>5. /\ new.podUID = Checked.podUID /\ new.targetPodUID = pod.uid
        /\ new.phase = Checked.phase /\ new.podName = Checked.podName
        /\ new.exists = Checked.exists /\ new.finalizer = Checked.finalizer
        /\ new.deleting = Checked.deleting
    BY <1>b DEF VirtualMachine
  <2> HIDE DEF new
  <2>6. Harmless(CachedVM, new)
    BY <1>b, <2>1, <2>2, <2>4, <2>5 DEF Harmless
  <2> QED BY <2>3, <2>6, <1>a, FinishPreserves
<1>12. CASE TakeDown
  <2>1. Finish(CachedVM, DeleteAllVMPods) /\ UNCHANGED ch /\ ctlUnchanged
    BY <1>12 DEF TakeDown
  <2> QED BY <2>1, <1>0, <1>a, FinishPreserves
<1>13. CASE RunOrRest
  <2> DEFINE phase == IF ShouldRun(CachedVM) THEN "Pending" ELSE CachedVM.phase
             new == ResetStatus(CachedVM, phase)
  <2>1. /\ Finish(new, pods) /\ UNCHANGED ch /\ ctlUnchanged
        /\ AllVMPodsDeleted
    BY <1>13 DEF RunOrRest
  <2> HIDE DEF phase
  <2>2. /\ new.podUID = None /\ new.targetPodUID = None /\ new.exists
        /\ new.finalizer = CachedVM.finalizer /\ new.deleting = CachedVM.deleting
    BY DEF ResetStatus, NoVM
  <2> HIDE DEF new
  <2>3. PodStep /\ \E ok \in Outcomes(Ctl) : UpdateVM(new, ok)
    BY <2>1, <1>a, FinishSteps, MarkedStep DEF ctlUnchanged
  <2> QED BY <2>1, <2>2, <2>3, DesertedPreserves DEF ctlUnchanged
<1>14. CASE UnknownVM
  <2>1. Finish(CachedVM, pods) /\ UNCHANGED ch /\ ctlUnchanged
    BY <1>14 DEF UnknownVM
  <2> QED BY <2>1, <1>0, <1>a, FinishPreserves
<1> QED
  BY <1>1, <1>2, <1>3, <1>4, <1>5, <1>6, <1>7, <1>8, <1>9, <1>10, <1>11,
     <1>12, <1>13, <1>14
  DEF VMControllerReconcile

-----------------------------------------------------------------------------
\* A write of a daemon to the VM, beside a step on its process.
LEMMA DaemonPreserves ==
  ASSUME TypeInv, GuestInv, TypeInv', NEW d \in Node, NEW new,
         Harmless(vmCache[d], new), Write(d, new), PodStep
  PROVE  Correct
<1>1. VMStep
  BY WriteStep DEF Write, Actor
<1> QED BY <1>1, StepPreserves

\* Phases a daemon writes.
LEMMA DaemonHarmless ==
  ASSUME NEW v \in VirtualMachine, NEW migPhase,
         NEW phase \in {"Running", "Succeeded", "Failed"}
  PROVE  /\ Harmless(v, [v EXCEPT !.phase = phase])
         /\ Harmless(v, [v EXCEPT !.migPhase = migPhase])
         /\ Harmless(v, [v EXCEPT !.powerAction = ""])
<1>1. Harmless(v, [v EXCEPT !.phase = phase])
  BY DEF Harmless, VirtualMachine
<1>2. Harmless(v, [v EXCEPT !.migPhase = migPhase])
  BY DEF Harmless, VirtualMachine
<1>3. Harmless(v, [v EXCEPT !.powerAction = ""])
  BY DEF Harmless, VirtualMachine
<1> QED BY <1>1, <1>2, <1>3

\* A process that answers is that of a pod, under the UID it was asked for.
LEMMA AnsweringPod ==
  ASSUME NEW u, NEW d, NEW n \in Answering(u, d)
  PROVE  n \in Name /\ Alive(n) /\ pods[n].uid = u /\ ch[n] \notin {"none", "exited"}
BY DEF Answering, PodsOf, Alive

\* One that answers vm.info answers.
LEMMA InfoPod ==
  ASSUME NEW u, NEW d, NEW n \in VmInfo(u, d)
  PROVE  n \in Answering(u, d)
BY DEF VmInfo

\* One case for each action of a daemon.
LEMMA DaemonReconcilePreserves ==
  ASSUME TypeInv, GuestInv, TypeInv', NEW d \in Node, DaemonReconcile(d)
  PROVE  Correct
<1> DEFINE v == vmCache[d]
<1>0. v \in VirtualMachine /\ Harmless(v, v) /\ d \in Actor /\ v \in Views
  BY CopyTypes, HarmlessSame, ViewsInclude DEF Actor
<1>a. \A phase \in {"Running", "Succeeded", "Failed"} :
        Harmless(v, [v EXCEPT !.phase = phase])
  BY <1>0, DaemonHarmless
<1>b. \A phase \in MigrationPhase : Harmless(v, [v EXCEPT !.migPhase = phase])
  BY <1>0, DaemonHarmless
<1>c. ASSUME UNCHANGED ch, UNCHANGED <<pods, podCache>> PROVE PodStep
  BY <1>c, StillStep
<1> HIDE DEF v
<1>1. CASE DaemonDeletesVM(d)
  <2>1. Write(d, [v EXCEPT !.phase = "Succeeded"])
    BY <1>1 DEF DaemonDeletesVM, v
  <2>2. UNCHANGED ch \/ \E n \in VmInfo(v.podUID, d) : ch' = [ch EXCEPT ![n] = "empty"]
    BY <1>1 DEF DaemonDeletesVM, v
  <2>3. UNCHANGED <<pods, podCache>>
    BY <2>1 DEF Write
  <2>4. ASSUME NEW n \in VmInfo(v.podUID, d), ch' = [ch EXCEPT ![n] = "empty"]
        PROVE  PodStep
    BY <2>3, <2>4, InfoPod, AnsweringPod, ProcessStep
  <2> QED BY <2>1, <2>2, <2>3, <2>4, <1>a, <1>c, DaemonPreserves DEF v
<1>2. CASE BootVM(d)
  <2>1. /\ Write(d, v) /\ v.phase = "Scheduled"
        /\ \E n \in VmInfo(v.podUID, d) :
             /\ ch[n] \in {"empty", "created"}
             /\ \E state \in {"created", "running"} : ch' = [ch EXCEPT ![n] = state]
    BY <1>2 DEF BootVM, v
  <2>2. PICK n \in VmInfo(v.podUID, d) :
             /\ ch[n] \in {"empty", "created"}
             /\ \E state \in {"created", "running"} : ch' = [ch EXCEPT ![n] = state]
    BY <2>1
  <2>3. n \in Name /\ Alive(n) /\ pods[n].uid = v.podUID
    BY InfoPod, AnsweringPod
  <2>4. Boots(v, n)
    BY <2>1, <2>3 DEF Boots
  <2>5. /\ ch'[n] \in {"created", "running"}
        /\ \A m \in Name \ {n} : ch'[m] = ch[m]
    BY <2>2, <2>3 DEF TypeInv, TypeOK
  <2>6. OnlyProcess(n)
    BY <2>1, <2>5 DEF OnlyProcess, Write
  <2>7. UNCHANGED vmVars
    BY <2>1, WriteOutcome DEF Write, vmVars, v
  <2> QED BY <2>2, <2>3, <2>4, <2>5, <2>6, <2>7, <1>0, BootPreserves
<1>3. CASE ObserveBoot(d)
  <2>1. /\ \E phase \in {"Running", "Failed"} : Write(d, [v EXCEPT !.phase = phase])
        /\ UNCHANGED ch
    BY <1>3 DEF ObserveBoot, v
  <2>2. UNCHANGED <<pods, podCache>>
    BY <2>1 DEF Write
  <2> QED BY <2>1, <2>2, <1>a, <1>c, DaemonPreserves DEF v
<1>4. CASE HaltVM(d)
  <2>1. Write(d, v)
    BY <1>4 DEF HaltVM, v
  <2>2. PICK n \in VmInfo(v.podUID, d) :
          /\ HasGuest(n)
          /\ \E state \in {"created", "shutdown"} : ch' = [ch EXCEPT ![n] = state]
    BY <1>4 DEF HaltVM, v
  <2>3. UNCHANGED <<pods, podCache>>
    BY <2>1 DEF Write
  <2>4. PodStep
    BY <2>2, <2>3, InfoPod, AnsweringPod, ProcessStep DEF HasGuest
  <2> QED BY <2>1, <2>4, <1>0, DaemonPreserves DEF v
<1>5. CASE DoPowerAction(d)
  <2>1. Write(d, [v EXCEPT !.powerAction = ""])
    BY <1>5 DEF DoPowerAction, v
  <2>2. PICK n \in VmInfo(v.podUID, d) :
          /\ HasGuest(n)
          /\ \E state \in AfterPower(v.powerAction, ch[n]) : ch' = [ch EXCEPT ![n] = state]
    BY <1>5 DEF DoPowerAction, v
  <2>3. AfterPower(v.powerAction, ch[n])
          \subseteq {"created", "shutdown", "running", "paused"}
    BY <2>2 DEF AfterPower, HasGuest
  <2>4. UNCHANGED <<pods, podCache>>
    BY <2>1 DEF Write
  <2>5. n \in Name
    BY InfoPod, AnsweringPod
  <2>6. PodStep
    BY <2>2, <2>3, <2>4, <2>5, ProcessStep DEF HasGuest
  <2>7. Harmless(v, [v EXCEPT !.powerAction = ""])
    BY <1>0, DaemonHarmless
  <2> QED BY <2>1, <2>6, <2>7, DaemonPreserves DEF v
<1>6. CASE ObserveShutdown(d)
  <2>1. Write(d, [v EXCEPT !.phase = "Succeeded"]) /\ UNCHANGED ch
    BY <1>6 DEF ObserveShutdown, v
  <2>2. UNCHANGED <<pods, podCache>>
    BY <2>1 DEF Write
  <2> QED BY <2>1, <2>2, <1>a, <1>c, DaemonPreserves DEF v
<1>7. CASE PrepareTarget(d)
  <2>1. PICK phase \in MigrationPhase : Write(d, [v EXCEPT !.migPhase = phase])
    BY <1>7 DEF PrepareTarget, v, MigrationPhase
  <2>2. UNCHANGED <<pods, podCache>>
    BY <2>1 DEF Write
  <2>3. CASE UNCHANGED ch
    BY <2>1, <2>2, <2>3, <1>b, <1>c, DaemonPreserves DEF v
  <2>4. ASSUME NEW n \in Answering(v.targetPodUID, d),
               ch[n] \in {"empty", "receiving"}, ch' = [ch EXCEPT ![n] = "receiving"]
        PROVE  Correct
    <3>1. n \in Name /\ Alive(n) /\ pods[n].uid = v.targetPodUID
      BY AnsweringPod
    <3>2. ch'[n] = "receiving" /\ OnlyProcess(n)
      BY <2>2, <2>4, <3>1 DEF OnlyProcess, TypeInv, TypeOK
    <3>3. VMStep
      BY <2>1, <1>0, <1>b, WriteStep DEF Write, v
    <3> QED BY <2>4, <3>1, <3>2, <3>3, <1>0, ReceiverPreserves
  <2> QED BY <1>7, <2>3, <2>4 DEF PrepareTarget, v
<1>8. CASE StartSend(d)
  <2>1. Write(d, [v EXCEPT !.migPhase = "Running"]) /\ UNCHANGED ch
    BY <1>8 DEF StartSend, v
  <2>2. UNCHANGED <<pods, podCache>>
    BY <2>1 DEF Write
  <2> QED BY <2>1, <2>2, <1>b, <1>c, DaemonPreserves DEF v, MigrationPhase
<1>9. CASE SourceSent(d)
  <2>1. Write(d, [v EXCEPT !.migPhase = "Sent"]) /\ UNCHANGED ch
    BY <1>9 DEF SourceSent, v
  <2>2. UNCHANGED <<pods, podCache>>
    BY <2>1 DEF Write
  <2> QED BY <2>1, <2>2, <1>b, <1>c, DaemonPreserves DEF v, MigrationPhase
<1>10. CASE SourceFailed(d)
  <2>1. Write(d, [v EXCEPT !.migPhase = "Failed"]) /\ UNCHANGED ch
    BY <1>10 DEF SourceFailed, v
  <2>2. UNCHANGED <<pods, podCache>>
    BY <2>1 DEF Write
  <2> QED BY <2>1, <2>2, <1>b, <1>c, DaemonPreserves DEF v, MigrationPhase
<1>11. CASE TargetTakesOver(d)
  <2> DEFINE new == [v EXCEPT !.migPhase = "Succeeded",
                              !.nodeName = v.targetNodeName,
                              !.podName = v.targetPodName,
                              !.podUID = v.targetPodUID]
  <2>1. Write(d, new) /\ UNCHANGED ch /\ v.phase = "Running"
    BY <1>11 DEF TargetTakesOver, Migrates, v
  <2>2. Harmless(v, new)
    BY <1>0, <2>1 DEF Harmless, VirtualMachine
  <2>3. UNCHANGED <<pods, podCache>>
    BY <2>1 DEF Write
  <2> HIDE DEF new
  <2> QED BY <2>1, <2>2, <2>3, <1>c, DaemonPreserves DEF v
<1>12. CASE ForgetMigration(d)
  <2>1. Write(d, v) /\ UNCHANGED ch
    BY <1>12 DEF ForgetMigration, v
  <2>2. UNCHANGED <<pods, podCache>>
    BY <2>1 DEF Write
  <2> QED BY <2>1, <2>2, <1>0, <1>c, DaemonPreserves DEF v
<1> QED
  BY <1>1, <1>2, <1>3, <1>4, <1>5, <1>6, <1>7, <1>8, <1>9, <1>10, <1>11, <1>12
  DEF DaemonReconcile

\* Receivers that give up.
LEMMA GiveUpStep ==
  ASSUME TypeInv, GuestInv, NEW S, NEW R \in SUBSET Receivers(S), ch' = GiveUp(R),
         UNCHANGED pods, podCache'[Ctl] = podCache[Ctl]
  PROVE  PodStep
<1>1. ASSUME NEW n \in Name PROVE Quiet(n)
  <2>1. CASE n \in R
    <3>1. ch[n] = "receiving" /\ ch'[n] = "empty"
      BY <2>1 DEF Receivers, GiveUp
    <3>2. Alive(n) /\ pods[n].phase \notin {"Succeeded", "Failed"}
      BY <3>1 DEF GuestInv, PodInv
    <3> QED BY <3>1, <3>2 DEF Quiet, Alive, HasGuest, Ended
  <2>2. CASE n \notin R
    BY <2>2, UnchangedPodQuiet DEF GiveUp
  <2> QED BY <2>1, <2>2
<1>2. \A k, m \in Name : Alive(m)' /\ pods'[k].uid = pods'[m].uid => k = m
  BY DEF Alive, GuestInv, PodInv
<1> QED BY <1>1, <1>2 DEF PodStep

\* A restart leaves the guest where it is.
LEMMA DaemonRestartPreserves ==
  ASSUME TypeInv, GuestInv, TypeInv', NEW d \in Node, DaemonRestart(d)
  PROVE  Correct
<1>1. podCache'[Ctl] = podCache[Ctl]
  BY ClusterAssumption, CtlIsActor DEF DaemonRestart, TypeInv, TypeOK, Actor
<1>2. PodStep
  BY <1>1, GiveUpStep DEF DaemonRestart
<1>3. vmCache' = [vmCache EXCEPT ![d] = vm] /\ UNCHANGED vm
  BY DEF DaemonRestart
<1>4. VMStep
  BY <1>3, CopyStep DEF Views, TypeInv, TypeOK
<1> QED BY <1>2, <1>4, StepPreserves

\* The VMM controller does not touch pods.
LEMMA MigrationPreserves ==
  ASSUME TypeInv, GuestInv, TypeInv', NEW m \in Migration,
         CreateVMM(m) \/ VMMReconcile(m) \/ DeleteVMM(m) \/ SyncVMM(m)
  PROVE  Correct
<1> DEFINE v == vmCache[Ctl]
<1>0. v \in VirtualMachine
  BY CopyTypes, CtlIsActor
<1>a. ASSUME UNCHANGED vmVars PROVE VMStep
  BY <1>a, CopyStep DEF vmVars, Views
<1>b. ASSUME NEW new, Harmless(v, new), \E ok \in Outcomes(Ctl) : UpdateVM(new, ok),
             UNCHANGED vmCache
      PROVE  VMStep
  BY <1>b, WriteStep, CtlIsActor
<1> HIDE DEF v
<1>1. PodStep
  <2>1. UNCHANGED <<pods, ch, podCache>>
    BY DEF CreateVMM, DeleteVMM, SyncVMM, VMMReconcile, ReleaseVM, RefuseVMM,
           ClaimVM, FollowVM, podVars
  <2> QED BY <2>1, StillStep
<1>2. CASE CreateVMM(m) \/ DeleteVMM(m) \/ SyncVMM(m) \/ RefuseVMM(m) \/ FollowVM(m)
  <2>1. UNCHANGED vmVars
    BY <1>2 DEF CreateVMM, DeleteVMM, SyncVMM, RefuseVMM, FollowVM
  <2> QED BY <2>1, <1>1, <1>a, StepPreserves
<1>3. CASE ReleaseVM(m)
  <2> DEFINE new == [v EXCEPT !.migUID = None, !.migPhase = "",
                              !.targetPodName = None, !.targetPodUID = None,
                              !.targetNodeName = None]
  <2>1. Harmless(v, new)
    BY <1>0 DEF Harmless, VirtualMachine
  <2>2. (\E ok \in Outcomes(Ctl) : UpdateVM(new, ok)) /\ UNCHANGED vmCache
    BY <1>3 DEF ReleaseVM, v
  <2> HIDE DEF new
  <2> QED BY <2>1, <2>2, <1>1, <1>b, StepPreserves
<1>4. CASE ClaimVM(m)
  <2> DEFINE new == [v EXCEPT !.migUID = m]
  <2>1. Harmless(v, new)
    BY <1>0 DEF Harmless, VirtualMachine
  <2>2. (\E ok \in Outcomes(Ctl) : UpdateVM(new, ok)) /\ UNCHANGED vmCache
    BY <1>4 DEF ClaimVM, v
  <2> HIDE DEF new
  <2> QED BY <2>1, <2>2, <1>1, <1>b, StepPreserves
<1> QED BY <1>2, <1>3, <1>4 DEF VMMReconcile

-----------------------------------------------------------------------------
\* Kubernetes and the hypervisors.
LEMMA KubernetesPodStep ==
  ASSUME TypeInv, GuestInv, NEW n \in Name, Kubelet(n) \/ PodFault(n)
  PROVE  PodStep
<1>0. /\ pods \in [Name -> Pod] /\ ch \in [Name -> HypervisorState]
      /\ pods[n] \in Pod
      /\ ~Alive(n) => pods[n] = NoPod /\ ch[n] = "none"
      /\ pods[n].phase \in {"Succeeded", "Failed"} => ch[n] = "none"
  BY DEF TypeInv, TypeOK, GuestInv, PodInv
<1>a. NoPod.uid = None /\ NoPod.phase = "Pending" /\ NoPod.node = None /\ ~NoPod.deleting
  BY DEF NoPod
<1>b. UNCHANGED podCache
  BY DEF Kubelet, PodFault, SchedulePod, StartPod, HypervisorUp, ReportExit,
         CollectPod, StopPod, RemovePod, PodFails, PodLost, DeletePod, GuestPowersOff
<1>c. ASSUME NEW p, NEW h, pods' = [pods EXCEPT ![n] = p], ch' = [ch EXCEPT ![n] = h],
             p.uid \in {pods[n].uid, None},
             p.uid = None => p = NoPod /\ h = "none",
             p.phase \in {"Succeeded", "Failed"} => h = "none",
             h \in {"running", "paused"} => HasGuest(n),
             Alive(n) /\ p.uid # None /\ Ended(n) =>
               h = "exited" \/ p.phase \in {"Succeeded", "Failed"},
             h \notin {"none", "empty"} => ch[n] \notin {"none", "empty"},
             h = "receiving" => ch[n] = "receiving"
      PROVE  PodStep
  <2>1. /\ pods'[n] = p /\ ch'[n] = h
        /\ \A m \in Name \ {n} : pods'[m] = pods[m] /\ ch'[m] = ch[m]
    BY <1>c, <1>0
  <2>2. Quiet(n)
    BY <1>c, <2>1 DEF Quiet, Alive, HasGuest, Ended
  <2> QED BY <1>b, <1>c, <2>1, <2>2, OnePod
<1>d. ASSUME NEW p, pods' = [pods EXCEPT ![n] = p], UNCHANGED ch,
             p.uid = pods[n].uid, Alive(n),
             pods[n].phase \in {"Succeeded", "Failed"} <=>
               p.phase \in {"Succeeded", "Failed"}
      PROVE  PodStep
  <2>1. ch' = [ch EXCEPT ![n] = ch[n]]
    BY <1>d, <1>0
  <2> QED BY <1>c, <1>d, <2>1, <1>0 DEF Alive, HasGuest, Ended
<1>e. ASSUME OnlyMarked(pods'), UNCHANGED ch PROVE PodStep
  BY <1>b, <1>e, MarkedStep
<1>f. \A S : OnlyMarked(Deleted(S))
  BY <1>0, MarkTypes DEF OnlyMarked, Deleted
<1>g. \A phase \in PodPhase :
        /\ [pods[n] EXCEPT !.phase = phase].uid = pods[n].uid
        /\ [pods[n] EXCEPT !.phase = phase].phase = phase
  BY <1>0 DEF Pod
<1>1. ASSUME NEW d \in Node, SchedulePod(n, d) PROVE PodStep
  <2> DEFINE p == [pods[n] EXCEPT !.node = d]
  <2>1. p.uid = pods[n].uid /\ p.phase = pods[n].phase
    BY <1>0 DEF Pod
  <2>2. pods' = [pods EXCEPT ![n] = p] /\ UNCHANGED ch /\ Alive(n)
    BY <1>1 DEF SchedulePod, Alive
  <2> HIDE DEF p
  <2> QED BY <2>1, <2>2, <1>d
<1>2. CASE StartPod(n)
  <2> DEFINE p == [pods[n] EXCEPT !.phase = "Running"]
  <2>1. p.uid = pods[n].uid /\ p.phase = "Running"
    BY <1>g DEF PodPhase
  <2>2. /\ pods' = [pods EXCEPT ![n] = p] /\ UNCHANGED ch /\ pods[n].node # None
        /\ pods[n].phase = "Pending"
    BY <1>2 DEF StartPod
  <2>3. Alive(n)
    BY <2>2, <1>0, <1>a
  <2> HIDE DEF p
  <2> QED BY <2>1, <2>2, <2>3, <1>d
<1>3. CASE HypervisorUp(n)
  <2>1. /\ pods[n].phase = "Running" /\ ch' = [ch EXCEPT ![n] = "empty"]
        /\ ch[n] = "none"
        /\ pods' = [pods EXCEPT ![n] = pods[n]]
    BY <1>3, <1>0 DEF HypervisorUp
  <2>2. Alive(n) /\ ~Ended(n)
    BY <2>1, <1>0, <1>a DEF Ended
  <2> QED BY <2>1, <2>2, <1>c DEF Alive
<1>4. CASE ReportExit(n)
  <2> DEFINE p == [pods[n] EXCEPT !.phase = "Succeeded"]
  <2>1. p.uid = pods[n].uid /\ p.phase = "Succeeded"
    BY <1>g DEF PodPhase
  <2>2. /\ pods' = [pods EXCEPT ![n] = p] /\ ch' = [ch EXCEPT ![n] = "none"]
        /\ ch[n] = "exited"
    BY <1>4 DEF ReportExit
  <2>3. Alive(n)
    BY <2>2, <1>0
  <2> HIDE DEF p
  <2> QED BY <2>1, <2>2, <2>3, <1>c DEF Alive
<1>5. CASE CollectPod(n) \/ DeletePod(n)
  BY <1>5, <1>e, <1>f DEF CollectPod, DeletePod
<1>6. CASE StopPod(n)
  <2>1. PICK phase \in {"Succeeded", "Failed"} :
          pods' = [pods EXCEPT ![n] = [pods[n] EXCEPT !.phase = phase]]
    BY <1>6 DEF StopPod
  <2> DEFINE p == [pods[n] EXCEPT !.phase = phase]
  <2>2. p.uid = pods[n].uid /\ p.phase = phase
    BY <1>g DEF PodPhase
  <2>3. pods[n].deleting /\ ch' = [ch EXCEPT ![n] = "none"]
    BY <1>6 DEF StopPod
  <2>4. Alive(n)
    BY <2>3, <1>0, <1>a
  <2>5. pods' = [pods EXCEPT ![n] = p]
    BY <2>1
  <2> HIDE DEF p
  <2> QED BY <2>2, <2>3, <2>4, <2>5, <1>c DEF Alive
<1>7. CASE RemovePod(n)
  <2>1. pods' = [pods EXCEPT ![n] = NoPod] /\ ch' = [ch EXCEPT ![n] = "none"]
    BY <1>7 DEF RemovePod
  <2> QED BY <2>1, <1>a, <1>c
<1>8. CASE PodFails(n)
  <2> DEFINE p == [pods[n] EXCEPT !.phase = "Failed"]
  <2>1. p.uid = pods[n].uid /\ p.phase = "Failed"
    BY <1>g DEF PodPhase
  <2>2. /\ pods' = [pods EXCEPT ![n] = p] /\ ch' = [ch EXCEPT ![n] = "none"]
        /\ Alive(n)
    BY <1>8 DEF PodFails, Alive
  <2> HIDE DEF p
  <2> QED BY <2>1, <2>2, <1>c DEF Alive
<1>9. CASE PodLost(n)
  <2> DEFINE p == [pods[n] EXCEPT !.phase = "Unknown"]
  <2>1. p.uid = pods[n].uid /\ p.phase = "Unknown"
    BY <1>g DEF PodPhase
  <2>2. /\ pods' = [pods EXCEPT ![n] = p] /\ UNCHANGED ch
        /\ pods[n].phase = "Running"
    BY <1>9 DEF PodLost
  <2>3. Alive(n)
    BY <2>2, <1>0, <1>a
  <2> HIDE DEF p
  <2> QED BY <2>1, <2>2, <2>3, <1>d
<1>10. CASE GuestPowersOff(n)
  <2>1. PICK state \in {"exited", "shutdown"} : ch' = [ch EXCEPT ![n] = state]
    BY <1>10 DEF GuestPowersOff
  <2>2. ch[n] = "running" /\ pods' = [pods EXCEPT ![n] = pods[n]]
    BY <1>10, <1>0 DEF GuestPowersOff
  <2>3. Alive(n) /\ ~Ended(n) /\ pods[n].phase \notin {"Succeeded", "Failed"}
    BY <2>2, <1>0 DEF Ended
  <2> QED BY <2>1, <2>2, <2>3, <1>c DEF Alive
<1> QED
  BY <1>1, <1>2, <1>3, <1>4, <1>5, <1>6, <1>7, <1>8, <1>9, <1>10
  DEF Kubelet, PodFault

\* Kubernetes, transfers, informers and the user.
LEMMA EnvironmentPreserves ==
  ASSUME TypeInv, GuestInv, TypeInv', Environment
  PROVE  Correct
<1>a. ASSUME UNCHANGED vmVars PROVE VMStep
  BY <1>a, CopyStep DEF vmVars, Views
<1>b. ASSUME UNCHANGED podVars PROVE PodStep
  BY <1>b, StillStep DEF podVars
<1>c. vm \in VirtualMachine
  BY DEF TypeInv, TypeOK
<1>1. ASSUME NEW a \in Actor, SyncVM(a) PROVE Correct
  <2>1. VMStep
    <3>1. vmCache' = [vmCache EXCEPT ![a] = vm] /\ UNCHANGED vm
      BY <1>1 DEF SyncVM
    <3> QED BY <3>1, CopyStep DEF Views, TypeInv, TypeOK
  <2>2. PodStep
    BY <1>1, <1>b DEF SyncVM
  <2> QED BY <2>1, <2>2, StepPreserves
<1>2. ASSUME NEW a \in Actor, SyncPods(a) PROVE Correct
  <2>1. CASE a = Ctl
    BY <1>2, <2>1, CachePreserves
  <2>2. CASE a # Ctl
    <3>1. podCache'[Ctl] = podCache[Ctl] /\ UNCHANGED <<pods, ch>>
      BY <1>2, <2>2, CtlIsActor DEF SyncPods, TypeInv, TypeOK
    <3>2. PodStep
      BY <3>1, StillStep
    <3>3. VMStep
      BY <1>2, <1>a DEF SyncPods
    <3> QED BY <3>2, <3>3, StepPreserves
  <2> QED BY <2>1, <2>2
<1>3. ASSUME NEW n \in Name, Kubelet(n) \/ PodFault(n) PROVE Correct
  <2>1. UNCHANGED vmVars
    BY <1>3
    DEF Kubelet, PodFault, SchedulePod, StartPod, HypervisorUp, ReportExit,
        CollectPod, StopPod, RemovePod, PodFails, PodLost, DeletePod, GuestPowersOff
  <2>2. PodStep
    BY <1>3, KubernetesPodStep
  <2> QED BY <2>1, <2>2, <1>a, StepPreserves
<1>4. ASSUME NEW s \in sends, SendSucceeds(s) PROVE Correct
  BY <1>4, SendPreserves
<1>5. ASSUME NEW s \in sends, SendFails(s) PROVE Correct
  <2>1. PodStep
    BY <1>5, GiveUpStep DEF SendFails
  <2>2. VMStep
    BY <1>5, <1>a DEF SendFails
  <2> QED BY <2>1, <2>2, StepPreserves
<1>6. CASE DeleteVM
  <2>1. Harmless(vm, vm')
    <3>1. CASE vm.finalizer
      <4>1. vm' = [vm EXCEPT !.deleting = TRUE] /\ vm.exists
        BY <1>6, <3>1 DEF DeleteVM
      <4> QED BY <4>1, <3>1, <1>c DEF Harmless, VirtualMachine
    <3>2. CASE ~vm.finalizer
      <4>1. vm' = NoVM(vm.runPolicy)
        BY <1>6, <3>2 DEF DeleteVM
      <4> QED BY <4>1, <3>2 DEF Harmless, NoVM
    <3> QED BY <3>1, <3>2
  <2>2. VMStep
    BY <1>6, <2>1, UserStep DEF DeleteVM
  <2>3. PodStep
    BY <1>6, <1>b DEF DeleteVM
  <2> QED BY <2>2, <2>3, StepPreserves
<1>7. ASSUME NEW policy \in Policies, SetRunPolicy(policy) PROVE Correct
  <2>1. vm' = [vm EXCEPT !.runPolicy = policy]
    BY <1>7 DEF SetRunPolicy
  <2>2. Harmless(vm, vm')
    BY <2>1, <1>c DEF Harmless, VirtualMachine
  <2>3. VMStep
    BY <1>7, <2>2, UserStep DEF SetRunPolicy
  <2>4. PodStep
    BY <1>7, <1>b DEF SetRunPolicy
  <2> QED BY <2>3, <2>4, StepPreserves
<1>8. ASSUME NEW action \in Powers, SetPowerAction(action) PROVE Correct
  <2>1. vm' = [vm EXCEPT !.powerAction = action]
    BY <1>8 DEF SetPowerAction
  <2>2. Harmless(vm, vm')
    BY <2>1, <1>c DEF Harmless, VirtualMachine
  <2>3. VMStep
    BY <1>8, <2>2, UserStep DEF SetPowerAction
  <2>4. PodStep
    BY <1>8, <1>b DEF SetPowerAction
  <2> QED BY <2>3, <2>4, StepPreserves
<1> QED
  BY <1>1, <1>2, <1>3, <1>4, <1>5, <1>6, <1>7, <1>8, MigrationPreserves
  DEF Environment, Informers, Transfer, User

-----------------------------------------------------------------------------
\* A new VM has no pods.
LEMMA InitGuest ==
  ASSUME Init
  PROVE  GuestInv /\ Guests = {} /\ vm.exists
<1>1. PICK policy \in Policies :
        /\ vm = [NoVM(policy) EXCEPT !.exists = TRUE]
        /\ vmCache = [a \in Actor |-> NoVM(policy)]
  BY DEF Init
<1>2. /\ vm.exists /\ ~vm.deleting /\ vm.phase = ""
      /\ \A w \in Views : w.phase = ""
  <2>1. NoVM(policy).phase = ""
    BY DEF NoVM
  <2>2. vm.exists /\ ~vm.deleting /\ vm.phase = ""
    BY <1>1 DEF NoVM
  <2>3. \A a \in Actor : vmCache[a] = NoVM(policy)
    BY <1>1
  <2> QED BY <2>1, <2>2, <2>3 DEF Views
<1>3. /\ \A n \in Name : pods[n] = NoPod /\ ch[n] = "none" /\ podCache[Ctl][n] = NoPod
      /\ NoPod.uid = None /\ NoPod.phase = "Pending"
  BY CtlIsActor DEF Init, NoPod
<1>4. \A n \in Name : ~Alive(n) /\ ~HasGuest(n)
  BY <1>3 DEF Alive, HasGuest
<1>5. PodInv
  BY <1>3, <1>4 DEF PodInv
<1>6. SeenInv /\ FreshInv /\ HomeInv
  BY <1>2, <1>3, <1>4 DEF SeenInv, FreshInv, HomeInv, Names
<1>7. BootInv /\ FinalizerInv /\ AtMostOneGuest
  BY <1>2, <1>4 DEF BootInv, FinalizerInv, AtMostOneGuest, Boots, Names
<1>8. NamedInv
  BY InitTypes DEF TypeInv
<1>9. Guests = {}
  BY <1>4 DEF Guests
<1> QED BY <1>2, <1>5, <1>6, <1>7, <1>8, <1>9 DEF GuestInv

\* Every step preserves GuestInv and is a step of the abstract guest.
LEMMA NextGuest ==
  ASSUME TypeInv, GuestInv, [Next]_vars
  PROVE  TypeInv' /\ Correct
<1>0. TypeInv'
  BY NextTypes
<1>1. CASE UNCHANGED vars
  <2>1. VMStep
    BY <1>1, CopyStep DEF vars, Views
  <2>2. PodStep
    BY <1>1, StillStep DEF vars
  <2> QED BY <2>1, <2>2, <1>0, StepPreserves
<1>2. CASE Virtink
  BY <1>0, <1>2, ControllerPreserves, MigrationPreserves,
     DaemonReconcilePreserves, DaemonRestartPreserves
  DEF Virtink
<1>3. CASE Environment
  BY <1>0, <1>3, EnvironmentPreserves
<1> QED BY <1>0, <1>1, <1>2, <1>3 DEF Next

\* GuestInv holds for every set of nodes, names, UIDs and migrations, under all
\* faults: lagging caches, lost writes, restarts of daemons, failing and deleted
\* pods, broken transfers.
THEOREM GuestInvHolds == Spec => []GuestInv
<1>1. Init => TypeInv /\ GuestInv
  BY InitTypes, InitGuest
<1>2. TypeInv /\ GuestInv /\ [Next]_vars => (TypeInv /\ GuestInv)'
  BY NextGuest DEF Correct
<1> QED BY <1>1, <1>2, PTL DEF Spec

\* The guest of a VM never runs in two pods: the reconcilers of the controller
\* and of all daemons, on whatever copies they act, do not boot it twice and a
\* migration does not leave it behind.
THEOREM OneGuest == Spec => []AtMostOneGuest
<1>1. GuestInv => AtMostOneGuest
  BY DEF GuestInv
<1> QED BY <1>1, GuestInvHolds, PTL

\* The VM object is there as long as its guest runs: deleteAllVMPods and the
\* daemon's reconcileDeletingVM come before the finalizer goes.
THEOREM FinalizerHolds == Spec => []FinalizerProtectsGuest
<1>1. GuestInv => FinalizerProtectsGuest
  BY DEF GuestInv, FinalizerInv, FinalizerProtectsGuest
<1> QED BY <1>1, GuestInvHolds, PTL

\* The reconcilers implement GuestLocation: the guest starts only when it is
\* nowhere, moves in one step, and the object is removed only without it.
THEOREM Refinement == Spec => ImplementsGuestLocation
<1>1. Init => Guest!Init
  BY InitGuest, InitTypes DEF Guest!Init, Guests, TypeInv, TypeOK, VirtualMachine
<1>2. TypeInv /\ GuestInv /\ [Next]_vars =>
        [Guest!Next]_<<{n \in Name : HasGuest(n)}, vm.exists>>
  <2> SUFFICES ASSUME TypeInv, GuestInv, [Next]_vars
               PROVE  [Guest!Next]_<<{n \in Name : HasGuest(n)}, vm.exists>>
    OBVIOUS
  <2>1. GuestStep
    BY NextGuest DEF Correct
  <2>2. vm.exists \in BOOLEAN /\ vm'.exists \in BOOLEAN
    BY NextGuest DEF TypeInv, TypeOK, VirtualMachine
  <2>3. CASE Guests' = Guests /\ vm'.exists = vm.exists
    BY <2>3 DEF Guests
  <2>4. CASE Guests' = {} /\ Guests # {} /\ vm'.exists = vm.exists
    <3>1. Guest!Stop
      BY <2>4 DEF Guest!Stop, Guests
    <3> QED BY <3>1 DEF Guest!Next
  <2>5. CASE Guests = {} /\ Guests' = {} /\ vm.exists /\ ~vm'.exists
    <3>1. Guest!Delete
      BY <2>2, <2>5 DEF Guest!Delete, Guests
    <3> QED BY <3>1 DEF Guest!Next
  <2>6. CASE Guests = {} /\ vm.exists /\ vm'.exists /\ \E n \in Name : Guests' = {n}
    <3>1. PICK n \in Name : Guests' = {n}
      BY <2>6
    <3>2. Guest!Boot(n)
      BY <2>2, <2>6, <3>1 DEF Guest!Boot, Guests
    <3> QED BY <3>2 DEF Guest!Next
  <2>7. CASE /\ vm'.exists = vm.exists
             /\ \E m, n \in Name : Guests = {m} /\ Guests' = {n}
    <3>1. PICK m \in Name, n \in Name : Guests = {m} /\ Guests' = {n}
      BY <2>7
    <3>2. Guest!Move(m, n)
      BY <2>7, <3>1 DEF Guest!Move, Guests
    <3> QED BY <3>2 DEF Guest!Next
  <2> QED BY <2>1, <2>3, <2>4, <2>5, <2>6, <2>7 DEF GuestStep
<1> QED
  BY <1>1, <1>2, TypeInvHolds, GuestInvHolds, PTL
  DEF Spec, ImplementsGuestLocation, Guest!Spec

=============================================================================
