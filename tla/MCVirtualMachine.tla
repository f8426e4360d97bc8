-------------------------- MODULE MCVirtualMachine --------------------------
(***************************************************************************)
(* Instances of VirtualMachine.  The actors of Prompt see every change at  *)
(* once, which bounds the number of caches that lag behind.                *)
(***************************************************************************)
EXTENDS GuestInvariant, TLC

CONSTANT Prompt

Symmetry == Permutations(Name) \cup Permutations(Uid) \cup Permutations(Node)

Behind == {a \in Prompt : vmCache[a] # vm \/ podCache[a] # pods}

CatchUp ==
  /\ Behind # {}
  /\ vmCache' = [a \in Actor |-> IF a \in Prompt THEN vm ELSE vmCache[a]]
  /\ podCache' = [a \in Actor |-> IF a \in Prompt THEN pods ELSE podCache[a]]
  /\ UNCHANGED <<vm, pods, ch, isTarget, sendVars, vmmVars>>

MCNext == CatchUp \/ (Behind = {} /\ Next)

MCSpec == Init /\ [][MCNext]_vars

\* Symmetry is not used with it.
MCFairSpec == MCSpec /\ Fairness /\ WF_vars(CatchUp)
=============================================================================
