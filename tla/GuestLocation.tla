--------------------------- MODULE GuestLocation ---------------------------
(***************************************************************************)
(* What Virtink promises of one VM's guest: it is in one place at most, it *)
(* moves from one place to another in one step, it never starts while it   *)
(* is somewhere else, and the VM object outlives it.                       *)
(***************************************************************************)
EXTENDS Naturals

CONSTANT Place

VARIABLES
  guest,  \* the places where the guest is
  exists  \* the VM object is in the API server

Init == guest = {} /\ exists = TRUE

Boot(p) ==
  /\ exists /\ guest = {}
  /\ guest' = {p} /\ UNCHANGED exists

Stop ==
  /\ guest # {}
  /\ guest' = {} /\ UNCHANGED exists

Move(p, q) ==
  /\ guest = {p}
  /\ guest' = {q} /\ UNCHANGED exists

Delete ==
  /\ exists /\ guest = {}
  /\ exists' = FALSE /\ UNCHANGED guest

Next ==
  \/ \E p \in Place : Boot(p)
  \/ Stop
  \/ \E p, q \in Place : Move(p, q)
  \/ Delete

Spec == Init /\ [][Next]_<<guest, exists>>
=============================================================================
