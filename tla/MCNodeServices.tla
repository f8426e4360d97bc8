--------------------------- MODULE MCNodeServices ---------------------------
(***************************************************************************)
(* Two sessions on a node with two VM pods.  The pods are alike, so the    *)
(* first session may be taken to be the first pod's.                       *)
(***************************************************************************)
EXTENDS NodeServices

MCAsks ==
  [s \in Session |-> {<<"serial", "p1">>}
                     \cup (IF s = "s2" THEN {<<"console", "p1">>, <<"serial", "p2">>} ELSE {})]
=============================================================================
