---------------------------- MODULE Expectations ----------------------------
(***************************************************************************)
(* UIDTrackingControllerExpectations                                       *)
(* (pkg/controller/expectations/expectations.go): what one controller key  *)
(* still expects to see in its cache.  The counters may fall below zero.   *)
(***************************************************************************)
EXTENDS Integers, FiniteSets

\* exists: the key is in the store; expired: it was set over 5 minutes ago;
\* uids: the keys of the deletions that have not been observed.
NoExpectations ==
  [exists |-> FALSE, add |-> 0, del |-> 0, expired |-> FALSE, uids |-> {}]

Fulfilled(exp) == exp.add <= 0 /\ exp.del <= 0

\* Mutant: expectations never expire.
FulfilledExpectations(exp) == exp.exists => Fulfilled(exp)
SatisfiedExpectations(exp) == exp.exists => Fulfilled(exp) \/ exp.expired

\* Forgets what was expected before, but not the UIDs.
SetExpectations(exp, add, del) ==
  [exp EXCEPT !.exists = TRUE, !.add = add, !.del = del, !.expired = FALSE]

ExpectCreations(exp, adds) == SetExpectations(exp, adds, 0)

\* Mutant: only the UIDs are kept, they are not counted.
ExpectKeys(exp, keys) == SetExpectations([exp EXCEPT !.uids = keys], 0, 0)
ExpectDeletions(exp, keys) ==
  SetExpectations([exp EXCEPT !.uids = keys], 0, Cardinality(keys))

CreationObserved(exp) == IF exp.exists THEN [exp EXCEPT !.add = @ - 1] ELSE exp

\* An object is seen as deleted more than once: when its deletion timestamp is
\* set, at every later update, and when it is gone; only the first time counts.
DeletionObserved(exp, key) ==
  IF key \in exp.uids THEN [exp EXCEPT !.del = @ - 1, !.uids = @ \ {key}] ELSE exp

\* Mutant: the UIDs are not deleted.
DeleteCounters(exp) == [NoExpectations EXCEPT !.uids = exp.uids]
DeleteExpectations(exp) == NoExpectations
=============================================================================
