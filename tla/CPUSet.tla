------------------------------- MODULE CPUSet -------------------------------
(***************************************************************************)
(* pkg/cpuset: the list of CPUs that the kernel prints for a cgroup, a     *)
(* sequence of numbers <<n>> and of ranges <<first, last>>, as a set.      *)
(***************************************************************************)
EXTENDS Integers, Sequences, FiniteSetsExt, SequencesExt

\* A list that is well formed: no range runs backwards.
Parses(ranges) == \A i \in DOMAIN ranges : Len(ranges[i]) = 2 => ranges[i][1] <= ranges[i][2]

\* Mutant: the end of a range is left out.
ParseHalfOpen(ranges) ==
  UNION {ranges[i][1]..(ranges[i][Len(ranges[i])] - (Len(ranges[i]) - 1)) : i \in DOMAIN ranges}
Parse(ranges) == UNION {ranges[i][1]..ranges[i][Len(ranges[i])] : i \in DOMAIN ranges}

ToSlice(cpus) == SetToSortSeq(cpus, <)

\* The kernel's format: maximal ranges in ascending order.
Format(cpus) ==
  LET last(first) == Min({l \in cpus : l >= first /\ l + 1 \notin cpus})
      firsts == SetToSortSeq({c \in cpus : c - 1 \notin cpus}, <)
  IN  [i \in DOMAIN firsts |->
        IF last(firsts[i]) = firsts[i] THEN <<firsts[i]>> ELSE <<firsts[i], last(firsts[i])>>]
=============================================================================
