----------------------------- MODULE Aggregates -----------------------------
(***************************************************************************)
(* The two ways this code walks a collection as a whole: it adds up a      *)
(* number for each item (sum, reduce) and it keeps the items of a list     *)
(* that belong to some set (filter, a list comprehension with an if).      *)
(***************************************************************************)
EXTENDS Integers, Sequences, FiniteSets, SequencesExt

\* The sum of the values of a function, over all of its arguments.
Total(f) == MapThenSumSet(LAMBDA k : f[k], DOMAIN f)

\* The items of a list that are in a set, in the order of the list.
Picked(list, set) ==
  FoldLeft(LAMBDA kept, x : IF x \in set THEN Append(kept, x) ELSE kept, << >>, list)
=============================================================================
