----------------------------- MODULE LruCache ------------------------------
(***************************************************************************)
(* An OrderedDict kept as a cache of what was used last: dataset_store.py  *)
(* keeps merged custom-data sets in one, api/catalog.py serialised         *)
(* catalogs in another.  Both move an entry to the end when it is read or  *)
(* written and drop entries from the front while there are too many.       *)
(*                                                                         *)
(* A cache is the sequence of its entries, oldest use first.  Every access *)
(* of the code is under the cache's lock, so each operator is one step.    *)
(***************************************************************************)
EXTENDS Naturals, Sequences, SequencesExt

Has(c, key) == \E i \in DOMAIN c : c[i].key = key

At(c, key) == CHOOSE i \in DOMAIN c : c[i].key = key

Value(c, key) == c[At(c, key)].value

Without(c, key) == IF Has(c, key) THEN RemoveAt(c, At(c, key)) ELSE c

\* Mutant of Used: a read leaves the entry where it was, and the cache drops
\* what was written first instead of what was used last.
UsedStays(c, key) == c

\* A read: the entry found moves to the end.
Used(c, key) == IF Has(c, key) THEN Append(Without(c, key), c[At(c, key)]) ELSE c

\* A write: the entry goes to the end, and the oldest give way.  The loop of
\* the code runs at most once, since the cache was within its bound before.
Stored(c, key, value, max) ==
  LET all == Append(Without(c, key), [key |-> key, value |-> value])
  IN  IF Len(all) > max THEN Tail(all) ELSE all

-----------------------------------------------------------------------------

\* Within its bound, and one entry to a key.
WellFormed(c, max) ==
  /\ Len(c) <= max
  /\ \A i, j \in DOMAIN c : c[i].key = c[j].key => i = j

\* The keys of a cache, oldest use first.
KeysOf(c) == [i \in DOMAIN c |-> c[i].key]

=============================================================================
