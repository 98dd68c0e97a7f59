---------------------- MODULE DatasetHandshake_proofs ----------------------
(***************************************************************************)
(* Proofs about DatasetHandshake for every number of requests, rulesets,   *)
(* visitors and restarts, and for every size of the two caches.            *)
(***************************************************************************)
EXTENDS DatasetHandshake, Aggregates_proofs

(***************************************************************************)
(* What the operations of a cache keep, for every cache: its bound, one    *)
(* entry to a key, and entries that were there before or were put in.      *)
(***************************************************************************)

OneToAKey(c) == \A i, j \in DOMAIN c : c[i].key = c[j].key => i = j

(* Taking an entry out of a sequence leaves the others in their order:      *)
(* OrderedDict.popitem and move_to_end, first half.                         *)
LEMMA RemoveAtProperties ==
  ASSUME NEW E, NEW c \in Seq(E), NEW i \in 1 .. Len(c)
  PROVE  /\ RemoveAt(c, i) \in Seq(E)
         /\ Len(RemoveAt(c, i)) = Len(c) - 1
         /\ \A j \in 1 .. Len(c) - 1 : RemoveAt(c, i)[j] = IF j < i THEN c[j] ELSE c[j + 1]
<1> DEFINE a == SubSeq(c, 1, i - 1)
           b == SubSeq(c, i + 1, Len(c))
<1>1. /\ a \in Seq(E)
      /\ Len(a) = i - 1
      /\ \A j \in 1 .. i - 1 : a[j] = c[j]
  <2>1. \A j \in 1 .. i - 1 : c[j] \in E
    OBVIOUS
  <2>2. /\ 1 \in Int /\ i - 1 \in Int
    OBVIOUS
  <2>3. /\ SubSeq(c, 1, i - 1) \in Seq(E)
        /\ Len(SubSeq(c, 1, i - 1)) = IF 1 <= i - 1 THEN (i - 1) - 1 + 1 ELSE 0
        /\ \A j \in 1 .. ((i - 1) - 1 + 1) : SubSeq(c, 1, i - 1)[j] = c[1 + j - 1]
    BY <2>1, <2>2, SubSeqProperties
  <2> QED
    BY <2>3
<1>2. /\ b \in Seq(E)
      /\ Len(b) = Len(c) - i
      /\ \A j \in 1 .. Len(c) - i : b[j] = c[i + j]
  <2>1. \A j \in i + 1 .. Len(c) : c[j] \in E
    OBVIOUS
  <2>2. /\ i + 1 \in Int /\ Len(c) \in Int
    OBVIOUS
  <2>3. /\ SubSeq(c, i + 1, Len(c)) \in Seq(E)
        /\ Len(SubSeq(c, i + 1, Len(c))) = IF i + 1 <= Len(c) THEN Len(c) - (i + 1) + 1 ELSE 0
        /\ \A j \in 1 .. (Len(c) - (i + 1) + 1) :
             SubSeq(c, i + 1, Len(c))[j] = c[(i + 1) + j - 1]
    BY <2>1, <2>2, SubSeqProperties
  <2> QED
    BY <2>3
<1> HIDE DEF a, b
<1>3. RemoveAt(c, i) = a \o b
  BY DEF RemoveAt, a, b
<1>4. /\ a \o b \in Seq(E)
      /\ Len(a \o b) = Len(a) + Len(b)
      /\ \A j \in 1 .. Len(a) + Len(b) :
           (a \o b)[j] = IF j <= Len(a) THEN a[j] ELSE b[j - Len(a)]
  BY <1>1, <1>2, ConcatProperties
<1>5. \A j \in 1 .. Len(c) - 1 : (a \o b)[j] = IF j < i THEN c[j] ELSE c[j + 1]
  <2> SUFFICES ASSUME NEW j \in 1 .. Len(c) - 1
               PROVE  (a \o b)[j] = IF j < i THEN c[j] ELSE c[j + 1]
    OBVIOUS
  <2>1. CASE j < i
    BY <2>1, <1>1, <1>2, <1>4
  <2>2. CASE ~(j < i)
    <3>1. (a \o b)[j] = b[j - (i - 1)]
      BY <2>2, <1>1, <1>2, <1>4
    <3>2. j - (i - 1) \in 1 .. Len(c) - i /\ i + (j - (i - 1)) = j + 1
      BY <2>2
    <3> QED
      BY <2>2, <3>1, <3>2, <1>2
  <2> QED
    BY <2>1, <2>2
<1> QED
  BY <1>1, <1>2, <1>3, <1>4, <1>5

(* The entry found under a key is an entry of the cache.                    *)
LEMMA AtProperties ==
  ASSUME NEW c, NEW k, Has(c, k)
  PROVE  At(c, k) \in DOMAIN c /\ c[At(c, k)].key = k
BY DEF Has, At

(* Every entry of Without is one of the cache's, none has the key, and keys *)
(* that were apart stay apart.                                              *)
LEMMA WithoutProperties ==
  ASSUME NEW E, NEW c \in Seq(E), NEW k, OneToAKey(c)
  PROVE  /\ Without(c, k) \in Seq(E)
         /\ Len(Without(c, k)) <= Len(c)
         /\ Has(c, k) => Len(Without(c, k)) = Len(c) - 1
         /\ OneToAKey(Without(c, k))
         /\ ~Has(Without(c, k), k)
         /\ \A i \in DOMAIN Without(c, k) : \E j \in DOMAIN c : Without(c, k)[i] = c[j]
<1>1. CASE ~Has(c, k)
  <2>1. Without(c, k) = c
    BY <1>1 DEF Without
  <2> QED
    BY <1>1, <2>1
<1>2. CASE Has(c, k)
  <2> DEFINE n == At(c, k)
             w == Without(c, k)
  <2>1. n \in 1 .. Len(c) /\ c[n].key = k
    BY <1>2, AtProperties
  <2>2. w = RemoveAt(c, n)
    BY <1>2 DEF Without
  <2>3. /\ w \in Seq(E)
        /\ Len(w) = Len(c) - 1
        /\ \A j \in 1 .. Len(c) - 1 : w[j] = IF j < n THEN c[j] ELSE c[j + 1]
    <3> HIDE DEF n, w
    <3> QED
      BY <2>1, <2>2, RemoveAtProperties
  <2> HIDE DEF n, w
  <2>4. DOMAIN w = 1 .. Len(c) - 1
    BY <2>3
  <2>5. OneToAKey(w)
    <3> SUFFICES ASSUME NEW i \in DOMAIN w, NEW j \in DOMAIN w, w[i].key = w[j].key
                 PROVE  i = j
      BY DEF OneToAKey
    <3> DEFINE p == IF i < n THEN i ELSE i + 1
               q == IF j < n THEN j ELSE j + 1
    <3>1. p \in 1 .. Len(c) /\ q \in 1 .. Len(c) /\ w[i] = c[p] /\ w[j] = c[q]
      BY <2>1, <2>3, <2>4
    <3>2. p = q
      <4> HIDE DEF p, q
      <4> QED
        BY <3>1 DEF OneToAKey
    <3> QED
      BY <3>2, <2>1, <2>4
  <2>6. ~Has(w, k)
    <3> SUFFICES ASSUME NEW i \in DOMAIN w, w[i].key = k
                 PROVE  FALSE
      BY DEF Has
    <3> DEFINE p == IF i < n THEN i ELSE i + 1
    <3>1. p \in 1 .. Len(c) /\ w[i] = c[p] /\ p # n
      BY <2>1, <2>3, <2>4
    <3> HIDE DEF p
    <3> QED
      BY <3>1, <2>1 DEF OneToAKey
  <2>7. \A i \in DOMAIN w : \E j \in DOMAIN c : w[i] = c[j]
    <3> SUFFICES ASSUME NEW i \in DOMAIN w
                 PROVE  \E j \in DOMAIN c : w[i] = c[j]
      OBVIOUS
    <3> DEFINE p == IF i < n THEN i ELSE i + 1
    <3>1. p \in 1 .. Len(c) /\ w[i] = c[p]
      BY <2>1, <2>3, <2>4
    <3> HIDE DEF p
    <3> QED
      BY <3>1
  <2> QED
    BY <2>3, <2>5, <2>6, <2>7 DEF w
<1> QED
  BY <1>1, <1>2

(* An entry under a new key may be appended: the keys stay apart.           *)
LEMMA AppendKeepsKeysApart ==
  ASSUME NEW E, NEW w \in Seq(E), NEW e \in E, OneToAKey(w), ~Has(w, e.key)
  PROVE  OneToAKey(Append(w, e))
<1>1. /\ Append(w, e) \in Seq(E)
      /\ Len(Append(w, e)) = Len(w) + 1
      /\ \A i \in 1 .. Len(w) : Append(w, e)[i] = w[i]
      /\ Append(w, e)[Len(w) + 1] = e
  BY AppendProperties
<1> DEFINE a == Append(w, e)
<1> HIDE DEF a
<1>2. DOMAIN a = 1 .. Len(w) + 1
  BY <1>1 DEF a
<1>3. \A i \in 1 .. Len(w) : a[i] = w[i] /\ w[i].key # e.key
  BY <1>1 DEF a, Has
<1>4. a[Len(w) + 1] = e
  BY <1>1 DEF a
<1>5. \A i, j \in 1 .. Len(w) : w[i].key = w[j].key => i = j
  BY DEF OneToAKey
<1> SUFFICES ASSUME NEW i \in DOMAIN a, NEW j \in DOMAIN a, a[i].key = a[j].key
             PROVE  i = j
  BY DEF OneToAKey, a
<1> QED
  BY <1>2, <1>3, <1>4, <1>5

(* A read keeps the entries, one to a key, within the bound: _Store.get.    *)
THEOREM UsedKeepsTheCache ==
  ASSUME NEW E, NEW c \in Seq(E), NEW k, NEW max \in Nat, WellFormed(c, max)
  PROVE  /\ Used(c, k) \in Seq(E)
         /\ WellFormed(Used(c, k), max)
         /\ \A i \in DOMAIN Used(c, k) : \E j \in DOMAIN c : Used(c, k)[i] = c[j]
<1>0. OneToAKey(c) /\ Len(c) <= max
  BY DEF WellFormed, OneToAKey
<1>1. CASE ~Has(c, k)
  <2>1. Used(c, k) = c
    BY <1>1 DEF Used
  <2> QED
    BY <2>1
<1>2. CASE Has(c, k)
  <2> DEFINE w == Without(c, k)
             e == c[At(c, k)]
             u == Append(w, e)
  <2>1. Used(c, k) = u
    BY <1>2 DEF Used
  <2>2. At(c, k) \in DOMAIN c /\ e.key = k /\ e \in E
    BY <1>2, AtProperties
  <2>3. /\ w \in Seq(E)
        /\ Len(w) = Len(c) - 1
        /\ OneToAKey(w)
        /\ ~Has(w, k)
        /\ \A i \in DOMAIN w : \E j \in DOMAIN c : w[i] = c[j]
    BY <1>0, <1>2, WithoutProperties
  <2>4. \E j \in DOMAIN c : e = c[j]
    BY <2>2
  <2> HIDE DEF w, e
  <2>5. /\ u \in Seq(E)
        /\ Len(u) = Len(w) + 1
        /\ \A i \in 1 .. Len(w) : u[i] = w[i]
        /\ u[Len(w) + 1] = e
    BY <2>2, <2>3, AppendProperties
  <2>6. OneToAKey(u)
    BY <2>2, <2>3, AppendKeepsKeysApart
  <2> HIDE DEF u
  <2>7. Len(u) <= max
    BY <1>0, <2>3, <2>5
  <2>8. \A i \in DOMAIN u : \E j \in DOMAIN c : u[i] = c[j]
    <3> SUFFICES ASSUME NEW i \in DOMAIN u
                 PROVE  \E j \in DOMAIN c : u[i] = c[j]
      OBVIOUS
    <3>1. i \in 1 .. Len(w) \/ i = Len(w) + 1
      BY <2>3, <2>5
    <3>2. CASE i \in 1 .. Len(w)
      BY <3>2, <2>3, <2>5
    <3>3. CASE i = Len(w) + 1
      BY <3>3, <2>4, <2>5
    <3> QED
      BY <3>1, <3>2, <3>3
  <2> QED
    BY <2>1, <2>5, <2>6, <2>7, <2>8 DEF WellFormed, OneToAKey
<1> QED
  BY <1>1, <1>2

(* A write keeps the bound and one entry to a key, adds nothing but the     *)
(* entry written, and that entry is there: _Store.put.                      *)
THEOREM StoredKeepsTheCache ==
  ASSUME NEW E, NEW c \in Seq(E), NEW k, NEW v, [key |-> k, value |-> v] \in E,
         NEW max \in Nat \ {0}, WellFormed(c, max)
  PROVE  /\ Stored(c, k, v, max) \in Seq(E)
         /\ WellFormed(Stored(c, k, v, max), max)
         /\ Has(Stored(c, k, v, max), k)
         /\ \A i \in DOMAIN Stored(c, k, v, max) :
              \/ Stored(c, k, v, max)[i] = [key |-> k, value |-> v]
              \/ \E j \in DOMAIN c : Stored(c, k, v, max)[i] = c[j]
<1> DEFINE e == [key |-> k, value |-> v]
           w == Without(c, k)
           u == Append(w, e)
           t == Stored(c, k, v, max)
<1>0. OneToAKey(c) /\ Len(c) <= max
  BY DEF WellFormed, OneToAKey
<1>1. /\ w \in Seq(E)
      /\ Len(w) <= Len(c)
      /\ OneToAKey(w)
      /\ ~Has(w, k)
      /\ \A i \in DOMAIN w : \E j \in DOMAIN c : w[i] = c[j]
  BY <1>0, WithoutProperties
<1>2. t = IF Len(u) > max THEN Tail(u) ELSE u
  BY DEF Stored
<1>3. e \in E /\ e.key = k
  OBVIOUS
<1> HIDE DEF e, w, t
<1>4. /\ u \in Seq(E)
      /\ Len(u) = Len(w) + 1
      /\ \A i \in 1 .. Len(w) : u[i] = w[i]
      /\ u[Len(w) + 1] = e
  BY <1>1, <1>3, AppendProperties
<1>5. OneToAKey(u)
  BY <1>1, <1>3, AppendKeepsKeysApart
<1> HIDE DEF u
<1>6. Len(w) \in Nat /\ Len(c) \in Nat
  BY <1>1
<1>7. \A i \in DOMAIN u : u[i] = e \/ \E j \in DOMAIN c : u[i] = c[j]
  <2> SUFFICES ASSUME NEW i \in DOMAIN u
               PROVE  u[i] = e \/ \E j \in DOMAIN c : u[i] = c[j]
    OBVIOUS
  <2>1. i \in 1 .. Len(w) \/ i = Len(w) + 1
    BY <1>4, <1>6
  <2>2. CASE i \in 1 .. Len(w)
    BY <2>2, <1>1, <1>4
  <2>3. CASE i = Len(w) + 1
    BY <2>3, <1>4
  <2> QED
    BY <2>1, <2>2, <2>3
<1>8. CASE ~(Len(u) > max)
  <2>1. t = u
    BY <1>8, <1>2
  <2>2. Has(u, k)
    <3>1. Len(w) + 1 \in DOMAIN u /\ u[Len(w) + 1].key = k
      BY <1>3, <1>4, <1>6
    <3> QED
      BY <3>1 DEF Has
  <2>3. Len(u) <= max
    BY <1>8, <1>4, <1>6
  <2> QED
    BY <2>1, <2>2, <2>3, <1>4, <1>5, <1>7 DEF WellFormed, OneToAKey, t, e
<1>9. CASE Len(u) > max
  <2>1. t = Tail(u)
    BY <1>9, <1>2
  <2>2. /\ Len(u) = max + 1
        /\ Len(w) = max
        /\ max \in Nat \ {0}
    BY <1>9, <1>0, <1>1, <1>4, <1>6
  <2>3. u # << >>
    BY <2>2, <1>4
  <2>4. /\ Tail(u) \in Seq(E)
        /\ Len(Tail(u)) = max
        /\ \A i \in 1 .. max : Tail(u)[i] = u[i + 1]
    BY <2>2, <2>3, <1>4, HeadTailProperties
  <2>5. DOMAIN t = 1 .. max /\ DOMAIN u = 1 .. max + 1
    BY <2>1, <2>2, <2>4, <1>4
  <2>6. \A i \in 1 .. max : i + 1 \in DOMAIN u /\ t[i] = u[i + 1]
    BY <2>1, <2>2, <2>4, <2>5
  <2>7. OneToAKey(t)
    <3> SUFFICES ASSUME NEW i \in 1 .. max, NEW j \in 1 .. max, t[i].key = t[j].key
                 PROVE  i = j
      BY <2>5 DEF OneToAKey
    <3>1. i + 1 = j + 1
      BY <2>6, <1>5 DEF OneToAKey
    <3> QED
      BY <3>1
  <2>8. Has(t, k)
    <3>1. max \in DOMAIN t /\ t[max] = u[max + 1] /\ u[max + 1] = e
      BY <2>2, <2>5, <2>6, <1>4
    <3> QED
      BY <3>1, <1>3 DEF Has
  <2>9. \A i \in DOMAIN t : t[i] = e \/ \E j \in DOMAIN c : t[i] = c[j]
    BY <2>5, <2>6, <1>7
  <2> QED
    BY <2>1, <2>4, <2>7, <2>8, <2>9 DEF WellFormed, OneToAKey, t, e
<1> QED
  BY <1>8, <1>9

-----------------------------------------------------------------------------
(* The handshake                                                           *)

USE CapacityAssumption

Uploaded == Hashes \X DirLists

Keys == {OverlayKey(m) : m \in Mergeable}

\* An entry of either cache: a key maps to what was merged under that key.
Entry == {e \in [key : Keys, value : Mergeable] : e.key = OverlayKey(e.value)}

CacheOK(c, max) == c \in Seq(Entry) /\ WellFormed(c, max)

\* Nothing is in hand before the lookup that answers, and a catalog being
\* built is built under a set with the key of the one that was asked for.
Answers(got, set) == got \in Mergeable /\ OverlayKey(got) = OverlayKey(set)

RequestOK(r) ==
  /\ r.stage = "answered" => r.got = Vendored \/ Answers(r.got, r.under)
  /\ r.stage = "answered" /\ r.kind = "catalog" /\ Needs(r.under) => r.got # Vendored
  /\ r.stage = "building" => Answers(r.got, r.set)
  /\ r.stage = "checked" => r.kind # "catalog"
  /\ r.stage \notin {"answered", "building"} => r.got = Vendored
  /\ r.kind # "settings" => r.under = r.set
  /\ r.stage = "building" => r.kind # "settings"
  /\ r.stage \in {"upload", "silent"} => ~r.retried
  /\ r.stage = "upload" => r.up \in Uploaded
  /\ r.stage \in {"loading", "merged"} => Needs(r.set) /\ r.kind = "load"

Good == {r \in Requests : RequestOK(r)}

IInv ==
  /\ CacheOK(sets, MAX_SETS)
  /\ CacheOK(cats, MAX_CACHED_CUSTOM_CATALOGS)
  /\ req \in [Slot -> Good]
  /\ kept \in SUBSET (Hashes \ {NoHash})
  /\ lastCustomData \in DirLists

-----------------------------------------------------------------------------

(* A ruleset is a pair of a hash and a list, and can be merged.              *)
LEMMA RulesetIsKey ==
  ASSUME NEW r \in Ruleset
  PROVE  /\ r \in Mergeable /\ OverlayKey(r) \in Keys
         /\ r[1] \in Hashes /\ r[2] \in DirLists /\ r # Vendored
<1>1. r = << r[1], r[2] >> /\ r[1] \in Hashes /\ r[2] \in DirLists
  BY RulesetAssumption DEF Hashes, DirLists
<1>2. r \in Mergeable
  BY <1>1 DEF Mergeable
<1> QED
  BY <1>1, <1>2, RulesetAssumption DEF Keys

(* What a cache has under a key was merged under that key: overlay_key.     *)
LEMMA ValueIsKey ==
  ASSUME NEW c, NEW max, CacheOK(c, max), NEW k, Has(c, k)
  PROVE  /\ Value(c, k) \in Mergeable /\ OverlayKey(Value(c, k)) = k
         /\ Value(c, k) # Vendored
<1>1. At(c, k) \in DOMAIN c /\ c[At(c, k)].key = k
  BY AtProperties
<1>2. c[At(c, k)] \in Entry
  BY <1>1 DEF CacheOK
<1>3. Value(c, k) = c[At(c, k)].value
  BY DEF Value
<1>4. Vendored \notin Mergeable
  BY RulesetAssumption
<1> QED
  BY <1>1, <1>2, <1>3, <1>4 DEF Entry

(* A lookup finds a set with the key of the one asked for, or nothing.      *)
LEMMA FoundIsOwn ==
  ASSUME CacheOK(sets, MAX_SETS), NEW r
  PROVE  /\ Found(r) = Vendored \/ Answers(Found(r), r)
         /\ Known(r) => Answers(Found(r), r) /\ Found(r) # Vendored
<1>1. CASE Known(r)
  <2>1. Has(sets, OverlayKey(r)) /\ Found(r) = Value(sets, OverlayKey(r))
    BY <1>1 DEF Known, Found
  <2> QED
    BY <2>1, ValueIsKey DEF Answers
<1>2. CASE ~Known(r)
  BY <1>2 DEF Found
<1> QED
  BY <1>1, <1>2

LEMMA UsedOK ==
  ASSUME NEW c, NEW max \in Nat, CacheOK(c, max), NEW k
  PROVE  CacheOK(Used(c, k), max)
BY UsedKeepsTheCache DEF CacheOK

LEMMA StoredOK ==
  ASSUME NEW c, NEW max \in Nat \ {0}, CacheOK(c, max), NEW k, NEW m \in Mergeable,
         k = OverlayKey(m)
  PROVE  CacheOK(Stored(c, k, m, max), max)
<1>1. [key |-> k, value |-> m] \in Entry
  BY DEF Entry, Keys
<1> QED
  BY <1>1, StoredKeepsTheCache DEF CacheOK

LEMMA LookupOK ==
  ASSUME CacheOK(sets, MAX_SETS), NEW r, Lookup(r)
  PROVE  CacheOK(sets', MAX_SETS)
<1>1. CacheOK(Used(sets, OverlayKey(r)), MAX_SETS)
  BY UsedOK
<1> QED
  BY <1>1 DEF Lookup

LEMMA RememberOK ==
  ASSUME CacheOK(sets, MAX_SETS), NEW m \in Mergeable, Remember(m)
  PROVE  CacheOK(sets', MAX_SETS)
<1>1. CacheOK(Stored(sets, OverlayKey(m), m, MAX_SETS), MAX_SETS)
  BY StoredOK
<1> QED
  BY <1>1 DEF Remember

(* Steps of one slot keep the others' requests good, disturbed or not.      *)
LEMMA DisturbedIsGood ==
  ASSUME NEW r \in Good
  PROVE  Disturbed(r) \in Good
BY DEF Good, Requests, RequestOK, Disturbed

LEMMA IdleIsGood == Idle \in Good
<1> DEFINE r == CHOOSE r \in Ruleset : TRUE
<1>1. r \in Ruleset
  BY RulesetAssumption
<1>2. Idle = [Asked("compute", r, r) EXCEPT !.stage = "idle", !.calm = FALSE]
  BY DEF Idle
<1> HIDE DEF r
<1> QED
  BY <1>1, <1>2 DEF Asked, Good, Requests, RequestOK, AllKinds, Waiting, Ended, AtServer

(* A request that is answered with what it may be answered with is good,    *)
(* and so is one that is sent again.                                        *)
LEMMA AnsweredIsGood ==
  ASSUME NEW r \in Good, NEW found, found = Vendored \/ Answers(found, r.under),
         r.kind = "catalog" /\ Needs(r.under) => found # Vendored
  PROVE  [Over(r, "answered") EXCEPT !.got = found] \in Good
<1> DEFINE o == Over(r, "answered")
           x == [o EXCEPT !.got = found]
<1>1. /\ r \in Requests /\ r.under \in Ruleset
      /\ r.kind # "settings" => r.under = r.set
  BY DEF Good, RequestOK, Requests
<1>2. /\ o \in Requests
      /\ o.kind = r.kind /\ o.set = r.set /\ o.under = r.under /\ o.stage = "answered"
  BY <1>1 DEF Over, Requests, Ended
<1> HIDE DEF o
<1>3. /\ x \in Requests
      /\ x.kind = o.kind /\ x.set = o.set /\ x.under = o.under
      /\ x.stage = o.stage /\ x.got = found
  BY <1>1, <1>2 DEF Requests, Answers
<1> HIDE DEF x
<1>4. RequestOK(x)
  BY <1>1, <1>2, <1>3 DEF RequestOK
<1> QED
  BY <1>3, <1>4 DEF Good, x, o

LEMMA OverIsGood ==
  ASSUME NEW r \in Good, NEW stage \in {"answered", "missing"},
         r.got = Vendored \/ (stage = "answered" /\ Answers(r.got, r.under)),
         stage = "answered" /\ r.kind = "catalog" /\ Needs(r.under) => r.got # Vendored
  PROVE  Over(r, stage) \in Good
<1> DEFINE o == Over(r, stage)
<1>1. r \in Requests /\ (r.kind # "settings" => r.under = r.set)
  BY DEF Good, RequestOK
<1>2. /\ o \in Requests
      /\ o.kind = r.kind /\ o.set = r.set /\ o.under = r.under /\ o.stage = stage /\ o.got = r.got
  BY <1>1 DEF Over, Requests, Ended
<1> HIDE DEF o
<1>3. RequestOK(o)
  BY <1>1, <1>2 DEF RequestOK
<1> QED
  BY <1>2, <1>3 DEF Good, o

LEMMA MergedIsGood ==
  ASSUME NEW r \in Good, r.stage = "merged"
  PROVE  Over(r, "answered") \in Good
<1>1. r.got = Vendored /\ r \in Requests /\ r.kind # "catalog"
  BY DEF Good, RequestOK
<1>2. [Over(r, "answered") EXCEPT !.got = Vendored] = Over(r, "answered")
  BY <1>1 DEF Over, Requests
<1> QED
  BY <1>1, <1>2, AnsweredIsGood

LEMMA SentAgainIsGood ==
  ASSUME NEW r \in Good, r.stage = "upload"
  PROVE  [r EXCEPT !.stage = "sent", !.up = Vendored, !.retried = TRUE, !.calm = FALSE] \in Good
<1> DEFINE x == [r EXCEPT !.stage = "sent", !.up = Vendored, !.retried = TRUE, !.calm = FALSE]
<1>1. /\ r \in Requests
      /\ r.kind # "settings" => r.under = r.set
      /\ r.got = Vendored
  BY DEF Good, RequestOK
<1>2. /\ x \in Requests
      /\ x.kind = r.kind /\ x.set = r.set /\ x.under = r.under /\ x.stage = "sent" /\ x.got = r.got
  BY <1>1 DEF Requests, Waiting, AtServer
<1> HIDE DEF x
<1>3. RequestOK(x)
  BY <1>1, <1>2 DEF RequestOK
<1> QED
  BY <1>2, <1>3 DEF Good, x

LEMMA MoveIsGood ==
  ASSUME req \in [Slot -> Good], NEW s \in Slot, NEW r \in Good,
         Move(s, r) \/ MoveAlone(s, r)
  PROVE  req' \in [Slot -> Good]
BY DisturbedIsGood DEF Move, MoveAlone

-----------------------------------------------------------------------------

LEMMA InitOK == Init => IInv
<1> SUFFICES ASSUME Init PROVE IInv
  OBVIOUS
<1>1. CacheOK(<< >>, MAX_SETS) /\ CacheOK(<< >>, MAX_CACHED_CUSTOM_CATALOGS)
  BY DEF CacheOK, WellFormed
<1>2. req \in [Slot -> Good]
  BY IdleIsGood DEF Init
<1> QED
  BY <1>1, <1>2 DEF Init, IInv, DirLists

LEMMA NextOK == IInv /\ [Next]_vars => IInv'
<1> SUFFICES ASSUME IInv, [Next]_vars PROVE IInv'
  OBVIOUS
<1> USE DEF IInv
<1>1. ASSUME NEW s \in Slot, Ask(s) PROVE IInv'
  <2>0. PICK kind \in Kinds, chosen \in Ruleset :
          LET set == IF kind = "catalog" THEN Respelled(chosen) ELSE chosen
          IN
          \E under \in IF kind = "settings" THEN Laid(s) ELSE {set} :
            /\ kind = "load" => Needs(set)
            /\ lastCustomData' = Noted(kind, set)
            /\ MoveAlone(s, Asked(kind, set, under))
    BY <1>1 DEF Ask
  <2>a. Respelled(chosen) \in Ruleset
    BY RulesetAssumption
  <2>1. PICK set \in Ruleset :
          \E under \in IF kind = "settings" THEN Laid(s) ELSE {set} :
            /\ kind = "load" => Needs(set)
            /\ lastCustomData' = Noted(kind, set)
            /\ MoveAlone(s, Asked(kind, set, under))
    BY <2>0, <2>a
  <2>2. PICK under \in IF kind = "settings" THEN Laid(s) ELSE {set} :
            /\ kind = "load" => Needs(set)
            /\ lastCustomData' = Noted(kind, set)
            /\ MoveAlone(s, Asked(kind, set, under))
    BY <2>1
  <2>3. req[s].set \in Ruleset
    BY DEF Good, Requests
  <2>4. under \in Ruleset /\ (kind # "settings" => under = set)
    BY <2>2, <2>3 DEF Laid
  <2>5. kind \in AllKinds
    BY KindsAssumption
  <2>6. Asked(kind, set, under) \in Good
    BY <2>2, <2>4, <2>5 DEF Asked, Good, Requests, RequestOK, Waiting, Ended, AtServer
  <2>7. req' \in [Slot -> Good]
    BY <2>2, <2>6, MoveIsGood
  <2>8. lastCustomData' \in DirLists
    BY <2>2, RulesetIsKey DEF Noted
  <2> QED
    BY <1>1, <2>7, <2>8 DEF Ask
<1>2. ASSUME NEW s \in Slot, CheckCharacter(s) PROVE IInv'
  <2>1. CacheOK(sets', MAX_SETS)
    BY <1>2, LookupOK DEF CheckCharacter
  <2>2. \A stage \in {"refused", "checked"} : [req[s] EXCEPT !.stage = stage] \in Good
    BY <1>2 DEF CheckCharacter, Good, Requests, RequestOK, Waiting, Ended, AtServer
  <2>3. req' \in [Slot -> Good]
    BY <1>2, <2>2, MoveIsGood DEF CheckCharacter
  <2> QED
    BY <1>2, <2>1, <2>3 DEF CheckCharacter
<1>3. ASSUME NEW s \in Slot, Compute(s) PROVE IInv'
  <2>1. CacheOK(sets', MAX_SETS)
    BY <1>3, LookupOK DEF Compute
  <2>2. /\ Found(req[s].under) = Vendored \/ Answers(Found(req[s].under), req[s].under)
        /\ req[s].kind # "catalog"
    BY <1>3, FoundIsOwn DEF Compute, Good, RequestOK
  <2>3. [Over(req[s], "answered") EXCEPT !.got = Found(req[s].under)] \in Good
    BY <2>2, AnsweredIsGood
  <2>4. req' \in [Slot -> Good]
    BY <1>3, <2>3, MoveIsGood DEF Compute
  <2> QED
    BY <1>3, <2>1, <2>4 DEF Compute
<1>4. ASSUME NEW s \in Slot, CheckCatalog(s) PROVE IInv'
  <2> DEFINE set == req[s].set
  <2>0. req[s].kind = "catalog" /\ req[s].stage = "sent" /\ Lookup(set)
    BY <1>4 DEF CheckCatalog
  <2>1. CacheOK(sets', MAX_SETS)
    BY <2>0, LookupOK
  <2>2. CASE ~Needs(set)
    <3>1. Move(s, Over(req[s], "answered")) /\ UNCHANGED cats
      BY <1>4, <2>2 DEF CheckCatalog
    <3>2. req[s].got = Vendored /\ req[s].under = set
      BY <2>0 DEF Good, RequestOK
    <3>3. Over(req[s], "answered") \in Good
      BY <2>2, <3>2, OverIsGood
    <3>4. req' \in [Slot -> Good]
      BY <3>1, <3>3, MoveIsGood
    <3> QED
      BY <1>4, <2>1, <3>1, <3>4 DEF CheckCatalog
  <2>3. CASE Needs(set) /\ ~Known(set)
    <3>1. Move(s, [req[s] EXCEPT !.stage = "refused"]) /\ UNCHANGED cats
      BY <1>4, <2>3 DEF CheckCatalog
    <3>2. [req[s] EXCEPT !.stage = "refused"] \in Good
      BY <2>0 DEF Good, Requests, RequestOK, Waiting, Ended, AtServer
    <3>3. req' \in [Slot -> Good]
      BY <3>1, <3>2, MoveIsGood
    <3> QED
      BY <1>4, <2>1, <3>1, <3>3 DEF CheckCatalog
  <2>4. CASE Needs(set) /\ Known(set)
    <3> DEFINE hit == Has(cats, OverlayKey(set))
               a == [Over(req[s], "answered") EXCEPT !.got = Value(cats, OverlayKey(set))]
               b == [req[s] EXCEPT !.stage = "building", !.got = Found(set)]
    <3>1. /\ cats' = Used(cats, OverlayKey(set))
          /\ Move(s, IF hit THEN a ELSE b)
      BY <1>4, <2>4 DEF CheckCatalog
    <3>2. CacheOK(cats', MAX_CACHED_CUSTOM_CATALOGS)
      BY <3>1, UsedOK
    <3>3. hit => a \in Good
      <4>1. hit => /\ Answers(Value(cats, OverlayKey(set)), set)
                   /\ Value(cats, OverlayKey(set)) # Vendored
        BY ValueIsKey DEF Answers
      <4>2. req[s].under = set
        BY <2>0 DEF Good, RequestOK
      <4> QED
        BY <4>1, <4>2, AnsweredIsGood
    <3>4. b \in Good
      <4>1. Answers(Found(set), set)
        BY <2>4, FoundIsOwn
      <4>2. req[s] \in Requests /\ req[s].under = set
        BY <2>0 DEF Good, RequestOK
      <4>3. /\ b \in Requests
            /\ b.kind = "catalog" /\ b.set = set /\ b.under = set
            /\ b.stage = "building" /\ b.got = Found(set)
        BY <2>0, <4>1, <4>2 DEF Requests, Waiting, AtServer, Answers
      <4> HIDE DEF b
      <4>4. RequestOK(b)
        BY <4>1, <4>3 DEF RequestOK
      <4> QED
        BY <4>3, <4>4 DEF Good
    <3>5. (IF hit THEN a ELSE b) \in Good
      BY <3>3, <3>4
    <3> HIDE DEF hit, a, b
    <3>6. req' \in [Slot -> Good]
      BY <3>1, <3>5, MoveIsGood
    <3> QED
      BY <1>4, <2>1, <3>2, <3>6 DEF CheckCatalog
  <2> QED
    BY <2>2, <2>3, <2>4
<1>5. ASSUME NEW s \in Slot, Build(s) PROVE IInv'
  <2>1. Answers(req[s].got, req[s].set) /\ req[s].under = req[s].set
    BY <1>5 DEF Build, Good, RequestOK
  <2>a. req[s].got \in Mergeable /\ OverlayKey(req[s].set) = OverlayKey(req[s].got)
        /\ req[s].got # Vendored
    BY <2>1, RulesetAssumption DEF Answers
  <2>2. CacheOK(cats', MAX_CACHED_CUSTOM_CATALOGS)
    BY <1>5, <2>a, StoredOK DEF Build
  <2>3. Over(req[s], "answered") \in Good
    BY <2>1, <2>a, OverIsGood
  <2>4. req' \in [Slot -> Good]
    BY <1>5, <2>3, MoveIsGood DEF Build
  <2> QED
    BY <1>5, <2>2, <2>4 DEF Build
<1>6. ASSUME NEW s \in Slot, Reupload(s) PROVE IInv'
  <2> DEFINE over == Over(req[s], "missing")
             up == [req[s] EXCEPT !.stage = "upload", !.up = << req[s].set[1], lastCustomData >>]
  <2>1. over \in Good
    <3>1. req[s].got = Vendored
      BY <1>6 DEF Reupload, Good, RequestOK
    <3> QED
      BY <3>1, OverIsGood
  <2>2. req[s].set[1] \in Hashes
    BY RulesetIsKey DEF Good, Requests
  <2>3. ~req[s].retried => up \in Good
    <3>1. /\ req[s] \in Requests /\ req[s].stage = "refused" /\ req[s].got = Vendored
          /\ req[s].kind # "settings" => req[s].under = req[s].set
      BY <1>6 DEF Reupload, Good, RequestOK
    <3>2. /\ up \in Requests /\ up.up \in Uploaded
          /\ up.kind = req[s].kind /\ up.set = req[s].set /\ up.under = req[s].under
          /\ up.stage = "upload" /\ up.got = Vendored /\ up.retried = req[s].retried
      BY <2>2, <3>1 DEF Requests, Uploaded, Waiting
    <3> HIDE DEF up
    <3> QED
      BY <3>1, <3>2 DEF Good, RequestOK
  <2>4. \E r \in Good : Move(s, r)
    <3>1. CASE req[s].retried \/ req[s].set[1] \notin kept
      BY <1>6, <2>1, <3>1 DEF Reupload
    <3>2. CASE ~(req[s].retried \/ req[s].set[1] \notin kept)
      BY <1>6, <2>3, <3>2 DEF Reupload
    <3> QED
      BY <3>1, <3>2
  <2>5. req' \in [Slot -> Good]
    BY <2>4, MoveIsGood
  <2> QED
    BY <1>6, <2>5 DEF Reupload
<1>7. ASSUME NEW s \in Slot, Upload(s) PROVE IInv'
  <2>1. req[s].up \in Mergeable
    BY <1>7 DEF Upload, Good, Requests, RequestOK, Mergeable, Uploaded
  <2>2. CacheOK(sets', MAX_SETS)
    BY <1>7, <2>1, RememberOK DEF Upload
  <2>3. [req[s] EXCEPT !.stage = "sent", !.up = Vendored, !.retried = TRUE] \in Good
    <3> DEFINE again == [req[s] EXCEPT !.stage = "sent", !.up = Vendored, !.retried = TRUE]
    <3>1. req[s] \in Requests /\ RequestOK(req[s]) /\ req[s].stage = "upload"
      BY <1>7 DEF Upload, Good
    <3>2. again \in Requests
      BY <3>1 DEF Requests, Waiting, AtServer
    <3>3. again.stage = "sent" /\ again.got = Vendored /\ again.kind = req[s].kind
          /\ again.under = req[s].under /\ again.set = req[s].set
      BY <3>1 DEF Requests, RequestOK
    <3> QED
      BY <3>1, <3>2, <3>3 DEF RequestOK, Good
  <2>4. req' \in [Slot -> Good]
    BY <1>7, <2>3, MoveIsGood DEF Upload
  <2> QED
    BY <1>7, <2>2, <2>4 DEF Upload
<1>8. ASSUME NEW s \in Slot, UploadRefused(s) PROVE IInv'
  <2>1. [req[s] EXCEPT !.stage = "sent", !.up = Vendored, !.retried = TRUE, !.calm = FALSE] \in Good
    BY <1>8, SentAgainIsGood DEF UploadRefused
  <2>2. req' \in [Slot -> Good]
    BY <1>8, <2>1, MoveIsGood DEF UploadRefused
  <2> QED
    BY <1>8, <2>2 DEF UploadRefused
<1>9. ASSUME NEW s \in Slot, UploadUnanswered(s) PROVE IInv'
  <2>1. [req[s] EXCEPT !.stage = "silent"] \in Good
    BY <1>9 DEF UploadUnanswered, Good, Requests, RequestOK, Waiting, Ended, AtServer
  <2>2. req' \in [Slot -> Good]
    BY <1>9, <2>1, MoveIsGood DEF UploadUnanswered
  <2> QED
    BY <1>9, <2>2 DEF UploadUnanswered
<1>10. ASSUME NEW s \in Slot, TimedOut(s) \/ FetchFails(s) PROVE IInv'
  <2>1. req' \in [Slot -> Good]
    BY <1>10, IdleIsGood, MoveIsGood DEF TimedOut, FetchFails
  <2> QED
    BY <1>10, <2>1 DEF TimedOut, FetchFails
<1>11. ASSUME NEW s \in Slot, Load(s) PROVE IInv'
  <2>1. req[s].set \in Mergeable
    BY RulesetIsKey DEF Good, Requests
  <2>2. CacheOK(sets', MAX_SETS)
    BY <1>11, <2>1, RememberOK DEF Load
  <2>3. [req[s] EXCEPT !.stage = "merged"] \in Good
    BY <1>11 DEF Load, Good, Requests, RequestOK, Waiting, Ended, AtServer
  <2>4. req' \in [Slot -> Good]
    BY <1>11, <2>3, MoveIsGood DEF Load
  <2> QED
    BY <1>11, <2>2, <2>4 DEF Load
<1>12. ASSUME NEW s \in Slot, PutCustomData(s) PROVE IInv'
  <2>1. Over(req[s], "answered") \in Good
    BY <1>12, MergedIsGood DEF PutCustomData
  <2>2. req' \in [Slot -> Good]
    BY <1>12, <2>1, MoveIsGood DEF PutCustomData
  <2>3. kept' \in SUBSET (Hashes \ {NoHash})
    BY <1>12, RulesetIsKey DEF PutCustomData, Needs, Good, Requests, RequestOK
  <2> QED
    BY <1>12, <2>2, <2>3 DEF PutCustomData
<1>13. CASE OtherUpload
  <2>1. CacheOK(sets', MAX_SETS)
    BY <1>13, RememberOK DEF OtherUpload, Mergeable
  <2>2. req' \in [Slot -> Good]
    BY <1>13, DisturbedIsGood DEF OtherUpload
  <2> QED
    BY <1>13, <2>1, <2>2 DEF OtherUpload
<1>14. CASE Restart
  <2>1. CacheOK(<< >>, MAX_SETS) /\ CacheOK(<< >>, MAX_CACHED_CUSTOM_CATALOGS)
    BY DEF CacheOK, WellFormed
  <2>2. req' \in [Slot -> Good]
    BY <1>14, DisturbedIsGood, IdleIsGood DEF Restart
  <2> QED
    BY <1>14, <2>1, <2>2 DEF Restart
<1>15. CASE UNCHANGED vars
  BY <1>15 DEF vars
<1> QED
  BY <1>1, <1>2, <1>3, <1>4, <1>5, <1>6, <1>7, <1>8, <1>9, <1>10, <1>11, <1>12,
     <1>13, <1>14, <1>15 DEF Next

LEMMA Inductive == Spec => []IInv
<1>1. Init => IInv
  BY InitOK
<1>2. IInv /\ [Next]_vars => IInv'
  BY NextOK
<1> QED
  BY <1>1, <1>2, PTL DEF Spec

(* Every reachable state is well typed, and a retry never uploads again     *)
(* (the `retried' argument of api.ts's send).                               *)
THEOREM HandshakeTypeCorrect == Spec => []TypeOK
<1>1. IInv => TypeOK
  BY DEF IInv, TypeOK, Good, RequestOK
<1> QED
  BY <1>1, Inductive, PTL

(* Both caches stay within their bounds with one entry to a key, for every  *)
(* size and whatever overlaps: _Store.put, _cached_catalog_for.             *)
THEOREM HandshakeStoreBounded == Spec => []StoreBounded
<1>1. IInv => StoreBounded
  BY DEF IInv, CacheOK, StoreBounded
<1> QED
  BY <1>1, Inductive, PTL

-----------------------------------------------------------------------------
(* What was used last.  The suffix alone is not inductive: that keys are   *)
(* apart, and where each of them stands, is.                               *)

\* The cache c has the last keys of r, in that order, and all that fit.
Tailed(c, r, max) ==
  /\ r \in Seq(Keys)
  /\ \A i, j \in DOMAIN r : r[i] = r[j] => i = j
  /\ Len(c) <= Len(r)
  /\ \A i \in 1 .. Len(c) : c[i].key = r[Len(r) - Len(c) + i]
  /\ Len(c) = max \/ Len(c) = Len(r)

(* Where a key is found, and that nothing is taken out where it is not.     *)
LEMMA RemoveFirstProperties ==
  ASSUME NEW E, NEW r \in Seq(E), NEW k
  PROVE  IF \E i \in 1 .. Len(r) : r[i] = k
           THEN \E m \in 1 .. Len(r) : r[m] = k /\ RemoveFirst(r, k) = RemoveAt(r, m)
           ELSE RemoveFirst(r, k) = r
<1>1. CASE \E i \in 1 .. Len(r) : r[i] = k
  <2> DEFINE I == {i \in 1 .. Len(r) : r[i] = k}
             m == SelectInSeq(r, LAMBDA v : v = k)
  <2>1. I # {} /\ I \subseteq Nat
    BY <1>1
  <2>2. m = Min(I)
    BY <2>1 DEF SelectInSeq
  <2>3. Min(I) \in I
    <3> HIDE DEF I
    <3>1. \E n \in I : \A j \in I : n <= j
      BY <2>1, LeastNatural
    <3>2. QED
      BY <3>1 DEF Min
  <2>4. RemoveFirst(r, k) = RemoveAt(r, m)
    BY <1>1 DEF RemoveFirst
  <2>5. QED
    BY <1>1, <2>2, <2>3, <2>4
<1>2. CASE ~(\E i \in 1 .. Len(r) : r[i] = k)
  BY <1>2 DEF RemoveFirst
<1>3. QED
  BY <1>1, <1>2

(* An element taken out and one put at the end: the rest moves up.          *)
LEMMA MovedProperties ==
  ASSUME NEW E, NEW c \in Seq(E), NEW n \in 1 .. Len(c), NEW e \in E
  PROVE  LET x == Append(RemoveAt(c, n), e)
         IN  /\ x \in Seq(E) /\ Len(x) = Len(c) /\ x[Len(c)] = e
             /\ \A j \in 1 .. Len(c) - 1 : x[j] = IF j < n THEN c[j] ELSE c[j + 1]
<1> DEFINE w == RemoveAt(c, n)
           x == Append(w, e)
<1>1. /\ w \in Seq(E) /\ Len(w) = Len(c) - 1
      /\ \A j \in 1 .. Len(c) - 1 : w[j] = IF j < n THEN c[j] ELSE c[j + 1]
  BY RemoveAtProperties
<1> HIDE DEF w
<1>2. /\ x \in Seq(E) /\ Len(x) = Len(w) + 1 /\ x[Len(w) + 1] = e
      /\ \A j \in 1 .. Len(w) : x[j] = w[j]
  BY <1>1, AppendProperties
<1> HIDE DEF x
<1>3. Len(c) \in Nat
  OBVIOUS
<1>4. Len(x) = Len(c) /\ x[Len(c)] = e /\ \A j \in 1 .. Len(c) - 1 : x[j] = w[j]
  BY <1>1, <1>2, <1>3
<1>5. QED
  BY <1>1, <1>2, <1>4 DEF x, w

\* Where the element at place j of a list of n came from, when the one at m
\* moved to the end.
From(j, m, n) == IF j = n THEN m ELSE IF j < m THEN j ELSE j + 1

LEMMA PlacesApart ==
  ASSUME NEW n \in Nat, NEW m \in 1 .. n, NEW i \in 1 .. n, NEW j \in 1 .. n,
         From(i, m, n) = From(j, m, n)
  PROVE  i = j
BY DEF From

LEMMA PlacesBefore ==
  ASSUME NEW n \in Nat, NEW j \in 1 .. n, j # n
  PROVE  j \in 1 .. n - 1 /\ j + 1 \in 1 .. n
OBVIOUS

(* A key used again stands at the end, once.                                *)
LEMMA UsedLastIsApart ==
  ASSUME NEW r \in Seq(Keys), NEW k \in Keys, \A i, j \in DOMAIN r : r[i] = r[j] => i = j,
         NEW x, x = Append(RemoveFirst(r, k), k)
  PROVE  x \in Seq(Keys) /\ \A i, j \in DOMAIN x : x[i] = x[j] => i = j
<1>0. DOMAIN r = 1 .. Len(r) /\ Len(r) \in Nat
  OBVIOUS
<1>1. CASE ~(\E i \in 1 .. Len(r) : r[i] = k)
  <2>1. x = Append(r, k)
    BY <1>1, RemoveFirstProperties
  <2>2. /\ x \in Seq(Keys) /\ Len(x) = Len(r) + 1 /\ x[Len(r) + 1] = k
        /\ \A j \in 1 .. Len(r) : x[j] = r[j]
    BY <2>1, AppendProperties
  <2>3. DOMAIN x = 1 .. Len(r) + 1
    BY <2>2, <1>0
  <2>4. \A i \in DOMAIN x : i \in 1 .. Len(r) \/ i = Len(r) + 1
    BY <2>3, <1>0
  <2>5. ASSUME NEW i \in DOMAIN x, NEW j \in DOMAIN x, x[i] = x[j] PROVE i = j
    BY <1>0, <1>1, <2>2, <2>4, <2>5
  <2>6. QED
    BY <2>2, <2>5
<1>2. CASE \E i \in 1 .. Len(r) : r[i] = k
  <2>1. PICK m \in 1 .. Len(r) : r[m] = k /\ x = Append(RemoveAt(r, m), k)
    BY <1>2, RemoveFirstProperties
  <2>2. /\ x \in Seq(Keys) /\ Len(x) = Len(r) /\ x[Len(r)] = k
        /\ \A j \in 1 .. Len(r) - 1 : x[j] = IF j < m THEN r[j] ELSE r[j + 1]
    BY <2>1, MovedProperties
  <2>3. DOMAIN x = 1 .. Len(r)
    BY <2>2, <1>0
  <2>4. ASSUME NEW j \in 1 .. Len(r) PROVE From(j, m, Len(r)) \in 1 .. Len(r) /\ x[j] = r[From(j, m, Len(r))]
    <3>1. CASE j = Len(r)
      <4>1. From(j, m, Len(r)) = m
        BY <3>1 DEF From
      <4>2. QED
        BY <2>1, <2>2, <3>1, <4>1
    <3>2. CASE j # Len(r) /\ j < m
      <4>1. j \in 1 .. Len(r) - 1
        BY <1>0, <3>2, PlacesBefore
      <4>2. From(j, m, Len(r)) = j
        BY <3>2 DEF From
      <4>3. x[j] = r[j]
        BY <2>2, <3>2, <4>1
      <4>4. QED
        BY <4>2, <4>3
    <3>3. CASE j # Len(r) /\ ~(j < m)
      <4>1. j \in 1 .. Len(r) - 1 /\ j + 1 \in 1 .. Len(r)
        BY <1>0, <3>3, PlacesBefore
      <4>2. From(j, m, Len(r)) = j + 1
        BY <3>3 DEF From
      <4>3. x[j] = r[j + 1]
        BY <2>2, <3>3, <4>1
      <4>4. QED
        BY <4>1, <4>2, <4>3
    <3>4. QED
      BY <3>1, <3>2, <3>3
  <2>5. ASSUME NEW i \in 1 .. Len(r), NEW j \in 1 .. Len(r), x[i] = x[j] PROVE i = j
    <3>1. From(i, m, Len(r)) = From(j, m, Len(r))
      BY <1>0, <2>4, <2>5
    <3>2. QED
      BY <1>0, <2>1, <3>1, PlacesApart
  <2>6. QED
    BY <2>2, <2>3, <2>5
<1>3. QED
  BY <1>1, <1>2

(* A hit moves its key to the end of both: _Store.get.                      *)
LEMMA HitStaysTailed ==
  ASSUME NEW c \in Seq(Entry), NEW r, NEW max \in Nat, NEW k, Tailed(c, r, max), OneToAKey(c),
         Has(c, k), NEW e \in Entry, e.key = k
  PROVE  Tailed(Append(RemoveAt(c, At(c, k)), e), Append(RemoveFirst(r, k), k), max)
<1> DEFINE n == At(c, k)
           y == Append(RemoveAt(c, n), e)
           x == Append(RemoveFirst(r, k), k)
           d == Len(r) - Len(c)
<1>1. n \in 1 .. Len(c) /\ c[n].key = k
  BY AtProperties
<1>2. r \in Seq(Keys) /\ Len(c) <= Len(r) /\ Len(c) \in Nat /\ Len(r) \in Nat
  BY DEF Tailed
<1>3. k \in Keys
  BY DEF Entry
<1> HIDE DEF n
<1>4. d \in Nat /\ d + n \in 1 .. Len(r) /\ r[d + n] = k
  BY <1>1, <1>2 DEF Tailed
<1>5. \A i, j \in DOMAIN r : r[i] = r[j] => i = j
  BY DEF Tailed
<1>6. PICK m \in 1 .. Len(r) : r[m] = k /\ RemoveFirst(r, k) = RemoveAt(r, m)
  BY <1>2, <1>4, RemoveFirstProperties
<1>7. m = d + n
  BY <1>2, <1>4, <1>5, <1>6
<1>8. /\ y \in Seq(Entry) /\ Len(y) = Len(c) /\ y[Len(c)] = e
      /\ \A j \in 1 .. Len(c) - 1 : y[j] = IF j < n THEN c[j] ELSE c[j + 1]
  BY <1>1, MovedProperties
<1>9. /\ x \in Seq(Keys) /\ Len(x) = Len(r) /\ x[Len(r)] = k
      /\ \A j \in 1 .. Len(r) - 1 : x[j] = IF j < m THEN r[j] ELSE r[j + 1]
  <2>1. x = Append(RemoveAt(r, m), k)
    BY <1>6
  <2> HIDE DEF x
  <2>2. QED
    BY <1>2, <1>3, <2>1, MovedProperties
<1>10. \A i, j \in DOMAIN x : x[i] = x[j] => i = j
  BY <1>2, <1>3, <1>5, UsedLastIsApart
<1> HIDE DEF x, y
<1>11. ASSUME NEW j \in 1 .. Len(y) PROVE y[j].key = x[Len(x) - Len(y) + j]
  <2>1. Len(x) - Len(y) + j = d + j
    BY <1>8, <1>9
  <2>2. CASE j = Len(c)
    BY <2>1, <2>2, <1>2, <1>8, <1>9
  <2>3. CASE j # Len(c)
    <3>1. j \in 1 .. Len(c) - 1 /\ d + j \in 1 .. Len(r) - 1 /\ (j < n <=> d + j < m)
      BY <2>3, <1>2, <1>7, <1>8, <1>1, <1>4
    <3>2. c[j].key = r[d + j] /\ c[j + 1].key = r[d + (j + 1)]
      BY <3>1, <1>2 DEF Tailed
    <3>3. d + (j + 1) = (d + j) + 1
      BY <3>1, <1>4
    <3>4. y[j] = (IF j < n THEN c[j] ELSE c[j + 1]) /\ x[d + j] = IF d + j < m THEN r[d + j] ELSE r[(d + j) + 1]
      BY <3>1, <1>8, <1>9
    <3> HIDE DEF d
    <3>5. QED
      BY <2>1, <3>1, <3>2, <3>3, <3>4
  <2>4. QED
    BY <2>2, <2>3
<1>12. Len(y) <= Len(x) /\ (Len(y) = max \/ Len(y) = Len(x))
  BY <1>2, <1>8, <1>9 DEF Tailed
<1>13. Tailed(y, x, max)
  BY <1>9, <1>10, <1>11, <1>12 DEF Tailed
<1>14. QED
  BY <1>13 DEF x, y, n

(* A key that is new to the cache: the oldest gives way when it is full, and *)
(* only then can the key have been used before.                             *)
LEMMA MissStaysTailed ==
  ASSUME NEW c \in Seq(Entry), NEW r, NEW max \in Nat \ {0}, NEW k, Tailed(c, r, max), Len(c) <= max,
         ~Has(c, k), NEW e \in Entry, e.key = k
  PROVE  LET u == Append(c, e)
         IN  Tailed(IF Len(u) > max THEN Tail(u) ELSE u, Append(RemoveFirst(r, k), k), max)
<1> DEFINE u == Append(c, e)
           y == IF Len(u) > max THEN Tail(u) ELSE u
           x == Append(RemoveFirst(r, k), k)
           d == Len(r) - Len(c)
<1>1. r \in Seq(Keys) /\ Len(c) <= Len(r) /\ Len(c) \in Nat /\ Len(r) \in Nat
  BY DEF Tailed
<1>2. k \in Keys
  BY DEF Entry
<1>3. \A i, j \in DOMAIN r : r[i] = r[j] => i = j
  BY DEF Tailed
<1>4. /\ u \in Seq(Entry) /\ Len(u) = Len(c) + 1 /\ u[Len(c) + 1] = e
      /\ \A j \in 1 .. Len(c) : u[j] = c[j]
  BY AppendProperties
<1> HIDE DEF u
<1>5. x \in Seq(Keys) /\ \A i, j \in DOMAIN x : x[i] = x[j] => i = j
  BY ONLY <1>1, <1>2, <1>3, UsedLastIsApart
<1>6. \A j \in 1 .. Len(c) : c[j].key = r[d + j] /\ c[j].key # k
  BY DEF Tailed, Has
<1>7. Len(c) = max \/ Len(c) = Len(r)
  BY DEF Tailed
\* The cache was full: as many keys as before, one place on.
<1>8. CASE Len(c) = max
  <2>1. y = Tail(u) /\ u # << >>
    BY <1>1, <1>4, <1>8
  <2>2. Tail(u) \in Seq(Entry) /\ Len(Tail(u)) = Len(u) - 1 /\ \A j \in 1 .. Len(u) - 1 : Tail(u)[j] = u[j + 1]
    BY <1>4, <2>1, HeadTailProperties
  <2>3. Len(y) = max /\ \A j \in 1 .. max : y[j] = u[j + 1]
    BY <1>1, <1>4, <1>8, <2>1, <2>2
  <2> HIDE DEF y
  <2>4. Len(x) >= Len(r) /\ Len(x) \in Nat /\ x[Len(x)] = k /\
        \A j \in 1 .. max - 1 : x[Len(x) - max + j] = r[d + (j + 1)]
    <3>1. CASE ~(\E i \in 1 .. Len(r) : r[i] = k)
      <4>1. x = Append(r, k)
        BY <1>1, <3>1, RemoveFirstProperties
      <4>2. Len(x) = Len(r) + 1 /\ x[Len(r) + 1] = k /\ \A j \in 1 .. Len(r) : x[j] = r[j]
        BY <1>1, <1>2, <4>1, AppendProperties
      <4> HIDE DEF x
      <4>3. \A j \in 1 .. max - 1 : Len(x) - max + j = d + (j + 1) /\ d + (j + 1) \in 1 .. Len(r)
        BY <1>1, <1>8, <4>2
      <4>4. \A j \in 1 .. max - 1 : x[Len(x) - max + j] = r[d + (j + 1)]
        <5> HIDE DEF d
        <5>1. QED
          BY <4>2, <4>3
      <4>5. Len(x) >= Len(r) /\ Len(x) \in Nat /\ x[Len(x)] = k
        BY <1>1, <4>2
      <4>6. QED
        BY <4>4, <4>5
    <3>2. CASE \E i \in 1 .. Len(r) : r[i] = k
      <4>1. PICK m \in 1 .. Len(r) : r[m] = k /\ RemoveFirst(r, k) = RemoveAt(r, m)
        BY <1>1, <3>2, RemoveFirstProperties
      <4>2. /\ Len(x) = Len(r) /\ x[Len(r)] = k
            /\ \A j \in 1 .. Len(r) - 1 : x[j] = IF j < m THEN r[j] ELSE r[j + 1]
        BY <1>1, <1>2, <4>1, MovedProperties
      <4> HIDE DEF x
      <4>3. m <= d
        <5>1. SUFFICES ASSUME m > d PROVE FALSE
          BY <1>1
        <5>2. m - d \in 1 .. Len(c) /\ d + (m - d) = m
          BY <1>1, <5>1
        <5>3. QED
          BY <1>6, <4>1, <5>2
      <4>4. \A j \in 1 .. max - 1 : /\ Len(x) - max + j = d + j /\ d + j \in 1 .. Len(r) - 1
                                    /\ ~(d + j < m) /\ (d + j) + 1 = d + (j + 1)
        BY <1>1, <1>8, <4>2, <4>3
      <4> HIDE DEF d
      <4>5. ASSUME NEW j \in 1 .. max - 1 PROVE x[Len(x) - max + j] = r[d + (j + 1)]
        <5>1. x[d + j] = r[(d + j) + 1]
          BY ONLY <4>2, <4>4
        <5>2. QED
          BY ONLY <4>4, <5>1
      <4>6. Len(x) >= Len(r) /\ Len(x) \in Nat /\ x[Len(x)] = k
        BY ONLY <1>1, <4>2
      <4>7. QED
        BY <4>5, <4>6
    <3>3. QED
      BY <3>1, <3>2
  <2> HIDE DEF x
  <2>5. ASSUME NEW j \in 1 .. Len(y) PROVE y[j].key = x[Len(x) - Len(y) + j]
    <3>1. CASE j = max
      BY <1>4, <1>8, <2>3, <2>4, <3>1
    <3>2. CASE j # max
      <4>1. j \in 1 .. max - 1 /\ j + 1 \in 1 .. Len(c)
        BY <1>8, <2>3, <3>2
      <4>2. y[j] = c[j + 1] /\ c[j + 1].key = r[d + (j + 1)]
        BY <1>4, <1>6, <1>8, <2>3, <4>1
      <4>3. x[Len(x) - Len(y) + j] = r[d + (j + 1)]
        BY <2>3, <2>4, <4>1
      <4>4. QED
        BY <4>2, <4>3
    <3>3. QED
      BY <3>1, <3>2
  <2>6. Len(y) <= Len(x) /\ Len(y) = max
    BY <1>1, <1>8, <2>3, <2>4
  <2>7. Tailed(y, x, max)
    BY <1>5, <2>5, <2>6 DEF Tailed
  <2>8. QED
    BY <2>7 DEF x, y, u
\* There was room: nothing was ever dropped, and the key is new to both.
<1>9. CASE Len(c) # max
  <2>1. Len(c) = Len(r) /\ d = 0 /\ y = u
    BY <1>1, <1>4, <1>7, <1>9
  <2>2. ~(\E i \in 1 .. Len(r) : r[i] = k)
    BY <1>6, <2>1, <1>1
  <2>3. x = Append(r, k)
    BY <1>1, <2>2, RemoveFirstProperties
  <2>4. Len(x) = Len(r) + 1 /\ x[Len(r) + 1] = k /\ \A j \in 1 .. Len(r) : x[j] = r[j]
    BY <1>1, <1>2, <2>3, AppendProperties
  <2> HIDE DEF x
  <2>5. ASSUME NEW j \in 1 .. Len(u) PROVE u[j].key = x[Len(x) - Len(u) + j]
    <3>1. Len(x) - Len(u) + j = j
      BY <1>1, <1>4, <2>1, <2>4
    <3>2. CASE j = Len(c) + 1
      BY <1>4, <2>1, <2>4, <3>1, <3>2
    <3>3. CASE j # Len(c) + 1
      <4>1. j \in 1 .. Len(c) /\ j \in 1 .. Len(r) /\ d + j = j
        BY <1>1, <1>4, <2>1, <3>3
      <4>2. u[j] = c[j] /\ c[j].key = r[j] /\ x[j] = r[j]
        BY <1>4, <1>6, <2>4, <4>1
      <4>3. QED
        BY <3>1, <4>2
    <3>4. QED
      BY <3>2, <3>3
  <2>6. Len(u) = Len(x)
    BY <1>4, <2>1, <2>4
  <2>7. Tailed(u, x, max)
    BY <1>1, <1>4, <1>5, <2>5, <2>6 DEF Tailed
  <2>8. QED
    BY <2>1, <2>7 DEF x, y, u
<1>10. QED
  BY <1>8, <1>9

LEMMA LookupStaysTailed ==
  ASSUME IInv, Tailed(sets, recent, MAX_SETS), NEW r, Lookup(r)
  PROVE  Tailed(sets', recent', MAX_SETS)
<1>1. sets \in Seq(Entry) /\ OneToAKey(sets)
  BY DEF IInv, CacheOK, WellFormed, OneToAKey
<1>2. CASE Known(r)
  <2> DEFINE k == OverlayKey(r)
             n == At(sets, k)
  <2>1. Needs(r) /\ Has(sets, k)
    BY <1>2 DEF Known
  <2>2. n \in DOMAIN sets /\ sets[n].key = k
    BY <2>1, AtProperties
  <2>3. sets[n] \in Entry
    BY <1>1, <2>2
  <2>4. sets' = Append(RemoveAt(sets, n), sets[n])
    BY <2>1 DEF Lookup, Used, Without
  <2>5. recent' = Append(RemoveFirst(recent, k), k)
    BY <1>2 DEF Lookup, UsedLast
  <2> HIDE DEF k
  <2>6. Tailed(Append(RemoveAt(sets, n), sets[n]), Append(RemoveFirst(recent, k), k), MAX_SETS)
    BY <1>1, <2>1, <2>2, <2>3, HitStaysTailed
  <2>7. QED
    BY <2>4, <2>5, <2>6
<1>3. CASE ~Known(r)
  <2>1. sets' = sets /\ recent' = recent
    BY <1>3 DEF Lookup, Known, Used
  <2>2. QED
    BY <2>1
<1>4. QED
  BY <1>2, <1>3

LEMMA RememberStaysTailed ==
  ASSUME IInv, Tailed(sets, recent, MAX_SETS), NEW m \in Mergeable, Remember(m)
  PROVE  Tailed(sets', recent', MAX_SETS)
<1> DEFINE k == OverlayKey(m)
           e == [key |-> k, value |-> m]
           u == Append(Without(sets, k), e)
           x == Append(RemoveFirst(recent, k), k)
<1>1. sets \in Seq(Entry) /\ OneToAKey(sets) /\ Len(sets) <= MAX_SETS
  BY DEF IInv, CacheOK, WellFormed, OneToAKey
<1>2. e \in Entry /\ e.key = k
  BY DEF Entry, Keys
<1>3. sets' = (IF Len(u) > MAX_SETS THEN Tail(u) ELSE u) /\ recent' = x
  BY DEF Remember, UsedLast, Stored
<1> HIDE DEF e, k
<1>4. CASE Has(sets, k)
  <2> DEFINE n == At(sets, k)
  <2>1. u = Append(RemoveAt(sets, n), e)
    BY <1>4 DEF Without
  <2>2. n \in 1 .. Len(sets)
    BY <1>1, <1>4, AtProperties
  <2> HIDE DEF n, u
  <2>3. Len(u) = Len(sets) /\ Len(sets) \in Nat
    BY <1>1, <1>2, <2>1, <2>2, MovedProperties
  <2>4. ~(Len(u) > MAX_SETS)
    BY <1>1, <2>3
  <2>5. Tailed(u, x, MAX_SETS)
    BY <1>1, <1>2, <1>4, <2>1, HitStaysTailed DEF n
  <2>6. QED
    BY <1>3, <2>4, <2>5
<1>5. CASE ~Has(sets, k)
  <2>1. u = Append(sets, e)
    BY <1>5 DEF Without
  <2> HIDE DEF u
  <2>2. Tailed(IF Len(u) > MAX_SETS THEN Tail(u) ELSE u, x, MAX_SETS)
    BY <1>1, <1>2, <1>5, <2>1, MissStaysTailed
  <2>3. QED
    BY <1>3, <2>2
<1>6. QED
  BY <1>4, <1>5

LEMMA NothingIsTailed == Tailed(<< >>, << >>, MAX_SETS)
<1>1. << >> \in Seq(Keys) /\ Len(<< >>) = 0 /\ DOMAIN << >> = {}
  OBVIOUS
<1>2. QED
  BY <1>1 DEF Tailed

LEMMA NextStaysTailed ==
  IInv /\ Tailed(sets, recent, MAX_SETS) /\ [Next]_vars => Tailed(sets', recent', MAX_SETS)
<1> SUFFICES ASSUME IInv, Tailed(sets, recent, MAX_SETS), [Next]_vars
             PROVE  Tailed(sets', recent', MAX_SETS)
  OBVIOUS
<1>1. CASE UNCHANGED << sets, recent >>
  BY <1>1
<1>2. CASE \E s \in Slot : CheckCharacter(s) \/ Compute(s) \/ CheckCatalog(s)
  BY <1>2, LookupStaysTailed DEF CheckCharacter, Compute, CheckCatalog
<1>3. ASSUME NEW s \in Slot, Upload(s) \/ Load(s) PROVE Tailed(sets', recent', MAX_SETS)
  <2>0. req[s] \in Requests /\ RequestOK(req[s])
    BY DEF IInv, Good
  <2>1. CASE Upload(s)
    <3>1. Remember(req[s].up) /\ req[s].stage = "upload"
      BY <2>1 DEF Upload
    <3>2. req[s].up \in Mergeable
      BY <2>0, <3>1 DEF RequestOK, Mergeable, Uploaded
    <3>3. QED
      BY <3>1, <3>2, RememberStaysTailed
  <2>2. CASE Load(s)
    <3>1. Remember(req[s].set) /\ req[s].set \in Mergeable
      BY <2>0, <2>2, RulesetIsKey DEF Load, Requests
    <3>2. QED
      BY <3>1, RememberStaysTailed
  <2>3. QED
    BY <1>3, <2>1, <2>2
<1>4. CASE OtherUpload
  <2>1. PICK k \in Foreign : Remember(k)
    BY <1>4 DEF OtherUpload
  <2>2. QED
    BY <2>1, RememberStaysTailed DEF Mergeable
<1>5. CASE Restart
  BY <1>5, NothingIsTailed DEF Restart
<1>6. ASSUME NEW s \in Slot,
             \/ Ask(s) \/ Build(s) \/ Reupload(s) \/ UploadRefused(s) \/ UploadUnanswered(s)
             \/ TimedOut(s) \/ FetchFails(s) \/ PutCustomData(s)
      PROVE  UNCHANGED << sets, recent >>
  BY <1>6 DEF Ask, Build, Reupload, UploadRefused, UploadUnanswered, TimedOut, FetchFails, PutCustomData
<1>7. QED
  BY <1>1, <1>2, <1>3, <1>4, <1>5, <1>6 DEF Next, vars

(* Ends that agree place by place are one the suffix of the other.          *)
LEMMA TailedIsSuffix ==
  ASSUME NEW c \in Seq(Entry), NEW r, NEW max, Tailed(c, r, max)
  PROVE  IsSuffix(KeysOf(c), r)
<1> DEFINE w == KeysOf(c)
           a == Reverse(w)
           b == Reverse(r)
           n == Len(c)
<1>1. r \in Seq(Keys) /\ n <= Len(r) /\ n \in Nat /\ Len(r) \in Nat /\ DOMAIN c = 1 .. n
  BY DEF Tailed
<1>2. \A i \in 1 .. n : c[i].key \in Keys
  BY <1>1 DEF Entry
<1>3. w \in Seq(Keys) /\ Len(w) = n /\ \A i \in 1 .. n : w[i] = c[i].key
  <2>1. w = [i \in 1 .. n |-> c[i].key]
    BY <1>1 DEF KeysOf
  <2> HIDE DEF w, n
  <2>2. QED
    BY <1>1, <1>2, <2>1
<1> HIDE DEF w
<1>4. a = [i \in 1 .. n |-> w[(n - i) + 1]] /\ b = [i \in 1 .. Len(r) |-> r[(Len(r) - i) + 1]]
  BY <1>3 DEF Reverse
<1> HIDE DEF a, b
<1>5. Len(a) = n /\ Len(b) = Len(r)
  BY <1>1, <1>4
<1>6. ASSUME NEW i \in 1 .. n PROVE a[i] = b[i] /\ a[i] \in Keys
  <2>1. (n - i) + 1 \in 1 .. n /\ i \in 1 .. Len(r)
    BY <1>1
  <2>2. a[i] = c[(n - i) + 1].key /\ b[i] = r[(Len(r) - i) + 1]
    BY <1>3, <1>4, <2>1
  <2>3. c[(n - i) + 1].key = r[Len(r) - n + ((n - i) + 1)]
    BY <2>1 DEF Tailed
  <2>4. Len(r) - n + ((n - i) + 1) = (Len(r) - i) + 1
    BY <1>1
  <2>5. QED
    BY <1>2, <2>1, <2>2, <2>3, <2>4
<1>7. SubSeq(a, 1, n) = SubSeq(b, 1, n)
  <2>1. \A i \in 1 .. n : a[i] \in Keys /\ b[i] \in Keys
    BY <1>6
  <2>2. 1 \in Int /\ n \in Int
    BY <1>1
  <2> HIDE DEF n
  <2>3. /\ SubSeq(a, 1, n) \in Seq(Keys)
        /\ Len(SubSeq(a, 1, n)) = IF 1 <= n THEN n - 1 + 1 ELSE 0
        /\ \A i \in 1 .. n - 1 + 1 : SubSeq(a, 1, n)[i] = a[1 + i - 1]
    BY <2>1, <2>2, SubSeqProperties
  <2>4. /\ SubSeq(b, 1, n) \in Seq(Keys)
        /\ Len(SubSeq(b, 1, n)) = IF 1 <= n THEN n - 1 + 1 ELSE 0
        /\ \A i \in 1 .. n - 1 + 1 : SubSeq(b, 1, n)[i] = b[1 + i - 1]
    BY <2>1, <2>2, SubSeqProperties
  <2>5. n - 1 + 1 = n /\ Len(SubSeq(a, 1, n)) = n /\ Len(SubSeq(b, 1, n)) = n
    BY <1>1, <2>3, <2>4
  <2>6. \A i \in 1 .. n : SubSeq(a, 1, n)[i] = a[i] /\ SubSeq(b, 1, n)[i] = b[i]
    <3>1. \A i \in 1 .. n : 1 + i - 1 = i
      OBVIOUS
    <3>2. QED
      BY <2>3, <2>4, <2>5, <3>1
  <2>7. QED
    BY <1>6, <2>3, <2>4, <2>5, <2>6, SeqEqual
<1>8. IsPrefix(a, b)
  BY <1>1, <1>5, <1>7 DEF IsPrefix
<1>9. QED
  BY <1>8 DEF IsSuffix, a, b, w

(* The server keeps the sets used last, in that order, and as many as fit,  *)
(* whatever lookups, uploads and restarts overlap: _Store.get and put.      *)
THEOREM HandshakeStoreIsRecent == Spec => []StoreIsRecent
<1> DEFINE T == Tailed(sets, recent, MAX_SETS)
<1>1. Init => T
  BY NothingIsTailed DEF Init
<1>2. IInv /\ T /\ [Next]_vars => T'
  BY NextStaysTailed
<1>3. IInv /\ T => StoreIsRecent
  <2> SUFFICES ASSUME IInv, T PROVE StoreIsRecent
    OBVIOUS
  <2>1. sets \in Seq(Entry)
    BY DEF IInv, CacheOK
  <2>2. IsSuffix(KeysOf(sets), recent)
    BY <2>1, TailedIsSuffix
  <2>3. Len(sets) = MAX_SETS \/ Len(sets) = Len(recent)
    BY DEF Tailed
  <2>4. QED
    BY <2>2, <2>3 DEF StoreIsRecent
<1> HIDE DEF T
<1>4. QED
  BY <1>1, <1>2, <1>3, Inductive, PTL DEF Spec

-----------------------------------------------------------------------------
(* A request that nobody disturbs is served.  What is inductive is what    *)
(* server and browser hold for it at every stage on the way.               *)

\* For the request r, with the sets c, the files of the hashes k kept, and the
\* directories d noted last.
OnItsWay(r, c, k, d) ==
  /\ r.stage \in {"refused", "upload", "silent"} => Needs(r.set)
  /\ r.stage \in {"loading", "merged"} => r.kind = "load"
  /\ r.calm /\ r.kind # "load" =>
       /\ Needs(r.set) /\ r.stage \in Waiting => d = r.set[2]
       /\ r.stage = "refused" => ~r.retried
       /\ r.stage = "upload" => r.up = r.set
       /\ Needs(r.set) /\ r.stage = "sent" /\ r.retried => Has(c, OverlayKey(r.set))
       /\ Needs(r.set) /\ r.stage = "checked" => Has(c, OverlayKey(r.set))
       /\ r.stage = "missing" => r.set[1] \notin k
       /\ r.stage = "answered" /\ r.under = r.set /\ Needs(r.set) => r.got # Vendored

AllServed == \A s \in Slot : OnItsWay(req[s], sets, kept, lastCustomData)

(* A read takes no key away.                                                *)
LEMMA UsedHasAsMuch ==
  ASSUME NEW E, NEW c \in Seq(E), NEW k, NEW key, Has(c, key)
  PROVE  Has(Used(c, k), key)
<1>1. CASE ~Has(c, k)
  BY <1>1 DEF Used
<1>2. CASE Has(c, k)
  <2> DEFINE n == At(c, k)
             e == c[n]
             y == Append(RemoveAt(c, n), e)
  <2>1. Used(c, k) = y
    BY <1>2 DEF Used, Without
  <2>2. n \in 1 .. Len(c) /\ Len(c) \in Nat
    BY <1>2, AtProperties
  <2>3. e \in E
    BY <2>2
  <2> HIDE DEF n, e
  <2>4. /\ y \in Seq(E) /\ Len(y) = Len(c) /\ y[Len(c)] = e
        /\ \A j \in 1 .. Len(c) - 1 : y[j] = IF j < n THEN c[j] ELSE c[j + 1]
    BY <2>2, <2>3, MovedProperties
  <2> HIDE DEF y
  <2>5. DOMAIN y = 1 .. Len(c)
    BY <2>4
  <2>6. PICK i \in 1 .. Len(c) : c[i].key = key
    BY DEF Has
  <2>7. \E j \in 1 .. Len(c) : y[j].key = key
    <3>1. CASE i = n
      BY <2>2, <2>4, <2>6, <3>1 DEF e
    <3>2. CASE i < n
      <4>1. i \in 1 .. Len(c) - 1
        BY <2>2, <2>6, <3>2
      <4>2. y[i] = c[i]
        BY <2>4, <3>2, <4>1
      <4>3. QED
        BY <2>6, <4>2
    <3>3. CASE i > n
      <4>1. i - 1 \in 1 .. Len(c) - 1 /\ ~(i - 1 < n) /\ (i - 1) + 1 = i /\ i - 1 \in 1 .. Len(c)
        BY <2>2, <2>6, <3>3
      <4>2. y[i - 1] = c[i]
        BY <2>4, <4>1
      <4>3. QED
        BY <2>6, <4>1, <4>2
    <3>4. i = n \/ i < n \/ i > n
      BY <2>2, <2>6
    <3>5. QED
      BY <3>1, <3>2, <3>3, <3>4
  <2>8. QED
    BY <2>1, <2>5, <2>7 DEF Has
<1>3. QED
  BY <1>1, <1>2

LEMMA LookupHasAsMuch ==
  ASSUME IInv, NEW r, Lookup(r), NEW key, Has(sets, key)
  PROVE  Has(sets', key)
<1>1. sets \in Seq(Entry)
  BY DEF IInv, CacheOK
<1>2. Has(Used(sets, OverlayKey(r)), key)
  BY <1>1, UsedHasAsMuch
<1>3. QED
  BY <1>2 DEF Lookup

LEMMA RememberHasIt ==
  ASSUME IInv, NEW m \in Mergeable, Remember(m)
  PROVE  Has(sets', OverlayKey(m))
<1> DEFINE k == OverlayKey(m)
<1>1. sets \in Seq(Entry) /\ WellFormed(sets, MAX_SETS)
  BY DEF IInv, CacheOK
<1>2. [key |-> k, value |-> m] \in Entry
  BY DEF Entry, Keys
<1>3. Has(Stored(sets, k, m, MAX_SETS), k)
  BY <1>1, <1>2, StoredKeepsTheCache
<1>4. QED
  BY <1>3 DEF Remember

LEMMA DisturbedOnItsWay ==
  ASSUME NEW r \in Requests, NEW c, NEW k, NEW d, OnItsWay(r, c, k, d), NEW c2, NEW k2, NEW d2
  PROVE  OnItsWay(Disturbed(r), c2, k2, d2)
<1> DEFINE x == Disturbed(r)
<1>1. /\ x.calm = FALSE /\ x.stage = r.stage /\ x.kind = r.kind /\ x.set = r.set
  BY DEF Disturbed, Requests
<1> HIDE DEF x
<1>2. OnItsWay(x, c2, k2, d2)
  BY <1>1 DEF OnItsWay
<1>3. QED
  BY <1>2 DEF x

LEMMA IdleOnItsWay ==
  ASSUME NEW c, NEW k, NEW d
  PROVE  OnItsWay(Idle, c, k, d)
<1>1. Idle.stage = "idle" /\ Idle.calm = FALSE
  BY DEF Idle, Asked
<1> HIDE DEF Idle
<1>2. QED
  BY <1>1 DEF OnItsWay

(* A step of one request that takes nothing from the others.                *)
LEMMA MoveStaysServed ==
  ASSUME IInv, AllServed, NEW s \in Slot, NEW r, Move(s, r),
         \A key : Has(sets, key) => Has(sets', key),
         UNCHANGED << kept, lastCustomData >>,
         OnItsWay(r, sets', kept, lastCustomData)
  PROVE  AllServed'
<1>1. ASSUME NEW x \in Slot PROVE OnItsWay(req'[x], sets', kept', lastCustomData')
  <2>1. CASE x = s
    BY <2>1 DEF Move, IInv
  <2>2. CASE x # s
    <3>1. req'[x] = req[x]
      BY <2>2 DEF Move, IInv
    <3>2. OnItsWay(req[x], sets, kept, lastCustomData)
      BY DEF AllServed
    <3>3. OnItsWay(req[x], sets', kept, lastCustomData)
      BY <3>2 DEF OnItsWay
    <3>4. QED
      BY <3>1, <3>3
  <2>3. QED
    BY <2>1, <2>2
<1>2. QED
  BY <1>1 DEF AllServed, OnItsWay, Has, Needs

(* A step that disturbs the others asks nothing of them.                    *)
LEMMA MoveAloneStaysServed ==
  ASSUME IInv, AllServed, NEW s \in Slot, NEW r, MoveAlone(s, r),
         OnItsWay(r, sets', kept', lastCustomData')
  PROVE  AllServed'
<1>1. ASSUME NEW x \in Slot PROVE OnItsWay(req'[x], sets', kept', lastCustomData')
  <2>1. CASE x = s
    BY <2>1 DEF MoveAlone
  <2>2. CASE x # s
    <3>1. req'[x] = Disturbed(req[x])
      BY <2>2 DEF MoveAlone
    <3>2. OnItsWay(req[x], sets, kept, lastCustomData) /\ req[x] \in Requests
      BY DEF AllServed, IInv, Good
    <3>3. QED
      BY <3>1, <3>2, DisturbedOnItsWay
  <2>3. QED
    BY <2>1, <2>2
<1>2. QED
  BY <1>1 DEF AllServed, OnItsWay, Has, Needs

LEMMA NextStaysServed == IInv /\ AllServed /\ [Next]_vars => AllServed'
<1> SUFFICES ASSUME IInv, AllServed, [Next]_vars PROVE AllServed'
  OBVIOUS
<1>0. ASSUME NEW s \in Slot
      PROVE  /\ req[s] \in Requests /\ RequestOK(req[s])
             /\ OnItsWay(req[s], sets, kept, lastCustomData)
             /\ req[s].set \in Ruleset /\ req[s].set = << req[s].set[1], req[s].set[2] >>
  <2>1. req[s] \in Requests /\ RequestOK(req[s])
    BY DEF IInv, Good
  <2>2. req[s].set \in Ruleset
    BY <2>1 DEF Requests
  <2>3. QED
    BY <2>1, <2>2, RulesetAssumption DEF AllServed
<1>sets. CacheOK(sets, MAX_SETS) /\ CacheOK(cats, MAX_CACHED_CUSTOM_CATALOGS)
  BY DEF IInv
<1>1. ASSUME NEW s \in Slot, Ask(s) PROVE AllServed'
  <2>0. PICK kind \in Kinds, chosen \in Ruleset :
          LET set == IF kind = "catalog" THEN Respelled(chosen) ELSE chosen
          IN
          \E under \in IF kind = "settings" THEN Laid(s) ELSE {set} :
            /\ kind = "load" => Needs(set)
            /\ lastCustomData' = Noted(kind, set)
            /\ MoveAlone(s, Asked(kind, set, under))
    BY <1>1 DEF Ask
  <2>a. Respelled(chosen) \in Ruleset
    BY RulesetAssumption
  <2>1. PICK set \in Ruleset :
          \E under \in IF kind = "settings" THEN Laid(s) ELSE {set} :
            /\ kind = "load" => Needs(set)
            /\ lastCustomData' = Noted(kind, set)
            /\ MoveAlone(s, Asked(kind, set, under))
    BY <2>0, <2>a
  <2>2. PICK under : /\ lastCustomData' = Noted(kind, set)
                     /\ MoveAlone(s, Asked(kind, set, under))
    BY <2>1
  <2> DEFINE r == Asked(kind, set, under)
  <2>3. /\ r.kind = kind /\ r.set = set /\ r.under = under /\ r.retried = FALSE
        /\ r.stage = IF kind = "load" THEN "loading" ELSE "sent"
    BY DEF Asked
  <2>4. kind # "load" /\ Needs(set) => lastCustomData' = set[2]
    BY <2>2 DEF Noted
  <2> HIDE DEF r
  <2>5. OnItsWay(r, sets', kept', lastCustomData')
    BY <2>3, <2>4 DEF OnItsWay
  <2>6. MoveAlone(s, r)
    BY <2>2 DEF r
  <2>7. QED
    BY <2>5, <2>6, MoveAloneStaysServed
<1>2. ASSUME NEW s \in Slot, CheckCharacter(s) PROVE AllServed'
  <2> DEFINE set == req[s].set
             stage == IF Needs(set) /\ ~Known(set) THEN "refused" ELSE "checked"
             r == [req[s] EXCEPT !.stage = stage]
  <2>1. /\ req[s].stage = "sent" /\ Lookup(set) /\ Move(s, r)
        /\ UNCHANGED << kept, lastCustomData >>
    BY <1>2 DEF CheckCharacter
  <2>2. \A key : Has(sets, key) => Has(sets', key)
    BY <2>1, LookupHasAsMuch
  <2>3. /\ r.stage = stage /\ r.kind = req[s].kind /\ r.set = set /\ r.calm = req[s].calm
        /\ r.retried = req[s].retried
    BY <1>0 DEF Requests
  <2> HIDE DEF r
  <2>4. Needs(set) => (Known(set) <=> Has(sets, OverlayKey(set)))
    BY DEF Known
  <2>5. OnItsWay(r, sets', kept, lastCustomData)
    <3>1. stage \in {"refused", "checked"} /\ (stage = "refused" => Needs(set) /\ ~Has(sets, OverlayKey(set)))
          /\ (stage = "checked" /\ Needs(set) => Has(sets', OverlayKey(set)))
      BY <2>2, <2>4
    <3>2. OnItsWay(req[s], sets, kept, lastCustomData)
      BY <1>0
    <3> HIDE DEF stage
    <3>3. QED
      BY <2>1, <2>3, <3>1, <3>2 DEF OnItsWay, Waiting, AtServer
  <2>6. QED
    BY <2>1, <2>2, <2>5, MoveStaysServed
<1>3. ASSUME NEW s \in Slot, Compute(s) PROVE AllServed'
  <2> DEFINE r == [Over(req[s], "answered") EXCEPT !.got = Found(req[s].under)]
  <2>1. /\ req[s].stage = "checked" /\ Lookup(req[s].under) /\ Move(s, r)
        /\ UNCHANGED << kept, lastCustomData >>
    BY <1>3 DEF Compute
  <2>2. \A key : Has(sets, key) => Has(sets', key)
    BY <2>1, LookupHasAsMuch
  <2>3. /\ r.stage = "answered" /\ r.kind = req[s].kind /\ r.set = req[s].set
        /\ r.under = req[s].under /\ r.calm = req[s].calm /\ r.got = Found(req[s].under)
    BY <1>0 DEF Requests, Over
  <2> HIDE DEF r
  <2>4. Needs(req[s].set) /\ Has(sets, OverlayKey(req[s].set)) => Found(req[s].set) # Vendored
    BY <1>sets, FoundIsOwn DEF Known
  <2>5. OnItsWay(req[s], sets, kept, lastCustomData)
    BY <1>0
  <2>6. OnItsWay(r, sets', kept, lastCustomData)
    BY <2>1, <2>3, <2>4, <2>5 DEF OnItsWay, Waiting, AtServer
  <2>7. QED
    BY <2>1, <2>2, <2>6, MoveStaysServed
<1>4. ASSUME NEW s \in Slot, CheckCatalog(s) PROVE AllServed'
  <2> DEFINE set == req[s].set
  <2>0. /\ req[s].kind = "catalog" /\ req[s].stage = "sent" /\ Lookup(set)
        /\ UNCHANGED << kept, lastCustomData >>
    BY <1>4 DEF CheckCatalog
  <2>1. \A key : Has(sets, key) => Has(sets', key)
    BY <2>0, LookupHasAsMuch
  <2>2. OnItsWay(req[s], sets, kept, lastCustomData) /\ req[s] \in Requests
    BY <1>0
  <2>3. Needs(set) => (Known(set) <=> Has(sets, OverlayKey(set)))
    BY DEF Known
  <2>4. CASE ~Needs(set)
    <3> DEFINE r == Over(req[s], "answered")
    <3>1. Move(s, r)
      BY <1>4, <2>4 DEF CheckCatalog
    <3>2. r.stage = "answered" /\ r.set = set
      BY <2>2 DEF Over, Requests
    <3> HIDE DEF r
    <3>3. OnItsWay(r, sets', kept, lastCustomData)
      BY <2>4, <3>2 DEF OnItsWay, Waiting, AtServer
    <3>4. QED
      BY <2>0, <2>1, <3>1, <3>3, MoveStaysServed
  <2>5. CASE Needs(set) /\ ~Known(set)
    <3> DEFINE r == [req[s] EXCEPT !.stage = "refused"]
    <3>1. Move(s, r)
      BY <1>4, <2>5 DEF CheckCatalog
    <3>2. /\ r.stage = "refused" /\ r.set = set /\ r.calm = req[s].calm /\ r.kind = req[s].kind
          /\ r.retried = req[s].retried
      BY <2>2 DEF Requests
    <3> HIDE DEF r
    <3>3. OnItsWay(r, sets', kept, lastCustomData)
      BY <2>0, <2>2, <2>3, <2>5, <3>2 DEF OnItsWay, Waiting, AtServer
    <3>4. QED
      BY <2>0, <2>1, <3>1, <3>3, MoveStaysServed
  <2>6. CASE Needs(set) /\ Known(set) /\ Has(cats, OverlayKey(set))
    <3> DEFINE r == [Over(req[s], "answered") EXCEPT !.got = Value(cats, OverlayKey(set))]
    <3>1. Move(s, r)
      BY <1>4, <2>6 DEF CheckCatalog
    <3>2. Value(cats, OverlayKey(set)) # Vendored
      BY <1>sets, <2>6, ValueIsKey
    <3>3. r.stage = "answered" /\ r.set = set /\ r.got # Vendored
      BY <2>2, <3>2 DEF Over, Requests
    <3> HIDE DEF r
    <3>4. OnItsWay(r, sets', kept, lastCustomData)
      BY <3>3 DEF OnItsWay, Waiting, AtServer
    <3>5. QED
      BY <2>0, <2>1, <3>1, <3>4, MoveStaysServed
  <2>7. CASE Needs(set) /\ Known(set) /\ ~Has(cats, OverlayKey(set))
    <3> DEFINE r == [req[s] EXCEPT !.stage = "building", !.got = Found(set)]
    <3>1. Move(s, r)
      BY <1>4, <2>7 DEF CheckCatalog
    <3>2. r.stage = "building" /\ r.set = set /\ r.calm = req[s].calm /\ r.kind = req[s].kind
      BY <2>2 DEF Requests
    <3> HIDE DEF r
    <3>3. OnItsWay(r, sets', kept, lastCustomData)
      BY <2>0, <2>2, <3>2 DEF OnItsWay, Waiting, AtServer
    <3>4. QED
      BY <2>0, <2>1, <3>1, <3>3, MoveStaysServed
  <2>8. QED
    BY <2>4, <2>5, <2>6, <2>7
<1>5. ASSUME NEW s \in Slot, Build(s) PROVE AllServed'
  <2> DEFINE r == Over(req[s], "answered")
  <2>1. Move(s, r) /\ req[s].stage = "building" /\ UNCHANGED << sets, kept, lastCustomData >>
    BY <1>5 DEF Build
  <2>a. req[s].got # Vendored
    BY <1>0, <2>1, RulesetAssumption DEF RequestOK, Answers
  <2>2. r.stage = "answered" /\ r.set = req[s].set /\ r.got # Vendored
    BY <1>0, <2>a DEF Over, Requests
  <2> HIDE DEF r
  <2>3. OnItsWay(r, sets', kept, lastCustomData)
    BY <2>2 DEF OnItsWay, Waiting, AtServer
  <2>4. QED
    BY <2>1, <2>3, MoveStaysServed
<1>6. ASSUME NEW s \in Slot, Reupload(s) PROVE AllServed'
  <2>1. req[s].stage = "refused" /\ UNCHANGED << sets, kept, lastCustomData >>
    BY <1>6 DEF Reupload
  <2>2. OnItsWay(req[s], sets, kept, lastCustomData) /\ req[s] \in Requests
    BY <1>0
  <2>3. CASE req[s].retried \/ req[s].set[1] \notin kept
    <3> DEFINE r == Over(req[s], "missing")
    <3>1. Move(s, r)
      BY <1>6, <2>3 DEF Reupload
    <3>2. r.stage = "missing" /\ r.set = req[s].set /\ r.calm = req[s].calm /\ r.kind = req[s].kind
      BY <2>2 DEF Over, Requests
    <3> HIDE DEF r
    <3>3. OnItsWay(r, sets', kept, lastCustomData)
      BY <2>1, <2>2, <2>3, <3>2 DEF OnItsWay, Waiting, AtServer
    <3>4. QED
      BY <2>1, <3>1, <3>3, MoveStaysServed
  <2>4. CASE ~(req[s].retried \/ req[s].set[1] \notin kept)
    <3> DEFINE up == << req[s].set[1], lastCustomData >>
               r == [req[s] EXCEPT !.stage = "upload", !.up = up]
    <3>1. Move(s, r)
      BY <1>6, <2>4 DEF Reupload
    <3>2. /\ r.stage = "upload" /\ r.set = req[s].set /\ r.calm = req[s].calm /\ r.kind = req[s].kind
          /\ r.up = up
      BY <2>2 DEF Requests
    <3> HIDE DEF r
    <3>3. req[s].calm /\ req[s].kind # "load" => lastCustomData = req[s].set[2]
      BY <2>1, <2>2 DEF OnItsWay, Waiting
    <3>4. lastCustomData = req[s].set[2] => up = req[s].set
      BY <1>0
    <3> HIDE DEF up
    <3>5. OnItsWay(r, sets', kept, lastCustomData)
      BY <2>1, <2>2, <3>2, <3>3, <3>4 DEF OnItsWay, Waiting, AtServer
    <3>6. QED
      BY <2>1, <3>1, <3>5, MoveStaysServed
  <2>5. QED
    BY <2>3, <2>4
<1>7. ASSUME NEW s \in Slot, Upload(s) PROVE AllServed'
  <2> DEFINE r == [req[s] EXCEPT !.stage = "sent", !.up = Vendored, !.retried = TRUE]
  <2>1. /\ req[s].stage = "upload" /\ Remember(req[s].up) /\ MoveAlone(s, r)
        /\ UNCHANGED << kept, lastCustomData >>
    BY <1>7 DEF Upload
  <2>2. OnItsWay(req[s], sets, kept, lastCustomData)
    BY <1>0
  <2>3. req[s].up \in Mergeable
    BY <1>0, <2>1 DEF RequestOK, Mergeable, Uploaded
  <2>4. Has(sets', OverlayKey(req[s].up))
    BY <2>1, <2>3, RememberHasIt
  <2>5. r.stage = "sent" /\ r.set = req[s].set /\ r.calm = req[s].calm /\ r.kind = req[s].kind
    BY <1>0 DEF Requests
  <2> HIDE DEF r
  <2>6. OnItsWay(r, sets', kept', lastCustomData')
    BY <2>1, <2>2, <2>4, <2>5 DEF OnItsWay, Waiting, AtServer
  <2>7. QED
    BY <2>1, <2>6, MoveAloneStaysServed
<1>8. ASSUME NEW s \in Slot, UploadRefused(s) PROVE AllServed'
  <2> DEFINE r == [req[s] EXCEPT !.stage = "sent", !.up = Vendored, !.retried = TRUE, !.calm = FALSE]
  <2>1. Move(s, r) /\ UNCHANGED << sets, kept, lastCustomData >>
    BY <1>8 DEF UploadRefused
  <2>2. r.stage = "sent" /\ r.calm = FALSE
    BY <1>0 DEF Requests
  <2> HIDE DEF r
  <2>3. OnItsWay(r, sets', kept, lastCustomData)
    BY <2>2 DEF OnItsWay
  <2>4. QED
    BY <2>1, <2>3, MoveStaysServed
<1>9. ASSUME NEW s \in Slot, UploadUnanswered(s) PROVE AllServed'
  <2> DEFINE r == [req[s] EXCEPT !.stage = "silent"]
  <2>1. Move(s, r) /\ req[s].stage = "upload" /\ UNCHANGED << sets, kept, lastCustomData >>
    BY <1>9 DEF UploadUnanswered
  <2>2. r.stage = "silent" /\ r.set = req[s].set /\ r.calm = req[s].calm /\ r.kind = req[s].kind
    BY <1>0 DEF Requests
  <2> HIDE DEF r
  <2>3. OnItsWay(req[s], sets, kept, lastCustomData)
    BY <1>0
  <2>4. OnItsWay(r, sets', kept, lastCustomData)
    BY <2>1, <2>2, <2>3 DEF OnItsWay, Waiting, AtServer
  <2>5. QED
    BY <2>1, <2>4, MoveStaysServed
<1>10. ASSUME NEW s \in Slot, TimedOut(s) \/ FetchFails(s) PROVE AllServed'
  <2>1. Move(s, Idle) /\ UNCHANGED << sets, kept, lastCustomData >>
    BY <1>10 DEF TimedOut, FetchFails
  <2>2. QED
    BY <2>1, IdleOnItsWay, MoveStaysServed
<1>11. ASSUME NEW s \in Slot, Load(s) PROVE AllServed'
  <2> DEFINE r == [req[s] EXCEPT !.stage = "merged"]
  <2>1. MoveAlone(s, r) /\ req[s].stage = "loading"
    BY <1>11 DEF Load
  <2>2. r.stage = "merged" /\ r.kind = req[s].kind /\ req[s].kind = "load"
    BY <1>0, <2>1 DEF Requests, OnItsWay
  <2> HIDE DEF r
  <2>3. OnItsWay(r, sets', kept', lastCustomData')
    BY <2>2 DEF OnItsWay
  <2>4. QED
    BY <2>1, <2>3, MoveAloneStaysServed
<1>12. ASSUME NEW s \in Slot, PutCustomData(s) PROVE AllServed'
  <2> DEFINE r == Over(req[s], "answered")
  <2>1. MoveAlone(s, r) /\ req[s].stage = "merged"
    BY <1>12 DEF PutCustomData
  <2>2. r.stage = "answered" /\ r.kind = req[s].kind /\ req[s].kind = "load"
    BY <1>0, <2>1 DEF Requests, OnItsWay, Over
  <2> HIDE DEF r
  <2>3. OnItsWay(r, sets', kept', lastCustomData')
    BY <2>2 DEF OnItsWay
  <2>4. QED
    BY <2>1, <2>3, MoveAloneStaysServed
<1>13. ASSUME OtherUpload \/ Restart PROVE AllServed'
  <2>1. ASSUME NEW x \in Slot PROVE OnItsWay(req'[x], sets', kept', lastCustomData')
    <3>1. req'[x] = Disturbed(req[x]) \/ req'[x] = Idle
      BY <1>13 DEF OtherUpload, Restart
    <3>2. QED
      BY <1>0, <3>1, DisturbedOnItsWay, IdleOnItsWay
  <2>2. QED
    BY <2>1 DEF AllServed, OnItsWay, Has, Needs
<1>14. CASE UNCHANGED vars
  <2>1. UNCHANGED << sets, kept, lastCustomData, req >>
    BY <1>14 DEF vars
  <2>2. QED
    BY <2>1 DEF AllServed, OnItsWay, Has, Needs
<1>15. QED
  BY <1>1, <1>2, <1>3, <1>4, <1>5, <1>6, <1>7, <1>8, <1>9, <1>10, <1>11, <1>12,
     <1>13, <1>14 DEF Next

(* A request whose files this browser keeps, and that nobody else disturbs, *)
(* is never given up as missing and is answered under its own set, whatever *)
(* the server had forgotten before: api.ts's send and noteCustomData.       *)
THEOREM HandshakeCalmIsServed == Spec => []CalmIsServed
<1>1. Init => AllServed
  BY IdleOnItsWay DEF Init, AllServed
<1>2. IInv /\ AllServed /\ [Next]_vars => AllServed'
  BY NextStaysServed
<1>3. AllServed => CalmIsServed
  BY DEF AllServed, OnItsWay, CalmIsServed
<1>4. QED
  BY <1>1, <1>2, <1>3, Inductive, PTL DEF Spec

-----------------------------------------------------------------------------
(* What a list of directories spells.                                      *)

Plain(dirs) == \A i \in DOMAIN dirs : Len(dirs[i]) = 1

\* The names of the first n directories, each of one part.
Heads(dirs, n) == [j \in 1 .. n |-> dirs[j][1]]

\* The recursion that joins the first i lists of seqs, for every i.
Joins(f, seqs) ==
  f = [i \in 1 .. Len(seqs) |-> IF i = 1 THEN seqs[i] ELSE f[i - 1] \o seqs[i]]

LEMMA JoinedIsFold ==
  ASSUME NEW dirs, Len(dirs) # 0
  PROVE  Joined(dirs) = (CHOOSE f : Joins(f, dirs))[Len(dirs)]
BY DEF Joined, FlattenSeq, Joins

LEMMA HeadsGrow ==
  ASSUME NEW dirs \in Seq(Seq(Part)), Plain(dirs), NEW n \in Nat, n + 1 \in 1 .. Len(dirs)
  PROVE  Heads(dirs, n) \o dirs[n + 1] = Heads(dirs, n + 1)
<1> DEFINE a == Heads(dirs, n)
           b == dirs[n + 1]
           c == Heads(dirs, n + 1)
<1>1. \A j \in 1 .. n + 1 : j \in DOMAIN dirs /\ dirs[j] \in Seq(Part) /\ Len(dirs[j]) = 1
  BY DEF Plain
<1>2. \A j \in 1 .. n + 1 : dirs[j][1] \in Part
  BY <1>1
<1>3. a \in Seq(Part) /\ Len(a) = n /\ \A j \in 1 .. n : a[j] = dirs[j][1]
  BY <1>2 DEF Heads
<1>4. c \in Seq(Part) /\ Len(c) = n + 1 /\ \A j \in 1 .. n + 1 : c[j] = dirs[j][1]
  BY <1>2 DEF Heads
<1>5. b \in Seq(Part) /\ Len(b) = 1
  BY <1>1 DEF b
<1> HIDE DEF a, c
<1> HIDE DEF b
<1>a. /\ a \o b \in Seq(Part)
      /\ Len(a \o b) = Len(a) + Len(b)
      /\ \A j \in 1 .. Len(a) + Len(b) : (a \o b)[j] = IF j <= Len(a) THEN a[j] ELSE b[j - Len(a)]
  BY <1>3, <1>5, ConcatProperties
<1>6. /\ a \o b \in Seq(Part)
      /\ Len(a \o b) = n + 1
      /\ \A j \in 1 .. n + 1 : (a \o b)[j] = IF j <= n THEN a[j] ELSE b[j - n]
  BY <1>3, <1>5, <1>a
<1>7. \A j \in 1 .. n + 1 : (a \o b)[j] = c[j]
  <2> SUFFICES ASSUME NEW j \in 1 .. n + 1 PROVE (a \o b)[j] = c[j]
    OBVIOUS
  <2>1. CASE j <= n
    <3>1. j \in 1 .. n
      BY <2>1
    <3> QED
      BY <3>1, <2>1, <1>3, <1>4, <1>6
  <2>2. CASE ~(j <= n)
    <3>1. j = n + 1 /\ j - n = 1
      BY <2>2
    <3>2. (a \o b)[j] = b[1] /\ c[j] = dirs[n + 1][1]
      BY <3>1, <2>2, <1>4, <1>6
    <3> QED
      BY <3>2 DEF b
  <2> QED
    BY <2>1, <2>2
<1>8. a \o b = c
  BY <1>4, <1>6, <1>7, SeqEqual
<1> QED
  BY <1>8 DEF a, b, c

(* Names without a bar: what they spell together is the names.              *)
LEMMA JoinedOfPlain ==
  ASSUME NEW dirs \in Seq(Seq(Part)), Plain(dirs)
  PROVE  /\ Len(Joined(dirs)) = Len(dirs)
         /\ \A j \in 1 .. Len(dirs) : Joined(dirs)[j] = dirs[j][1]
<1> DEFINE n == Len(dirs)
<1>0. n \in Nat
  OBVIOUS
<1>1. CASE n = 0
  <2>1. Joined(dirs) = dirs
    BY <1>1 DEF Joined, FlattenSeq
  <2> QED
    BY <1>1, <2>1
<1>2. CASE n # 0
  <2> DEFINE g == [i \in 1 .. n |-> Heads(dirs, i)]
             f == CHOOSE x : Joins(x, dirs)
  <2>1. dirs[1] = Heads(dirs, 1)
    <3>1. 1 \in DOMAIN dirs /\ dirs[1] \in Seq(Part) /\ Len(dirs[1]) = 1
      BY <1>0, <1>2 DEF Plain
    <3>2. dirs[1] = [j \in 1 .. 1 |-> dirs[1][j]]
      BY <3>1
    <3>3. \A j \in 1 .. 1 : j = 1
      OBVIOUS
    <3> QED
      BY <3>2, <3>3 DEF Heads
  <2>2. ASSUME NEW i \in 1 .. n, i # 1
        PROVE  i - 1 \in 1 .. n /\ Heads(dirs, i - 1) \o dirs[i] = Heads(dirs, i)
    <3> DEFINE m == i - 1
    <3>1. m \in Nat /\ m \in 1 .. n /\ m + 1 = i /\ m + 1 \in 1 .. Len(dirs)
      BY <1>0, <2>2
    <3> HIDE DEF m
    <3>2. Heads(dirs, m) \o dirs[m + 1] = Heads(dirs, m + 1)
      BY <3>1, HeadsGrow
    <3>3. m = i - 1
      BY DEF m
    <3> QED
      BY <3>1, <3>2, <3>3
  <2>3. Joins(g, dirs)
    <3>1. \A i \in 1 .. n : g[i] = IF i = 1 THEN dirs[i] ELSE g[i - 1] \o dirs[i]
      <4> SUFFICES ASSUME NEW i \in 1 .. n
                   PROVE  g[i] = IF i = 1 THEN dirs[i] ELSE g[i - 1] \o dirs[i]
        OBVIOUS
      <4>1. CASE i = 1
        BY <4>1, <2>1
      <4>2. CASE i # 1
        <5>1. g[i - 1] = Heads(dirs, i - 1)
          BY <2>2, <4>2
        <5> QED
          BY <5>1, <2>2, <4>2
      <4> QED
        BY <4>1, <4>2
    <3>2. g = [i \in 1 .. n |-> g[i]]
      OBVIOUS
    <3> HIDE DEF g
    <3> QED
      BY <3>1, <3>2 DEF Joins
  <2> HIDE DEF g
  <2>4. Joins(f, dirs)
    BY <2>3
  <2> HIDE DEF f
  <2>5. \A i \in 1 .. n : f[i] = IF i = 1 THEN dirs[i] ELSE f[i - 1] \o dirs[i]
    BY <2>4 DEF Joins
  <2> DEFINE S == {m \in Nat : m + 1 \in 1 .. n => f[m + 1] = Heads(dirs, m + 1)}
  <2>6. 0 \in S
    BY <2>1, <2>5, <1>0, <1>2
  <2>7. ASSUME NEW m \in Nat, m \in S PROVE m + 1 \in S
    <3> SUFFICES ASSUME (m + 1) + 1 \in 1 .. n
                 PROVE  f[(m + 1) + 1] = Heads(dirs, (m + 1) + 1)
      OBVIOUS
    <3> DEFINE i == (m + 1) + 1
    <3>1. i \in 1 .. n /\ i # 1 /\ i - 1 = m + 1 /\ m + 1 \in 1 .. n
      BY <1>0
    <3>2. f[m + 1] = Heads(dirs, m + 1)
      BY <2>7, <3>1
    <3> HIDE DEF i
    <3>3. f[i] = f[i - 1] \o dirs[i] /\ Heads(dirs, i - 1) \o dirs[i] = Heads(dirs, i)
      BY <2>2, <2>5, <3>1
    <3>4. f[i] = Heads(dirs, i)
      BY <3>1, <3>2, <3>3
    <3> QED
      BY <3>4 DEF i
  <2>8. Nat \subseteq S
    <3> HIDE DEF S
    <3> QED
      BY <2>6, <2>7, NatSetInduction
  <2>9. f[n] = Heads(dirs, n)
    <3>1. n - 1 \in Nat /\ (n - 1) + 1 = n /\ n \in 1 .. n
      BY <1>0, <1>2
    <3>2. n - 1 \in S
      BY <2>8, <3>1
    <3> QED
      BY <3>1, <3>2
  <2>10. Joined(dirs) = Heads(dirs, n)
    BY <1>2, <2>9, JoinedIsFold DEF f
  <2> QED
    BY <2>10 DEF Heads
<1> QED
  BY <1>1, <1>2

(* Lists that share a key are spelled alike, and are one list unless a name *)
(* holds a bar: overlay_key.                                                *)
THEOREM HandshakeKeysAreApart ==
  ASSUME NEW a \in Ruleset \cup Foreign \cup Mergeable, NEW b \in Ruleset \cup Foreign \cup Mergeable,
         OverlayKey(a) = OverlayKey(b)
  PROVE  MergedAlike(a, b)
<1> DEFINE k == Joined(a[2])
           l == Joined(b[2])
<1>1. a[1] = b[1] /\ k = l
  BY DEF OverlayKey
<1>2. \A x \in Ruleset \cup Foreign \cup Mergeable :
        x = << x[1], x[2] >> /\ x[2] \in Seq(Seq(Part))
  <2>1. \A x \in Ruleset \cup Foreign : x = << x[1], x[2] >> /\ x[2] \in Seq(Seq(Part))
    BY RulesetAssumption
  <2>2. \A d \in DirLists : d \in Seq(Seq(Part))
    <3>1. << >> \in Seq(Seq(Part))
      OBVIOUS
    <3>2. \A r \in Ruleset : r[2] \in Seq(Seq(Part))
      BY <2>1
    <3> QED
      BY <3>1, <3>2 DEF DirLists, NoDirs
  <2>3. \A x \in Hashes \X DirLists : x = << x[1], x[2] >> /\ x[2] \in DirLists
    OBVIOUS
  <2> QED
    BY <2>1, <2>2, <2>3 DEF Mergeable
<1>3. a = << a[1], a[2] >> /\ a[2] \in Seq(Seq(Part)) /\ b = << b[1], b[2] >> /\ b[2] \in Seq(Seq(Part))
  BY <1>2
<1>4. ASSUME Plain(a[2]), Plain(b[2]) PROVE a = b
  <2> DEFINE d == a[2]
             e == b[2]
  <2>1. d \in Seq(Seq(Part)) /\ e \in Seq(Seq(Part)) /\ Plain(d) /\ Plain(e)
    BY <1>3, <1>4
  <2>2. a = << a[1], d >> /\ b = << b[1], e >> /\ k = Joined(d) /\ l = Joined(e)
    BY <1>3
  <2> HIDE DEF d, e, k, l
  <2>3. /\ Len(k) = Len(d) /\ \A j \in 1 .. Len(d) : k[j] = d[j][1]
        /\ Len(l) = Len(e) /\ \A j \in 1 .. Len(e) : l[j] = e[j][1]
    BY <2>1, <2>2, JoinedOfPlain
  <2>4. Len(d) = Len(e) /\ \A j \in 1 .. Len(d) : d[j][1] = e[j][1]
    BY <1>1, <2>3
  <2>5. ASSUME NEW j \in 1 .. Len(d) PROVE d[j] = e[j]
    <3>1. /\ d[j] \in Seq(Part) /\ Len(d[j]) = 1 /\ e[j] \in Seq(Part) /\ Len(e[j]) = 1
          /\ d[j][1] = e[j][1]
      BY <2>1, <2>4 DEF Plain
    <3> QED
      BY <3>1, SeqEqual
  <2>6. d = e
    BY <2>1, <2>4, <2>5, SeqEqual
  <2> QED
    BY <1>1, <2>2, <2>6
<1> QED
  BY <1>1, <1>4 DEF MergedAlike, Plain

(* No request is answered under a set that is not spelled like its own, and *)
(* none under the vendored data where a set was asked for, but for a set    *)
(* that went between the check and the computing and a ruleset laid over    *)
(* the character by the patch: overlay_key, overlay_for, catalog_endpoint.  *)
THEOREM HandshakeNeverAnotherSet == Spec => []NeverAnotherSet
<1>1. Init => AllServed
  BY IdleOnItsWay DEF Init, AllServed
<1>2. IInv /\ AllServed /\ [Next]_vars => AllServed'
  BY NextStaysServed
<1>3. IInv /\ AllServed => NeverAnotherSet
  <2> SUFFICES ASSUME IInv, AllServed, NEW s \in Slot, Answered(s)
               PROVE  /\ req[s].got # Vendored => MergedAlike(req[s].got, req[s].under)
                      /\ req[s].got = Vendored /\ Needs(req[s].under) =>
                           req[s].kind # "catalog" /\ (req[s].calm => req[s].under # req[s].set)
    BY DEF NeverAnotherSet
  <2>1. req[s] \in Requests /\ RequestOK(req[s]) /\ OnItsWay(req[s], sets, kept, lastCustomData)
    BY DEF IInv, Good, AllServed
  <2>2. req[s].stage = "answered" /\ req[s].kind # "load"
    BY DEF Answered
  <2>3. req[s].got # Vendored => MergedAlike(req[s].got, req[s].under)
    <3>1. req[s].under \in Ruleset
      BY <2>1 DEF Requests
    <3>2. req[s].got # Vendored => Answers(req[s].got, req[s].under)
      BY <2>1, <2>2 DEF RequestOK
    <3> QED
      BY <3>1, <3>2, HandshakeKeysAreApart DEF Answers
  <2>4. req[s].got = Vendored /\ Needs(req[s].under) => req[s].kind # "catalog"
    BY <2>1, <2>2 DEF RequestOK
  <2>5. req[s].got = Vendored /\ Needs(req[s].under) /\ req[s].calm => req[s].under # req[s].set
    BY <2>1, <2>2 DEF OnItsWay
  <2> QED
    BY <2>3, <2>4, <2>5
<1> QED
  BY <1>1, <1>2, <1>3, Inductive, PTL DEF Spec
=============================================================================
