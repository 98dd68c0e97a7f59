------------------------ MODULE CareerLedger_proofs ------------------------
(***************************************************************************)
(* Proofs about the karma ledger, for every set of attributes, every rule  *)
(* price and every starting character.                                     *)
(*                                                                         *)
(* A pass first settles the ratings and the rows (Settled) and then only   *)
(* writes the record.  SettledFits says what it settles on, and FitIsKept  *)
(* that settling it again changes nothing; the record is followed stage by *)
(* stage, up to PassRecord.  BillIsOfCharacter puts them together: what a  *)
(* pass bills is a function of the character it hands back (BillOf), so    *)
(* each property becomes an equation about two characters.                 *)
(***************************************************************************)
EXTENDS CareerLedger, Aggregates_proofs, TLAPS

(* What a character has and is, without its record. *)
SameHoldings(s, t) ==
  /\ t.career = s.career /\ t.rating = s.rating /\ t.levels = s.levels
  /\ t.spirits = s.spirits /\ t.foci = s.foci /\ t.spells = s.spells
  /\ t.contacts = s.contacts /\ t.grade = s.grade /\ t.qualities = s.qualities
  /\ t.loss = s.loss

LEMMA SameHoldingsIsTransitive ==
  ASSUME NEW s, NEW t, NEW u, SameHoldings(s, t), SameHoldings(t, u)
  PROVE  SameHoldings(s, u)
BY DEF SameHoldings

LEMMA LesserType ==
  ASSUME NEW x \in Int, NEW y \in Int
  PROVE  Lesser(x, y) \in Int /\ Greater(x, y) \in Int
BY DEF Lesser, Greater

LEMMA SheetNumbers ==
  ASSUME NEW s, IsSheet(s), NEW a \in Attributes
  PROVE  /\ Floor[a] \in Nat /\ Maximum[a] \in Nat /\ Floor[a] <= Maximum[a]
         /\ s.rating[a] \in Int /\ s.levels[a] \in Int
         /\ s.grade \in Nat /\ s.loss \in Nat
         /\ Magic \in Attributes
BY LedgerAssumption DEF IsSheet

LEMMA CapType ==
  ASSUME NEW s, IsSheet(s), NEW a \in Attributes
  PROVE  Cap(s, a) \in Int /\ Floor[a] <= Cap(s, a)
BY SheetNumbers DEF Cap

LEMMA MinDropType ==
  ASSUME NEW s, IsSheet(s), NEW a \in Attributes PROVE MinDrop(s, a) \in Int
BY SheetNumbers DEF MinDrop, Lesser

(* The rating in play is never under nothing. *)
LEMMA ValueType ==
  ASSUME NEW s, IsSheet(s)
  PROVE  /\ Value(s, Magic) \in Nat
         /\ DropNow(s) \in Int
         /\ DropNow(s) = s.rating[Magic] - Value(s, Magic)
         /\ Value(s, Magic) = s.rating[Magic] - DropNow(s)
<1>1. s.rating[Magic] \in Int /\ s.loss \in Int /\ Magic \in Attributes
  BY SheetNumbers, LedgerAssumption
<1>2. Cap(s, Magic) \in Int /\ MinDrop(s, Magic) \in Int BY <1>1, CapType, MinDropType
<1> DEFINE low == Lesser(s.rating[Magic] - MinDrop(s, Magic), Cap(s, Magic) - s.loss)
<1>3. low \in Int BY <1>1, <1>2 DEF Lesser
<1>4. Value(s, Magic) = Greater(0, low) BY DEF Value
<1> HIDE DEF low
<1>5. Value(s, Magic) \in Nat BY <1>3, <1>4 DEF Greater
<1>6. DropNow(s) = s.rating[Magic] - Value(s, Magic) BY DEF DropNow
<1> QED BY <1>1, <1>5, <1>6

LEMMA NoRows == ASSUME NEW Ids PROVE IsNumbered(<< >>, Ids)
<1>1. << >> \in [{} -> Int] /\ IsFiniteSet({}) BY FS_EmptySet
<1> QED BY <1>1 DEF IsNumbered

LEMMA RecordOfNone == IsRecord(NoBaseline) /\ NoBaseline.rating = None /\ NoBaseline.kept = << >>
                      /\ NoBaseline.drop = None /\ NoBaseline.drops = None
<1>1. /\ NoBaseline.rating = None /\ NoBaseline.qualities = None /\ NoBaseline.items = None
      /\ NoBaseline.kept = << >> /\ NoBaseline.drop = None /\ NoBaseline.drops = None
  BY DEF NoBaseline
<1>2. DOMAIN << >> = {} OBVIOUS
<1>3. DOMAIN NoBaseline.kept = {} BY <1>1, <1>2
<1> QED BY <1>1, <1>3, SMT DEF IsRecord

LEMMA OnlyCareerRecords ==
  ASSUME NEW s, IsSheet(s), HasBaseline(s) PROVE s.career
BY RecordOfNone DEF IsSheet, HasBaseline

(* A sheet with another record. *)
LEMMA NewRecord ==
  ASSUME NEW s, IsSheet(s), s.career, NEW b, IsRecord(b)
  PROVE  LET t == [s EXCEPT !.baseline = b]
         IN  IsSheet(t) /\ SameHoldings(s, t) /\ t.baseline = b
<1> DEFINE t == [s EXCEPT !.baseline = b]
<1>1. /\ DOMAIN t = DOMAIN s /\ SameHoldings(s, t) /\ t.baseline = b
  BY DEF IsSheet, SameHoldings
<1> HIDE DEF t
<1>2. IsSheet(t) BY <1>1 DEF IsSheet, SameHoldings
<1> QED BY <1>1, <1>2 DEF t

-----------------------------------------------------------------------------
(* Settling. *)

(* Nothing left to settle: every rating within the metatype and the grade, on
   or above the record's, karma levels within the rating, rows within Magic. *)
Fit(s) ==
  /\ \A a \in Attributes : s.rating[a] \in Floor[a]..Cap(s, a)
  /\ (s.career /\ HasBaseline(s)) =>
       \A a \in Attributes : s.rating[a] >= Lesser(s.baseline.rating[a], Cap(s, a))
  /\ \A a \in Attributes : s.levels[a] \in 0..(s.rating[a] - Floor[a])
  /\ Value(s, Magic) = 0 => s.foci = << >> /\ s.spirits = << >>
  /\ \A i \in DOMAIN s.foci : s.foci[i] \in 1..Value(s, Magic)

(* What settling never touches. *)
SameTerms(s, t) ==
  /\ t.career = s.career /\ t.spells = s.spells /\ t.contacts = s.contacts
  /\ t.grade = s.grade /\ t.qualities = s.qualities /\ t.loss = s.loss
  /\ t.baseline = s.baseline

LEMMA NewRatings ==
  ASSUME NEW s, IsSheet(s), NEW r \in [Attributes -> Int]
  PROVE  LET t == [s EXCEPT !.rating = r]
         IN  /\ IsSheet(t) /\ SameTerms(s, t) /\ t.rating = r
             /\ t.levels = s.levels /\ t.foci = s.foci /\ t.spirits = s.spirits
<1> DEFINE t == [s EXCEPT !.rating = r]
<1>1. /\ DOMAIN t = DOMAIN s /\ SameTerms(s, t) /\ t.rating = r
      /\ t.levels = s.levels /\ t.foci = s.foci /\ t.spirits = s.spirits
  BY DEF IsSheet, SameTerms
<1> HIDE DEF t
<1>2. IsSheet(t) BY <1>1 DEF IsSheet, SameTerms
<1> QED BY <1>1, <1>2 DEF t

LEMMA NewLevels ==
  ASSUME NEW s, IsSheet(s), NEW l \in [Attributes -> Int]
  PROVE  LET t == [s EXCEPT !.levels = l]
         IN  /\ IsSheet(t) /\ SameTerms(s, t) /\ t.levels = l
             /\ t.rating = s.rating /\ t.foci = s.foci /\ t.spirits = s.spirits
<1> DEFINE t == [s EXCEPT !.levels = l]
<1>1. /\ DOMAIN t = DOMAIN s /\ SameTerms(s, t) /\ t.levels = l
      /\ t.rating = s.rating /\ t.foci = s.foci /\ t.spirits = s.spirits
  BY DEF IsSheet, SameTerms
<1> HIDE DEF t
<1>2. IsSheet(t) BY <1>1 DEF IsSheet, SameTerms
<1> QED BY <1>1, <1>2 DEF t

LEMMA NewFoci ==
  ASSUME NEW s, IsSheet(s), NEW f, IsNumbered(f, Foci)
  PROVE  LET t == [s EXCEPT !.foci = f]
         IN  /\ IsSheet(t) /\ SameTerms(s, t) /\ t.foci = f
             /\ t.rating = s.rating /\ t.levels = s.levels /\ t.spirits = s.spirits
<1> DEFINE t == [s EXCEPT !.foci = f]
<1>1. /\ DOMAIN t = DOMAIN s /\ SameTerms(s, t) /\ t.foci = f
      /\ t.rating = s.rating /\ t.levels = s.levels /\ t.spirits = s.spirits
  BY DEF IsSheet, SameTerms
<1> HIDE DEF t
<1>2. IsSheet(t) BY <1>1 DEF IsSheet, SameTerms
<1> QED BY <1>1, <1>2 DEF t

LEMMA NewSpirits ==
  ASSUME NEW s, IsSheet(s), NEW f, IsNumbered(f, Spirits)
  PROVE  LET t == [s EXCEPT !.spirits = f]
         IN  /\ IsSheet(t) /\ SameTerms(s, t) /\ t.spirits = f
             /\ t.rating = s.rating /\ t.levels = s.levels /\ t.foci = s.foci
<1> DEFINE t == [s EXCEPT !.spirits = f]
<1>1. /\ DOMAIN t = DOMAIN s /\ SameTerms(s, t) /\ t.spirits = f
      /\ t.rating = s.rating /\ t.levels = s.levels /\ t.foci = s.foci
  BY DEF IsSheet, SameTerms
<1> HIDE DEF t
<1>2. IsSheet(t) BY <1>1 DEF IsSheet, SameTerms
<1> QED BY <1>1, <1>2 DEF t

LEMMA SameCap ==
  ASSUME NEW s, NEW t, t.grade = s.grade, NEW a PROVE Cap(t, a) = Cap(s, a)
BY DEF Cap

LEMMA SameValue ==
  ASSUME NEW s, NEW t, t.grade = s.grade, t.loss = s.loss, t.rating = s.rating, NEW a
  PROVE  /\ Value(t, a) = Value(s, a) /\ MinDrop(t, a) = MinDrop(s, a)
         /\ DropNow(t) = DropNow(s)
<1>1. \A c : MinDrop(t, c) = MinDrop(s, c) BY DEF MinDrop
<1>2. \A c : Cap(t, c) = Cap(s, c) BY SameCap
<1>3. Value(t, a) = Value(s, a) BY <1>1, <1>2 DEF Value
<1>4. Value(t, Magic) = Value(s, Magic) BY <1>1, <1>2 DEF Value
<1> QED BY <1>1, <1>3, <1>4 DEF DropNow

(* hold_career_floors and the clamps of essence, on the ratings. *)
LEMMA RatingsSettle ==
  ASSUME NEW s, IsSheet(s)
  PROVE  LET h == HoldCareerFloors(s)
             t == ClampRatings(h)
         IN  /\ IsSheet(t) /\ SameTerms(s, t)
             /\ t.levels = s.levels /\ t.foci = s.foci /\ t.spirits = s.spirits
             /\ \A a \in Attributes :
                  /\ h.rating[a] = IF s.career /\ HasBaseline(s)
                                   THEN Greater(s.rating[a], s.baseline.rating[a])
                                   ELSE s.rating[a]
                  /\ t.rating[a] = Greater(Floor[a], Lesser(Cap(s, a), h.rating[a]))
<1> DEFINE h == HoldCareerFloors(s)
           t == ClampRatings(h)
           r == [a \in Attributes |-> Greater(s.rating[a], s.baseline.rating[a])]
           v == [a \in Attributes |-> Clamped(h, a)]
<1>1. /\ IsSheet(h) /\ SameTerms(s, h)
      /\ h.levels = s.levels /\ h.foci = s.foci /\ h.spirits = s.spirits
      /\ h.rating = IF s.career /\ HasBaseline(s) THEN r ELSE s.rating
  <2>1. CASE s.career /\ HasBaseline(s)
    <3>1. s.baseline.rating \in [Attributes -> Int]
      BY <2>1 DEF IsSheet, IsRecord, HasBaseline
    <3>2. r \in [Attributes -> Int] BY <3>1, LesserType DEF IsSheet
    <3>3. h = [s EXCEPT !.rating = r] BY <2>1 DEF HoldCareerFloors
    <3> HIDE DEF r, h
    <3> QED BY <2>1, <3>2, <3>3, NewRatings
  <2>2. CASE ~(s.career /\ HasBaseline(s))
    <3>1. h = s BY <2>2 DEF HoldCareerFloors
    <3> QED BY <2>2, <3>1 DEF SameTerms
  <2> QED BY <2>1, <2>2
<1>2. \A a \in Attributes :
        h.rating[a] = IF s.career /\ HasBaseline(s)
                      THEN Greater(s.rating[a], s.baseline.rating[a]) ELSE s.rating[a]
  BY <1>1
<1> HIDE DEF h, r
<1>3. \A a \in Attributes : Cap(h, a) = Cap(s, a) BY <1>1, SameCap DEF SameTerms
<1>4. \A a \in Attributes : Clamped(h, a) = Greater(Floor[a], Lesser(Cap(s, a), h.rating[a]))
  BY <1>3 DEF Clamped
<1>5. \A a \in Attributes : Cap(s, a) \in Int /\ Floor[a] \in Int /\ h.rating[a] \in Int
  BY <1>1, CapType, SheetNumbers
<1>6. v \in [Attributes -> Int] BY <1>4, <1>5, LesserType
<1>7. t = [h EXCEPT !.rating = v] BY DEF ClampRatings
<1>8. /\ IsSheet(t) /\ SameTerms(h, t) /\ t.rating = v
      /\ t.levels = h.levels /\ t.foci = h.foci /\ t.spirits = h.spirits
  <2> HIDE DEF v, t
  <2> QED BY <1>1, <1>6, <1>7, NewRatings
<1>9. \A a \in Attributes : t.rating[a] = Greater(Floor[a], Lesser(Cap(s, a), h.rating[a]))
  BY <1>4, <1>8
<1> HIDE DEF t, v
<1>10. SameTerms(s, t) BY <1>1, <1>8 DEF SameTerms
<1> QED BY <1>1, <1>2, <1>8, <1>9, <1>10 DEF h, t

(* resolve_foci and resolve_spirits under the Magic of the pass. *)
LEMMA MagicSettles ==
  ASSUME NEW s, IsSheet(s)
  PROVE  LET t == ClampMagic(s)
             mag == Value(s, Magic)
         IN  /\ IsSheet(t) /\ SameTerms(s, t)
             /\ t.rating = s.rating /\ t.levels = s.levels
             /\ mag = 0 => t.foci = << >> /\ t.spirits = << >>
             /\ mag # 0 => t.spirits = s.spirits
             /\ mag # 0 => t.foci = [i \in DOMAIN s.foci |-> Greater(1, Lesser(mag, s.foci[i]))]
             /\ \A i \in DOMAIN t.foci : t.foci[i] \in 1..mag
<1> DEFINE t == ClampMagic(s)
           mag == Value(s, Magic)
           f == [i \in DOMAIN s.foci |-> Greater(1, Lesser(mag, s.foci[i]))]
<1>1. mag \in Nat BY ValueType
<1>2. t = IF mag = 0 THEN [s EXCEPT !.foci = << >>, !.spirits = << >>] ELSE [s EXCEPT !.foci = f]
  BY DEF ClampMagic
<1>3. PICK held \in SUBSET Foci : IsFiniteSet(held) /\ s.foci \in [held -> Int]
  BY DEF IsSheet, IsNumbered
<1> HIDE DEF mag
<1>4. CASE mag = 0
  <2> DEFINE u == [s EXCEPT !.foci = << >>]
  <2>1. /\ IsSheet(u) /\ SameTerms(s, u) /\ u.foci = << >>
        /\ u.rating = s.rating /\ u.levels = s.levels
    BY NewFoci, NoRows
  <2>2. t = [u EXCEPT !.spirits = << >>] BY <1>2, <1>4
  <2> HIDE DEF u, t
  <2>3. /\ IsSheet(t) /\ SameTerms(u, t) /\ t.spirits = << >>
        /\ t.rating = u.rating /\ t.levels = u.levels /\ t.foci = u.foci
    BY <2>1, <2>2, NewSpirits, NoRows
  <2>4. SameTerms(s, t) BY <2>1, <2>3 DEF SameTerms
  <2>5. DOMAIN t.foci = {} BY <2>1, <2>3
  <2>6. t.foci = << >> /\ t.spirits = << >> BY <2>1, <2>3
  <2>7. t.rating = s.rating /\ t.levels = s.levels BY <2>1, <2>3
  <2> QED BY <1>4, <2>3, <2>4, <2>5, <2>6, <2>7 DEF t, mag
<1>5. CASE mag # 0
  <2>1. \A i \in held : f[i] \in Int /\ f[i] \in 1..mag
    BY <1>1, <1>3, <1>5 DEF Greater, Lesser
  <2>2. f \in [held -> Int] BY <1>3, <2>1
  <2>3. IsNumbered(f, Foci) BY <1>3, <2>2 DEF IsNumbered
  <2>4. t = [s EXCEPT !.foci = f] BY <1>2, <1>5
  <2> HIDE DEF f, t
  <2>5. /\ IsSheet(t) /\ SameTerms(s, t) /\ t.foci = f
        /\ t.rating = s.rating /\ t.levels = s.levels /\ t.spirits = s.spirits
    BY <2>3, <2>4, NewFoci
  <2>6. \A i \in DOMAIN t.foci : t.foci[i] \in 1..mag BY <2>1, <2>2, <2>5
  <2> QED BY <1>5, <2>5, <2>6 DEF t, mag, f
<1> QED BY <1>4, <1>5

(* _attribute_karma_levels. *)
LEMMA LevelsSettle ==
  ASSUME NEW s, IsSheet(s)
  PROVE  LET t == ClampLevels(s)
         IN  /\ IsSheet(t) /\ SameTerms(s, t)
             /\ t.rating = s.rating /\ t.foci = s.foci /\ t.spirits = s.spirits
             /\ t.levels = [a \in Attributes |->
                              Greater(0, Lesser(s.levels[a], s.rating[a] - Floor[a]))]
<1> DEFINE t == ClampLevels(s)
           l == [a \in Attributes |-> Greater(0, Lesser(s.levels[a], s.rating[a] - Floor[a]))]
<1>1. \A a \in Attributes : Greater(0, Lesser(s.levels[a], s.rating[a] - Floor[a])) \in Int
  <2> TAKE a \in Attributes
  <2>1. s.rating[a] \in Int /\ Floor[a] \in Int /\ s.levels[a] \in Int BY SheetNumbers
  <2> QED BY <2>1 DEF Lesser, Greater
<1>2. l \in [Attributes -> Int] BY <1>1
<1>3. t = [s EXCEPT !.levels = l] BY DEF ClampLevels
<1> HIDE DEF t, l
<1>4. /\ IsSheet(t) /\ SameTerms(s, t) /\ t.levels = l
      /\ t.rating = s.rating /\ t.foci = s.foci /\ t.spirits = s.spirits
  BY <1>2, <1>3, NewLevels
<1> QED BY <1>4 DEF t, l

(* What the write-backs before the economy leave of a character. *)
LEMMA SettledIs ==
  ASSUME NEW s, IsSheet(s)
  PROVE  LET t == Settled(s)
         IN  /\ IsSheet(t) /\ SameTerms(s, t)
             /\ \A a \in Attributes :
                  /\ t.rating[a] =
                       Greater(Floor[a],
                         Lesser(Cap(s, a),
                           IF s.career /\ HasBaseline(s)
                           THEN Greater(s.rating[a], s.baseline.rating[a]) ELSE s.rating[a]))
                  /\ t.levels[a] = Greater(0, Lesser(s.levels[a], t.rating[a] - Floor[a]))
             /\ Value(t, Magic) = 0 => t.foci = << >> /\ t.spirits = << >>
             /\ Value(t, Magic) # 0 =>
                  /\ t.spirits = s.spirits
                  /\ t.foci = [i \in DOMAIN s.foci |->
                                 Greater(1, Lesser(Value(t, Magic), s.foci[i]))]
             /\ \A i \in DOMAIN t.foci : t.foci[i] \in 1..Value(t, Magic)
<1> DEFINE h == HoldCareerFloors(s)
           c == ClampRatings(h)
           m == ClampMagic(c)
           t == ClampLevels(m)
<1>1. /\ IsSheet(c) /\ SameTerms(s, c)
      /\ c.levels = s.levels /\ c.foci = s.foci /\ c.spirits = s.spirits
      /\ \A a \in Attributes :
           /\ h.rating[a] = IF s.career /\ HasBaseline(s)
                            THEN Greater(s.rating[a], s.baseline.rating[a]) ELSE s.rating[a]
           /\ c.rating[a] = Greater(Floor[a], Lesser(Cap(s, a), h.rating[a]))
  BY RatingsSettle
<1>2. /\ IsSheet(m) /\ SameTerms(c, m) /\ m.rating = c.rating /\ m.levels = c.levels
      /\ Value(c, Magic) = 0 => m.foci = << >> /\ m.spirits = << >>
      /\ Value(c, Magic) # 0 => m.spirits = c.spirits
      /\ Value(c, Magic) # 0 =>
           m.foci = [i \in DOMAIN c.foci |-> Greater(1, Lesser(Value(c, Magic), c.foci[i]))]
      /\ \A i \in DOMAIN m.foci : m.foci[i] \in 1..Value(c, Magic)
  BY <1>1, MagicSettles
<1>3. /\ IsSheet(t) /\ SameTerms(m, t)
      /\ t.rating = m.rating /\ t.foci = m.foci /\ t.spirits = m.spirits
      /\ t.levels = [a \in Attributes |-> Greater(0, Lesser(m.levels[a], m.rating[a] - Floor[a]))]
  BY <1>2, LevelsSettle
<1>4. Settled(s) = t BY DEF Settled
<1> HIDE DEF h, c, m, t
<1>5. SameTerms(s, t) BY <1>1, <1>2, <1>3 DEF SameTerms
<1>6. Value(t, Magic) = Value(c, Magic) BY <1>2, <1>3, SameValue DEF SameTerms
<1>7. \A a \in Attributes :
        /\ t.rating[a] = Greater(Floor[a],
                           Lesser(Cap(s, a),
                             IF s.career /\ HasBaseline(s)
                             THEN Greater(s.rating[a], s.baseline.rating[a]) ELSE s.rating[a]))
        /\ t.levels[a] = Greater(0, Lesser(s.levels[a], t.rating[a] - Floor[a]))
  <2> TAKE a \in Attributes
  <2>1. t.rating[a] = Greater(Floor[a], Lesser(Cap(s, a), h.rating[a])) BY <1>1, <1>2, <1>3
  <2>2. h.rating[a] = IF s.career /\ HasBaseline(s)
                      THEN Greater(s.rating[a], s.baseline.rating[a]) ELSE s.rating[a]
    BY <1>1
  <2>3. t.levels[a] = Greater(0, Lesser(m.levels[a], m.rating[a] - Floor[a])) BY <1>3
  <2>4. m.levels = s.levels /\ m.rating = t.rating BY <1>1, <1>2, <1>3
  <2> QED BY <2>1, <2>2, <2>3, <2>4
<1>8. Value(t, Magic) # 0 =>
        /\ t.spirits = s.spirits
        /\ t.foci = [i \in DOMAIN s.foci |-> Greater(1, Lesser(Value(t, Magic), s.foci[i]))]
  BY <1>1, <1>2, <1>3, <1>6
<1> QED BY <1>2, <1>3, <1>4, <1>5, <1>6, <1>7, <1>8

LEMMA SettledFits == ASSUME NEW s, IsSheet(s) PROVE Fit(Settled(s))
<1> DEFINE t == Settled(s)
<1>1. /\ IsSheet(t) /\ SameTerms(s, t)
      /\ \A a \in Attributes :
           /\ t.rating[a] =
                Greater(Floor[a],
                  Lesser(Cap(s, a),
                    IF s.career /\ HasBaseline(s)
                    THEN Greater(s.rating[a], s.baseline.rating[a]) ELSE s.rating[a]))
           /\ t.levels[a] = Greater(0, Lesser(s.levels[a], t.rating[a] - Floor[a]))
      /\ Value(t, Magic) = 0 => t.foci = << >> /\ t.spirits = << >>
      /\ \A i \in DOMAIN t.foci : t.foci[i] \in 1..Value(t, Magic)
  BY SettledIs
<1> HIDE DEF t
<1>2. HasBaseline(t) <=> HasBaseline(s) BY <1>1 DEF HasBaseline, SameTerms
<1>3. ASSUME NEW a \in Attributes
      PROVE  /\ t.rating[a] \in Floor[a]..Cap(t, a)
             /\ (t.career /\ HasBaseline(t)) =>
                  t.rating[a] >= Lesser(t.baseline.rating[a], Cap(t, a))
             /\ t.levels[a] \in 0..(t.rating[a] - Floor[a])
  <2>1. Cap(t, a) = Cap(s, a) BY <1>1, SameCap DEF SameTerms
  <2>2. /\ Cap(s, a) \in Int /\ Floor[a] \in Int /\ Floor[a] <= Cap(s, a)
        /\ s.rating[a] \in Int /\ s.levels[a] \in Int /\ t.rating[a] \in Int
    BY <1>1, CapType, SheetNumbers
  <2>3. (s.career /\ HasBaseline(s)) => s.baseline.rating[a] \in Int
    BY DEF IsSheet, IsRecord, HasBaseline
  <2>4. t.rating[a] = Greater(Floor[a],
                        Lesser(Cap(s, a),
                          IF s.career /\ HasBaseline(s)
                          THEN Greater(s.rating[a], s.baseline.rating[a]) ELSE s.rating[a]))
    BY <1>1
  <2>5. t.rating[a] \in Floor[a]..Cap(t, a)
    BY <2>1, <2>2, <2>3, <2>4 DEF Greater, Lesser
  <2>6. (s.career /\ HasBaseline(s)) =>
          t.rating[a] >= Lesser(s.baseline.rating[a], Cap(s, a))
    BY <2>2, <2>3, <2>4 DEF Greater, Lesser
  <2>7. t.levels[a] \in 0..(t.rating[a] - Floor[a])
    <3>1. t.levels[a] = Greater(0, Lesser(s.levels[a], t.rating[a] - Floor[a])) BY <1>1
    <3>2. t.rating[a] >= Floor[a] BY <2>1, <2>2, <2>5
    <3> QED BY <2>2, <3>1, <3>2 DEF Greater, Lesser
  <2>8. t.career = s.career /\ t.baseline = s.baseline BY <1>1 DEF SameTerms
  <2> QED BY <1>2, <2>1, <2>5, <2>6, <2>7, <2>8
<1>4. Fit(t) BY <1>1, <1>3 DEF Fit
<1> QED BY <1>4 DEF t

(* Being fit is a matter of the holdings and of the ratings in the record. *)
LEMMA FitIsKept ==
  ASSUME NEW s, IsSheet(s), Fit(s), NEW t, SameHoldings(s, t),
         (t.career /\ HasBaseline(t)) =>
           (HasBaseline(s) /\ t.baseline.rating = s.baseline.rating) \/ t.baseline.rating = s.rating
  PROVE  Fit(t)
<1>1. \A a \in Attributes : Cap(t, a) = Cap(s, a) BY SameCap DEF SameHoldings
<1>2. Value(t, Magic) = Value(s, Magic) BY SameValue DEF SameHoldings
<1>3. ASSUME t.career, HasBaseline(t), NEW a \in Attributes
      PROVE  t.rating[a] >= Lesser(t.baseline.rating[a], Cap(t, a))
  <2>1. CASE HasBaseline(s) /\ t.baseline.rating = s.baseline.rating
    BY <1>1, <1>3, <2>1 DEF Fit, SameHoldings
  <2>2. CASE t.baseline.rating = s.rating
    <3>1. s.rating[a] \in Int /\ Cap(s, a) \in Int BY CapType, SheetNumbers
    <3>2. t.rating[a] = s.rating[a] /\ t.baseline.rating[a] = s.rating[a] /\ Cap(t, a) = Cap(s, a)
      BY <1>1, <2>2 DEF SameHoldings
    <3> QED BY <3>1, <3>2 DEF Lesser
  <2> QED BY <1>3, <2>1, <2>2
<1> QED BY <1>1, <1>2, <1>3 DEF Fit, SameHoldings

(* Settling a character again changes nothing about it. *)
LEMMA SettledOnce ==
  ASSUME NEW s, IsSheet(s), Fit(s)
  PROVE  SameHoldings(s, Settled(s)) /\ Settled(s).baseline = s.baseline
<1> DEFINE t == Settled(s)
<1>1. /\ IsSheet(t) /\ SameTerms(s, t)
      /\ \A a \in Attributes :
           /\ t.rating[a] =
                Greater(Floor[a],
                  Lesser(Cap(s, a),
                    IF s.career /\ HasBaseline(s)
                    THEN Greater(s.rating[a], s.baseline.rating[a]) ELSE s.rating[a]))
           /\ t.levels[a] = Greater(0, Lesser(s.levels[a], t.rating[a] - Floor[a]))
      /\ Value(t, Magic) = 0 => t.foci = << >> /\ t.spirits = << >>
      /\ Value(t, Magic) # 0 =>
           /\ t.spirits = s.spirits
           /\ t.foci = [i \in DOMAIN s.foci |-> Greater(1, Lesser(Value(t, Magic), s.foci[i]))]
  BY SettledIs
<1> HIDE DEF t
<1>2. ASSUME NEW a \in Attributes PROVE t.rating[a] = s.rating[a] /\ t.levels[a] = s.levels[a]
  <2>1. /\ Cap(s, a) \in Int /\ Floor[a] \in Int
        /\ s.rating[a] \in Int /\ s.levels[a] \in Int /\ t.rating[a] \in Int
    BY <1>1, CapType, SheetNumbers
  <2>2. /\ s.rating[a] \in Floor[a]..Cap(s, a)
        /\ (s.career /\ HasBaseline(s)) => s.rating[a] >= Lesser(s.baseline.rating[a], Cap(s, a))
        /\ s.levels[a] \in 0..(s.rating[a] - Floor[a])
    BY DEF Fit
  <2>3. (s.career /\ HasBaseline(s)) => s.baseline.rating[a] \in Int
    BY DEF IsSheet, IsRecord, HasBaseline
  <2>4. t.rating[a] = Greater(Floor[a],
                        Lesser(Cap(s, a),
                          IF s.career /\ HasBaseline(s)
                          THEN Greater(s.rating[a], s.baseline.rating[a]) ELSE s.rating[a]))
    BY <1>1
  <2>5. t.rating[a] = s.rating[a] BY <2>1, <2>2, <2>3, <2>4 DEF Greater, Lesser
  <2>6. t.levels[a] = Greater(0, Lesser(s.levels[a], t.rating[a] - Floor[a])) BY <1>1
  <2> QED BY <2>1, <2>2, <2>5, <2>6 DEF Greater, Lesser
<1>3. t.rating = s.rating /\ t.levels = s.levels BY <1>1, <1>2 DEF IsSheet
<1>4. Value(t, Magic) = Value(s, Magic) BY <1>1, <1>3, SameValue DEF SameTerms
<1>5. t.foci = s.foci /\ t.spirits = s.spirits
  <2>1. CASE Value(s, Magic) = 0 BY <1>1, <1>4, <2>1 DEF Fit
  <2>2. CASE Value(s, Magic) # 0
    <3>1. PICK held \in SUBSET Foci : s.foci \in [held -> Int] BY DEF IsSheet, IsNumbered
    <3>2. \A i \in held : s.foci[i] \in 1..Value(s, Magic) BY <3>1 DEF Fit
    <3>3. Value(s, Magic) \in Nat BY ValueType
    <3>4. \A i \in held : Greater(1, Lesser(Value(s, Magic), s.foci[i])) = s.foci[i]
      BY <3>1, <3>2, <3>3 DEF Greater, Lesser
    <3>5. t.foci = [i \in held |-> Greater(1, Lesser(Value(s, Magic), s.foci[i]))]
      BY <1>1, <1>4, <2>2, <3>1
    <3>6. t.foci = s.foci BY <3>1, <3>4, <3>5
    <3> QED BY <1>1, <1>4, <2>2, <3>6
  <2> QED BY <2>1, <2>2
<1>6. SameHoldings(s, t) /\ t.baseline = s.baseline
  BY <1>1, <1>3, <1>5 DEF SameTerms, SameHoldings
<1> QED BY <1>6 DEF t

-----------------------------------------------------------------------------
(* Rows and what they cost. *)

(* Every row owned is priced as if there were no list of the things owned. *)
SameItems(s, t) ==
  \/ t.baseline.items = s.baseline.items
  \/ s.baseline.items = None /\ t.baseline.items = DOMAIN s.spirits

(* The part of the holdings that is counted in rows. *)
SameGoods(s, t) ==
  /\ t.spirits = s.spirits /\ t.foci = s.foci /\ t.spells = s.spells
  /\ t.contacts = s.contacts /\ t.grade = s.grade

LEMMA SameRowsOfGoods ==
  ASSUME NEW s, NEW t, SameGoods(s, t), SameItems(s, t), NEW k \in Kinds
  PROVE  Rows(t, k) = Rows(s, k) /\ Priced(t, k) = Priced(s, k)
<1>1. SpiritRows(t) = SpiritRows(s)
  <2>1. \A i \in DOMAIN s.spirits :
          (t.baseline.items = None \/ i \in t.baseline.items)
            <=> (s.baseline.items = None \/ i \in s.baseline.items)
    BY DEF SameItems
  <2>2. t.spirits = s.spirits BY DEF SameGoods
  <2> QED BY <2>1, <2>2 DEF SpiritRows
<1>2. FocusRows(t) = FocusRows(s) BY DEF FocusRows, SameGoods
<1>3. SpellRows(t) = SpellRows(s) BY DEF SpellRows, SameGoods
<1>4. ContactRows(t) = ContactRows(s) BY DEF ContactRows, SameGoods
<1>5. GradeRows(t) = GradeRows(s) BY DEF GradeRows, SameGoods
<1>6. Rows(t, k) = Rows(s, k) BY <1>1, <1>2, <1>3, <1>4, <1>5 DEF Rows
<1> QED BY <1>6 DEF Priced

LEMMA SameRows ==
  ASSUME NEW s, NEW t, SameHoldings(s, t), SameItems(s, t), NEW k \in Kinds
  PROVE  Rows(t, k) = Rows(s, k) /\ Priced(t, k) = Priced(s, k)
<1>1. SameGoods(s, t) BY DEF SameHoldings, SameGoods
<1> QED BY <1>1, SameRowsOfGoods

(* A table of rows with prices. *)
IsTable(rows, kind) ==
  /\ IsFiniteSet(DOMAIN rows)
  /\ \A r \in DOMAIN rows :
       rows[r].now \in Int /\ rows[r].career \in Int /\ rows[r].career = CareerPrice(kind, r)

LEMMA SpiritTable == ASSUME NEW s, IsSheet(s) PROVE IsTable(SpiritRows(s), "spirits")
<1>1. PICK held \in SUBSET Spirits : IsFiniteSet(held) /\ s.spirits \in [held -> Int]
  BY DEF IsSheet, IsNumbered
<1> DEFINE now(i) == IF s.baseline.items = None \/ i \in s.baseline.items
                     THEN s.spirits[i] * KarmaSpirit ELSE 0
<1>2. \A i \in held : now(i) \in Int BY <1>1, LedgerAssumption
<1>3. SpiritRows(s) = [i \in held |-> [now |-> now(i), career |-> 0]] BY <1>1 DEF SpiritRows
<1> HIDE DEF now
<1>4. \A i : CareerPrice("spirits", i) = 0 BY DEF CareerPrice
<1>5. \A i \in held : SpiritRows(s)[i].now = now(i) /\ SpiritRows(s)[i].career = 0 BY <1>3
<1>6. DOMAIN SpiritRows(s) = held BY <1>3
<1> QED BY <1>1, <1>2, <1>4, <1>5, <1>6 DEF IsTable

LEMMA FocusTable == ASSUME NEW s, IsSheet(s) PROVE IsTable(FocusRows(s), "foci")
<1>1. PICK held \in SUBSET Foci : IsFiniteSet(held) /\ s.foci \in [held -> Int]
  BY DEF IsSheet, IsNumbered
<1> DEFINE rows == {<<i, s.foci[i]>> : i \in held}
<1>2. IsFiniteSet(rows)
  <2> DEFINE f == [i \in held |-> <<i, s.foci[i]>>]
  <2>1. f \in Surjection(held, rows) BY DEF Surjection
  <2> QED BY <1>1, <2>1, FS_Surjection
<1>3. \A r \in rows : r[2] \in Int BY <1>1
<1>4. FocusRows(s) = [r \in rows |-> [now |-> r[2] * KarmaFocus, career |-> r[2] * KarmaFocus]]
  BY <1>1 DEF FocusRows
<1> HIDE DEF rows
<1>5. \A r \in rows : r[2] * KarmaFocus \in Int BY <1>3, LedgerAssumption
<1>6. \A r : CareerPrice("foci", r) = r[2] * KarmaFocus BY DEF CareerPrice
<1>7. \A r \in rows : FocusRows(s)[r].now = r[2] * KarmaFocus
                      /\ FocusRows(s)[r].career = r[2] * KarmaFocus
  BY <1>4
<1>8. DOMAIN FocusRows(s) = rows BY <1>4
<1> QED BY <1>2, <1>5, <1>6, <1>7, <1>8 DEF IsTable

LEMMA SpellTable == ASSUME NEW s, IsSheet(s) PROVE IsTable(SpellRows(s), "spells")
<1> DEFINE n == Len(s.spells)
           rows == {s.spells[m] : m \in DOMAIN s.spells}
           now(i) == IF \E m \in DOMAIN s.spells : s.spells[m] = i /\ m <= FreeSpells
                     THEN 0 ELSE KarmaSpell
<1>1. n \in Nat /\ DOMAIN s.spells = 1..n BY DEF IsSheet
<1>2. IsFiniteSet(rows)
  <2> DEFINE f == [m \in 1..n |-> s.spells[m]]
  <2>1. f \in Surjection(1..n, rows) BY <1>1 DEF Surjection
  <2>2. IsFiniteSet(1..n) BY <1>1, FS_Interval
  <2> QED BY <2>1, <2>2, FS_Surjection
<1>3. \A i : now(i) \in Int BY LedgerAssumption
<1>4. SpellRows(s) = [i \in rows |-> [now |-> now(i), career |-> KarmaSpell]] BY DEF SpellRows
<1> HIDE DEF rows, now
<1>5. \A i : CareerPrice("spells", i) = KarmaSpell BY DEF CareerPrice
<1>6. \A i \in rows : SpellRows(s)[i].now = now(i) /\ SpellRows(s)[i].career = KarmaSpell BY <1>4
<1>7. DOMAIN SpellRows(s) = rows BY <1>4
<1>8. KarmaSpell \in Int BY LedgerAssumption
<1> QED BY <1>2, <1>3, <1>5, <1>6, <1>7, <1>8 DEF IsTable

LEMMA ContactTable == ASSUME NEW s, IsSheet(s) PROVE IsTable(ContactRows(s), "contacts")
<1>1. ContactRows(s) = [i \in {"points"} |-> [now |-> s.contacts, career |-> 0]] BY DEF ContactRows
<1>2. IsFiniteSet({"points"}) BY FS_Singleton
<1>3. \A i : CareerPrice("contacts", i) = 0 BY DEF CareerPrice
<1>4. s.contacts \in Int BY DEF IsSheet
<1> QED BY <1>1, <1>2, <1>3, <1>4 DEF IsTable

LEMMA GradeTable == ASSUME NEW s, IsSheet(s) PROVE IsTable(GradeRows(s), "initiation")
<1>1. s.grade \in Nat /\ s.grade <= MaxGrade /\ MaxGrade \in Nat BY LedgerAssumption DEF IsSheet
<1>2. IsFiniteSet(1..s.grade) BY <1>1, FS_Interval
<1>3. \A g \in 1..s.grade : GradeKarma[g] \in Int BY <1>1, LedgerAssumption
<1>4. GradeRows(s) = [g \in 1..s.grade |-> [now |-> GradeKarma[g], career |-> GradeKarma[g]]]
  BY DEF GradeRows
<1>5. \A g : CareerPrice("initiation", g) = GradeKarma[g] BY DEF CareerPrice
<1>6. \A g \in 1..s.grade : GradeRows(s)[g].now = GradeKarma[g]
                            /\ GradeRows(s)[g].career = GradeKarma[g]
  BY <1>4
<1>7. DOMAIN GradeRows(s) = 1..s.grade BY <1>4
<1> QED BY <1>2, <1>3, <1>5, <1>6, <1>7 DEF IsTable

LEMMA RowsAreTables ==
  ASSUME NEW s, IsSheet(s), NEW k \in Kinds PROVE IsTable(Rows(s, k), k)
BY SpiritTable, FocusTable, SpellTable, ContactTable, GradeTable
   DEF Rows, Kinds, EarlyKinds, LateKinds

LEMMA PricedIs ==
  ASSUME NEW s, IsSheet(s), NEW k \in Kinds
  PROVE  /\ DOMAIN Priced(s, k) = DOMAIN Rows(s, k)
         /\ IsFiniteSet(DOMAIN Priced(s, k))
         /\ \A r \in DOMAIN Priced(s, k) : Priced(s, k)[r] \in Int
         /\ Total(Priced(s, k)) \in Int
<1>1. IsTable(Rows(s, k), k) BY RowsAreTables
<1>2. DOMAIN Priced(s, k) = DOMAIN Rows(s, k) BY DEF Priced
<1>3. \A r \in DOMAIN Priced(s, k) : Priced(s, k)[r] \in Int BY <1>1 DEF Priced, IsTable
<1>4. IsFiniteSet(DOMAIN Priced(s, k)) BY <1>1, <1>2 DEF IsTable
<1> QED BY <1>2, <1>3, <1>4, TotalIsInt

-----------------------------------------------------------------------------
(* The record, stage by stage. *)

(* The chargen karma of a record after pricing these kinds. *)
KeptAfter(s, kinds) ==
  IF HasBaseline(s) THEN Recorded(s.baseline.kept, kinds, s) ELSE s.baseline.kept

LEMMA RecordIs ==
  ASSUME NEW s, IsSheet(s), NEW kinds \in SUBSET Kinds
  PROVE  LET t == Record(s, kinds)
         IN  /\ IsSheet(t) /\ SameHoldings(s, t)
             /\ \A f \in {"rating", "qualities", "items", "drop", "drops"} :
                  t.baseline[f] = s.baseline[f]
             /\ t.baseline.kept = KeptAfter(s, kinds)
<1>1. CASE ~HasBaseline(s)
  <2>1. Record(s, kinds) = s BY <1>1 DEF Record
  <2> QED BY <1>1, <2>1 DEF SameHoldings, KeptAfter
<1>2. CASE HasBaseline(s)
  <2> DEFINE kept == Recorded(s.baseline.kept, kinds, s)
             b == [s.baseline EXCEPT !.kept = kept]
             t == Record(s, kinds)
  <2>1. IsRecord(s.baseline) BY DEF IsSheet
  <2>2. ASSUME NEW k \in DOMAIN kept
        PROVE  IsFiniteSet(DOMAIN kept[k]) /\ \A r \in DOMAIN kept[k] : kept[k][r] \in Int
    <3>1. CASE k \in DOMAIN s.baseline.kept
      <4>1. kept[k] = s.baseline.kept[k] BY <3>1 DEF Recorded
      <4> HIDE DEF kept
      <4> QED BY <2>1, <3>1, <4>1 DEF IsRecord
    <3>2. CASE k \notin DOMAIN s.baseline.kept
      <4>1. k \in Kinds /\ kept[k] = Priced(s, k) BY <3>2 DEF Recorded
      <4> HIDE DEF kept
      <4> QED BY <4>1, PricedIs
    <3> QED BY <3>1, <3>2
  <2>3. t = [s EXCEPT !.baseline = b] BY <1>2 DEF Record, IsSheet
  <2>4. s.career BY <1>2, OnlyCareerRecords
  <2>5. KeptAfter(s, kinds) = kept BY <1>2 DEF KeptAfter
  <2> HIDE DEF kept, t
  <2>6. /\ DOMAIN b = DOMAIN s.baseline
        /\ b.rating = s.baseline.rating /\ b.qualities = s.baseline.qualities
        /\ b.items = s.baseline.items /\ b.drop = s.baseline.drop
        /\ b.drops = s.baseline.drops /\ b.kept = kept
    BY <2>1 DEF IsRecord, NoBaseline
  <2> HIDE DEF b
  <2>7. IsRecord(b) BY <1>2, <2>1, <2>2, <2>6 DEF IsRecord, HasBaseline
  <2>8. IsSheet(t) /\ SameHoldings(s, t) /\ t.baseline = b BY <2>3, <2>4, <2>7, NewRecord
  <2> QED BY <2>5, <2>6, <2>8 DEF t
<1> QED BY <1>1, <1>2

(* A career character has a record after this, and keeps one it had. *)
LEMMA BaselineIs ==
  ASSUME NEW s, IsSheet(s)
  PROVE  LET t == WithBaseline(s)
         IN  /\ IsSheet(t) /\ SameHoldings(s, t)
             /\ t.baseline = IF s.career /\ ~HasBaseline(s) THEN Snapshot(s) ELSE s.baseline
             /\ s.career => HasBaseline(t)
<1>1. CASE s.career /\ ~HasBaseline(s)
  <2> DEFINE b == Snapshot(s)
             t == WithBaseline(s)
  <2>1. /\ DOMAIN b = DOMAIN NoBaseline
        /\ b.rating = s.rating /\ b.qualities = s.qualities /\ b.items = DOMAIN s.spirits
        /\ b.drop = None /\ b.drops = None /\ b.kept = << >>
    BY DEF Snapshot, NoBaseline
  <2>2. b.rating \in [Attributes -> Int] /\ b.rating # None
    BY <2>1, LedgerAssumption DEF IsSheet
  <2>3. b.qualities \in SUBSET Qualities /\ IsFiniteSet(b.qualities) BY <2>1 DEF IsSheet
  <2>4. b.items \in SUBSET Spirits BY <2>1 DEF IsSheet, IsNumbered
  <2>5. t = [s EXCEPT !.baseline = b] BY <1>1 DEF WithBaseline
  <2> HIDE DEF b, t
  <2>6. DOMAIN b.kept = {} BY <2>1
  <2>7. IsRecord(b) BY <2>1, <2>2, <2>3, <2>4, <2>6 DEF IsRecord
  <2>8. IsSheet(t) /\ SameHoldings(s, t) /\ t.baseline = b BY <1>1, <2>5, <2>7, NewRecord
  <2>9. HasBaseline(t) BY <2>2, <2>8 DEF HasBaseline
  <2> QED BY <1>1, <2>8, <2>9 DEF b, t
<1>2. CASE ~(s.career /\ ~HasBaseline(s))
  <2>1. WithBaseline(s) = s BY <1>2 DEF WithBaseline
  <2> QED BY <1>2, <2>1 DEF SameHoldings
<1> QED BY <1>1, <1>2

(* The drop on entering is recorded once. *)
LEMMA DropIs ==
  ASSUME NEW s, IsSheet(s), s.career => HasBaseline(s)
  PROVE  LET t == WithDrop(s)
         IN  /\ IsSheet(t) /\ SameHoldings(s, t)
             /\ \A f \in {"rating", "qualities", "items", "drops", "kept"} :
                  t.baseline[f] = s.baseline[f]
             /\ t.baseline.drop = IF s.career /\ s.baseline.drop = None THEN DropNow(s)
                                  ELSE s.baseline.drop
             /\ s.career => t.baseline.drop \in Int
<1>1. CASE s.career /\ s.baseline.drop = None
  <2> DEFINE b == [s.baseline EXCEPT !.drop = DropNow(s)]
             t == WithDrop(s)
  <2>1. IsRecord(s.baseline) BY DEF IsSheet
  <2>2. t = [s EXCEPT !.baseline = b] BY <1>1 DEF WithDrop, IsSheet
  <2>3. /\ DOMAIN b = DOMAIN s.baseline
        /\ b.rating = s.baseline.rating /\ b.qualities = s.baseline.qualities
        /\ b.items = s.baseline.items /\ b.drops = s.baseline.drops
        /\ b.kept = s.baseline.kept /\ b.drop = DropNow(s)
    BY <2>1 DEF IsRecord, NoBaseline
  <2> HIDE DEF b, t
  <2>4. b.drop \in Int BY <2>3, ValueType
  <2>5. b.rating # None BY <1>1, <2>3 DEF HasBaseline
  <2>6. IsRecord(b) BY <2>1, <2>3, <2>4, <2>5 DEF IsRecord
  <2>7. IsSheet(t) /\ SameHoldings(s, t) /\ t.baseline = b BY <1>1, <2>2, <2>6, NewRecord
  <2> QED BY <1>1, <2>3, <2>4, <2>7 DEF t
<1>2. CASE ~(s.career /\ s.baseline.drop = None)
  <2>1. WithDrop(s) = s BY <1>2 DEF WithDrop
  <2>2. s.career => s.baseline.drop \in Int BY <1>2 DEF IsSheet, IsRecord
  <2> QED BY <1>2, <2>1, <2>2 DEF SameHoldings
<1> QED BY <1>1, <1>2

(* How many levels of Magic were raised in career. *)
Raised(s) == Greater(0, s.rating[Magic] - s.baseline.rating[Magic])

LEMMA RaiseDropsAre ==
  ASSUME NEW s, IsSheet(s), s.career, HasBaseline(s), s.baseline.drop \in Int
  PROVE  /\ Raised(s) \in Nat
         /\ RaiseDrops(s) \in [1..Raised(s) -> Int]
         /\ RaiseDrops(s) \in Seq(Int)
         /\ s.baseline.drops \in [1..Raised(s) -> Int] => RaiseDrops(s) = s.baseline.drops
         /\ s.baseline.drops # None =>
              \A i \in 1..Raised(s) :
                RaiseDrops(s)[i] = IF i \in DOMAIN s.baseline.drops THEN s.baseline.drops[i]
                                   ELSE DropNow(s)
<1> DEFINE b == s.baseline
           fill == IF b.drops = None THEN Lesser(b.drop, DropNow(s)) ELSE DropNow(s)
           n == Raised(s)
<1>1. s.rating[Magic] \in Int /\ b.rating[Magic] \in Int
  BY LedgerAssumption DEF IsSheet, IsRecord, HasBaseline
<1>2. n \in Nat BY <1>1 DEF Raised, Greater
<1>3. fill \in Int BY ValueType DEF Lesser
<1>4. b.drops \in Seq(Int) \cup {None} BY DEF IsSheet, IsRecord
<1>5. RaiseDrops(s) = [i \in 1..n |-> IF b.drops # None /\ i \in DOMAIN b.drops
                                      THEN b.drops[i] ELSE fill]
  BY DEF RaiseDrops, Raised
<1>6. b.drops # None => fill = DropNow(s) OBVIOUS
<1> HIDE DEF fill, n
<1>7. \A i \in 1..n : (IF b.drops # None /\ i \in DOMAIN b.drops THEN b.drops[i] ELSE fill) \in Int
  <2>1. b.drops # None => \A i \in DOMAIN b.drops : b.drops[i] \in Int BY <1>4
  <2> QED BY <1>3, <2>1
<1>8. RaiseDrops(s) \in [1..n -> Int] BY <1>5, <1>7
<1>9. RaiseDrops(s) \in Seq(Int) BY <1>2, <1>8
<1>10. ASSUME b.drops \in [1..n -> Int] PROVE RaiseDrops(s) = b.drops
  <2>1. b.drops \in Seq(Int) BY <1>2, <1>10
  <2>2. b.drops # None BY <2>1, LedgerAssumption
  <2>3. \A i \in 1..n : RaiseDrops(s)[i] = b.drops[i] BY <1>5, <1>10, <2>2
  <2> DEFINE d == b.drops
             e == RaiseDrops(s)
             X == 1..n
  <2>4. d \in [X -> Int] /\ e \in [X -> Int] /\ \A i \in X : e[i] = d[i] BY <1>8, <1>10, <2>3
  <2> HIDE DEF d, e, X
  <2>5. e = d BY <2>4
  <2> QED BY <2>5 DEF d, e
<1>11. b.drops # None => \A i \in 1..n : RaiseDrops(s)[i] = IF i \in DOMAIN b.drops THEN b.drops[i]
                                                            ELSE DropNow(s)
  BY <1>5, <1>6
<1> QED BY <1>2, <1>8, <1>9, <1>10, <1>11 DEF n

(* The drops of the levels raised are the only thing this stage writes. *)
LEMMA RaiseDropsStage ==
  ASSUME NEW s, IsSheet(s), s.career => HasBaseline(s) /\ s.baseline.drop \in Int
  PROVE  LET t == WithRaiseDrops(s)
         IN  /\ IsSheet(t) /\ SameHoldings(s, t)
             /\ \A f \in {"rating", "qualities", "items", "drop", "kept"} :
                  t.baseline[f] = s.baseline[f]
             /\ s.career => t.baseline.drops = RaiseDrops(s)
             /\ ~s.career => t.baseline.drops = s.baseline.drops
<1>1. CASE s.career
  <2> DEFINE d == RaiseDrops(s)
             b == [s.baseline EXCEPT !.drops = d]
             t == WithRaiseDrops(s)
  <2>1. IsRecord(s.baseline) BY DEF IsSheet
  <2>2. t = [s EXCEPT !.baseline = b] BY <1>1 DEF WithRaiseDrops, IsSheet
  <2>3. d \in Seq(Int) BY <1>1, RaiseDropsAre
  <2> HIDE DEF d, t
  <2>4. /\ DOMAIN b = DOMAIN s.baseline
        /\ b.rating = s.baseline.rating /\ b.qualities = s.baseline.qualities
        /\ b.items = s.baseline.items /\ b.drop = s.baseline.drop
        /\ b.kept = s.baseline.kept /\ b.drops = d
    BY <2>1 DEF IsRecord, NoBaseline
  <2> HIDE DEF b
  <2>5. b.rating # None BY <1>1, <2>4 DEF HasBaseline
  <2>6. IsRecord(b) BY <2>1, <2>3, <2>4, <2>5 DEF IsRecord
  <2>7. IsSheet(t) /\ SameHoldings(s, t) /\ t.baseline = b BY <1>1, <2>2, <2>6, NewRecord
  <2> QED BY <1>1, <2>4, <2>7 DEF t, d
<1>2. CASE ~s.career
  <2>1. WithRaiseDrops(s) = s BY <1>2 DEF WithRaiseDrops
  <2> QED BY <1>2, <2>1 DEF SameHoldings
<1> QED BY <1>1, <1>2

-----------------------------------------------------------------------------
(* A pass. *)

(* The characters a pass goes through, and the one it hands back. *)
EarlyPriced(s) == Record(Settled(s), EarlyKinds)
Based(s)       == WithBaseline(EarlyPriced(s))
Dropped(s)     == WithDrop(Based(s))
Levelled(s)    == WithRaiseDrops(Dropped(s))
Handed(s)      == Record(Levelled(s), LateKinds)

(* The bill of a character, from what it holds and carries. *)
BillOf(c) ==
  [attributes |-> AttributeLevelsKarma(c),
   raises |-> CareerRaiseKarma(c),
   qualities |-> QualityTable(c.qualities) + CareerQualityKarma(c),
   kinds |-> [k \in Kinds |-> KeptKarma(c, k)]]

LEMMA ComputeIs ==
  ASSUME NEW s
  PROVE  /\ Compute(s).ch = Handed(s)
         /\ Compute(s).bill =
              [attributes |-> AttributeLevelsKarma(Handed(s)),
               raises |-> CareerRaiseKarma(Handed(s)),
               qualities |-> QualityTable(Handed(s).qualities) + CareerQualityKarma(Handed(s)),
               kinds |-> [k \in Kinds |->
                            KeptKarma(IF k \in EarlyKinds THEN Settled(s) ELSE Levelled(s), k)]]
BY DEF Compute, EarlyPriced, Based, Dropped, Levelled, Handed

LEMMA SettledStage ==
  ASSUME NEW s, IsSheet(s)
  PROVE  /\ IsSheet(Settled(s)) /\ Settled(s).career = s.career
         /\ Settled(s).baseline = s.baseline
BY SettledIs DEF SameTerms

LEMMA EarlyStage ==
  ASSUME NEW s, IsSheet(s)
  PROVE  LET t == Settled(s)
             e == EarlyPriced(s)
         IN  /\ IsSheet(e) /\ SameHoldings(t, e)
             /\ \A f \in {"rating", "qualities", "items", "drop", "drops"} :
                  e.baseline[f] = s.baseline[f]
             /\ e.baseline.kept = KeptAfter(t, EarlyKinds)
             /\ e.career = s.career
             /\ HasBaseline(e) <=> HasBaseline(s)
<1> DEFINE t == Settled(s)
           e == EarlyPriced(s)
<1>1. IsSheet(t) /\ t.baseline = s.baseline /\ t.career = s.career BY SettledStage
<1>2. EarlyKinds \in SUBSET Kinds BY DEF Kinds
<1>3. e = Record(t, EarlyKinds) BY DEF EarlyPriced
<1> HIDE DEF t, e
<1>4. /\ IsSheet(e) /\ SameHoldings(t, e)
      /\ \A f \in {"rating", "qualities", "items", "drop", "drops"} :
           e.baseline[f] = t.baseline[f]
      /\ e.baseline.kept = KeptAfter(t, EarlyKinds)
  BY <1>1, <1>2, <1>3, RecordIs
<1>5. e.career = s.career BY <1>1, <1>4 DEF SameHoldings
<1>6. e.baseline.rating = s.baseline.rating BY <1>1, <1>4
<1>7. HasBaseline(e) <=> HasBaseline(s) BY <1>6 DEF HasBaseline
<1>8. \A f \in {"rating", "qualities", "items", "drop", "drops"} : e.baseline[f] = s.baseline[f]
  BY <1>1, <1>4
<1> QED BY <1>4, <1>5, <1>7, <1>8 DEF t, e

LEMMA BasedStage ==
  ASSUME NEW s, IsSheet(s)
  PROVE  LET t == Settled(s)
             w == Based(s)
         IN  /\ IsSheet(w) /\ SameHoldings(t, w) /\ w.career = s.career
             /\ s.career => HasBaseline(w)
             /\ (HasBaseline(s) \/ ~s.career) => w.baseline = EarlyPriced(s).baseline
             /\ (s.career /\ ~HasBaseline(s)) => w.baseline = Snapshot(EarlyPriced(s))
<1> DEFINE e == EarlyPriced(s)
           w == Based(s)
<1>1. /\ IsSheet(e) /\ SameHoldings(Settled(s), e) /\ e.career = s.career
      /\ HasBaseline(e) <=> HasBaseline(s)
  BY EarlyStage
<1>2. w = WithBaseline(e) BY DEF Based
<1> HIDE DEF e, w
<1>3. /\ IsSheet(w) /\ SameHoldings(e, w)
      /\ w.baseline = IF e.career /\ ~HasBaseline(e) THEN Snapshot(e) ELSE e.baseline
      /\ e.career => HasBaseline(w)
  BY <1>1, <1>2, BaselineIs
<1>4. SameHoldings(Settled(s), w) BY <1>1, <1>3, SameHoldingsIsTransitive
<1>5. w.career = s.career BY <1>1, <1>3 DEF SameHoldings
<1> QED BY <1>1, <1>3, <1>4, <1>5 DEF e, w

LEMMA DroppedStage ==
  ASSUME NEW s, IsSheet(s)
  PROVE  LET t == Settled(s)
             w == Based(s)
             d == Dropped(s)
         IN  /\ IsSheet(d) /\ SameHoldings(t, d) /\ d.career = s.career
             /\ \A f \in {"rating", "qualities", "items", "drops", "kept"} :
                  d.baseline[f] = w.baseline[f]
             /\ s.career => HasBaseline(d) /\ d.baseline.drop \in Int
             /\ w.baseline.drop # None => d.baseline.drop = w.baseline.drop
             /\ ~s.career => d.baseline.drop = w.baseline.drop
<1> DEFINE w == Based(s)
           d == Dropped(s)
<1>1. /\ IsSheet(w) /\ SameHoldings(Settled(s), w) /\ w.career = s.career
      /\ s.career => HasBaseline(w)
  BY BasedStage
<1>2. d = WithDrop(w) BY DEF Dropped
<1> HIDE DEF w, d
<1>3. /\ IsSheet(d) /\ SameHoldings(w, d)
      /\ \A f \in {"rating", "qualities", "items", "drops", "kept"} :
           d.baseline[f] = w.baseline[f]
      /\ d.baseline.drop = IF w.career /\ w.baseline.drop = None THEN DropNow(w)
                           ELSE w.baseline.drop
      /\ w.career => d.baseline.drop \in Int
  BY <1>1, <1>2, DropIs
<1>4. SameHoldings(Settled(s), d) BY <1>1, <1>3, SameHoldingsIsTransitive
<1>5. d.career = s.career BY <1>1, <1>3 DEF SameHoldings
<1>6. d.baseline.rating = w.baseline.rating BY <1>3
<1>7. s.career => HasBaseline(d) BY <1>1, <1>6 DEF HasBaseline
<1> QED BY <1>1, <1>3, <1>4, <1>5, <1>7 DEF w, d

LEMMA LevelledStage ==
  ASSUME NEW s, IsSheet(s)
  PROVE  LET t == Settled(s)
             d == Dropped(s)
             r == Levelled(s)
         IN  /\ IsSheet(r) /\ SameHoldings(t, r) /\ r.career = s.career
             /\ \A f \in {"rating", "qualities", "items", "drop", "kept"} :
                  r.baseline[f] = d.baseline[f]
             /\ s.career => r.baseline.drops = RaiseDrops(d)
             /\ ~s.career => r.baseline.drops = d.baseline.drops
             /\ s.career => HasBaseline(r)
<1> DEFINE d == Dropped(s)
           r == Levelled(s)
<1>1. /\ IsSheet(d) /\ SameHoldings(Settled(s), d) /\ d.career = s.career
      /\ s.career => HasBaseline(d) /\ d.baseline.drop \in Int
  BY DroppedStage
<1>2. r = WithRaiseDrops(d) BY DEF Levelled
<1> HIDE DEF d, r
<1>3. /\ IsSheet(r) /\ SameHoldings(d, r)
      /\ \A f \in {"rating", "qualities", "items", "drop", "kept"} :
           r.baseline[f] = d.baseline[f]
      /\ d.career => r.baseline.drops = RaiseDrops(d)
      /\ ~d.career => r.baseline.drops = d.baseline.drops
  BY <1>1, <1>2, RaiseDropsStage
<1>4. SameHoldings(Settled(s), r) BY <1>1, <1>3, SameHoldingsIsTransitive
<1>5. r.career = s.career BY <1>1, <1>3 DEF SameHoldings
<1>6. r.baseline.rating = d.baseline.rating BY <1>3
<1>7. s.career => HasBaseline(r) BY <1>1, <1>6 DEF HasBaseline
<1> QED BY <1>1, <1>3, <1>4, <1>5, <1>7 DEF d, r

LEMMA HandedStage ==
  ASSUME NEW s, IsSheet(s)
  PROVE  LET t == Settled(s)
             r == Levelled(s)
             c == Handed(s)
         IN  /\ IsSheet(c) /\ SameHoldings(t, c) /\ SameHoldings(r, c) /\ c.career = s.career
             /\ \A f \in {"rating", "qualities", "items", "drop", "drops"} :
                  c.baseline[f] = r.baseline[f]
             /\ c.baseline.kept = KeptAfter(r, LateKinds)
             /\ s.career => HasBaseline(c)
<1> DEFINE r == Levelled(s)
           c == Handed(s)
<1>1. /\ IsSheet(r) /\ SameHoldings(Settled(s), r) /\ r.career = s.career
      /\ s.career => HasBaseline(r)
  BY LevelledStage
<1>2. c = Record(r, LateKinds) /\ LateKinds \in SUBSET Kinds BY DEF Handed, Kinds
<1> HIDE DEF r, c
<1>3. /\ IsSheet(c) /\ SameHoldings(r, c)
      /\ \A f \in {"rating", "qualities", "items", "drop", "drops"} :
           c.baseline[f] = r.baseline[f]
      /\ c.baseline.kept = KeptAfter(r, LateKinds)
  BY <1>1, <1>2, RecordIs
<1>4. SameHoldings(Settled(s), c) BY <1>1, <1>3, SameHoldingsIsTransitive
<1>5. c.career = s.career BY <1>1, <1>3 DEF SameHoldings
<1>6. c.baseline.rating = r.baseline.rating BY <1>3
<1>7. s.career => HasBaseline(c) BY <1>1, <1>6 DEF HasBaseline
<1> QED BY <1>1, <1>3, <1>4, <1>5, <1>7 DEF r, c

(* A character outside career is handed back without a record. *)
LEMMA PassOutsideCareer ==
  ASSUME NEW s, IsSheet(s), ~s.career PROVE Handed(s).baseline = NoBaseline
BY HandedStage DEF IsSheet

LEMMA LateIsNotEarly == EarlyKinds \cap LateKinds = {} /\ Kinds = EarlyKinds \cup LateKinds
BY DEF EarlyKinds, LateKinds, Kinds

(* A record is carried on, with every kind priced now in it. *)
LEMMA PassKeepsRecord ==
  ASSUME NEW s, IsSheet(s), HasBaseline(s)
  PROVE  LET t == Settled(s)
             r == Levelled(s)
             c == Handed(s)
         IN  /\ \A f \in {"rating", "qualities", "items"} : c.baseline[f] = s.baseline[f]
             /\ s.baseline.drop # None => c.baseline.drop = s.baseline.drop
             /\ r.baseline.items = s.baseline.items
             /\ r.baseline.kept = Recorded(s.baseline.kept, EarlyKinds, t)
             /\ c.baseline.kept = Recorded(s.baseline.kept, Kinds, t)
<1> DEFINE t == Settled(s)
           e == EarlyPriced(s)
           w == Based(s)
           d == Dropped(s)
           r == Levelled(s)
           c == Handed(s)
<1>1. IsSheet(t) /\ t.baseline = s.baseline BY SettledStage
<1>2. /\ \A f \in {"rating", "qualities", "items", "drop", "drops"} : e.baseline[f] = s.baseline[f]
      /\ e.baseline.kept = KeptAfter(t, EarlyKinds)
  BY EarlyStage
<1>3. w.baseline = e.baseline BY BasedStage
<1>4. /\ \A f \in {"rating", "qualities", "items", "drops", "kept"} : d.baseline[f] = w.baseline[f]
      /\ w.baseline.drop # None => d.baseline.drop = w.baseline.drop
  BY DroppedStage
<1>5. /\ IsSheet(r) /\ SameHoldings(t, r)
      /\ \A f \in {"rating", "qualities", "items", "drop", "kept"} : r.baseline[f] = d.baseline[f]
  BY LevelledStage
<1>6. /\ \A f \in {"rating", "qualities", "items", "drop", "drops"} : c.baseline[f] = r.baseline[f]
      /\ c.baseline.kept = KeptAfter(r, LateKinds)
  BY HandedStage
<1> HIDE DEF t, e, w, d, r, c
<1>7. HasBaseline(t) /\ HasBaseline(r)
  BY <1>1, <1>2, <1>3, <1>4, <1>5 DEF HasBaseline
<1>8. r.baseline.kept = Recorded(s.baseline.kept, EarlyKinds, t)
  BY <1>1, <1>2, <1>3, <1>4, <1>5, <1>7 DEF KeptAfter
<1>9. r.baseline.items = t.baseline.items BY <1>1, <1>2, <1>3, <1>4, <1>5
<1>10. \A k \in Kinds : Priced(r, k) = Priced(t, k) BY <1>5, <1>9, SameRows DEF SameItems
<1>11. c.baseline.kept = Recorded(r.baseline.kept, LateKinds, r) BY <1>6, <1>7 DEF KeptAfter
<1>12. c.baseline.kept = Recorded(s.baseline.kept, Kinds, t)
  BY <1>8, <1>10, <1>11, LateIsNotEarly DEF Recorded
<1>13. s.baseline.drop # None => c.baseline.drop = s.baseline.drop
  BY <1>2, <1>3, <1>4, <1>5, <1>6
<1>14. \A f \in {"rating", "qualities", "items"} : c.baseline[f] = s.baseline[f]
  BY <1>2, <1>3, <1>4, <1>5, <1>6
<1>15. r.baseline.items = s.baseline.items BY <1>1, <1>9
<1> QED BY <1>8, <1>12, <1>13, <1>14, <1>15 DEF t, r, c

(* A career character without a record is given one, in which only the kinds
   priced after that are. *)
LEMMA PassMakesRecord ==
  ASSUME NEW s, IsSheet(s), s.career, ~HasBaseline(s)
  PROVE  LET t == Settled(s)
             r == Levelled(s)
             c == Handed(s)
         IN  /\ c.baseline.rating = t.rating /\ c.baseline.qualities = t.qualities
             /\ c.baseline.items = DOMAIN t.spirits
             /\ t.baseline.items = None /\ t.baseline.kept = << >>
             /\ r.baseline.items = DOMAIN t.spirits
             /\ r.baseline.kept = << >>
             /\ c.baseline.kept = Recorded(<< >>, LateKinds, t)
             /\ Dropped(s).baseline.drops = None
<1> DEFINE t == Settled(s)
           e == EarlyPriced(s)
           w == Based(s)
           d == Dropped(s)
           r == Levelled(s)
           c == Handed(s)
<1>1. IsSheet(t) /\ t.baseline = s.baseline BY SettledStage
<1>2. SameHoldings(t, e) BY EarlyStage
<1>3. w.baseline = Snapshot(e) BY BasedStage
<1>4. \A f \in {"rating", "qualities", "items", "drops", "kept"} : d.baseline[f] = w.baseline[f]
  BY DroppedStage
<1>5. /\ IsSheet(r) /\ SameHoldings(t, r)
      /\ \A f \in {"rating", "qualities", "items", "drop", "kept"} : r.baseline[f] = d.baseline[f]
      /\ HasBaseline(r)
  BY LevelledStage
<1>6. /\ \A f \in {"rating", "qualities", "items", "drop", "drops"} : c.baseline[f] = r.baseline[f]
      /\ c.baseline.kept = KeptAfter(r, LateKinds)
  BY HandedStage
<1> HIDE DEF t, e, w, d, r, c
<1>7. /\ w.baseline.rating = t.rating /\ w.baseline.qualities = t.qualities
      /\ w.baseline.items = DOMAIN t.spirits
      /\ w.baseline.kept = << >> /\ w.baseline.drops = None
  BY <1>2, <1>3 DEF Snapshot, SameHoldings
<1>8. s.baseline = NoBaseline BY DEF IsSheet, IsRecord, HasBaseline
<1>9. t.baseline.items = None /\ t.baseline.kept = << >> BY <1>1, <1>8 DEF NoBaseline
<1>10. r.baseline.items = DOMAIN t.spirits /\ r.baseline.kept = << >> BY <1>4, <1>5, <1>7
<1>11. \A k \in Kinds : Priced(r, k) = Priced(t, k)
  BY <1>5, <1>9, <1>10, SameRows DEF SameItems
<1>12. c.baseline.kept = Recorded(<< >>, LateKinds, r) BY <1>5, <1>6, <1>10 DEF KeptAfter
<1>13. c.baseline.kept = Recorded(<< >>, LateKinds, t)
  BY <1>11, <1>12, LateIsNotEarly DEF Recorded
<1>14. c.baseline.rating = t.rating /\ c.baseline.qualities = t.qualities
       /\ c.baseline.items = DOMAIN t.spirits
  BY <1>4, <1>5, <1>6, <1>7
<1>15. d.baseline.drops = None BY <1>4, <1>7
<1> QED BY <1>9, <1>10, <1>13, <1>14, <1>15 DEF t, r, c, d

(* The drops handed back: one for each level raised, those recorded as they
   are, the new ones at the drop of this pass. *)
LEMMA PassDrops ==
  ASSUME NEW s, IsSheet(s), s.career
  PROVE  LET c == Handed(s)
         IN  /\ Raised(c) \in Nat
             /\ c.baseline.drop \in Int
             /\ c.baseline.drops \in [1..Raised(c) -> Int]
             /\ (HasBaseline(s) /\ s.baseline.drops \in [1..Raised(c) -> Int]) =>
                  c.baseline.drops = s.baseline.drops
             /\ (HasBaseline(s) /\ s.baseline.drops # None) =>
                  \A i \in 1..Raised(c) :
                    c.baseline.drops[i] = IF i \in DOMAIN s.baseline.drops
                                          THEN s.baseline.drops[i] ELSE DropNow(c)
<1> DEFINE t == Settled(s)
           d == Dropped(s)
           r == Levelled(s)
           c == Handed(s)
<1>1. /\ IsSheet(d) /\ SameHoldings(t, d) /\ d.career = s.career
      /\ HasBaseline(d) /\ d.baseline.drop \in Int
  BY DroppedStage
<1>2. r.baseline.drops = RaiseDrops(d) /\ r.baseline.rating = d.baseline.rating
      /\ r.baseline.drop = d.baseline.drop
  BY LevelledStage
<1>3. /\ SameHoldings(t, c) /\ c.baseline.drops = r.baseline.drops
      /\ c.baseline.rating = r.baseline.rating /\ c.baseline.drop = r.baseline.drop
  BY HandedStage
<1>4. HasBaseline(s) => d.baseline.drops = s.baseline.drops
  <2> SUFFICES ASSUME HasBaseline(s) PROVE d.baseline.drops = s.baseline.drops OBVIOUS
  <2>1. d.baseline.drops = Based(s).baseline.drops BY DroppedStage
  <2>2. Based(s).baseline = EarlyPriced(s).baseline BY BasedStage
  <2>3. EarlyPriced(s).baseline.drops = s.baseline.drops BY EarlyStage
  <2> QED BY <2>1, <2>2, <2>3
<1> HIDE DEF t, d, r, c
<1>5. Raised(c) = Raised(d) BY <1>2, <1>3, <1>1 DEF Raised, SameHoldings
<1>6. DropNow(c) = DropNow(d) BY <1>1, <1>3, SameValue DEF SameHoldings
<1>7. c.baseline.drops = RaiseDrops(d) /\ c.baseline.drop \in Int BY <1>1, <1>2, <1>3
<1>8. /\ Raised(d) \in Nat
      /\ RaiseDrops(d) \in [1..Raised(d) -> Int]
      /\ d.baseline.drops \in [1..Raised(d) -> Int] => RaiseDrops(d) = d.baseline.drops
      /\ d.baseline.drops # None =>
           \A i \in 1..Raised(d) :
             RaiseDrops(d)[i] = IF i \in DOMAIN d.baseline.drops THEN d.baseline.drops[i]
                                ELSE DropNow(d)
  BY <1>1, RaiseDropsAre
<1>9. HasBaseline(s) /\ s.baseline.drops \in [1..Raised(c) -> Int] =>
        c.baseline.drops = s.baseline.drops
  BY <1>4, <1>5, <1>7, <1>8
<1>10. HasBaseline(s) /\ s.baseline.drops # None =>
         \A i \in 1..Raised(c) :
           c.baseline.drops[i] = IF i \in DOMAIN s.baseline.drops THEN s.baseline.drops[i]
                                 ELSE DropNow(c)
  BY <1>4, <1>5, <1>6, <1>7, <1>8
<1>11. Raised(c) \in Nat /\ c.baseline.drops \in [1..Raised(c) -> Int]
  BY <1>5, <1>7, <1>8
<1> QED BY <1>7, <1>9, <1>10, <1>11 DEF c

(* What is handed back is fit, so the next pass settles nothing. *)
LEMMA PassFits == ASSUME NEW s, IsSheet(s) PROVE Fit(Handed(s))
<1> DEFINE t == Settled(s)
           c == Handed(s)
<1>1. IsSheet(t) /\ Fit(t) /\ t.baseline = s.baseline /\ t.career = s.career
  BY SettledStage, SettledFits
<1>2. SameHoldings(t, c) /\ c.career = s.career BY HandedStage
<1>3. HasBaseline(t) <=> HasBaseline(s) BY <1>1 DEF HasBaseline
<1>4. c.career => (HasBaseline(t) /\ c.baseline.rating = t.baseline.rating)
                  \/ c.baseline.rating = t.rating
  <2>1. CASE HasBaseline(s) BY <1>1, <1>3, <2>1, PassKeepsRecord
  <2>2. CASE s.career /\ ~HasBaseline(s) BY <2>2, PassMakesRecord
  <2>3. CASE ~s.career BY <1>2, <2>3
  <2> QED BY <2>1, <2>2, <2>3
<1> HIDE DEF t, c
<1>5. Fit(c) BY <1>1, <1>2, <1>4, FitIsKept
<1> QED BY <1>5 DEF c

-----------------------------------------------------------------------------
(* The bill. *)

LEMMA KeptKarmaOfSameRecord ==
  ASSUME NEW s, NEW u, NEW k, Rows(u, k) = Rows(s, k),
         k \in DOMAIN u.baseline.kept <=> k \in DOMAIN s.baseline.kept,
         k \in DOMAIN s.baseline.kept => u.baseline.kept[k] = s.baseline.kept[k]
  PROVE  KeptKarma(u, k) = KeptKarma(s, k)
<1>1. Priced(u, k) = Priced(s, k) BY DEF Priced
<1>2. CASE k \in DOMAIN s.baseline.kept BY <1>2 DEF KeptKarma
<1>3. CASE k \notin DOMAIN s.baseline.kept BY <1>1, <1>3 DEF KeptKarma
<1> QED BY <1>2, <1>3

(* Writing down what a kind costs does not change what it costs. *)
LEMMA KeptKarmaOnceRecorded ==
  ASSUME NEW s, IsSheet(s), NEW u, NEW k \in Kinds, Rows(u, k) = Rows(s, k),
         k \notin DOMAIN s.baseline.kept,
         k \in DOMAIN u.baseline.kept, u.baseline.kept[k] = Priced(s, k)
  PROVE  KeptKarma(u, k) = KeptKarma(s, k)
<1> DEFINE since == [r \in DOMAIN Rows(u, k) \ DOMAIN Priced(s, k) |-> Rows(u, k)[r].career]
<1>1. KeptKarma(u, k) = Total(Priced(s, k)) + Total(since) BY DEF KeptKarma
<1>2. KeptKarma(s, k) = Total(Priced(s, k)) BY DEF KeptKarma
<1>3. Total(Priced(s, k)) \in Int /\ DOMAIN Priced(s, k) = DOMAIN Rows(s, k) BY PricedIs
<1>4. DOMAIN since = {} BY <1>3
<1>5. Total(since) = 0 BY <1>4, TotalOfNothing
<1> HIDE DEF since
<1> QED BY <1>1, <1>2, <1>3, <1>5

LEMMA PassKinds ==
  ASSUME NEW s, IsSheet(s), NEW k \in Kinds
  PROVE  /\ KeptKarma(IF k \in EarlyKinds THEN Settled(s) ELSE Levelled(s), k)
              = KeptKarma(Settled(s), k)
         /\ KeptKarma(Handed(s), k) = KeptKarma(Settled(s), k)
         /\ Rows(Handed(s), k) = Rows(Settled(s), k)
         /\ Priced(Handed(s), k) = Priced(Settled(s), k)
<1> DEFINE t == Settled(s)
           r == Levelled(s)
           c == Handed(s)
<1>1. IsSheet(t) /\ t.baseline = s.baseline /\ t.career = s.career BY SettledStage
<1>2. SameHoldings(t, r) /\ SameHoldings(t, c) BY LevelledStage, HandedStage
<1>3. /\ HasBaseline(s) =>
           /\ c.baseline.items = s.baseline.items
           /\ r.baseline.items = s.baseline.items
           /\ r.baseline.kept = Recorded(s.baseline.kept, EarlyKinds, t)
           /\ c.baseline.kept = Recorded(s.baseline.kept, Kinds, t)
      /\ (s.career /\ ~HasBaseline(s)) =>
           /\ c.baseline.items = DOMAIN t.spirits
           /\ t.baseline.items = None /\ t.baseline.kept = << >>
           /\ r.baseline.items = DOMAIN t.spirits
           /\ r.baseline.kept = << >>
           /\ c.baseline.kept = Recorded(<< >>, LateKinds, t)
  BY PassKeepsRecord, PassMakesRecord
<1>4. ~s.career => c.baseline = t.baseline /\ r.baseline = t.baseline
  <2> SUFFICES ASSUME ~s.career PROVE c.baseline = t.baseline /\ r.baseline = t.baseline OBVIOUS
  <2>1. c.baseline = NoBaseline BY PassOutsideCareer
  <2>2. IsSheet(r) /\ r.career = s.career BY LevelledStage
  <2>3. r.baseline = NoBaseline BY <2>2 DEF IsSheet
  <2>4. t.baseline = NoBaseline BY <1>1 DEF IsSheet
  <2> QED BY <2>1, <2>3, <2>4
<1>5. HasBaseline(s) => s.career BY OnlyCareerRecords
<1>6. DOMAIN << >> = {} OBVIOUS
<1> HIDE DEF t, r, c
<1>7. SameItems(t, r) /\ SameItems(t, c) BY <1>1, <1>3, <1>4, <1>5 DEF SameItems
<1>8. /\ Rows(r, k) = Rows(t, k) /\ Priced(r, k) = Priced(t, k)
      /\ Rows(c, k) = Rows(t, k) /\ Priced(c, k) = Priced(t, k)
  BY <1>2, <1>7, SameRows
<1>9. k \notin EarlyKinds => KeptKarma(r, k) = KeptKarma(t, k)
  <2> SUFFICES ASSUME k \notin EarlyKinds PROVE KeptKarma(r, k) = KeptKarma(t, k) OBVIOUS
  <2>1. k \in DOMAIN r.baseline.kept <=> k \in DOMAIN t.baseline.kept
    BY <1>1, <1>3, <1>4, <1>5, <1>6 DEF Recorded
  <2>2. k \in DOMAIN t.baseline.kept => r.baseline.kept[k] = t.baseline.kept[k]
    BY <1>1, <1>3, <1>4, <1>5, <1>6 DEF Recorded
  <2> QED BY <1>8, <2>1, <2>2, KeptKarmaOfSameRecord
<1>10. KeptKarma(c, k) = KeptKarma(t, k)
  <2>1. CASE k \in DOMAIN t.baseline.kept \/ k \notin DOMAIN c.baseline.kept
    <3>1. k \in DOMAIN c.baseline.kept <=> k \in DOMAIN t.baseline.kept
      BY <1>1, <1>3, <1>4, <1>5, <1>6, <2>1 DEF Recorded
    <3>2. k \in DOMAIN t.baseline.kept => c.baseline.kept[k] = t.baseline.kept[k]
      BY <1>1, <1>3, <1>4, <1>5, <1>6 DEF Recorded
    <3> QED BY <1>8, <3>1, <3>2, KeptKarmaOfSameRecord
  <2>2. CASE k \notin DOMAIN t.baseline.kept /\ k \in DOMAIN c.baseline.kept
    <3>1. c.baseline.kept[k] = Priced(t, k)
      BY <1>1, <1>3, <1>4, <1>5, <1>6, <2>2 DEF Recorded
    <3> QED BY <1>1, <1>8, <2>2, <3>1, KeptKarmaOnceRecorded
  <2> QED BY <2>1, <2>2
<1> QED BY <1>8, <1>9, <1>10 DEF t, r, c

(* What a pass bills is what the character it hands back costs. *)
LEMMA BillIsOfCharacter ==
  ASSUME NEW s, IsSheet(s) PROVE Compute(s).bill = BillOf(Compute(s).ch)
<1>1. \A k \in Kinds :
        KeptKarma(IF k \in EarlyKinds THEN Settled(s) ELSE Levelled(s), k) = KeptKarma(Handed(s), k)
  BY PassKinds
<1>2. [k \in Kinds |-> KeptKarma(IF k \in EarlyKinds THEN Settled(s) ELSE Levelled(s), k)]
        = [k \in Kinds |-> KeptKarma(Handed(s), k)]
  BY <1>1
<1>3. Compute(s).ch = Handed(s) BY ComputeIs
<1>4. Compute(s).bill =
        [attributes |-> AttributeLevelsKarma(Handed(s)),
         raises |-> CareerRaiseKarma(Handed(s)),
         qualities |-> QualityTable(Handed(s).qualities) + CareerQualityKarma(Handed(s)),
         kinds |-> [k \in Kinds |->
                      KeptKarma(IF k \in EarlyKinds THEN Settled(s) ELSE Levelled(s), k)]]
  BY ComputeIs
<1> QED BY <1>2, <1>3, <1>4 DEF BillOf

-----------------------------------------------------------------------------
(* What a patch hands to the pass. *)

LEMMA RowAdded ==
  ASSUME NEW Ids, NEW f, IsNumbered(f, Ids), NEW i \in Ids, NEW n \in Int
  PROVE  IsNumbered(With(f, i, n), Ids)
<1>1. PICK held \in SUBSET Ids : IsFiniteSet(held) /\ f \in [held -> Int] BY DEF IsNumbered
<1>2. IsFiniteSet(held \cup {i}) BY <1>1, FS_AddElement
<1>3. With(f, i, n) \in [held \cup {i} -> Int] BY <1>1 DEF With
<1>4. held \cup {i} \in SUBSET Ids OBVIOUS
<1> QED BY <1>2, <1>3, <1>4 DEF IsNumbered

LEMMA RowDropped ==
  ASSUME NEW Ids, NEW f, IsNumbered(f, Ids), NEW i
  PROVE  IsNumbered(Without(f, i), Ids)
<1>1. PICK held \in SUBSET Ids : IsFiniteSet(held) /\ f \in [held -> Int] BY DEF IsNumbered
<1>2. IsFiniteSet(held \ {i}) BY <1>1, FS_Subset
<1>3. Without(f, i) \in [held \ {i} -> Int] BY <1>1 DEF Without
<1>4. held \ {i} \in SUBSET Ids OBVIOUS
<1> QED BY <1>2, <1>3, <1>4 DEF IsNumbered

LEMMA RowChanged ==
  ASSUME NEW Ids, NEW f, IsNumbered(f, Ids), NEW i \in DOMAIN f
  PROVE  IsNumbered([f EXCEPT ![i] = @ - 1], Ids)
<1>1. PICK held \in SUBSET Ids : IsFiniteSet(held) /\ f \in [held -> Int] BY DEF IsNumbered
<1>2. [f EXCEPT ![i] = @ - 1] \in [held -> Int] BY <1>1
<1> QED BY <1>1, <1>2 DEF IsNumbered

(* A field of a sheet, with a value the models accept there. *)
IsField(f, v) ==
  \/ f \in {"rating", "levels"} /\ v \in [Attributes -> Int]
  \/ f = "spirits" /\ IsNumbered(v, Spirits)
  \/ f = "foci" /\ IsNumbered(v, Foci)
  \/ f = "spells" /\ v \in Seq(Spells)
  \/ f \in {"contacts", "loss"} /\ v \in Nat
  \/ f = "grade" /\ v \in 0..MaxGrade
  \/ f = "qualities" /\ v \subseteq Qualities /\ IsFiniteSet(v)

LEMMA FieldEdit ==
  ASSUME NEW s, IsSheet(s), NEW f, NEW v, IsField(f, v)
  PROVE  LET t == [s EXCEPT ![f] = v]
         IN  IsSheet(t) /\ t.career = s.career /\ t.baseline = s.baseline
<1> DEFINE t == [s EXCEPT ![f] = v]
<1>1. f \in {"rating", "levels", "spirits", "foci", "spells", "contacts", "grade", "qualities", "loss"}
  BY DEF IsField
<1>2. DOMAIN t = DOMAIN s BY DEF IsSheet
<1>3. t.career = s.career /\ t.baseline = s.baseline BY <1>1 DEF IsSheet
<1>4. \A g \in DOMAIN s : t[g] = IF g = f THEN v ELSE s[g] BY DEF IsSheet
<1> HIDE DEF t
<1>5. /\ t.rating \in [Attributes -> Int]
      /\ t.levels \in [Attributes -> Int]
  BY <1>1, <1>4 DEF IsSheet, IsField
<1>6. IsNumbered(t.spirits, Spirits) /\ IsNumbered(t.foci, Foci)
  BY <1>1, <1>4 DEF IsSheet, IsField
<1>7. t.spells \in Seq(Spells) /\ t.contacts \in Nat /\ t.loss \in Nat /\ t.grade \in 0..MaxGrade
  BY <1>1, <1>4 DEF IsSheet, IsField
<1>8. t.qualities \subseteq Qualities /\ IsFiniteSet(t.qualities)
  BY <1>1, <1>4 DEF IsSheet, IsField
<1>9. IsSheet(t) BY <1>2, <1>3, <1>5, <1>6, <1>7, <1>8 DEF IsSheet
<1> QED BY <1>3, <1>9 DEF t

Entering(s) == [s EXCEPT !.career = TRUE, !.baseline = Snapshot(s)]

LEMMA EnteringIs ==
  ASSUME NEW s, IsSheet(s)
  PROVE  LET t == Entering(s)
         IN  /\ IsSheet(t) /\ t.career /\ HasBaseline(t) /\ t.baseline = Snapshot(s)
             /\ t.rating = s.rating /\ t.levels = s.levels
             /\ t.spirits = s.spirits /\ t.foci = s.foci /\ t.spells = s.spells
             /\ t.contacts = s.contacts /\ t.grade = s.grade
             /\ t.qualities = s.qualities /\ t.loss = s.loss
<1> DEFINE b == Snapshot(s)
           t == Entering(s)
<1>1. /\ DOMAIN b = DOMAIN NoBaseline
      /\ b.rating = s.rating /\ b.qualities = s.qualities /\ b.items = DOMAIN s.spirits
      /\ b.drop = None /\ b.drops = None /\ b.kept = << >>
  BY DEF Snapshot, NoBaseline
<1>2. b.rating \in [Attributes -> Int] /\ b.rating # None
  BY <1>1, LedgerAssumption DEF IsSheet
<1>3. b.qualities \in SUBSET Qualities /\ IsFiniteSet(b.qualities) BY <1>1 DEF IsSheet
<1>4. b.items \in SUBSET Spirits BY <1>1 DEF IsSheet, IsNumbered
<1>5. /\ DOMAIN t = DOMAIN s /\ t.career /\ t.baseline = b
      /\ t.rating = s.rating /\ t.levels = s.levels
      /\ t.spirits = s.spirits /\ t.foci = s.foci /\ t.spells = s.spells
      /\ t.contacts = s.contacts /\ t.grade = s.grade
      /\ t.qualities = s.qualities /\ t.loss = s.loss
  BY DEF Entering, IsSheet
<1>6. DOMAIN b.kept = {} BY <1>1
<1> HIDE DEF b, t
<1>7. IsRecord(b) BY <1>1, <1>2, <1>3, <1>4, <1>6 DEF IsRecord
<1>8. t.career \in BOOLEAN /\ (~t.career => t.baseline = NoBaseline)
  <2>1. t.career = TRUE BY DEF t, Entering, IsSheet
  <2> QED BY <2>1
<1>9. IsSheet(t) BY <1>5, <1>7, <1>8 DEF IsSheet
<1>10. HasBaseline(t) BY <1>2, <1>5 DEF HasBaseline
<1> QED BY <1>5, <1>9, <1>10 DEF b, t

LEMMA LeavingIs ==
  ASSUME NEW s, IsSheet(s)
  PROVE  LET t == [s EXCEPT !.career = FALSE, !.baseline = NoBaseline]
         IN  IsSheet(t) /\ t.career = FALSE
<1> DEFINE t == [s EXCEPT !.career = FALSE, !.baseline = NoBaseline]
<1>1. /\ DOMAIN t = DOMAIN s /\ t.career = FALSE /\ t.baseline = NoBaseline
      /\ t.rating = s.rating /\ t.levels = s.levels
      /\ t.spirits = s.spirits /\ t.foci = s.foci /\ t.spells = s.spells
      /\ t.contacts = s.contacts /\ t.grade = s.grade
      /\ t.qualities = s.qualities /\ t.loss = s.loss
  BY DEF IsSheet
<1> HIDE DEF t
<1>2. IsSheet(t) BY <1>1, RecordOfNone DEF IsSheet
<1> QED BY <1>1, <1>2 DEF t

(* Every step is a pass over a sheet: the character with a change outside the
   record, the character entering career, or one leaving it. *)
Pass(s) ==
  /\ IsSheet(s)
  /\ ch' = Compute(s).ch /\ bill' = Compute(s).bill
  /\ patches' \in 0..MaxPatches
  /\ \/ s.career = ch.career /\ s.baseline = ch.baseline /\ entry' = entry
     \/ ~ch.career /\ s = Entering(ch) /\ entry' = Opening(ch, bill, "entered")
     \/ ch.career /\ ~s.career /\ entry' = None

LEMMA StepIsAPass ==
  ASSUME IsSheet(ch), patches \in 0..MaxPatches, Next PROVE \E s : Pass(s)
<1>0. MaxPatches \in Nat BY LedgerAssumption
<1>1. ASSUME NEW f, NEW v, IsField(f, v), Edit([ch EXCEPT ![f] = v])
      PROVE  \E s : Pass(s)
  <2> DEFINE s == [ch EXCEPT ![f] = v]
  <2>1. IsSheet(s) /\ s.career = ch.career /\ s.baseline = ch.baseline BY <1>1, FieldEdit
  <2>2. /\ ch' = Compute(s).ch /\ bill' = Compute(s).bill /\ entry' = entry
        /\ patches < MaxPatches /\ patches' = patches + 1
    BY <1>1 DEF Edit, Apply
  <2> HIDE DEF s
  <2>3. patches' \in 0..MaxPatches BY <1>0, <2>2
  <2>4. Pass(s) BY <2>1, <2>2, <2>3 DEF Pass
  <2> QED BY <2>4
<1>2. /\ ch.grade \in 0..MaxGrade /\ ch.loss \in Nat /\ MaxGrade \in Nat
      /\ ch.rating \in [Attributes -> Int] /\ ch.levels \in [Attributes -> Int]
  BY LedgerAssumption DEF IsSheet
<1>3. CASE \E a \in Attributes : RaiseAttribute(a) \/ LowerAttribute(a)
  <2>1. PICK a \in Attributes : RaiseAttribute(a) \/ LowerAttribute(a) BY <1>3
  <2>2. PICK n \in {ch.rating[a] + 1, ch.rating[a] - 1} :
          Edit([ch EXCEPT !["rating"] = [ch.rating EXCEPT ![a] = n]])
    BY <2>1, Zenon DEF RaiseAttribute, LowerAttribute
  <2>3. [ch.rating EXCEPT ![a] = n] \in [Attributes -> Int] BY <1>2, <2>2
  <2>4. IsField("rating", [ch.rating EXCEPT ![a] = n]) BY <2>3 DEF IsField
  <2> QED BY <1>1, <2>2, <2>4
<1>4. CASE \E a \in Attributes : \E n \in 0..Maximum[a] : SplitKarma(a, n)
  <2>1. PICK a \in Attributes : \E n \in 0..Maximum[a] : SplitKarma(a, n) BY <1>4
  <2>2. PICK n \in 0..Maximum[a] : SplitKarma(a, n) BY <2>1
  <2>3. Edit([ch EXCEPT !["levels"] = [ch.levels EXCEPT ![a] = n]]) BY <2>2 DEF SplitKarma
  <2>4. n \in Int BY <2>2
  <2>5. [ch.levels EXCEPT ![a] = n] \in [Attributes -> Int] BY <1>2, <2>4
  <2>6. IsField("levels", [ch.levels EXCEPT ![a] = n]) BY <2>5 DEF IsField
  <2> QED BY <1>1, <2>3, <2>6
<1>5. CASE \E i \in Spirits : (\E n \in 1..MaxServices : Summon(i, n)) \/ UseService(i) \/ Dismiss(i)
  <2>1. PICK i \in Spirits :
          (\E n \in 1..MaxServices : Summon(i, n)) \/ UseService(i) \/ Dismiss(i)
    BY <1>5
  <2>0. IsNumbered(ch.spirits, Spirits) BY DEF IsSheet
  <2>2. CASE \E n \in 1..MaxServices : Summon(i, n)
    <3>1. PICK n \in 1..MaxServices : Summon(i, n) BY <2>2
    <3>2. IsNumbered(With(ch.spirits, i, n), Spirits) BY <2>0, <3>1, RowAdded
    <3>3. IsField("spirits", With(ch.spirits, i, n)) BY <3>2 DEF IsField
    <3>4. Edit([ch EXCEPT !["spirits"] = With(ch.spirits, i, n)]) BY <3>1 DEF Summon
    <3> QED BY <1>1, <3>3, <3>4
  <2>3. CASE UseService(i)
    <3>1. i \in DOMAIN ch.spirits BY <2>3 DEF UseService
    <3>2. IsNumbered([ch.spirits EXCEPT ![i] = @ - 1], Spirits) BY <2>0, <3>1, RowChanged
    <3>3. IsField("spirits", [ch.spirits EXCEPT ![i] = @ - 1]) BY <3>2 DEF IsField
    <3>4. Edit([ch EXCEPT !["spirits"] = [ch.spirits EXCEPT ![i] = @ - 1]])
      BY <2>3 DEF UseService
    <3> QED BY <1>1, <3>3, <3>4
  <2>4. CASE Dismiss(i)
    <3>1. IsNumbered(Without(ch.spirits, i), Spirits) BY <2>0, RowDropped
    <3>2. IsField("spirits", Without(ch.spirits, i)) BY <3>1 DEF IsField
    <3>3. Edit([ch EXCEPT !["spirits"] = Without(ch.spirits, i)]) BY <2>4 DEF Dismiss
    <3> QED BY <1>1, <3>2, <3>3
  <2> QED BY <2>1, <2>2, <2>3, <2>4
<1>6. CASE \E i \in Foci : UnbindFocus(i) \/ \E f \in 1..MaxForce : BindFocus(i, f)
  <2>1. PICK i \in Foci : UnbindFocus(i) \/ \E f \in 1..MaxForce : BindFocus(i, f) BY <1>6
  <2>0. IsNumbered(ch.foci, Foci) BY DEF IsSheet
  <2>2. CASE UnbindFocus(i)
    <3>1. IsNumbered(Without(ch.foci, i), Foci) BY <2>0, RowDropped
    <3>2. IsField("foci", Without(ch.foci, i)) BY <3>1 DEF IsField
    <3>3. Edit([ch EXCEPT !["foci"] = Without(ch.foci, i)]) BY <2>2 DEF UnbindFocus
    <3> QED BY <1>1, <3>2, <3>3
  <2>3. CASE \E f \in 1..MaxForce : BindFocus(i, f)
    <3>1. PICK f \in 1..MaxForce : BindFocus(i, f) BY <2>3
    <3>2. IsNumbered(With(ch.foci, i, f), Foci) BY <2>0, <3>1, RowAdded
    <3>3. IsField("foci", With(ch.foci, i, f)) BY <3>2 DEF IsField
    <3>4. Edit([ch EXCEPT !["foci"] = With(ch.foci, i, f)]) BY <3>1 DEF BindFocus
    <3> QED BY <1>1, <3>3, <3>4
  <2> QED BY <2>1, <2>2, <2>3
<1>7. CASE \E i \in Spells : Learn(i) \/ Forget(i)
  <2>1. PICK i \in Spells : Learn(i) \/ Forget(i) BY <1>7
  <2>2. ch.spells \in Seq(Spells) BY DEF IsSheet
  <2>3. Append(ch.spells, i) \in Seq(Spells) BY <2>2
  <2>4. Picked(ch.spells, Spells \ {i}) \in Seq(Spells) BY <2>2, PickedProperties
  <2>5. CASE Learn(i)
    <3>1. IsField("spells", Append(ch.spells, i)) BY <2>3 DEF IsField
    <3>2. Edit([ch EXCEPT !["spells"] = Append(ch.spells, i)]) BY <2>5 DEF Learn
    <3> QED BY <1>1, <3>1, <3>2
  <2>6. CASE Forget(i)
    <3>1. IsField("spells", Picked(ch.spells, Spells \ {i})) BY <2>4 DEF IsField
    <3>2. Edit([ch EXCEPT !["spells"] = Picked(ch.spells, Spells \ {i})]) BY <2>6 DEF Forget
    <3> QED BY <1>1, <3>1, <3>2
  <2> QED BY <2>1, <2>5, <2>6
<1>8. CASE \E n \in 0..MaxContacts : SetContacts(n)
  <2>1. PICK n \in 0..MaxContacts : SetContacts(n) BY <1>8
  <2>2. IsField("contacts", n) BY <2>1, LedgerAssumption DEF IsField
  <2>3. Edit([ch EXCEPT !["contacts"] = n]) BY <2>1 DEF SetContacts
  <2> QED BY <1>1, <2>2, <2>3
<1>9. CASE Initiate \/ DropGrade
  <2>1. PICK v \in {ch.grade + 1, ch.grade - 1} :
          Edit([ch EXCEPT !["grade"] = v]) /\ (v = ch.grade + 1 => ch.grade < MaxGrade)
                                           /\ (v = ch.grade - 1 => ch.grade > 0)
    <3>1. CASE Initiate
      <4>1. Edit([ch EXCEPT !["grade"] = ch.grade + 1]) /\ ch.grade < MaxGrade
        BY <3>1, Zenon DEF Initiate
      <4>2. ch.grade + 1 # ch.grade - 1 BY <1>2
      <4> QED BY <4>1, <4>2
    <3>2. CASE DropGrade
      <4>1. Edit([ch EXCEPT !["grade"] = ch.grade - 1]) /\ ch.grade > 0
        BY <3>2, Zenon DEF DropGrade
      <4>2. ch.grade + 1 # ch.grade - 1 BY <1>2
      <4> QED BY <4>1, <4>2
    <3> QED BY <1>9, <3>1, <3>2
  <2>2. v \in 0..MaxGrade BY <1>2, <2>1
  <2>3. IsField("grade", v) BY <2>2 DEF IsField
  <2> QED BY <1>1, <2>1, <2>3
<1>10. CASE \E q \in Qualities : TakeQuality(q) \/ RemoveQuality(q)
  <2>1. PICK q \in Qualities : TakeQuality(q) \/ RemoveQuality(q) BY <1>10
  <2>0. ch.qualities \subseteq Qualities /\ IsFiniteSet(ch.qualities) BY DEF IsSheet
  <2>2. PICK v \in {ch.qualities \cup {q}, ch.qualities \ {q}} : Edit([ch EXCEPT !["qualities"] = v])
    BY <2>1 DEF TakeQuality, RemoveQuality
  <2>3. IsFiniteSet(v) BY <2>0, <2>2, FS_AddElement, FS_Subset
  <2>4. v \subseteq Qualities BY <2>0, <2>2
  <2>5. IsField("qualities", v) BY <2>3, <2>4 DEF IsField
  <2> QED BY <1>1, <2>2, <2>5
<1>11. CASE InstallWare \/ RemoveWare
  <2>1. CASE InstallWare
    <3>1. Edit([ch EXCEPT !["loss"] = ch.loss + 1]) BY <2>1, Zenon DEF InstallWare
    <3>2. IsField("loss", ch.loss + 1) BY <1>2 DEF IsField
    <3> QED BY <1>1, <3>1, <3>2
  <2>2. CASE RemoveWare
    <3>1. Edit([ch EXCEPT !["loss"] = ch.loss - 1]) /\ ch.loss > 0 BY <2>2, Zenon DEF RemoveWare
    <3>2. ch.loss - 1 \in Nat BY <1>2, <3>1
    <3>3. IsField("loss", ch.loss - 1) BY <3>2 DEF IsField
    <3> QED BY <1>1, <3>1, <3>3
  <2> QED BY <1>11, <2>1, <2>2
<1>12. CASE EnterCareer
  <2> DEFINE s == Entering(ch)
  <2>1. IsSheet(s) BY EnteringIs
  <2>2. /\ ~ch.career /\ ch' = Compute(s).ch /\ bill' = Compute(s).bill
        /\ entry' = Opening(ch, bill, "entered")
        /\ patches < MaxPatches /\ patches' = patches + 1
    BY <1>12 DEF EnterCareer, Apply, Entering
  <2>3. patches' \in 0..MaxPatches BY <1>0, <2>2
  <2>4. s = Entering(ch) OBVIOUS
  <2> HIDE DEF s
  <2>5. Pass(s) BY <2>1, <2>2, <2>3, <2>4 DEF Pass
  <2> QED BY <2>5
<1>13. CASE LeaveCareer
  <2> DEFINE s == [ch EXCEPT !.career = FALSE, !.baseline = NoBaseline]
  <2>1. IsSheet(s) /\ s.career = FALSE BY LeavingIs
  <2>2. /\ ch.career /\ ch' = Compute(s).ch /\ bill' = Compute(s).bill /\ entry' = None
        /\ patches < MaxPatches /\ patches' = patches + 1
    BY <1>13 DEF LeaveCareer, Apply
  <2> HIDE DEF s
  <2>3. patches' \in 0..MaxPatches BY <1>0, <2>2
  <2>4. Pass(s) BY <2>1, <2>2, <2>3 DEF Pass
  <2> QED BY <2>4
<1>14. CASE Reopen
  <2>1. Pass(ch) BY <1>14 DEF Pass, Reopen
  <2> QED BY <2>1
<1> QED BY <1>3, <1>4, <1>5, <1>6, <1>7, <1>8, <1>9, <1>10, <1>11, <1>12, <1>13, <1>14 DEF Next

-----------------------------------------------------------------------------
(* The invariant. *)

(* A character as a pass hands it back: fit, with a whole record in career and
   none outside it. *)
Whole(c) ==
  /\ IsSheet(c) /\ Fit(c)
  /\ c.career <=> HasBaseline(c)
  /\ c.career => c.baseline.drop \in Int /\ c.baseline.drops \in [1..Raised(c) -> Int]

LEMMA PassIsWhole == ASSUME NEW s, IsSheet(s) PROVE Whole(Handed(s))
<1> DEFINE c == Handed(s)
<1>1. IsSheet(c) /\ c.career = s.career /\ (s.career => HasBaseline(c)) BY HandedStage
<1>2. Fit(c) BY PassFits
<1>3. s.career => c.baseline.drop \in Int /\ c.baseline.drops \in [1..Raised(c) -> Int]
  BY PassDrops
<1> HIDE DEF c
<1>4. HasBaseline(c) => c.career BY <1>1, OnlyCareerRecords
<1>5. Whole(c) BY <1>1, <1>2, <1>3, <1>4 DEF Whole
<1> QED BY <1>5 DEF c

(* What a character that entered career here carries of that day: for every
   kind the rows held and their karma, and the qualities. *)
Carries(c, opening) ==
  /\ \A k \in Kinds :
       /\ k \in DOMAIN c.baseline.kept
       /\ DOMAIN c.baseline.kept[k] = opening.rows[k]
       /\ Total(c.baseline.kept[k]) = opening.bill.kinds[k]
  /\ c.baseline.qualities = opening.qualities
  /\ opening.qualities \in SUBSET Qualities /\ IsFiniteSet(opening.qualities)
  /\ opening.bill.qualities = QualityTable(opening.qualities)

LEMMA EnteringFits == ASSUME NEW s, Whole(s) PROVE Fit(Entering(s))
<1> DEFINE t == Entering(s)
<1>1. /\ t.baseline = Snapshot(s) /\ t.rating = s.rating /\ t.levels = s.levels
      /\ t.spirits = s.spirits /\ t.foci = s.foci /\ t.grade = s.grade /\ t.loss = s.loss
  BY EnteringIs DEF Whole
<1>2. t.baseline.rating = s.rating BY <1>1 DEF Snapshot
<1> HIDE DEF t
<1>3. \A a \in Attributes : Cap(t, a) = Cap(s, a) BY <1>1, SameCap
<1>4. Value(t, Magic) = Value(s, Magic) BY <1>1, SameValue
<1>5. \A a \in Attributes : t.rating[a] >= Lesser(t.baseline.rating[a], Cap(t, a))
  <2> TAKE a \in Attributes
  <2>1. s.rating[a] \in Int /\ Cap(s, a) \in Int BY CapType, SheetNumbers DEF Whole
  <2>2. t.rating[a] = s.rating[a] /\ t.baseline.rating[a] = s.rating[a] /\ Cap(t, a) = Cap(s, a)
    BY <1>1, <1>2, <1>3
  <2> QED BY <2>1, <2>2 DEF Lesser
<1>6. Fit(s) BY DEF Whole
<1>7. Fit(t) BY <1>1, <1>3, <1>4, <1>5, <1>6 DEF Fit
<1> QED BY <1>7 DEF t

(* The pass that starts career hands back the same holdings, and a record of
   them with every kind at the price of that day. *)
LEMMA EnteringPass ==
  ASSUME NEW s, Whole(s), ~s.career
  PROVE  LET c == Handed(Entering(s))
         IN  /\ c.rating = s.rating /\ c.levels = s.levels /\ c.grade = s.grade
             /\ c.loss = s.loss /\ c.qualities = s.qualities
             /\ c.baseline.rating = s.rating /\ c.baseline.qualities = s.qualities
             /\ \A k \in Kinds :
                  /\ KeptKarma(c, k) = KeptKarma(s, k)
                  /\ k \in DOMAIN c.baseline.kept
                  /\ DOMAIN c.baseline.kept[k] = DOMAIN Rows(s, k)
                  /\ Total(c.baseline.kept[k]) = KeptKarma(s, k)
<1> DEFINE e == Entering(s)
           t == Settled(e)
           c == Handed(e)
<1>1. /\ IsSheet(e) /\ e.career /\ HasBaseline(e) /\ e.baseline = Snapshot(s)
      /\ e.rating = s.rating /\ e.levels = s.levels
      /\ e.spirits = s.spirits /\ e.foci = s.foci /\ e.spells = s.spells
      /\ e.contacts = s.contacts /\ e.grade = s.grade
      /\ e.qualities = s.qualities /\ e.loss = s.loss
  BY EnteringIs DEF Whole
<1>2. SameHoldings(e, t) /\ t.baseline = e.baseline
  <2>1. Fit(e) BY EnteringFits
  <2> HIDE DEF e
  <2> QED BY <1>1, <2>1, SettledOnce
<1>3. SameHoldings(t, c) BY <1>1, HandedStage
<1>4. /\ c.baseline.rating = e.baseline.rating /\ c.baseline.qualities = e.baseline.qualities
      /\ c.baseline.kept = Recorded(e.baseline.kept, Kinds, t)
  BY <1>1, PassKeepsRecord
<1>5. \A k \in Kinds : KeptKarma(c, k) = KeptKarma(t, k) BY <1>1, PassKinds
<1> HIDE DEF e, t, c
<1>6. /\ e.baseline.rating = s.rating /\ e.baseline.qualities = s.qualities
      /\ e.baseline.items = DOMAIN s.spirits /\ e.baseline.kept = << >>
  BY <1>1 DEF Snapshot
<1>7. s.baseline = NoBaseline BY DEF Whole, IsSheet
<1>8. s.baseline.items = None /\ s.baseline.kept = << >> BY <1>7 DEF NoBaseline
<1>9. SameGoods(s, t) /\ SameItems(s, t)
  BY <1>1, <1>2, <1>6, <1>8 DEF SameGoods, SameItems, SameHoldings
<1>10. \A k \in Kinds : Rows(t, k) = Rows(s, k) /\ Priced(t, k) = Priced(s, k)
  BY <1>9, SameRowsOfGoods
<1>11. DOMAIN << >> = {} OBVIOUS
<1>12. ASSUME NEW k \in Kinds
       PROVE  /\ KeptKarma(c, k) = KeptKarma(s, k)
              /\ k \in DOMAIN c.baseline.kept
              /\ DOMAIN c.baseline.kept[k] = DOMAIN Rows(s, k)
              /\ Total(c.baseline.kept[k]) = KeptKarma(s, k)
  <2>1. KeptKarma(s, k) = Total(Priced(s, k)) BY <1>8, <1>11 DEF KeptKarma
  <2>2. KeptKarma(t, k) = Total(Priced(t, k)) BY <1>2, <1>6, <1>11 DEF KeptKarma
  <2>3. k \in DOMAIN c.baseline.kept /\ c.baseline.kept[k] = Priced(t, k)
    BY <1>4, <1>6, <1>11 DEF Recorded
  <2>4. DOMAIN Priced(s, k) = DOMAIN Rows(s, k) BY DEF Priced
  <2>5. KeptKarma(c, k) = KeptKarma(t, k) BY <1>5
  <2>6. Priced(t, k) = Priced(s, k) BY <1>10
  <2> QED BY <2>1, <2>2, <2>3, <2>4, <2>5, <2>6
<1>13. /\ c.rating = s.rating /\ c.levels = s.levels /\ c.grade = s.grade
       /\ c.loss = s.loss /\ c.qualities = s.qualities
  BY <1>1, <1>2, <1>3 DEF SameHoldings
<1>14. c.baseline.rating = s.rating /\ c.baseline.qualities = s.qualities BY <1>4, <1>6
<1> QED BY <1>12, <1>13, <1>14 DEF c, e

Entered == entry # None /\ entry.how = "entered"

(* The inductive invariant: the character is whole, the bill is the bill of
   that character, and the record is the one of the day career began. *)
LInv ==
  /\ Whole(ch)
  /\ bill = BillOf(ch)
  /\ entry # None => ch.career
  /\ Entered => Carries(ch, entry)
  /\ patches \in 0..MaxPatches

(* A pass over a sheet with the record of a character that carries it. *)
LEMMA PassCarriesOn ==
  ASSUME NEW s, IsSheet(s), HasBaseline(s), NEW b, s.baseline = b,
         NEW c, b = c.baseline, NEW opening, Carries(c, opening)
  PROVE  Carries(Handed(s), opening)
<1> DEFINE d == Handed(s)
<1>1. /\ d.baseline.kept = Recorded(s.baseline.kept, Kinds, Settled(s))
      /\ d.baseline.qualities = s.baseline.qualities
  BY PassKeepsRecord
<1> HIDE DEF d
<1>2. \A k \in Kinds : k \in DOMAIN d.baseline.kept /\ d.baseline.kept[k] = c.baseline.kept[k]
  BY <1>1 DEF Recorded, Carries
<1>3. Carries(d, opening) BY <1>1, <1>2 DEF Carries
<1> QED BY <1>3 DEF d

LEMMA NextLInv == LInv /\ [Next]_vars => LInv'
<1> SUFFICES ASSUME LInv, [Next]_vars PROVE LInv' OBVIOUS
<1>1. CASE Next
  <2>1. PICK s : Pass(s) BY <1>1, StepIsAPass DEF LInv, Whole
  <2> DEFINE c == Handed(s)
  <2>2. IsSheet(s) /\ ch' = c /\ bill' = Compute(s).bill /\ patches' \in 0..MaxPatches
    BY <2>1, ComputeIs DEF Pass
  <2>3. Whole(c) BY <2>2, PassIsWhole
  <2>4. bill' = BillOf(c) BY <2>2, ComputeIs, BillIsOfCharacter
  <2>5. c.career = s.career BY <2>2, HandedStage
  <2>6. /\ entry' # None => c.career
        /\ (entry' # None /\ entry'.how = "entered") => Carries(c, entry')
    <3>1. CASE s.career = ch.career /\ s.baseline = ch.baseline /\ entry' = entry
      <4>1. entry' # None => c.career BY <2>5, <3>1 DEF LInv
      <4>2. ASSUME entry' # None, entry'.how = "entered" PROVE Carries(c, entry')
        <5>1. Carries(ch, entry) /\ ch.career BY <3>1, <4>2 DEF LInv, Entered
        <5>2. HasBaseline(s) BY <3>1, <5>1 DEF LInv, Whole, HasBaseline
        <5>3. Carries(Handed(s), entry) BY <2>2, <3>1, <5>1, <5>2, PassCarriesOn
        <5> QED BY <3>1, <5>3
      <4> QED BY <4>1, <4>2
    <3>2. CASE ~ch.career /\ s = Entering(ch) /\ entry' = Opening(ch, bill, "entered")
      <4>1. Whole(ch) /\ IsSheet(ch) /\ bill = BillOf(ch) BY DEF LInv, Whole
      <4>2. s.career BY <3>2, <4>1, EnteringIs
      <4>3. /\ c.baseline.qualities = ch.qualities
            /\ \A k \in Kinds :
                 /\ k \in DOMAIN c.baseline.kept
                 /\ DOMAIN c.baseline.kept[k] = DOMAIN Rows(ch, k)
                 /\ Total(c.baseline.kept[k]) = KeptKarma(ch, k)
        BY <3>2, <4>1, EnteringPass
      <4> DEFINE o == Opening(ch, bill, "entered")
      <4>4. /\ o.qualities = ch.qualities /\ o.bill = bill
            /\ \A k \in Kinds : o.rows[k] = DOMAIN Rows(ch, k)
        BY DEF Opening
      <4>5. \A k \in Kinds : bill.kinds[k] = KeptKarma(ch, k) BY <4>1 DEF BillOf
      <4>6. bill.qualities = QualityTable(ch.qualities)
        <5>1. CareerQualityKarma(ch) = 0 BY <3>2 DEF CareerQualityKarma
        <5>2. bill.qualities = QualityTable(ch.qualities) + CareerQualityKarma(ch)
          BY <4>1 DEF BillOf
        <5>3. QualityTable(ch.qualities) \in Int
          <6> DEFINE f == [q \in ch.qualities |-> QualityKarma[q]]
          <6>1. IsFiniteSet(DOMAIN f) /\ \A q \in DOMAIN f : f[q] \in Int
            BY <4>1, LedgerAssumption DEF IsSheet
          <6> HIDE DEF f
          <6>2. Total(f) \in Int BY <6>1, TotalIsInt
          <6> QED BY <6>2 DEF f, QualityTable
        <5> QED BY <5>1, <5>2, <5>3
      <4>7. ch.qualities \in SUBSET Qualities /\ IsFiniteSet(ch.qualities)
        BY <4>1 DEF IsSheet
      <4> HIDE DEF c, o
      <4>8. Carries(c, o) BY <4>3, <4>4, <4>5, <4>6, <4>7 DEF Carries
      <4> QED BY <2>5, <3>2, <4>2, <4>8 DEF o
    <3>3. CASE ch.career /\ ~s.career /\ entry' = None BY <3>3
    <3> QED BY <2>1, <3>1, <3>2, <3>3 DEF Pass
  <2> HIDE DEF c
  <2>7. Whole(ch)' BY <2>2, <2>3
  <2>8. (bill = BillOf(ch))' BY <2>2, <2>4
  <2>9. (Entered => Carries(ch, entry))'
    BY <2>2, <2>6 DEF Entered, Carries
  <2> QED BY <2>2, <2>6, <2>7, <2>8, <2>9 DEF LInv
<1>2. CASE UNCHANGED vars
  <2>1. ch' = ch /\ bill' = bill /\ entry' = entry /\ patches' = patches BY <1>2 DEF vars
  <2>2. Whole(ch)' BY <2>1 DEF LInv
  <2>3. (bill = BillOf(ch))' BY <2>1 DEF LInv
  <2>4. (Entered => Carries(ch, entry))' BY <2>1 DEF LInv, Entered, Carries
  <2> QED BY <2>1, <2>2, <2>3, <2>4 DEF LInv
<1> QED BY <1>1, <1>2

LEMMA InitLInv == Init => LInv
<1> SUFFICES ASSUME Init PROVE LInv OBVIOUS
<1>1. PICK s \in Sheets :
        /\ ch = Compute(s).ch /\ bill = Compute(s).bill /\ patches = 0
        /\ entry = IF s.career THEN Opening(Compute(s).ch, Compute(s).bill, "arrived") ELSE None
  BY DEF Init
<1>2. IsSheet(s) BY <1>1, SheetsAssumption
<1>3. Whole(ch) /\ bill = BillOf(ch)
  <2>1. ch = Handed(s) BY <1>1, ComputeIs
  <2>2. Whole(ch) BY <1>2, <2>1, PassIsWhole
  <2>3. bill = BillOf(ch) BY <1>1, <1>2, BillIsOfCharacter
  <2> QED BY <2>2, <2>3
<1>4. ch.career = s.career
  <2>1. ch = Handed(s) BY <1>1, ComputeIs
  <2> QED BY <1>2, <2>1, HandedStage
<1>5. entry # None => ch.career BY <1>1, <1>4
<1>6. ~Entered
  <2>1. Opening(Compute(s).ch, Compute(s).bill, "arrived").how = "arrived" BY DEF Opening
  <2>2. "arrived" # "entered" OBVIOUS
  <2> QED BY <1>1, <2>1, <2>2 DEF Entered
<1>7. patches \in 0..MaxPatches BY <1>1, LedgerAssumption
<1> QED BY <1>3, <1>5, <1>6, <1>7 DEF LInv

LEMMA AlwaysLInv == Spec => []LInv
BY InitLInv, NextLInv, PTL DEF Spec

-----------------------------------------------------------------------------
(* The theorems. *)

(* compute_state, for every starting character, every metatype and any
   sequence of patches: no rating is outside what the metatype, the talent and
   the grade allow, no karma level outside its rating, no focus over Magic, and
   a career character carries a baseline exactly as long as it is one. *)
THEOREM LedgerTypeOK == Spec => []TypeOK
<1>1. LInv => TypeOK
  <2> SUFFICES ASSUME LInv PROVE TypeOK OBVIOUS
  <2>1. IsSheet(ch) /\ Fit(ch) /\ (ch.career <=> HasBaseline(ch)) BY DEF LInv, Whole
  <2>2. DOMAIN ch.spirits \subseteq Spirits /\ DOMAIN ch.foci \subseteq Foci
    BY <2>1 DEF IsSheet, IsNumbered
  <2>3. ch.career \in BOOLEAN /\ ch.qualities \subseteq Qualities BY <2>1 DEF IsSheet
  <2>4. (entry # None => ch.career) /\ patches \in 0..MaxPatches BY DEF LInv
  <2> QED BY <2>1, <2>2, <2>3, <2>4 DEF TypeOK, Fit
<1> QED BY <1>1, AlwaysLInv, PTL

(* hold_career_floors, likewise: no rating is under the one career began with,
   but for a maximum that itself came down (a dropped initiate grade). *)
THEOREM LedgerFloorsHold == Spec => []FloorsHold
<1>1. LInv => FloorsHold BY DEF LInv, Whole, Fit, FloorsHold
<1> QED BY <1>1, AlwaysLInv, PTL

(* kept_karma, for every order in which rows are bought, deleted, bought again
   and undone: what a kind costs is what it cost when career began, plus the
   career price of the rows held now and not then. *)
THEOREM LedgerAlwaysBalances == Spec => []LedgerBalances
<1>1. LInv => LedgerBalances
  <2> SUFFICES ASSUME LInv, Entered, NEW k \in Kinds
               PROVE  bill.kinds[k] =
                        entry.bill.kinds[k]
                          + Total([r \in DOMAIN Rows(ch, k) \ entry.rows[k] |-> CareerPrice(k, r)])
    BY DEF LedgerBalances, Entered
  <2>1. /\ k \in DOMAIN ch.baseline.kept
        /\ DOMAIN ch.baseline.kept[k] = entry.rows[k]
        /\ Total(ch.baseline.kept[k]) = entry.bill.kinds[k]
    BY DEF LInv, Carries
  <2>2. bill.kinds[k] = KeptKarma(ch, k) BY DEF LInv, BillOf
  <2>3. IsTable(Rows(ch, k), k) BY RowsAreTables DEF LInv, Whole
  <2>4. [r \in DOMAIN Rows(ch, k) \ entry.rows[k] |-> Rows(ch, k)[r].career]
          = [r \in DOMAIN Rows(ch, k) \ entry.rows[k] |-> CareerPrice(k, r)]
    BY <2>3 DEF IsTable
  <2>5. KeptKarma(ch, k) =
          Total(ch.baseline.kept[k])
            + Total([r \in DOMAIN Rows(ch, k) \ entry.rows[k] |-> Rows(ch, k)[r].career])
    BY <2>1 DEF KeptKarma
  <2> QED BY <2>1, <2>2, <2>4, <2>5
<1> QED BY <1>1, AlwaysLInv, PTL

(* Two characters with the same holdings pay the same for their levels. *)
LEMMA SameLevelsKarma ==
  ASSUME NEW s, NEW t, t.rating = s.rating, t.levels = s.levels, t.grade = s.grade, t.loss = s.loss
  PROVE  AttributeLevelsKarma(t) = AttributeLevelsKarma(s)
<1>1. \A a \in Attributes : MinDrop(t, a) = MinDrop(s, a) BY SameValue
<1> QED BY <1>1 DEF AttributeLevelsKarma

(* compute_state over what a pass handed back, the state an autosave, an
   import or a session start opens: it comes to the same sum. *)
THEOREM LedgerReopeningIsFree == Spec => []ReopeningIsFree
<1>1. LInv => ReopeningIsFree
  <2> SUFFICES ASSUME LInv PROVE Compute(ch).bill = bill BY DEF ReopeningIsFree
  <2> DEFINE t == Settled(ch)
             c == Handed(ch)
  <2>1. Whole(ch) /\ IsSheet(ch) /\ Fit(ch) /\ bill = BillOf(ch) BY DEF LInv, Whole
  <2>2. SameHoldings(ch, t) /\ t.baseline = ch.baseline BY <2>1, SettledOnce
  <2>3. SameHoldings(t, c) BY <2>1, HandedStage
  <2>4. Compute(ch).bill = BillOf(c) BY <2>1, ComputeIs, BillIsOfCharacter
  <2>5. \A k \in Kinds : KeptKarma(c, k) = KeptKarma(t, k) BY <2>1, PassKinds
  <2>6. ch.career =>
          /\ c.baseline.rating = ch.baseline.rating
          /\ c.baseline.qualities = ch.baseline.qualities
    BY <2>1, PassKeepsRecord DEF Whole
  <2>7. ch.career => c.baseline.drops \in [1..Raised(c) -> Int]
                     /\ (ch.baseline.drops \in [1..Raised(c) -> Int] =>
                           c.baseline.drops = ch.baseline.drops)
    BY <2>1, PassDrops DEF Whole
  <2> HIDE DEF t, c
  <2>8. SameHoldings(ch, c) BY <2>2, <2>3, SameHoldingsIsTransitive
  <2>9. ch.career => Raised(c) = Raised(ch) BY <2>6, <2>8 DEF Raised, SameHoldings
  <2>10. ch.career => c.baseline.drops = ch.baseline.drops BY <2>1, <2>7, <2>9 DEF Whole
  <2>11. \A k \in Kinds : KeptKarma(c, k) = KeptKarma(ch, k)
    <3> TAKE k \in Kinds
    <3>1. Rows(t, k) = Rows(ch, k) BY <2>2, SameRows DEF SameItems
    <3>2. KeptKarma(t, k) = KeptKarma(ch, k) BY <2>2, <3>1, KeptKarmaOfSameRecord
    <3> QED BY <2>5, <3>2
  <2>12. AttributeLevelsKarma(c) = AttributeLevelsKarma(ch)
    BY <2>8, SameLevelsKarma DEF SameHoldings
  <2>13. CareerRaiseKarma(c) = CareerRaiseKarma(ch)
    BY <2>6, <2>8, <2>10 DEF CareerRaiseKarma, SameHoldings
  <2>14. CareerQualityKarma(c) = CareerQualityKarma(ch) /\ c.qualities = ch.qualities
    BY <2>6, <2>8 DEF CareerQualityKarma, SameHoldings
  <2>15. BillOf(c) = BillOf(ch) BY <2>11, <2>12, <2>13, <2>14 DEF BillOf
  <2> QED BY <2>1, <2>4, <2>15
<1> QED BY <1>1, AlwaysLInv, PTL

(* What a quality adds to or takes from the table price, and the price the
   rules give it. *)
TakenKarma == [q \in Qualities |-> IF QualityKarma[q] > 0
                                   THEN CareerMult * QualityKarma[q] - QualityKarma[q]
                                   ELSE -QualityKarma[q]]
GoneKarma  == [q \in Qualities |-> IF QualityKarma[q] < 0
                                   THEN -CareerMult * QualityKarma[q] + QualityKarma[q]
                                   ELSE QualityKarma[q]]
TwiceKarma == [q \in Qualities |-> Greater(0, 2 * QualityKarma[q])]
BackKarma  == [q \in Qualities |-> Greater(0, -2 * QualityKarma[q])]

LEMMA QualitiesAddUp ==
  ASSUME NEW Q \in SUBSET Qualities, NEW O \in SUBSET Qualities, IsFiniteSet(Q), IsFiniteSet(O)
  PROVE  SumOn(QualityKarma, Q) + (SumOn(TakenKarma, Q \ O) + SumOn(GoneKarma, O \ Q))
           = SumOn(QualityKarma, O) + SumOn(TwiceKarma, Q \ O) + SumOn(BackKarma, O \ Q)
<1> DEFINE K == QualityKarma
           B == Q \cap O
           P == Q \ O
           M == O \ Q
<1>1. \A q \in Qualities : K[q] \in Int BY LedgerAssumption
<1>2. \A q \in Qualities :
        /\ TakenKarma[q] \in Int /\ GoneKarma[q] \in Int /\ BackKarma[q] \in Int
        /\ TwiceKarma[q] = K[q] + TakenKarma[q]
        /\ GoneKarma[q] = K[q] + BackKarma[q]
  BY <1>1 DEF TakenKarma, GoneKarma, TwiceKarma, BackKarma, CareerMult, Greater
<1>3. IsFiniteSet(B) /\ IsFiniteSet(P) /\ IsFiniteSet(M) BY FS_Subset, FS_Intersection
<1>4. Q = B \cup P /\ B \cap P = {} /\ O = B \cup M /\ B \cap M = {} OBVIOUS
<1>5. B \subseteq Qualities /\ P \subseteq Qualities /\ M \subseteq Qualities OBVIOUS
<1>6. Q \ O = P /\ O \ Q = M OBVIOUS
<1> HIDE DEF K, B, P, M
<1>7. SumOn(K, Q) = SumOn(K, B) + SumOn(K, P)
  <2>1. \A q \in B \cup P : K[q] \in Int BY <1>1, <1>5
  <2>2. SumOn(K, B \cup P) = SumOn(K, B) + SumOn(K, P) BY ONLY <1>3, <1>4, <2>1, SumOfParts
  <2> QED BY <1>4, <2>2
<1>8. SumOn(K, O) = SumOn(K, B) + SumOn(K, M)
  <2>1. \A q \in B \cup M : K[q] \in Int BY <1>1, <1>5
  <2>2. SumOn(K, B \cup M) = SumOn(K, B) + SumOn(K, M) BY ONLY <1>3, <1>4, <2>1, SumOfParts
  <2> QED BY <1>4, <2>2
<1>9. SumOn(TwiceKarma, P) = SumOn(K, P) + SumOn(TakenKarma, P)
  <2>1. \A q \in P : K[q] \in Int /\ TakenKarma[q] \in Int /\ TwiceKarma[q] = K[q] + TakenKarma[q]
    BY <1>1, <1>2, <1>5
  <2> QED BY ONLY <1>3, <2>1, SumOfSums
<1>10. SumOn(GoneKarma, M) = SumOn(K, M) + SumOn(BackKarma, M)
  <2>1. \A q \in M : K[q] \in Int /\ BackKarma[q] \in Int /\ GoneKarma[q] = K[q] + BackKarma[q]
    BY <1>1, <1>2, <1>5
  <2> QED BY ONLY <1>3, <2>1, SumOfSums
<1>11. SumOn(K, B) \in Int
  <2>1. \A q \in B : K[q] \in Int BY <1>1, <1>5
  <2> QED BY ONLY <1>3, <2>1, SumIsInt
<1>12. SumOn(K, P) \in Int
  <2>1. \A q \in P : K[q] \in Int BY <1>1, <1>5
  <2> QED BY ONLY <1>3, <2>1, SumIsInt
<1>13. SumOn(K, M) \in Int
  <2>1. \A q \in M : K[q] \in Int BY <1>1, <1>5
  <2> QED BY ONLY <1>3, <2>1, SumIsInt
<1>14. SumOn(TakenKarma, P) \in Int
  <2>1. \A q \in P : TakenKarma[q] \in Int BY <1>2, <1>5
  <2> QED BY ONLY <1>3, <2>1, SumIsInt
<1>15. SumOn(BackKarma, M) \in Int
  <2>1. \A q \in M : BackKarma[q] \in Int BY <1>2, <1>5
  <2> QED BY ONLY <1>3, <2>1, SumIsInt
<1>16. SumOn(K, Q) + (SumOn(TakenKarma, P) + SumOn(GoneKarma, M))
         = SumOn(K, O) + SumOn(TwiceKarma, P) + SumOn(BackKarma, M)
  BY ONLY <1>7, <1>8, <1>9, <1>10, <1>11, <1>12, <1>13, <1>14, <1>15
<1> QED BY <1>6, <1>16 DEF K

(* A sum of a function written for some of the qualities. *)
LEMMA QualitySums ==
  ASSUME NEW S \in SUBSET Qualities, IsFiniteSet(S)
  PROVE  /\ QualityTable(S) = SumOn(QualityKarma, S)
         /\ Total([q \in S |-> TakenKarma[q]]) = SumOn(TakenKarma, S)
         /\ Total([q \in S |-> GoneKarma[q]]) = SumOn(GoneKarma, S)
         /\ Total([q \in S |-> TwiceKarma[q]]) = SumOn(TwiceKarma, S)
         /\ Total([q \in S |-> BackKarma[q]]) = SumOn(BackKarma, S)
<1>1. \A q \in Qualities : QualityKarma[q] \in Int BY LedgerAssumption
<1>2. \A q \in Qualities : /\ TakenKarma[q] \in Int /\ GoneKarma[q] \in Int
                           /\ TwiceKarma[q] \in Int /\ BackKarma[q] \in Int
  BY <1>1 DEF TakenKarma, GoneKarma, TwiceKarma, BackKarma, CareerMult, Greater
<1>3. ASSUME NEW g, \A q \in Qualities : g[q] \in Int
      PROVE  Total([q \in S |-> g[q]]) = SumOn(g, S)
  <2> DEFINE f == [q \in S |-> g[q]]
  <2>1. DOMAIN f = S /\ \A q \in S : f[q] \in Int /\ g[q] = f[q] BY <1>3
  <2> HIDE DEF f
  <2>2. Total(f) = SumOn(g, S) BY <2>1, TotalIsSumOn
  <2> QED BY <2>2 DEF f
<1>4. QualityTable(S) = SumOn(QualityKarma, S) BY <1>1, <1>3 DEF QualityTable
<1>5. Total([q \in S |-> TakenKarma[q]]) = SumOn(TakenKarma, S) BY <1>2, <1>3
<1>6. Total([q \in S |-> GoneKarma[q]]) = SumOn(GoneKarma, S) BY <1>2, <1>3
<1>7. Total([q \in S |-> TwiceKarma[q]]) = SumOn(TwiceKarma, S) BY <1>2, <1>3
<1>8. Total([q \in S |-> BackKarma[q]]) = SumOn(BackKarma, S) BY <1>2, <1>3
<1> QED BY <1>4, <1>5, <1>6, <1>7, <1>8

(* career_quality_karma, for every order in which qualities are taken, bought
   off and taken again: what qualities cost is what they cost when career
   began, twice the positive ones taken since, twice the negative ones gone. *)
THEOREM LedgerQualitiesBalance == Spec => []QualitiesBalance
<1>1. LInv => QualitiesBalance
  <2> DEFINE Q == ch.qualities
             O == entry.qualities
  <2> SUFFICES ASSUME LInv, Entered
               PROVE  bill.qualities =
                        entry.bill.qualities
                          + Total([q \in Q \ O |-> Greater(0, 2 * QualityKarma[q])])
                          + Total([q \in O \ Q |-> Greater(0, -2 * QualityKarma[q])])
    BY DEF QualitiesBalance, Entered
  <2>1. /\ Q \in SUBSET Qualities /\ IsFiniteSet(Q) /\ ch.career
    BY DEF LInv, Whole, IsSheet, Entered
  <2>2. /\ O \in SUBSET Qualities /\ IsFiniteSet(O) /\ ch.baseline.qualities = O
        /\ entry.bill.qualities = QualityTable(O)
    BY DEF LInv, Carries
  <2>3. O # None BY <2>2, LedgerAssumption
  <2>4. bill.qualities = QualityTable(Q) + CareerQualityKarma(ch) BY DEF LInv, BillOf
  <2> HIDE DEF Q, O
  <2>5. Q \ O \in SUBSET Qualities /\ O \ Q \in SUBSET Qualities BY <2>1, <2>2
  <2>6. IsFiniteSet(Q \ O) /\ IsFiniteSet(O \ Q) BY <2>1, <2>2, FS_Subset
  <2>7. CareerQualityKarma(ch) = Total([q \in Q \ O |-> TakenKarma[q]])
                                   + Total([q \in O \ Q |-> GoneKarma[q]])
    <3>1. [q \in Q \ O |-> TakenKarma[q]]
            = [q \in Q \ O |-> IF QualityKarma[q] > 0
                               THEN CareerMult * QualityKarma[q] - QualityKarma[q]
                               ELSE -QualityKarma[q]]
      BY <2>5 DEF TakenKarma
    <3>2. [q \in O \ Q |-> GoneKarma[q]]
            = [q \in O \ Q |-> IF QualityKarma[q] < 0
                               THEN -CareerMult * QualityKarma[q] + QualityKarma[q]
                               ELSE QualityKarma[q]]
      BY <2>5 DEF GoneKarma
    <3> QED BY <2>1, <2>2, <2>3, <3>1, <3>2 DEF CareerQualityKarma, Q
  <2>8. CareerQualityKarma(ch) = SumOn(TakenKarma, Q \ O) + SumOn(GoneKarma, O \ Q)
    BY <2>5, <2>6, <2>7, QualitySums
  <2>9. [q \in Q \ O |-> Greater(0, 2 * QualityKarma[q])] = [q \in Q \ O |-> TwiceKarma[q]]
    BY <2>5 DEF TwiceKarma
  <2>10. [q \in O \ Q |-> Greater(0, -2 * QualityKarma[q])] = [q \in O \ Q |-> BackKarma[q]]
    BY <2>5 DEF BackKarma
  <2>11. Total([q \in Q \ O |-> Greater(0, 2 * QualityKarma[q])]) = SumOn(TwiceKarma, Q \ O)
    BY <2>5, <2>6, <2>9, QualitySums
  <2>12. Total([q \in O \ Q |-> Greater(0, -2 * QualityKarma[q])]) = SumOn(BackKarma, O \ Q)
    BY <2>5, <2>6, <2>10, QualitySums
  <2>13. QualityTable(Q) = SumOn(QualityKarma, Q) /\ QualityTable(O) = SumOn(QualityKarma, O)
    BY <2>1, <2>2, QualitySums
  <2>14. SumOn(QualityKarma, Q) + (SumOn(TakenKarma, Q \ O) + SumOn(GoneKarma, O \ Q))
           = SumOn(QualityKarma, O) + SumOn(TwiceKarma, Q \ O) + SumOn(BackKarma, O \ Q)
    BY <2>1, <2>2, QualitiesAddUp
  <2> QED BY <2>2, <2>4, <2>8, <2>11, <2>12, <2>13, <2>14
<1> QED BY <1>1, AlwaysLInv, PTL

(* A step from career into career is a pass over a sheet with the same record. *)
LEMMA CareerStep ==
  ASSUME LInv, Next, ch.career, ch'.career
  PROVE  \E s : /\ IsSheet(s) /\ s.career /\ HasBaseline(s) /\ s.baseline = ch.baseline
                /\ ch' = Handed(s)
<1>1. PICK s : Pass(s) BY StepIsAPass DEF LInv, Whole
<1>2. IsSheet(s) /\ ch' = Handed(s) BY <1>1, ComputeIs DEF Pass
<1>3. s.career BY <1>2, HandedStage
<1>4. s.baseline = ch.baseline BY <1>1, <1>3 DEF Pass
<1>5. HasBaseline(s) BY <1>4 DEF LInv, Whole, HasBaseline
<1> QED BY <1>2, <1>3, <1>4, <1>5

(* kept_karma and snapshot_career_baseline: what was recorded when career
   began, or when a kind was first priced, is never written again. *)
THEOREM LedgerRecordIsKept == Spec => RecordIsKept
<1> DEFINE Kept ==
      (ch.career /\ ch'.career) =>
        /\ \A f \in {"rating", "qualities", "items", "drop"} : ch'.baseline[f] = ch.baseline[f]
        /\ \A k \in DOMAIN ch.baseline.kept :
             k \in DOMAIN ch'.baseline.kept /\ ch'.baseline.kept[k] = ch.baseline.kept[k]
<1>1. LInv /\ Next => Kept
  <2> SUFFICES ASSUME LInv, Next, ch.career, ch'.career PROVE Kept OBVIOUS
  <2>1. PICK s : /\ IsSheet(s) /\ s.career /\ HasBaseline(s) /\ s.baseline = ch.baseline
                 /\ ch' = Handed(s)
    BY CareerStep
  <2> DEFINE c == Handed(s)
             t == Settled(s)
  <2>2. s.baseline.drop # None BY <2>1, LedgerAssumption DEF LInv, Whole
  <2>3. /\ \A f \in {"rating", "qualities", "items"} : c.baseline[f] = s.baseline[f]
        /\ c.baseline.drop = s.baseline.drop
        /\ c.baseline.kept = Recorded(s.baseline.kept, Kinds, t)
    BY <2>1, <2>2, PassKeepsRecord
  <2> HIDE DEF c, t
  <2>4. \A k \in DOMAIN s.baseline.kept :
          k \in DOMAIN c.baseline.kept /\ c.baseline.kept[k] = s.baseline.kept[k]
    BY <2>3 DEF Recorded
  <2>5. ch' = c BY <2>1 DEF c
  <2> QED BY <2>1, <2>3, <2>4, <2>5
<1>2. LInv /\ [Next]_vars => [Kept]_vars BY <1>1
<1> QED BY <1>2, AlwaysLInv, PTL DEF Spec, RecordIsKept

-----------------------------------------------------------------------------
(* What raises cost.                                                         *)

LevelPrice == [l \in Int |-> KarmaAttribute * l]

Heights(from, to) == Greater(0, from) + 1 .. Greater(0, to)

LEMMA RaiseCostIsSum ==
  ASSUME NEW x \in Int, NEW y \in Int
  PROVE  /\ RaiseCost(x, y) = SumOn(LevelPrice, Heights(x, y))
         /\ RaiseCost(x, y) \in Int
         /\ IsFiniteSet(Heights(x, y)) /\ Heights(x, y) \in SUBSET Int
<1> DEFINE H == Heights(x, y)
           f == [l \in H |-> KarmaAttribute * l]
<1>1. Greater(0, x) \in Int /\ Greater(0, y) \in Int BY DEF Greater
<1>2. IsFiniteSet(H) /\ H \in SUBSET Int BY <1>1, FS_Interval DEF Heights
<1>3. RaiseCost(x, y) = Total(f) BY DEF RaiseCost, Heights
<1>4. \A l \in Int : KarmaAttribute * l \in Int BY LedgerAssumption
<1> HIDE DEF H
<1>5. DOMAIN f = H OBVIOUS
<1>6. \A l \in H : f[l] \in Int /\ LevelPrice[l] = f[l] BY <1>2, <1>4 DEF LevelPrice
<1> HIDE DEF f
<1>7. Total(f) = SumOn(LevelPrice, H) BY <1>2, <1>5, <1>6, TotalIsSumOn
<1>8. Total(f) \in Int BY <1>2, <1>5, <1>6, TotalIsInt
<1> QED BY <1>2, <1>3, <1>7, <1>8 DEF H

LEMMA RaiseOfNothing == ASSUME NEW x \in Int PROVE RaiseCost(x, x) = 0
<1>1. Heights(x, x) = {} BY DEF Heights, Greater
<1> QED BY <1>1, RaiseCostIsSum, SumOfNothing

(* One level more, above what was raised already. *)
LEMMA RaiseByOne ==
  ASSUME NEW x \in Int, NEW y \in Nat, x <= y
  PROVE  RaiseCost(x, y + 1) = RaiseCost(x, y) + KarmaAttribute * (y + 1)
<1> DEFINE H == Heights(x, y + 1)
<1>1. y + 1 \in H /\ H \ {y + 1} = Heights(x, y) BY DEF Heights, Greater
<1>2. IsFiniteSet(H) /\ H \in SUBSET Int /\ RaiseCost(x, y + 1) = SumOn(LevelPrice, H)
  BY RaiseCostIsSum
<1>3. \A l \in Int : KarmaAttribute * l \in Int BY LedgerAssumption
<1> HIDE DEF H
<1>4. \A l \in H : LevelPrice[l] \in Int BY <1>2, <1>3 DEF LevelPrice
<1>5. SumOn(LevelPrice, H) = LevelPrice[y + 1] + SumOn(LevelPrice, H \ {y + 1})
  <2> DEFINE l == y + 1
  <2>1. l \in H BY <1>1
  <2> HIDE DEF l
  <2>2. SumOn(LevelPrice, H) = LevelPrice[l] + SumOn(LevelPrice, H \ {l})
    <3>1. IsFiniteSet(H) BY <1>2
    <3> QED BY ONLY <3>1, <1>4, <2>1, SumTakesOut
  <2> QED BY <2>2 DEF l
<1>6. LevelPrice[y + 1] = KarmaAttribute * (y + 1) BY DEF LevelPrice
<1>7. SumOn(LevelPrice, Heights(x, y)) = RaiseCost(x, y) /\ RaiseCost(x, y) \in Int
  BY RaiseCostIsSum
<1>8. KarmaAttribute * (y + 1) \in Int BY <1>3
<1> QED BY <1>1, <1>2, <1>5, <1>6, <1>7, <1>8

LEMMA RaiseToValue ==
  ASSUME NEW v \in Nat PROVE RaiseCost(v - 1, v) = KarmaAttribute * v
<1>1. CASE v = 0
  <2>1. Heights(v - 1, v) = {} BY <1>1 DEF Heights, Greater
  <2>2. KarmaAttribute * v = 0 BY <1>1, LedgerAssumption
  <2>3. v - 1 \in Int /\ v \in Int OBVIOUS
  <2>4. RaiseCost(v - 1, v) = SumOn(LevelPrice, Heights(v - 1, v)) BY <2>3, RaiseCostIsSum
  <2>5. SumOn(LevelPrice, {}) = 0 BY SumOfNothing
  <2> QED BY <2>1, <2>2, <2>4, <2>5
<1>2. CASE v # 0
  <2>1. v - 1 \in Nat /\ v - 1 <= v - 1 /\ (v - 1) + 1 = v BY <1>2
  <2>2. RaiseCost(v - 1, (v - 1) + 1) = RaiseCost(v - 1, v - 1) + KarmaAttribute * ((v - 1) + 1)
    BY <2>1, RaiseByOne
  <2>3. RaiseCost(v - 1, v - 1) = 0 BY RaiseOfNothing
  <2>4. KarmaAttribute * v \in Int BY LedgerAssumption
  <2> QED BY <2>1, <2>2, <2>3, <2>4
<1> QED BY <1>1, <1>2

(* What the levels of Magic, and every attribute, were raised for. *)
MagicTerms(c) ==
  [i \in DOMAIN c.baseline.drops |->
     RaiseCost(c.baseline.rating[Magic] + i - 1 - c.baseline.drops[i],
               c.baseline.rating[Magic] + i - c.baseline.drops[i])]

RaiseTerms(c) ==
  [a \in Attributes |-> IF a = Magic THEN Total(MagicTerms(c))
                        ELSE RaiseCost(c.baseline.rating[a], c.rating[a])]

LEMMA MagicTermsAre ==
  ASSUME NEW c, Whole(c), c.career
  PROVE  /\ c.baseline.rating \in [Attributes -> Int]
         /\ Raised(c) \in Nat
         /\ MagicTerms(c) \in [1..Raised(c) -> Int]
         /\ Total(MagicTerms(c)) \in Int
<1>1. c.baseline.rating \in [Attributes -> Int] BY DEF Whole, IsSheet, IsRecord, HasBaseline
<1>2. Magic \in Attributes /\ c.rating[Magic] \in Int BY LedgerAssumption DEF Whole, IsSheet
<1>3. Raised(c) \in Nat BY <1>1, <1>2 DEF Raised, Greater
<1>4. c.baseline.drops \in [1..Raised(c) -> Int] BY DEF Whole
<1> DEFINE R == Raised(c)
           m == MagicTerms(c)
<1>5. \A i \in 1..R :
        /\ c.baseline.rating[Magic] + i - 1 - c.baseline.drops[i] \in Int
        /\ c.baseline.rating[Magic] + i - c.baseline.drops[i] \in Int
  BY <1>1, <1>2, <1>3, <1>4
<1>6. \A i \in 1..R : RaiseCost(c.baseline.rating[Magic] + i - 1 - c.baseline.drops[i],
                                c.baseline.rating[Magic] + i - c.baseline.drops[i]) \in Int
  BY <1>5, RaiseCostIsSum
<1> HIDE DEF R
<1>7. m \in [1..R -> Int] BY <1>4, <1>6 DEF MagicTerms, R
<1>8. IsFiniteSet(1..R) BY <1>3, FS_Interval DEF R
<1> HIDE DEF m
<1>9. Total(m) \in Int BY <1>7, <1>8, TotalIsInt
<1> QED BY <1>1, <1>3, <1>7, <1>9 DEF m, R

LEMMA RaiseTermsAre ==
  ASSUME NEW c, Whole(c), c.career
  PROVE  /\ RaiseTerms(c) \in [Attributes -> Int]
         /\ CareerRaiseKarma(c) = SumOn(RaiseTerms(c), Attributes)
<1>1. c.baseline.rating \in [Attributes -> Int] /\ Total(MagicTerms(c)) \in Int BY MagicTermsAre
<1>2. c.rating \in [Attributes -> Int] BY DEF Whole, IsSheet
<1>3. \A a \in Attributes : RaiseCost(c.baseline.rating[a], c.rating[a]) \in Int
  BY <1>1, <1>2, RaiseCostIsSum
<1>4. RaiseTerms(c) \in [Attributes -> Int] BY <1>1, <1>3 DEF RaiseTerms
<1>5. CareerRaiseKarma(c) = Total(RaiseTerms(c)) BY DEF CareerRaiseKarma, RaiseTerms, MagicTerms
<1>6. DOMAIN RaiseTerms(c) = Attributes BY <1>4
<1>7. Total(RaiseTerms(c)) = SumOn(RaiseTerms(c), Attributes) BY <1>6, TotalIsSum
<1> QED BY <1>4, <1>5, <1>7

(* Two sums that differ in one of their terms. *)
LEMMA SumsDiffer ==
  ASSUME NEW S, IsFiniteSet(S), NEW x \in S, NEW f \in [S -> Int], NEW g \in [S -> Int],
         \A y \in S \ {x} : g[y] = f[y]
  PROVE  SumOn(g, S) = SumOn(f, S) + (g[x] - f[x])
<1>1. SumOn(f, S) = f[x] + SumOn(f, S \ {x}) BY SumTakesOut
<1>2. SumOn(g, S) = g[x] + SumOn(g, S \ {x}) BY SumTakesOut
<1>3. IsFiniteSet(S \ {x}) BY FS_Subset
<1>4. SumOn(f, S \ {x}) = SumOn(g, S \ {x}) BY <1>3, SumsAgree
<1>5. SumOn(f, S \ {x}) \in Int BY <1>3, SumIsInt
<1> QED BY <1>1, <1>2, <1>4, <1>5

(* A character on the ratings of its record has raised nothing. *)
LEMMA NothingRaised ==
  ASSUME NEW c, Whole(c), c.career, c.baseline.rating = c.rating
  PROVE  CareerRaiseKarma(c) = 0
<1>1. RaiseTerms(c) \in [Attributes -> Int]
      /\ CareerRaiseKarma(c) = SumOn(RaiseTerms(c), Attributes)
  BY RaiseTermsAre
<1>2. c.rating \in [Attributes -> Int] /\ Magic \in Attributes /\ IsFiniteSet(Attributes)
  BY LedgerAssumption DEF Whole, IsSheet
<1>3. Raised(c) = 0 BY <1>2 DEF Raised, Greater
<1>4. DOMAIN MagicTerms(c) = {} BY <1>3, MagicTermsAre
<1>5. Total(MagicTerms(c)) = 0 BY <1>4, TotalOfNothing
<1>6. \A a \in Attributes : RaiseCost(c.baseline.rating[a], c.rating[a]) = 0
  BY <1>2, RaiseOfNothing
<1>7. \A a \in Attributes : RaiseTerms(c)[a] = 0 BY <1>5, <1>6 DEF RaiseTerms
<1> QED BY <1>1, <1>2, <1>7, SumOfZeros

(* _enter_career and snapshot_career_baseline: the patch that begins career
   comes to the sum chargen came to, for every character that begins it. *)
THEOREM LedgerEnteringIsFree == Spec => EnteringIsFree
<1> DEFINE Free == (~ch.career /\ ch'.career) => Spent(bill') = Spent(bill)
<1>1. LInv /\ LInv' /\ Next => Free
  <2> SUFFICES ASSUME LInv, LInv', Next, ~ch.career, ch'.career PROVE Spent(bill') = Spent(bill)
    OBVIOUS
  <2>1. Whole(ch) /\ IsSheet(ch) /\ bill = BillOf(ch) /\ patches \in 0..MaxPatches
    BY DEF LInv, Whole
  <2>2. PICK s : Pass(s) BY <2>1, StepIsAPass
  <2> DEFINE c == Handed(s)
  <2>3. IsSheet(s) /\ ch' = c BY <2>2, ComputeIs DEF Pass
  <2>4. s.career BY <2>3, HandedStage
  <2>5. s = Entering(ch) BY <2>2, <2>4 DEF Pass
  <2>6. /\ c.rating = ch.rating /\ c.levels = ch.levels /\ c.grade = ch.grade
        /\ c.loss = ch.loss /\ c.qualities = ch.qualities
        /\ c.baseline.rating = ch.rating /\ c.baseline.qualities = ch.qualities
        /\ \A k \in Kinds : KeptKarma(c, k) = KeptKarma(ch, k)
    BY <2>1, <2>5, EnteringPass
  <2>7. Whole(c) /\ bill' = BillOf(c) BY <2>3 DEF LInv
  <2>8. c.career BY <2>3
  <2> HIDE DEF c
  <2>9. AttributeLevelsKarma(c) = AttributeLevelsKarma(ch) BY <2>6, SameLevelsKarma
  <2>10. CareerRaiseKarma(c) = 0 BY <2>6, <2>7, <2>8, NothingRaised
  <2>11. CareerRaiseKarma(ch) = 0 BY DEF CareerRaiseKarma
  <2>12. CareerQualityKarma(ch) = 0 BY DEF CareerQualityKarma
  <2>13. CareerQualityKarma(c) = 0
    <3>1. ch.qualities \ ch.qualities = {} OBVIOUS
    <3>2. \A h : Total([q \in {} |-> h[q]]) = 0 BY TotalOfNothing
    <3> DEFINE f == [q \in {} |-> IF QualityKarma[q] > 0
                                  THEN CareerMult * QualityKarma[q] - QualityKarma[q]
                                  ELSE -QualityKarma[q]]
               g == [q \in {} |-> IF QualityKarma[q] < 0
                                  THEN -CareerMult * QualityKarma[q] + QualityKarma[q]
                                  ELSE QualityKarma[q]]
    <3>3. DOMAIN f = {} /\ DOMAIN g = {} OBVIOUS
    <3>4. CareerQualityKarma(c) = IF c.baseline.qualities # None THEN Total(f) + Total(g) ELSE 0
      BY <2>6, <2>8, <3>1 DEF CareerQualityKarma
    <3> HIDE DEF f, g
    <3>5. Total(f) = 0 /\ Total(g) = 0 BY <3>3, TotalOfNothing
    <3> QED BY <3>4, <3>5
  <2>14. BillOf(c) = BillOf(ch) BY <2>6, <2>9, <2>10, <2>11, <2>12, <2>13 DEF BillOf
  <2> QED BY <2>1, <2>7, <2>14
<1>2. LInv /\ LInv' /\ [Next]_vars => [Free]_vars BY <1>1
<1> QED BY <1>2, AlwaysLInv, PTL DEF Spec, EnteringIsFree

(* A step in career leaves the ratings of the record, and the drop of every
   level of Magic it leaves raised; a level it adds has the drop of the day. *)
LEMMA CareerStepRaises ==
  ASSUME LInv, LInv', Next, ch.career, ch'.career
  PROVE  /\ ch'.baseline.rating = ch.baseline.rating
         /\ Raised(ch') = Raised(ch) => ch'.baseline.drops = ch.baseline.drops
         /\ \A i \in 1..Raised(ch') :
              ch'.baseline.drops[i] = IF i \in 1..Raised(ch) THEN ch.baseline.drops[i]
                                      ELSE DropNow(ch')
<1>1. PICK s : /\ IsSheet(s) /\ s.career /\ HasBaseline(s) /\ s.baseline = ch.baseline
               /\ ch' = Handed(s)
  BY CareerStep
<1> DEFINE c == Handed(s)
<1>2. c.baseline.rating = s.baseline.rating BY <1>1, PassKeepsRecord
<1>3. /\ (s.baseline.drops \in [1..Raised(c) -> Int]) => c.baseline.drops = s.baseline.drops
      /\ s.baseline.drops # None =>
           \A i \in 1..Raised(c) :
             c.baseline.drops[i] = IF i \in DOMAIN s.baseline.drops
                                   THEN s.baseline.drops[i] ELSE DropNow(c)
  BY <1>1, PassDrops
<1> HIDE DEF c
<1>4. ch' = c BY <1>1 DEF c
<1>5. ch.baseline.drops \in [1..Raised(ch) -> Int] BY DEF LInv, Whole
<1>6. Raised(ch) \in Nat BY MagicTermsAre DEF LInv
<1>7. ch.baseline.drops # None
  <2>1. ch.baseline.drops \in Seq(Int) BY <1>5, <1>6
  <2> QED BY <2>1, LedgerAssumption
<1> QED BY <1>1, <1>2, <1>3, <1>4, <1>5, <1>7

(* What a step in career leaves of the drops, as CareerStepRaises has it. *)
KeepsDrops(c, d) ==
  /\ d.baseline.rating = c.baseline.rating
  /\ Raised(d) = Raised(c) => d.baseline.drops = c.baseline.drops
  /\ \A i \in 1..Raised(d) :
       d.baseline.drops[i] = IF i \in 1..Raised(c) THEN c.baseline.drops[i] ELSE DropNow(d)

LEMMA SameMagicTerms ==
  ASSUME NEW c, NEW d, KeepsDrops(c, d), d.rating[Magic] = c.rating[Magic]
  PROVE  MagicTerms(d) = MagicTerms(c)
<1>1. Raised(d) = Raised(c) BY DEF KeepsDrops, Raised
<1> QED BY <1>1 DEF KeepsDrops, MagicTerms

(* A level of Magic more adds one term, and its price. *)
LEMMA MagicTermAdded ==
  ASSUME NEW c, NEW d, Whole(c), Whole(d), c.career, d.career, KeepsDrops(c, d),
         c.rating[Magic] >= c.baseline.rating[Magic], d.rating[Magic] = c.rating[Magic] + 1
  PROVE  Total(MagicTerms(d)) = Total(MagicTerms(c)) + KarmaAttribute * Value(d, Magic)
<1> DEFINE n == Raised(c)
           b == c.baseline.rating[Magic]
           f == MagicTerms(c)
           g == MagicTerms(d)
           v == Value(d, Magic)
<1>1. /\ c.baseline.rating \in [Attributes -> Int] /\ n \in Nat
      /\ f \in [1..n -> Int] /\ Total(f) \in Int
      /\ g \in [1..Raised(d) -> Int]
  BY MagicTermsAre
<1>2. Magic \in Attributes /\ c.rating[Magic] \in Int /\ b \in Int
  BY <1>1, LedgerAssumption DEF Whole, IsSheet
<1>3. n = c.rating[Magic] - b BY <1>2 DEF Raised, Greater
<1>4. d.baseline.rating = c.baseline.rating BY DEF KeepsDrops
<1>5. Raised(d) = n + 1 BY <1>2, <1>3, <1>4 DEF Raised, Greater
<1>6. v \in Nat /\ DropNow(d) = d.rating[Magic] - v BY ValueType DEF Whole
<1>7. /\ \A i \in 1..n : d.baseline.drops[i] = c.baseline.drops[i]
      /\ d.baseline.drops[n + 1] = DropNow(d)
  <2>1. \A i \in 1..Raised(d) :
          d.baseline.drops[i] = IF i \in 1..n THEN c.baseline.drops[i] ELSE DropNow(d)
    BY DEF KeepsDrops
  <2> HIDE DEF n
  <2> QED BY <1>1, <1>5, <2>1
<1>8. DOMAIN c.baseline.drops = 1..n /\ DOMAIN d.baseline.drops = 1..(n + 1)
  BY <1>5 DEF Whole
<1>9. \A i \in 1..n : g[i] = f[i]
  <2> TAKE i \in 1..n
  <2>1. i \in 1..(n + 1) BY <1>1
  <2> QED BY <2>1, <1>4, <1>7, <1>8 DEF MagicTerms
<1>10. g[n + 1] = KarmaAttribute * v
  <2>1. n + 1 \in 1..(n + 1) BY <1>1
  <2>2. g[n + 1] = RaiseCost(b + (n + 1) - 1 - DropNow(d), b + (n + 1) - DropNow(d))
    BY <2>1, <1>4, <1>7, <1>8 DEF MagicTerms
  <2> HIDE DEF n, b, v
  <2>3. b + (n + 1) - DropNow(d) = v /\ b + (n + 1) - 1 - DropNow(d) = v - 1
    BY <1>1, <1>2, <1>3, <1>6
  <2> QED BY <2>2, <2>3, <1>6, RaiseToValue
<1> HIDE DEF n, b, f, g, v
<1>11. DOMAIN f = 1..n /\ DOMAIN g = 1..(n + 1) BY <1>1, <1>5
<1>12. IsFiniteSet(1..n) /\ IsFiniteSet(1..(n + 1)) BY <1>1, FS_Interval
<1>13. Total(f) = SumOn(f, 1..n) /\ Total(g) = SumOn(g, 1..(n + 1)) BY <1>11, TotalIsSum
<1>14. \A i \in 1..(n + 1) : g[i] \in Int BY <1>1, <1>5
<1>15. SumOn(g, 1..(n + 1)) = g[n + 1] + SumOn(g, 1..n)
  <2> DEFINE l == n + 1
             S == 1..(n + 1)
  <2>1. l \in S /\ S \ {l} = 1..n BY <1>1
  <2> HIDE DEF l, S
  <2>2. \A i \in S : g[i] \in Int BY <1>14 DEF S
  <2>3. IsFiniteSet(S) BY <1>12 DEF S
  <2>4. SumOn(g, S) = g[l] + SumOn(g, S \ {l}) BY ONLY <2>1, <2>2, <2>3, SumTakesOut
  <2>5. SumOn(g, S) = g[l] + SumOn(g, 1..n) BY <2>1, <2>4
  <2> QED BY <2>5 DEF l, S
<1>16. SumOn(g, 1..n) = SumOn(f, 1..n)
  <2>1. \A i \in 1..n : f[i] \in Int BY <1>1
  <2> QED BY ONLY <1>9, <1>12, <2>1, SumsAgree
<1>17. Total(g) = KarmaAttribute * v + Total(f) BY <1>10, <1>13, <1>15, <1>16
<1>18. KarmaAttribute * v \in Int BY <1>6, LedgerAssumption
<1>19. Total(g) = Total(f) + KarmaAttribute * v BY <1>1, <1>17, <1>18
<1> QED BY <1>19 DEF f, g, v

LEMMA OneRaiseCosts ==
  ASSUME NEW c, NEW d, Whole(c), Whole(d), c.career, d.career, KeepsDrops(c, d),
         NEW a \in Attributes, c.rating[a] >= c.baseline.rating[a],
         d.rating = [c.rating EXCEPT ![a] = @ + 1]
  PROVE  CareerRaiseKarma(d) - CareerRaiseKarma(c) = KarmaAttribute * Value(d, a)
<1> DEFINE f == RaiseTerms(c)
           g == RaiseTerms(d)
<1>1. /\ f \in [Attributes -> Int] /\ CareerRaiseKarma(c) = SumOn(f, Attributes)
      /\ g \in [Attributes -> Int] /\ CareerRaiseKarma(d) = SumOn(g, Attributes)
  BY RaiseTermsAre
<1>2. /\ IsFiniteSet(Attributes) /\ Magic \in Attributes /\ Floor[a] \in Nat
      /\ c.rating \in [Attributes -> Int] /\ c.baseline.rating \in [Attributes -> Int]
  BY LedgerAssumption, MagicTermsAre DEF Whole, IsSheet
<1>3. d.rating[a] = c.rating[a] + 1 /\ \A x \in Attributes \ {a} : d.rating[x] = c.rating[x]
  BY <1>2
<1>4. d.baseline.rating = c.baseline.rating BY DEF KeepsDrops
<1>5. \A x \in Attributes \ {a} : g[x] = f[x]
  <2>1. a # Magic => MagicTerms(d) = MagicTerms(c) BY <1>2, <1>3, SameMagicTerms
  <2> QED BY <1>3, <1>4, <2>1 DEF RaiseTerms
<1>6. g[a] - f[a] = KarmaAttribute * Value(d, a)
  <2>1. CASE a = Magic
    <3>1. f[a] = Total(MagicTerms(c)) /\ g[a] = Total(MagicTerms(d)) BY <2>1 DEF RaiseTerms
    <3>2. Total(MagicTerms(d)) = Total(MagicTerms(c)) + KarmaAttribute * Value(d, Magic)
      <4>1. /\ c.rating[Magic] >= c.baseline.rating[Magic]
            /\ d.rating[Magic] = c.rating[Magic] + 1
        BY <1>3, <2>1
      <4> HIDE DEF f, g
      <4> QED BY <4>1, MagicTermAdded
    <3>3. Total(MagicTerms(c)) \in Int BY MagicTermsAre
    <3>4. KarmaAttribute * Value(d, Magic) \in Int
      BY ValueType, LedgerAssumption DEF Whole
    <3> QED BY <2>1, <3>1, <3>2, <3>3, <3>4
  <2>2. CASE a # Magic
    <3> DEFINE x == c.baseline.rating[a]
               y == c.rating[a]
    <3>1. f[a] = RaiseCost(x, y) /\ g[a] = RaiseCost(x, y + 1)
      BY <1>3, <1>4, <2>2 DEF RaiseTerms
    <3>2. Value(d, a) = y + 1 BY <1>3, <2>2 DEF Value
    <3>3. x \in Int /\ y \in Int BY <1>2
    <3>4. y >= Floor[a] BY <3>3, SheetNumbers, CapType DEF Whole, Fit
    <3>5. y \in Nat /\ x <= y BY <1>2, <3>3, <3>4
    <3> HIDE DEF x, y
    <3>6. RaiseCost(x, y + 1) = RaiseCost(x, y) + KarmaAttribute * (y + 1)
      BY <3>3, <3>5, RaiseByOne
    <3>7. RaiseCost(x, y) \in Int BY <3>3, RaiseCostIsSum
    <3>8. KarmaAttribute * (y + 1) \in Int BY <3>5, LedgerAssumption
    <3> QED BY <3>1, <3>2, <3>6, <3>7, <3>8
  <2> QED BY <2>1, <2>2
<1> HIDE DEF f, g
<1>7. SumOn(g, Attributes) = SumOn(f, Attributes) + (g[a] - f[a])
  BY ONLY <1>1, <1>2, <1>5, a \in Attributes, SumsDiffer
<1>8. SumOn(f, Attributes) \in Int BY <1>1, <1>2, SumIsInt
<1>9. g[a] - f[a] \in Int BY <1>1
<1> QED BY <1>1, <1>6, <1>7, <1>8, <1>9

(* career_raise_karma and raise_drops: a raise in career costs the multiplier
   times the value it leads to, and no later patch that leaves the ratings
   alone, whatever it does to the essence, prices it again. *)
THEOREM LedgerRaisesArePriced == Spec => RaisesArePriced
<1> DEFINE RaiseIsPriced == \A a \in Attributes :
                        OneRaise(a) => bill'.raises - bill.raises = KarmaAttribute * Value(ch', a)
           PriceStands == (ch.career /\ ch'.career /\ ch'.rating = ch.rating) =>
                      bill'.raises = bill.raises
<1>1. ASSUME LInv, LInv', Next, ch.career, ch'.career
      PROVE  /\ Whole(ch) /\ bill.raises = CareerRaiseKarma(ch)
             /\ Whole(ch') /\ bill'.raises = CareerRaiseKarma(ch')
             /\ KeepsDrops(ch, ch')
  <2>1. KeepsDrops(ch, ch') BY <1>1, CareerStepRaises DEF KeepsDrops
  <2> QED BY <1>1, <2>1 DEF LInv, BillOf
<1>2. LInv /\ LInv' /\ Next => RaiseIsPriced
  <2> SUFFICES ASSUME LInv, LInv', Next, NEW a \in Attributes, OneRaise(a)
               PROVE  bill'.raises - bill.raises = KarmaAttribute * Value(ch', a)
    OBVIOUS
  <2> QED BY <1>1, OneRaiseCosts DEF OneRaise
<1>3. LInv /\ LInv' /\ Next => PriceStands
  <2> SUFFICES ASSUME LInv, LInv', Next, ch.career, ch'.career, ch'.rating = ch.rating
               PROVE  bill'.raises = bill.raises
    OBVIOUS
  <2>1. KeepsDrops(ch, ch') BY <1>1
  <2>2. MagicTerms(ch') = MagicTerms(ch) BY <2>1, SameMagicTerms
  <2>3. RaiseTerms(ch') = RaiseTerms(ch) BY <2>1, <2>2 DEF RaiseTerms, KeepsDrops
  <2> QED BY <1>1, <2>3, RaiseTermsAre
<1>4. LInv /\ LInv' /\ [Next]_vars => [RaiseIsPriced]_vars BY <1>2
<1>5. LInv /\ LInv' /\ [Next]_vars => [PriceStands]_vars BY <1>3
<1> QED BY <1>4, <1>5, AlwaysLInv, PTL
       DEF Spec, RaisesArePriced, RaiseCostsItsPrice, RaisesKeepTheirPrice
=============================================================================
