---------------------------- MODULE CareerLedger ----------------------------
(***************************************************************************)
(* The karma ledger of a Priority or Sum-to-Ten character, in creation and *)
(* in career.  The server keeps no state between requests: a patch carries *)
(* the whole character, apply_patch lays the change over it, and compute   *)
(* works every price out again from what the character holds.  What must   *)
(* survive from one pass to the next (what chargen paid, what a raise cost *)
(* on its day) survives only in the baseline the character carries.        *)
(***************************************************************************)
EXTENDS Aggregates

CONSTANTS
  Attributes, Magic,     \* the rated attributes; the one essence loss lowers
  Floor, Maximum,        \* [Attributes -> Nat]: metatype or talent minimum, metatype maximum
  Spirits, Foci, Spells, \* the row ids
  Qualities,
  QualityKarma,          \* [Qualities -> Int]: positive, or negative for a flaw
  FreeSpells,            \* spells the talent gives
  KarmaAttribute, KarmaSpirit, KarmaFocus, KarmaSpell,  \* rules/core.py
  GradeKarma,            \* [1..MaxGrade -> Nat]: what an initiate grade costs
  Sheets,                \* the characters a session may open
  MaxServices, MaxForce, MaxContacts, MaxGrade, MaxLoss, MaxPatches,
  None

ASSUME LedgerAssumption ==
  /\ IsFiniteSet(Attributes) /\ Magic \in Attributes
  /\ Floor \in [Attributes -> Nat]
  /\ Maximum \in [Attributes -> Nat]
  /\ \A a \in Attributes : Floor[a] <= Maximum[a]
  /\ QualityKarma \in [Qualities -> Int]
  /\ {KarmaAttribute, KarmaSpirit, KarmaFocus, KarmaSpell} \subseteq Nat
  /\ {MaxServices, MaxForce, MaxContacts, MaxGrade, MaxLoss, MaxPatches} \subseteq Nat
  /\ GradeKarma \in [1..MaxGrade -> Nat]
  /\ None \notin Int /\ None \notin [Attributes -> Int] /\ None \notin Seq(Int)
  /\ \A held \in (SUBSET Qualities) \cup (SUBSET Spirits) : held # None

VARIABLES
  ch,       \* the character as the last pass wrote it back
  bill,     \* derived: what each part of the ledger took
  entry,    \* history: the bill and the holdings when career began, and how it began
  patches   \* how many patches were sent

vars == <<ch, bill, entry, patches>>

Lesser(x, y)  == IF x <= y THEN x ELSE y
Greater(x, y) == IF x >= y THEN x ELSE y

(* A partial function without, and with, one more row. *)
Without(f, i)  == [k \in DOMAIN f \ {i} |-> f[k]]
With(f, i, v)  == [k \in DOMAIN f \cup {i} |-> IF k = i THEN v ELSE f[k]]

(* A career character without a record carries this one. *)
NoBaseline ==
  [rating |-> None, qualities |-> None, items |-> None, drop |-> None, drops |-> None, kept |-> << >>]

HasBaseline(s) == s.baseline.rating # None

(* Rows by id, each with a number. *)
IsNumbered(f, Ids) ==
  \E held \in SUBSET Ids : IsFiniteSet(held) /\ f \in [held -> Int]

IsRecord(b) ==
  /\ DOMAIN b = DOMAIN NoBaseline
  /\ b.rating \in [Attributes -> Int] \cup {None}
  /\ b.rating = None => b = NoBaseline
  /\ b.qualities \in (SUBSET Qualities) \cup {None}
  /\ b.qualities # None => IsFiniteSet(b.qualities)
  /\ b.items \in (SUBSET Spirits) \cup {None}
  /\ b.drop \in Int \cup {None}
  /\ b.drops \in Seq(Int) \cup {None}
  /\ \A k \in DOMAIN b.kept :
       IsFiniteSet(DOMAIN b.kept[k]) /\ \A r \in DOMAIN b.kept[k] : b.kept[k][r] \in Int

(* A character as the models accept it; one outside career carries no record.
   A grade under 0 reads as 0 wherever the code looks at it. *)
IsSheet(s) ==
  /\ DOMAIN s = {"career", "rating", "levels", "spirits", "foci", "spells",
                 "contacts", "grade", "qualities", "loss", "baseline"}
  /\ s.career \in BOOLEAN
  /\ s.rating \in [Attributes -> Int]
  /\ s.levels \in [Attributes -> Int]
  /\ IsNumbered(s.spirits, Spirits)
  /\ IsNumbered(s.foci, Foci)
  /\ s.spells \in Seq(Spells)
  /\ s.contacts \in Nat
  /\ s.grade \in 0..MaxGrade
  /\ s.qualities \subseteq Qualities /\ IsFiniteSet(s.qualities)
  /\ s.loss \in Nat
  /\ IsRecord(s.baseline)
  /\ ~s.career => s.baseline = NoBaseline

ASSUME SheetsAssumption == \A s \in Sheets : IsSheet(s)

-----------------------------------------------------------------------------
(* The ratings a pass settles on. *)

Cap(s, a) == Maximum[a] + (IF a = Magic THEN s.grade ELSE 0)

Clamped(s, a) == Greater(Floor[a], Lesser(Cap(s, a), s.rating[a]))

(* How far essence loss lowers the minimum, and so every price above it. *)
MinDrop(s, a) == IF a = Magic THEN Lesser(s.loss, Floor[a]) ELSE 0

(* The attribute in play: what was bought, on the lowered minimum, under the
   lowered maximum. *)
Value(s, a) ==
  IF a = Magic
  THEN Greater(0, Lesser(s.rating[a] - MinDrop(s, a), Cap(s, a) - s.loss))
  ELSE s.rating[a]

DropNow(s) == s.rating[Magic] - Value(s, Magic)

\* Mutant of HoldCareerFloors: only the attributes essence loss leaves alone.
HoldFloorsButMagic(s) ==
  IF s.career /\ HasBaseline(s)
  THEN [s EXCEPT !.rating = [a \in Attributes |->
          IF a = Magic THEN s.rating[a] ELSE Greater(s.rating[a], s.baseline.rating[a])]]
  ELSE s

HoldCareerFloors(s) ==
  IF s.career /\ HasBaseline(s)
  THEN [s EXCEPT !.rating = [a \in Attributes |-> Greater(s.rating[a], s.baseline.rating[a])]]
  ELSE s

ClampRatings(s) == [s EXCEPT !.rating = [a \in Attributes |-> Clamped(s, a)]]

(* A bonded focus is capped by the Magic of today and lost without any; so
   is every spirit. *)
ClampMagic(s) ==
  LET mag == Value(s, Magic)
  IN  IF mag = 0
      THEN [s EXCEPT !.foci = << >>, !.spirits = << >>]
      ELSE [s EXCEPT !.foci = [i \in DOMAIN s.foci |-> Greater(1, Lesser(mag, s.foci[i]))]]

ClampLevels(s) ==
  [s EXCEPT !.levels =
     [a \in Attributes |-> Greater(0, Lesser(s.levels[a], s.rating[a] - Floor[a]))]]

Settled(s) == ClampLevels(ClampMagic(ClampRatings(HoldCareerFloors(s))))

-----------------------------------------------------------------------------
(* The kinds whose chargen karma is kept by row: what each row costs as      *)
(* priced now, and what it would cost bought in career.                      *)

EarlyKinds == {"foci", "spells", "spirits"}    \* priced before a baseline is made
LateKinds  == {"contacts", "initiation"}       \* priced after
Kinds == EarlyKinds \cup LateKinds

SpiritRows(s) ==
  [i \in DOMAIN s.spirits |->
     [now |-> IF s.baseline.items = None \/ i \in s.baseline.items
              THEN s.spirits[i] * KarmaSpirit ELSE 0,
      career |-> 0]]

(* A focus bound at another Force is another row. *)
FocusRows(s) ==
  [r \in {<<i, s.foci[i]>> : i \in DOMAIN s.foci} |->
     [now |-> r[2] * KarmaFocus, career |-> r[2] * KarmaFocus]]

\* Mutant of SpellRows: a free spell chargen left over is free in career too.
SpellRowsFreeForLife(s) ==
  LET Price(i) == IF \E n \in DOMAIN s.spells : s.spells[n] = i /\ n <= FreeSpells
                  THEN 0 ELSE KarmaSpell
  IN  [i \in {s.spells[n] : n \in DOMAIN s.spells} |-> [now |-> Price(i), career |-> Price(i)]]

SpellRows(s) ==
  [i \in {s.spells[n] : n \in DOMAIN s.spells} |->
     [now |-> IF \E n \in DOMAIN s.spells : s.spells[n] = i /\ n <= FreeSpells
              THEN 0 ELSE KarmaSpell,
      career |-> KarmaSpell]]

ContactRows(s) == [i \in {"points"} |-> [now |-> s.contacts, career |-> 0]]

GradeRows(s) ==
  [g \in 1..s.grade |-> [now |-> GradeKarma[g], career |-> GradeKarma[g]]]

Rows(s, kind) ==
  CASE kind = "spirits"    -> SpiritRows(s)
    [] kind = "foci"       -> FocusRows(s)
    [] kind = "spells"     -> SpellRows(s)
    [] kind = "contacts"   -> ContactRows(s)
    [] kind = "initiation" -> GradeRows(s)

Priced(s, kind) == [r \in DOMAIN Rows(s, kind) |-> Rows(s, kind)[r].now]

(* What a kind costs: what is held, until the record holds the kind; then
   what was recorded, held or not, and the career price of the rows since. *)
KeptKarma(s, kind) ==
  IF kind \in DOMAIN s.baseline.kept
  THEN LET recorded == s.baseline.kept[kind]
       IN  Total(recorded) +
           Total([r \in DOMAIN Rows(s, kind) \ DOMAIN recorded |-> Rows(s, kind)[r].career])
  ELSE Total(Priced(s, kind))

\* Mutant of Recorded: every pass records what it priced.
RecordedAnew(kept, kinds, s) ==
  [k \in DOMAIN kept \cup kinds |-> IF k \in kinds THEN Priced(s, k) ELSE kept[k]]

(* Pricing a kind the record does not hold puts it there. *)
Recorded(kept, kinds, s) ==
  [k \in DOMAIN kept \cup kinds |-> IF k \in DOMAIN kept THEN kept[k] ELSE Priced(s, k)]

Record(s, kinds) ==
  IF HasBaseline(s)
  THEN [s EXCEPT !.baseline.kept = Recorded(@, kinds, s)]
  ELSE s

-----------------------------------------------------------------------------
(* The raises since career began. *)

\* Mutant of Snapshot: the spirits are not among the things owned.
SnapshotWithoutSpirits(s) ==
  [rating |-> s.rating, qualities |-> s.qualities, items |-> {},
   drop |-> None, drops |-> None, kept |-> << >>]

\* Mutant of Snapshot: the levels karma bought are not in the ratings.
SnapshotOfPoints(s) ==
  [rating |-> [a \in Attributes |-> s.rating[a] - s.levels[a]], qualities |-> s.qualities,
   items |-> DOMAIN s.spirits, drop |-> None, drops |-> None, kept |-> << >>]

Snapshot(s) ==
  [rating |-> s.rating, qualities |-> s.qualities, items |-> DOMAIN s.spirits,
   drop |-> None, drops |-> None, kept |-> << >>]

\* Mutant of RaiseDrops: every level at the drop of today.
RaiseDropsOfToday(s) ==
  [i \in 1..Greater(0, s.rating[Magic] - s.baseline.rating[Magic]) |-> DropNow(s)]

(* The drop each level of Magic raised in career was bought under: a level
   lowered away takes its entry along, a new one records the drop of today. *)
RaiseDrops(s) ==
  LET b      == s.baseline
      raised == Greater(0, s.rating[Magic] - b.rating[Magic])
      fill   == IF b.drops = None THEN Lesser(b.drop, DropNow(s)) ELSE DropNow(s)
  IN  [i \in 1..raised |->
         IF b.drops # None /\ i \in DOMAIN b.drops THEN b.drops[i] ELSE fill]

WithBaseline(s) ==
  IF s.career /\ ~HasBaseline(s) THEN [s EXCEPT !.baseline = Snapshot(s)] ELSE s

WithDrop(s) ==
  IF s.career /\ s.baseline.drop = None
  THEN [s EXCEPT !.baseline.drop = DropNow(s)]
  ELSE s

WithRaiseDrops(s) ==
  IF s.career
  THEN [s EXCEPT !.baseline.drops = RaiseDrops(s)]
  ELSE s

RaiseCost(from, to) ==
  Total([l \in Greater(0, from) + 1 .. Greater(0, to) |-> KarmaAttribute * l])

CareerRaiseKarma(s) ==
  LET b == s.baseline
      OfMagic == Total([i \in DOMAIN b.drops |->
                          RaiseCost(b.rating[Magic] + i - 1 - b.drops[i],
                                    b.rating[Magic] + i - b.drops[i])])
  IN  IF s.career
      THEN Total([a \in Attributes |->
                    IF a = Magic THEN OfMagic ELSE RaiseCost(b.rating[a], s.rating[a])])
      ELSE 0

(* The top `levels` of every rating, at the height karma prices it. *)
AttributeLevelsKarma(s) ==
  Total([a \in Attributes |->
           RaiseCost(s.rating[a] - MinDrop(s, a) - s.levels[a], s.rating[a] - MinDrop(s, a))])

-----------------------------------------------------------------------------
(* Qualities: the table price, and in career what differs from it. *)

QualityTable(held) == Total([q \in held |-> QualityKarma[q]])

CareerMult == 2

\* Mutant of CareerQualityKarma: a negative quality picked up in play still pays.
CareerQualityKarmaKeepsGain(s) ==
  LET Taken(q) == IF QualityKarma[q] > 0 THEN CareerMult * QualityKarma[q] - QualityKarma[q] ELSE 0
      Gone(q)  == IF QualityKarma[q] < 0 THEN -CareerMult * QualityKarma[q] + QualityKarma[q]
                  ELSE QualityKarma[q]
  IN  IF s.career /\ s.baseline.qualities # None
      THEN Total([q \in s.qualities \ s.baseline.qualities |-> Taken(q)])
             + Total([q \in s.baseline.qualities \ s.qualities |-> Gone(q)])
      ELSE 0

CareerQualityKarma(s) ==
  LET Taken(q) == IF QualityKarma[q] > 0 THEN CareerMult * QualityKarma[q] - QualityKarma[q]
                  ELSE -QualityKarma[q]
      Gone(q)  == IF QualityKarma[q] < 0 THEN -CareerMult * QualityKarma[q] + QualityKarma[q]
                  ELSE QualityKarma[q]
  IN  IF s.career /\ s.baseline.qualities # None
      THEN Total([q \in s.qualities \ s.baseline.qualities |-> Taken(q)])
             + Total([q \in s.baseline.qualities \ s.qualities |-> Gone(q)])
      ELSE 0

-----------------------------------------------------------------------------
(* One pass.  The early kinds are priced, and recorded, before a character   *)
(* that carries no baseline is given one.                                    *)

Compute(s) ==
  LET settled == Settled(s)
      early   == Record(settled, EarlyKinds)
      raised  == WithRaiseDrops(WithDrop(WithBaseline(early)))
      late    == Record(raised, LateKinds)
  IN  [ch |-> late,
       bill |-> [attributes |-> AttributeLevelsKarma(late),
                 raises |-> CareerRaiseKarma(late),
                 qualities |-> QualityTable(late.qualities) + CareerQualityKarma(late),
                 kinds |-> [k \in Kinds |-> KeptKarma(IF k \in EarlyKinds THEN settled ELSE raised, k)]]]

Spent(b) == b.attributes + b.raises + b.qualities + Total(b.kinds)

(* What is held when career begins, and what it cost. *)
Opening(s, b, how) ==
  [how |-> how, bill |-> b, qualities |-> s.qualities,
   rows |-> [k \in Kinds |-> DOMAIN Rows(s, k)]]

Init ==
  \E s \in Sheets :
    /\ ch = Compute(s).ch
    /\ bill = Compute(s).bill
    /\ entry = IF s.career THEN Opening(Compute(s).ch, Compute(s).bill, "arrived") ELSE None
    /\ patches = 0

(* apply_patch: the change laid over the character, then the whole pass. *)
Apply(s) ==
  /\ patches < MaxPatches
  /\ patches' = patches + 1
  /\ ch' = Compute(s).ch
  /\ bill' = Compute(s).bill

Edit(s) == Apply(s) /\ UNCHANGED entry

RaiseAttribute(a) == Edit([ch EXCEPT !.rating[a] = @ + 1])

LowerAttribute(a) == ch.rating[a] > 0 /\ Edit([ch EXCEPT !.rating[a] = @ - 1])

(* The split of a rating into points and karma is offered in creation only. *)
SplitKarma(a, n) == ~ch.career /\ Edit([ch EXCEPT !.levels[a] = n])

Summon(i, n) ==
  /\ i \notin DOMAIN ch.spirits
  /\ Edit([ch EXCEPT !.spirits = With(ch.spirits, i, n)])

UseService(i) ==
  /\ i \in DOMAIN ch.spirits
  /\ ch.spirits[i] > 0
  /\ Edit([ch EXCEPT !.spirits[i] = @ - 1])

Dismiss(i) == i \in DOMAIN ch.spirits /\ Edit([ch EXCEPT !.spirits = Without(ch.spirits, i)])

BindFocus(i, f) == i \notin DOMAIN ch.foci /\ Edit([ch EXCEPT !.foci = With(ch.foci, i, f)])

UnbindFocus(i) == i \in DOMAIN ch.foci /\ Edit([ch EXCEPT !.foci = Without(ch.foci, i)])

Learn(i) ==
  /\ \A n \in DOMAIN ch.spells : ch.spells[n] # i
  /\ Edit([ch EXCEPT !.spells = Append(@, i)])

Forget(i) ==
  /\ \E n \in DOMAIN ch.spells : ch.spells[n] = i
  /\ Edit([ch EXCEPT !.spells = Picked(@, Spells \ {i})])

SetContacts(n) == n # ch.contacts /\ Edit([ch EXCEPT !.contacts = n])

Initiate == ch.grade < MaxGrade /\ Edit([ch EXCEPT !.grade = @ + 1])

DropGrade == ch.grade > 0 /\ Edit([ch EXCEPT !.grade = @ - 1])

TakeQuality(q) == q \notin ch.qualities /\ Edit([ch EXCEPT !.qualities = @ \cup {q}])

RemoveQuality(q) == q \in ch.qualities /\ Edit([ch EXCEPT !.qualities = @ \ {q}])

InstallWare == ch.loss < MaxLoss /\ Edit([ch EXCEPT !.loss = @ + 1])

RemoveWare == ch.loss > 0 /\ Edit([ch EXCEPT !.loss = @ - 1])

(* The baseline is taken from the character as it stood before the patch. *)
EnterCareer ==
  LET s == [ch EXCEPT !.career = TRUE, !.baseline = Snapshot(ch)]
  IN  /\ ~ch.career
      /\ Apply(s)
      /\ entry' = Opening(ch, bill, "entered")

\* Mutant of LeaveCareer: the baseline stays behind.
LeaveCareerOnly ==
  /\ ch.career
  /\ Apply([ch EXCEPT !.career = FALSE])
  /\ entry' = None

LeaveCareer ==
  /\ ch.career
  /\ Apply([ch EXCEPT !.career = FALSE, !.baseline = NoBaseline])
  /\ entry' = None

(* The editor opens the character again: the same pass over the same state. *)
Reopen ==
  /\ ch' = Compute(ch).ch
  /\ bill' = Compute(ch).bill
  /\ UNCHANGED <<entry, patches>>

Next ==
  \/ \E a \in Attributes :
       \/ RaiseAttribute(a) \/ LowerAttribute(a)
       \/ \E n \in 0..Maximum[a] : SplitKarma(a, n)
  \/ \E i \in Spirits :
       \/ \E n \in 1..MaxServices : Summon(i, n)
       \/ UseService(i) \/ Dismiss(i)
  \/ \E i \in Foci : UnbindFocus(i) \/ \E f \in 1..MaxForce : BindFocus(i, f)
  \/ \E i \in Spells : Learn(i) \/ Forget(i)
  \/ \E n \in 0..MaxContacts : SetContacts(n)
  \/ Initiate \/ DropGrade
  \/ \E q \in Qualities : TakeQuality(q) \/ RemoveQuality(q)
  \/ InstallWare \/ RemoveWare
  \/ EnterCareer \/ LeaveCareer \/ Reopen

Spec == Init /\ [][Next]_vars

-----------------------------------------------------------------------------
(* Properties. *)

(* Every reachable character is one the models accept, no rating is outside
   what the metatype, the talent and the grade allow, and a career character
   carries a baseline exactly as long as it is one. *)
TypeOK ==
  /\ ch.career \in BOOLEAN
  /\ \A a \in Attributes : ch.rating[a] \in Floor[a]..Cap(ch, a)
  /\ \A a \in Attributes : ch.levels[a] \in 0..(ch.rating[a] - Floor[a])
  /\ DOMAIN ch.spirits \subseteq Spirits
  /\ DOMAIN ch.foci \subseteq Foci
  /\ \A i \in DOMAIN ch.foci : ch.foci[i] \in 1..Value(ch, Magic)
  /\ ch.qualities \subseteq Qualities
  /\ ch.career <=> HasBaseline(ch)
  /\ entry # None => ch.career
  /\ patches \in 0..MaxPatches

(* A rating never goes under the one it had on entering career, whatever a
   patch asks for; only a maximum that has itself come down is stronger. *)
FloorsHold ==
  ch.career =>
    \A a \in Attributes : ch.rating[a] >= Lesser(ch.baseline.rating[a], Cap(ch, a))

(* What a row of a kind costs bought in career. *)
CareerPrice(kind, r) ==
  CASE kind = "foci"       -> r[2] * KarmaFocus
    [] kind = "spells"     -> KarmaSpell
    [] kind = "initiation" -> GradeKarma[r]
    [] OTHER               -> 0

(* For a character that entered career here: foci, spells, spirits, contacts
   and grades cost what they cost that day, whatever became of the rows since,
   plus the career price of the rows now held that were not held then.  So
   nothing deleted is refunded, and a purchase undone is refunded in full. *)
LedgerBalances ==
  (entry # None /\ entry.how = "entered") =>
    \A k \in Kinds :
      bill.kinds[k] =
        entry.bill.kinds[k]
          + Total([r \in DOMAIN Rows(ch, k) \ entry.rows[k] |-> CareerPrice(k, r)])

(* The same for qualities: the table price of that day, twice the karma of a
   positive quality taken since, twice the karma of a negative one bought off. *)
QualitiesBalance ==
  (entry # None /\ entry.how = "entered") =>
    bill.qualities =
      entry.bill.qualities
        + Total([q \in ch.qualities \ entry.qualities |-> Greater(0, 2 * QualityKarma[q])])
        + Total([q \in entry.qualities \ ch.qualities |-> Greater(0, -2 * QualityKarma[q])])

(* Opening a character again changes no price: a pass over what a pass wrote
   back comes to the same sum, with every record the first one left. *)
ReopeningIsFree == Spent(Compute(ch).bill) = Spent(bill)

(* Nothing is charged or given back for entering career. *)
EnteringIsFree == [][~ch.career /\ ch'.career => Spent(bill') = Spent(bill)]_vars

(* What chargen paid for a kind, and what the character was on entering, is
   written once: no later pass changes it while career lasts. *)
RecordIsKept ==
  [][ch.career /\ ch'.career =>
       /\ \A f \in {"rating", "qualities", "items", "drop"} : ch'.baseline[f] = ch.baseline[f]
       /\ \A k \in DOMAIN ch.baseline.kept :
            k \in DOMAIN ch'.baseline.kept /\ ch'.baseline.kept[k] = ch.baseline.kept[k]]_vars

(* A patch that raises one attribute by one level above its baseline. *)
OneRaise(a) ==
  /\ ch.career /\ ch'.career
  /\ ch.rating[a] >= ch.baseline.rating[a]
  /\ ch'.rating = [ch.rating EXCEPT ![a] = @ + 1]

(* A career raise costs the multiplier times the value it leads to: for Magic
   the value essence loss leaves of it that day. *)
RaiseCostsItsPrice ==
  [][\A a \in Attributes :
       OneRaise(a) => bill'.raises - bill.raises = KarmaAttribute * Value(ch', a)]_vars

(* What a raise cost stands: ware put in or taken out later, and every other
   patch that leaves the ratings alone, changes nothing about it. *)
RaisesKeepTheirPrice ==
  [][ch.career /\ ch'.career /\ ch'.rating = ch.rating => bill'.raises = bill.raises]_vars

(* What is billed for the raises since creation, bill.raises, grows with a
   raise by its price on that day, and no patch that leaves the ratings alone
   moves it (career_raise_karma, _raise_drops).  The levels of creation are not part of it: they are priced at the
   rating held now, so a raise moves their bill too, see RaiseIsBilledOnce. *)
RaisesArePriced == RaiseCostsItsPrice /\ RaisesKeepTheirPrice

(* Not a property of this code.  "after creation raises are billed from the
   baseline": a raise adds its price to what the character has spent, and
   nothing else. *)
RaiseIsBilledOnce ==
  [][\A a \in Attributes :
       OneRaise(a) => Spent(bill') - Spent(bill) = KarmaAttribute * Value(ch', a)]_vars
=============================================================================
