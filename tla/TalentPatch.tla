----------------------------- MODULE TalentPatch -----------------------------
(***************************************************************************)
(* What one patch does to a character's priorities, metatype and talent,   *)
(* and to everything a talent lets it hold.  apply_patch merges the patch  *)
(* and settles the talent with the reference data of the service; compute  *)
(* then settles it again with the data and the rules the character's own   *)
(* settings name (its world: the vendored data with or without a custom    *)
(* folder).  The two readings of one table are what the properties are     *)
(* about.  A quality that lets any talent cast spells of some range        *)
(* (allow_spell_ranges) is left out, and a talent's name tells which       *)
(* attribute it starts.                                                    *)
(***************************************************************************)
EXTENDS Integers, SequencesExt

CONSTANTS
  World, Vendored,    \* the sets of reference data, and the one without custom data
  Letter, Method,     \* priority letters; build methods, normalised
  NameOrder,          \* every name a table or a file gives a talent, as they sort
  TalentsAt,          \* world -> letter -> names in the order of its row
  StartAt,            \* world -> letter -> name -> the rating the row starts it at
  KeyOf,              \* name -> the special attribute it starts, or "none"
  AllowedTo,          \* world -> name -> metatypes its lists admit
  Species,            \* world -> metatypes it has
  Shapeshifters,      \* metatypes of that category
  FormsOf,            \* world -> metatype -> its metavariants
  SpeciesFloor,       \* world -> <<metatype, form>> -> attribute -> enabled at, or 0
  Least,              \* <<metatype, form>> -> attribute -> its vendored minimum
  Cap,                \* a bound on the ratings a control offers
  Starting            \* characters as made or imported, before their first compute

Keys == {"MAG", "RES", "DEP"}
NoForm == "no form"
NoTalent == "no talent"
Talents == {NameOrder[i] : i \in DOMAIN NameOrder}
Metatypes == UNION {Species[w] : w \in World}
Forms == {NoForm} \cup Metatypes \cup (UNION {FormsOf[w][m] : w \in World, m \in Metatypes})

\* The kinds of row a character keeps under its talent.
AdeptTalents == {"Adept", "Mystic Adept"}
MagTalents == AdeptTalents \cup
  {"Magician", "Aspected Magician", "Explorer", "Enchanter", "Apprentice"}
ResTalents == {"Technomancer"}
SpiritTalents == {"Magician", "Mystic Adept", "Aspected Magician", "Apprentice"}
SpellTalents == SpiritTalents \cup {"Enchanter"}
Uses(t) ==
  (IF t \in AdeptTalents THEN {"powers"} ELSE {})
  \cup (IF t \in MagTalents THEN {"initiation", "foci"} ELSE {})
  \cup (IF t \in SpellTalents THEN {"spells"} ELSE {})
  \cup (IF t \in SpiritTalents THEN {"spirits"} ELSE {})
  \cup (IF t \in ResTalents THEN {"forms", "submersion", "sprites"} ELSE {})
Holdings == {"powers", "initiation", "foci", "spells", "spirits", "forms", "submersion", "sprites"}

Character ==
  [world : World, method : Method, letter : Letter, talent : Talents, metatype : Metatypes,
   form : Forms, special : [Keys -> Nat], holds : SUBSET Holdings]

ASSUME TalentAssumption ==
  /\ Vendored \in World /\ Cap \in Nat
  /\ NameOrder \in Seq(STRING) /\ "Mundane" \in Talents /\ NoTalent \notin Talents
  /\ TalentsAt \in [World -> [Letter -> Seq(Talents)]]
  /\ StartAt \in [World -> [Letter -> [Talents -> Nat]]]
  /\ AllowedTo \in [World -> [Talents -> SUBSET Metatypes]]
  /\ \A w \in World, m \in Metatypes :
       /\ NoForm \notin FormsOf[w][m]
       /\ \A f \in FormsOf[w][m] \cup {NoForm} : SpeciesFloor[w][<<m, f>>] \in [Keys -> Nat]
  /\ \A m \in Metatypes : \A f \in FormsOf[Vendored][m] \cup {NoForm} :
       Least[<<m, f>>] \in [Keys -> Nat]
  /\ Starting \subseteq Character

VARIABLE ch
-----------------------------------------------------------------------------
NamesIn(s) == {s[i] : i \in DOMAIN s}

\* The talents a letter offers; E offers Mundane whatever its row says.
OptionsAt(w, l) ==
  IF l = "E" /\ "Mundane" \notin NamesIn(TalentsAt[w][l])
  THEN <<"Mundane">> \o TalentsAt[w][l] ELSE TalentsAt[w][l]

\* A build that buys everything with karma is offered every letter's talents.
ByKarma(m) == m \in {"Karma", "LifeModule"}
AllOptions(w) == {"Mundane"} \cup (UNION {NamesIn(OptionsAt(w, l)) : l \in Letter})
Offered(w, c) == IF ByKarma(c.method) THEN AllOptions(w) ELSE NamesIn(OptionsAt(w, c.letter))
InOrder(w, c) == IF ByKarma(c.method) THEN NameOrder ELSE OptionsAt(w, c.letter)

OpenTo(w, who) == {t \in Talents : who \in AllowedTo[w][t]}
First(list, set) == list[SelectInSeq(list, LAMBDA t : t \in set)]

\* The talent `current` where it is offered, else a default `who` may take.
Default(w, c, who) ==
  LET all == Offered(w, c)
      may == all \cap OpenTo(w, who)
      real == (IF may = {} THEN all ELSE may) \ {"Mundane"}
  IN  IF real = {} \/ (ByKarma(c.method) /\ (may = {} \/ "Mundane" \in may)) THEN "Mundane"
      ELSE First(InOrder(w, c), real)
\* Mutant: a talent the species may not take is swapped for the default.
Resolve_Swaps(w, c, current, who) ==
  IF current \in Offered(w, c) /\ who \in AllowedTo[w][current] THEN current
  ELSE Default(w, c, who)
Resolve(w, c, current, who) ==
  IF current \in Offered(w, c) THEN current ELSE Default(w, c, who)

\* Where a special attribute starts: the talent's own replaces the species'.
FormOf(w, c) == IF c.form \in FormsOf[w][c.metatype] THEN c.form ELSE NoForm
Floors(w, c) ==
  [k \in Keys |->
     IF k # KeyOf[c.talent] THEN SpeciesFloor[w][<<c.metatype, FormOf(w, c)>>][k]
     ELSE IF ByKarma(c.method) \/ StartAt[w][c.letter][c.talent] = 0 THEN 1
     ELSE StartAt[w][c.letter][c.talent]]
\* What the sheet shows, and what was paid for of it.
Rating(c) ==
  LET floors == Floors(c.world, c)
  IN  [k \in Keys |-> IF floors[k] = 0 THEN 0
                      ELSE IF c.special[k] > floors[k] THEN c.special[k] ELSE floors[k]]
Paid(c) == [k \in Keys |-> Rating(c)[k] - Floors(c.world, c)[k]]
-----------------------------------------------------------------------------
\* The patch laid over the character; a null form clears it.
LaidOver(c, p) == [f \in DOMAIN c |-> IF f \in DOMAIN p THEN p[f] ELSE c[f]]

NamesSpecies(p) == "metatype" \in DOMAIN p
NamesForm(p) == "form" \in DOMAIN p /\ p.form # NoForm
Reset(c, p) ==
  IF NamesSpecies(p) \/ NamesForm(p)
  THEN [c EXCEPT !.special = Least[<<c.metatype, FormOf(Vendored, c)>>]] ELSE c

\* The talent kept from before, unless a new species may not take it.
Current(c, p) ==
  IF /\ NamesSpecies(p)
     /\ c.metatype \notin AllowedTo[Vendored][Resolve(Vendored, c, c.talent, c.metatype)]
  THEN NoTalent ELSE c.talent
WithTalent(c, p) == [c EXCEPT !.talent = Resolve(Vendored, c, Current(c, p), c.metatype)]

\* Mutant: the same talent at another letter is no change.
Changed_ByName(old, new, p) == old.talent # new.talent \/ NamesSpecies(p)
Changed(old, new, p) ==
  old.letter # new.letter \/ old.talent # new.talent \/ NamesSpecies(p) \/ old.method # new.method
Rated(c) == [c EXCEPT !.special = Floors(Vendored, c)]
\* Mutant: what a magician and a technomancer keep is told apart by the attribute alone.
Dropped_ByKey(c) ==
  [c EXCEPT !.holds = @ \cap UNION {Uses(t) : t \in {t \in Talents : KeyOf[t] = KeyOf[c.talent]}}]
Dropped(c) == [c EXCEPT !.holds = @ \cap Uses(c.talent)]

Applied(c, p) ==
  LET new == WithTalent(Reset(LaidOver(c, p), p), p)
  IN  IF Changed(c, new, p) THEN Dropped(Rated(new)) ELSE new
\* The species must be in the vendored data wherever the patch looks it up.
LooksUp(c, p) ==
  NamesSpecies(p) \/ NamesForm(p) \/ Changed(c, WithTalent(Reset(LaidOver(c, p), p), p), p)

\* The engine makes a shapeshifter without a form Human, and clears a form its
\* data does not have: that may leave a shapeshifter with none.
Formed(c) ==
  LET f == IF c.metatype \in Shapeshifters /\ c.form = NoForm THEN "Human" ELSE c.form
  IN  [c EXCEPT !.form = IF f \in FormsOf[c.world][c.metatype] \cup {c.metatype} THEN f ELSE NoForm]
Talented(c) == [c EXCEPT !.talent = Resolve(c.world, c, c.talent, c.metatype)]
\* The rows the engine leaves: powers only the patch drops.
Kept(t) == Uses(t) \cup {"powers"}
Swept(c) == [c EXCEPT !.holds = @ \cap Kept(c.talent)]
Computed(c) == Swept(Talented(Formed(c)))

Patch(p) ==
  /\ LooksUp(ch, p) => LaidOver(ch, p).metatype \in Species[Vendored]
  /\ LaidOver(ch, p).metatype \in Species[LaidOver(ch, p).world]
  /\ ch' = Computed(Applied(ch, p))
-----------------------------------------------------------------------------
\* Made, or imported with whatever the file says but an unknown species.
TalentInit == \E c \in Starting : c.metatype \in Species[c.world] /\ ch = Computed(c)

\* The bare recompute the browser sends when it opens a character.
Reopen == ch' = Computed(ch)

\* The letter of the Talent row, with the talent the browser picks for it.
PickLetter(l) ==
  LET may == NamesIn(OptionsAt(ch.world, l)) \cap OpenTo(ch.world, ch.metatype)
      real == may \ {"Mundane"}
      talent == IF ch.talent \in real THEN ch.talent
                ELSE IF real = {} THEN "Mundane" ELSE First(OptionsAt(ch.world, l), real)
  IN  Patch([letter |-> l, talent |-> talent])
\* Another row takes Talent's letter and leaves it its own.
SwapLetter(l) == Patch([letter |-> l])
\* Any talent of the list on screen, which an edit under way may have changed.
PickTalent(t) == Patch([talent |-> t])
PickSpecies(m) == Patch([metatype |-> m, form |-> NoForm])
FormChoices == FormsOf[ch.world][ch.metatype] \cup
  (IF ch.metatype \in Shapeshifters THEN {} ELSE {NoForm})
PickForm(f) == f \in FormChoices /\ Patch([form |-> f])
PickMethod(m) == Patch([method |-> m])
PickWorld(w) == Patch([world |-> w])
Raise(k, n) ==
  LET floor == Floors(ch.world, ch)[k]
  IN  floor \in 1..n /\ Patch([special |-> [ch.special EXCEPT ![k] = n]])
Hold(h) == h \in Uses(ch.talent) /\ Patch([holds |-> ch.holds \cup {h}])
Release(h) == h \in ch.holds /\ Patch([holds |-> ch.holds \ {h}])

TalentNext ==
  \/ Reopen
  \/ \E l \in Letter : PickLetter(l) \/ SwapLetter(l)
  \/ \E t \in Talents : PickTalent(t)
  \/ \E m \in Metatypes : PickSpecies(m)
  \/ \E f \in FormChoices : PickForm(f)
  \/ \E m \in Method : PickMethod(m)
  \/ \E w \in World : PickWorld(w)
  \/ \E k \in Keys, n \in 1..Cap : Raise(k, n)
  \/ \E h \in Holdings : Hold(h) \/ Release(h)

TalentSpec == TalentInit /\ [][TalentNext]_ch
-----------------------------------------------------------------------------
\* The character is one the service can answer with.
TalentTypeOK ==
  /\ ch.world \in World /\ ch.letter \in Letter /\ ch.method \in Method
  /\ ch.talent \in Talents /\ ch.metatype \in Species[ch.world]
  /\ ch.form \in FormsOf[ch.world][ch.metatype] \cup {NoForm, ch.metatype}
  /\ ch.special \in [Keys -> Nat] /\ ch.holds \subseteq Holdings

\* Nothing comes to be held that the talent cannot use, whatever letters,
\* methods, species and folders it goes through: what such rows there are came
\* with a file.  characters.py drops rows only when its own reading of the table
\* sees the talent, letter or method change, the engine may read another table
\* after it, and an adept's powers only characters.py drops.
NothingIsStranded ==
  [][ch'.holds \ Uses(ch'.talent) \subseteq ch.holds \ Uses(ch.talent)]_ch

\* An answer computed again is the same, but for a shapeshifter that was left
\* without a form: the next compute makes it Human, and that is the last of it.
Settles ==
  \/ Computed(ch) = ch
  \/ /\ ch.metatype \in Shapeshifters /\ ch.form = NoForm
     /\ Computed(ch) = [ch EXCEPT !.form = "Human"]
     /\ Computed(Computed(ch)) = Computed(ch)

\* What bootstrap.py:73 says, "a shapeshifter always has a metahuman form", is
\* not a property of this code: the engine clears a form its data does not have
\* after the default was picked.  (Not checked; see the README.)
ShapeshiftersHaveForms == ch.metatype \in Shapeshifters => ch.form # NoForm

\* A change of letter, talent, method or species leaves no special points
\* spent: the start the service wrote is the one the character's own table
\* gives for free.  (characters.py _apply_talent_ratings)
StartIsFree ==
  [][ /\ <<ch.letter, ch.talent, ch.method, ch.metatype>>
           # <<ch'.letter, ch'.talent, ch'.method, ch'.metatype>>
      /\ ch'.world = ch.world
      => \A k \in Keys : Paid(ch')[k] = 0 ]_ch

\* A new species comes with a talent it may take, wherever one is offered; a
\* build that buys with karma may always go without.
TalentFitsSpecies ==
  [][ ch'.metatype # ch.metatype =>
      \/ ch'.metatype \in AllowedTo[ch'.world][ch'.talent]
      \/ ByKarma(ch'.method) /\ ch'.talent = "Mundane"
      \/ \A t \in Offered(ch'.world, ch') : ch'.metatype \notin AllowedTo[ch'.world][t] ]_ch

\* A talent that both the vendored data and the character's own offer is never
\* swapped behind the player's back: the one picked is taken, and the one it
\* has stays, with all that is held under it, through edits of anything else.
\* (engine/priority.py resolve_talent; one only a custom folder offers is
\* swapped, see the README)
InBoth(c, t) == \A w \in {Vendored, c.world} : t \in Offered(w, c)
TalentIsNotSwapped ==
  [][ /\ \A t \in Talents : PickTalent(t) /\ InBoth(ch', t) => ch'.talent = t
      /\ InBoth(ch, ch.talent) =>
           ((\E k \in Keys, n \in 1..Cap : Raise(k, n)) \/ (\E f \in FormChoices : PickForm(f))
              \/ (\E h \in Holdings : Hold(h))
            => ch'.talent = ch.talent /\ ch.holds \subseteq ch'.holds) ]_ch

\* Every answer is one the browser may keep and send again: typed, settled or
\* one compute from it, and without a row stranded by a talent that went.
AnswersAreSound == [](TalentTypeOK /\ Settles) /\ NothingIsStranded

\* A talent follows the species and nothing else.
TalentIsKept == TalentFitsSpecies /\ TalentIsNotSwapped
-----------------------------------------------------------------------------
(* What folders are trusted with: to add.  The properties above hold for    *)
(* every such set of tables, and not for others (see the README).           *)
\* A folder keeps every talent the vendored rows have.
FoldersOnlyAdd == \A w \in World, l \in Letter :
  NamesIn(TalentsAt[Vendored][l]) \subseteq NamesIn(TalentsAt[w][l])

\* Every row of the vendored data offers a talent.
RowsOffer == \A l \in Letter : OptionsAt(Vendored, l) # <<>>

\* A folder closes no talent to a vendored species, and of a letter's talents such a
\* species may take one of the vendored, if one at all.
EveryoneIsServed == \A w \in World, m \in Species[Vendored] :
  /\ OpenTo(Vendored, m) \subseteq OpenTo(w, m)
  /\ \A l \in Letter : NamesIn(OptionsAt(w, l)) \cap OpenTo(w, m) # {}
       => NamesIn(OptionsAt(Vendored, l)) \cap OpenTo(Vendored, m) # {}

\* A folder starts no talent and no form lower than the vendored data reads it, and
\* a shapeshifter's human form, where it has one, enables what the animal does.
FormHad(w, m, f) == IF f \in FormsOf[w][m] THEN f ELSE NoForm
StartsOnlyGrow ==
  /\ \A w \in World, l \in Letter, t \in Talents : StartAt[Vendored][l][t] <= StartAt[w][l][t]
  /\ \A w \in World, m \in Species[Vendored], k \in Keys :
       \A f \in FormsOf[w][m] \cup {NoForm, m} :
         SpeciesFloor[Vendored][<<m, FormHad(Vendored, m, f)>>][k]
           <= SpeciesFloor[w][<<m, FormHad(w, m, IF m \in Shapeshifters /\ f = NoForm
                                                 THEN "Human" ELSE f)>>][k]
=============================================================================
