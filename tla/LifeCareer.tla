------------------------------ MODULE LifeCareer ------------------------------
(***************************************************************************)
(* The skills of a Life Modules character across creation and career.      *)
(* In creation the levels bought stand on the free levels of the modules   *)
(* (LifeSkillGrants).  Entering the career freezes both in a snapshot;     *)
(* raises are then priced rows, replayed on the snapshot at every          *)
(* computation; only the tail can be undone.  Going back turns what was    *)
(* raised into purchases.  The catalog, the prices and the caps can change *)
(* at any time underneath (another ruleset, a quality taken or removed).   *)
(***************************************************************************)
EXTENDS Aggregates

CONSTANTS
  Skills, Group,
  Catalogs,     \* [Skills -> Group \cup {NoGroup, Absent}]: the skills known and their groups
  Frees,        \* free levels a set of modules may give
  Bonuses,      \* raises of the skill maximum, by qualities
  Rates,        \* karma per level
  Bars,         \* sets of skills a character cannot learn, by talent or quality
  CreationCap, CareerCap,
  Purchases,    \* [skills: levels of each skill, groups: levels of each group]
  MaxRaises, MaxLevels,   \* bounds: raises ever made, levels of one raise
  NoGroup, Absent, NoSnapshot

ASSUME CareerAssumption ==
  /\ Catalogs \subseteq [Skills -> Group \cup {NoGroup, Absent}] /\ Catalogs # {}
  /\ Frees \subseteq [Skills -> 0..CreationCap] /\ Frees # {}
  /\ Bonuses \subseteq [Skills -> Nat] /\ Bonuses # {}
  /\ Rates \subseteq Nat /\ Rates # {}
  /\ Bars \subseteq SUBSET Skills /\ Bars # {}
  /\ CreationCap \in Nat /\ CareerCap \in Nat /\ CreationCap <= CareerCap
  /\ Purchases \subseteq [skills : [Skills -> Nat], groups : [Group -> Nat]]
  /\ MaxRaises \in Nat /\ MaxLevels \in Nat
  /\ IsFiniteSet(Skills) /\ Skills \cap Group = {} /\ {NoGroup, Absent} \cap Group = {}
  /\ NoSnapshot \notin [free : [Skills -> Nat], creation : [Skills -> Nat]]

VARIABLES
  career,
  bought,      \* skills and skill_groups of the character: levels paid for
  snapshot,    \* life_module_skill_snapshot
  rows,        \* life_module_skill_advancements
  history,     \* life_module_skill_advancement_history
  given, whole, \* what the modules give now, and whether they are complete
  catalog, bonus, rates,
  barred,      \* unavailable_skill_ids
  raises       \* raises made so far: the next fresh id

mine  == <<career, bought, snapshot, rows, history>>
world == <<given, whole, catalog, bonus, rates, barred>>
careerVars == <<mine, world, raises>>

Least(a, b) == IF a <= b THEN a ELSE b
Most(a, b) == IF a <= b THEN b ELSE a
Known(s) == catalog[s] # Absent
Members(g) == {s \in Skills : catalog[s] = g}

-----------------------------------------------------------------------------
(* resolve_life_skill_purchases: group and single levels overlap, and both *)
(* stand on the free levels.                                               *)
GroupLegal(g) ==
  /\ Members(g) # {}
  /\ \A s, t \in Members(g) : given[s] = given[t]
  /\ \A s \in Members(g) : given[s] + bought.groups[g] <= CreationCap
GroupBought(s) == IF catalog[s] \in Group /\ GroupLegal(catalog[s])
                  THEN bought.groups[catalog[s]] ELSE 0
Requested(s) == given[s] + Most(bought.skills[s], GroupBought(s))
Reached(s) == Least(Requested(s), CreationCap + bonus[s])
PurchaseErrors ==
  \/ \E g \in Group : bought.groups[g] > 0 /\ ~GroupLegal(g)
  \/ \E s \in Skills : IF Known(s) THEN Requested(s) > CreationCap + bonus[s]
                                  ELSE bought.skills[s] > 0 \/ given[s] > 0

-----------------------------------------------------------------------------
(* advancement_targets: the skills a raise lifts, with their ratings.      *)
Targets(at, target) ==
  LET lifted == IF target \in Group THEN Members(target)
                ELSE {s \in {target} : Known(s)}
  IN [s \in lifted |-> at[s]]
Low(targets) == IF DOMAIN targets = {} THEN 0 ELSE targets[CHOOSE s \in DOMAIN targets : TRUE]
Cost(low, levels, rate) ==
  rate * Total([n \in (low + 1)..(low + levels) |-> n])
Lifted(at, targets, levels) ==
  [s \in Skills |-> IF s \in DOMAIN targets THEN at[s] + levels ELSE at[s]]

(* replay_advancements: after the first row that does not fit, none does.  *)
Fits(so, row) ==
  LET targets == Targets(so.at, row.target) IN
  /\ so.ok /\ row.id \notin so.seen
  /\ DOMAIN targets # {} /\ targets = row.from
  /\ row.target \in Group => Cardinality({targets[s] : s \in DOMAIN targets}) = 1
  /\ \A s \in DOMAIN targets :
       targets[s] + row.levels <= CareerCap + (IF row.target \in Group THEN 0 ELSE bonus[s])
Replayed_Skips(so, row) ==
  IF Fits(so, row)
  THEN [at |-> Lifted(so.at, row.from, row.levels), seen |-> so.seen \cup {row.id}, ok |-> TRUE,
        karma |-> so.karma + Cost(Low(row.from), row.levels, row.rate)]
  ELSE so
Replayed(so, row) ==
  IF Fits(so, row)
  THEN [at |-> Lifted(so.at, row.from, row.levels), seen |-> so.seen \cup {row.id}, ok |-> TRUE,
        karma |-> so.karma + Cost(Low(row.from), row.levels, row.rate)]
  ELSE [so EXCEPT !.ok = FALSE]
Replay(list) ==
  FoldLeft(Replayed, [at |-> snapshot.creation, seen |-> {}, ok |-> TRUE, karma |-> 0], list)

-----------------------------------------------------------------------------
(* Creation: purchases and modules are edited freely.                      *)
Buy == /\ ~career /\ bought' \in Purchases
       /\ UNCHANGED <<career, snapshot, rows, history, world, raises>>
PickModules == /\ ~career /\ given' \in Frees /\ whole' \in BOOLEAN
               /\ UNCHANGED <<mine, catalog, bonus, rates, barred, raises>>

(* finish_life_patch, on the way into the career: nothing may be amiss.    *)
Archived_Prepends == rows \o history
Archived == history \o rows
EnterCareer ==
  /\ ~career /\ whole /\ ~PurchaseErrors
  /\ career' = TRUE
  /\ snapshot' = [free |-> given, creation |-> [s \in Skills |-> Reached(s)]]
  /\ history' = Archived
  /\ rows' = <<>>
  /\ UNCHANGED <<bought, world, raises>>

(* _growth_patch: rows come without a price; each is given the ratings it  *)
(* starts from and today's price, and all are kept or none is.  A skill    *)
(* the character cannot learn is refused by itself, and not in its group.  *)
Ask == [target : Skills \cup Group, levels : 1..MaxLevels]
Priced(so, ask) ==
  LET row == [id |-> so.next, target |-> ask.target, levels |-> ask.levels,
              from |-> Targets(so.at, ask.target), rate |-> rates]
  IN [at |-> Lifted(so.at, row.from, ask.levels), next |-> so.next + 1,
      new |-> Append(so.new, row)]
Grow == \E n \in 1..2 : \E asks \in [1..n -> Ask] :
  LET so == FoldLeft(Priced, [at |-> Replay(rows).at, next |-> raises + 1, new |-> <<>>], asks)
  IN /\ career /\ raises + n <= MaxRaises
     /\ \A i \in 1..n : asks[i].target \notin barred
     /\ Replay(rows \o so.new).ok
     /\ rows' = rows \o so.new
     /\ raises' = raises + n
     /\ UNCHANGED <<career, bought, snapshot, history, world>>
Undo == \E n \in 0..(Len(rows) - 1) :
  /\ career /\ rows' = SubSeq(rows, 1, n)
  /\ UNCHANGED <<career, bought, snapshot, history, world, raises>>

(* _return_to_creation: the rows stay, and move to the history on the next *)
(* way in.                                                                 *)
BoughtBack_Gross(now) == now
BoughtBack(now) == [s \in Skills |-> now[s] - snapshot.free[s]]
LeaveCareer ==
  LET now == Replay(rows).at IN
  /\ career /\ Replay(rows).ok
  /\ \A s \in Skills : now[s] > snapshot.free[s] => Known(s)
  /\ career' = FALSE
  /\ bought' = [skills |-> BoughtBack(now),
                groups |-> [g \in Group |-> 0]]
  /\ snapshot' = NoSnapshot
  /\ UNCHANGED <<rows, history, world, raises>>

(* Custom data, another ruleset, a quality gained or lost.                 *)
ChangeCatalog == /\ catalog' \in Catalogs /\ given' \in Frees /\ whole' \in BOOLEAN
                 /\ UNCHANGED <<mine, bonus, rates, barred, raises>>
ChangeCharacter == /\ bonus' \in Bonuses /\ rates' \in Rates /\ barred' \in Bars
                   /\ UNCHANGED <<mine, given, whole, catalog, raises>>

CareerInit ==
  /\ career = FALSE /\ snapshot = NoSnapshot /\ rows = <<>> /\ history = <<>>
  /\ bought = [skills |-> [s \in Skills |-> 0], groups |-> [g \in Group |-> 0]]
  /\ given \in Frees /\ whole = FALSE /\ catalog \in Catalogs
  /\ bonus \in Bonuses /\ rates \in Rates /\ barred \in Bars /\ raises = 0
CareerNext == Buy \/ PickModules \/ EnterCareer \/ Grow \/ Undo \/ LeaveCareer
        \/ ChangeCatalog \/ ChangeCharacter
CareerSpec == CareerInit /\ [][CareerNext]_careerVars

-----------------------------------------------------------------------------
IsRow(row) ==
  /\ row.id \in 1..raises /\ row.target \in Skills \cup Group
  /\ row.levels \in 1..MaxLevels /\ row.rate \in Rates
  /\ DOMAIN row.from \subseteq Skills /\ row.from \in [DOMAIN row.from -> Nat]
CareerTypeOK ==
  /\ career \in BOOLEAN /\ whole \in BOOLEAN
  /\ bought \in [skills : [Skills -> Nat], groups : [Group -> Nat]]
  /\ snapshot \in [free : [Skills -> 0..CreationCap], creation : [Skills -> Nat]] \cup {NoSnapshot}
  /\ \A i \in DOMAIN rows : IsRow(rows[i])
  /\ \A i \in DOMAIN history : IsRow(history[i])
  /\ given \in Frees /\ catalog \in Catalogs /\ bonus \in Bonuses /\ rates \in Rates
  /\ barred \in Bars /\ raises \in 0..MaxRaises

(* The frozen skills are there in the career and only there.               *)
CareerHasItsSnapshot == career <=> snapshot # NoSnapshot

(* No rating is ever below what the modules gave for nothing (the          *)
(* validator of LifeModuleSkillSnapshot): what a return to creation hands  *)
(* back as bought is never negative.                                       *)
FreeIsAFloor == career => \A s \in Skills :
  snapshot.free[s] <= snapshot.creation[s] /\ snapshot.free[s] <= Replay(rows).at[s]

(* A raise is recorded once: in the current career or in the history of an *)
(* earlier one, in the order the raises were made.                         *)
Recorded == IF career THEN history \o rows ELSE history
EachRaiseOnce == \A i, j \in DOMAIN Recorded : i < j => Recorded[i].id < Recorded[j].id

(* Within a career the starting point stands still and a raise keeps the   *)
(* ratings it started from and the price it was bought at, whatever the    *)
(* catalog and the prices become; raises are added and undone at the end.  *)
PaidStaysPaid == [][career /\ career' =>
  /\ snapshot' = snapshot /\ bought' = bought /\ history' = history
  /\ \A i \in DOMAIN rows \cap DOMAIN rows' : rows'[i] = rows[i]]_careerVars

(* Going back to creation keeps every rating, as levels requested above    *)
(* the free ones, as long as the modules still give what they gave.        *)
ReturnKeepsRatings == [][career /\ ~career' /\ given = snapshot.free =>
  \A s \in Skills : Requested(s)' = Replay(rows).at[s]]_careerVars

(* The karma charged is the price of the very raises in effect: with the   *)
(* rows that fit, no karma without its levels and no level without karma.  *)
KarmaIsForTheLevels == career =>
  LET so == Replay(rows)
      paid == {i \in DOMAIN rows : rows[i].id \in so.seen}
      lifts == [i \in paid |-> Total([s \in DOMAIN rows[i].from |-> rows[i].levels])]
      prices == [i \in paid |-> Cost(Low(rows[i].from), rows[i].levels, rows[i].rate)]
  IN /\ so.ok => paid = DOMAIN rows
     /\ Total([s \in Skills |-> so.at[s] - snapshot.creation[s]]) = Total(lifts)
     /\ so.karma = Total(prices)

(* What a career holds in rows is well formed, and no raise is there twice. *)
RowsOK == CareerTypeOK /\ CareerHasItsSnapshot /\ EachRaiseOnce

(* Every level above the free ones was bought in creation or raised and    *)
(* paid in career.                                                         *)
LevelsAreEarned == FreeIsAFloor /\ KarmaIsForTheLevels

(* Neither a change of the world underneath nor the way back to creation   *)
(* takes from a rating or its price.                                       *)
RatingsAreKept == PaidStaysPaid /\ ReturnKeepsRatings
=============================================================================
