---------------------------- MODULE Construction ----------------------------
(***************************************************************************)
(* Electronic modifications and the parts they are built of.  A character  *)
(* holds purchases and supplies of parts, devices, modification rows and   *)
(* one record per construction; a patch replaces whole lists, and          *)
(* prepare_construction_patch settles or refuses all of it at once.  The   *)
(* browser composes a list from the character on screen.  A list of records*)
(* that waited, alone or beside another list, was composed from the        *)
(* character before the body it waited for.                                *)
(* Parts are counted in quarter-packs; a device is known by the one Matrix *)
(* attribute its modifications touch (0: it has none).                     *)
(***************************************************************************)
EXTENDS Aggregates

CONSTANTS
  Purchase, Supply,   \* sources of parts, bought or registered
  Device, Mod,        \* devices, and modification rows
  Rule,               \* Mod -> "add", "increase" or "module"
  DeviceRating,       \* Device -> Nat
  Values,             \* Device -> the values its attribute may be arranged to
  ShopUnits,          \* Supply -> units its Hardware shop may hold, 0 for other kinds
  Places,             \* bound: Mod -> where a patch may put it
  Amounts, Spreads,   \* bounds: Source -> units of it, and allocations a player may enter
  MaxRecords,         \* bound: Mod -> records a modification may have
  Beside,             \* bound: the lists beside which one of records may wait
  Starting,           \* characters as made or imported
  Gone                \* where a row is that is not on the list

Source == Purchase \cup Supply
NoParts == [s \in Source |-> 0]
Statuses == {"pending", "completed", "historical", "cancelled"}

ASSUME ConstructionAssumption ==
  /\ IsFiniteSet(Mod) /\ Rule \in [Mod -> {"add", "increase", "module"}]
  /\ DeviceRating \in [Device -> Nat] /\ Values \in [Device -> SUBSET Nat]
  /\ ShopUnits \in [Supply -> Nat] /\ Places \in [Mod -> SUBSET (Device \cup Mod)]
  /\ Amounts \in [Source -> SUBSET Nat] /\ Spreads \subseteq [Source -> Nat]
  /\ Gone \notin Device \cup Mod \cup Nat

Gear == [owned : [Purchase -> Nat], at : [Mod -> Device \cup Mod \cup {Gone}]]

\* A character is made, and imported, without records.
ASSUME StartingAssumption ==
  \A c \in Starting :
    /\ c \in [gear : Gear, devices : [Device -> Nat \cup {Gone}],
             supplies : [Supply -> Nat], records : {{}}]
    /\ \A s \in Purchase : c.gear.owned[s] \in Amounts[s]
    /\ \A s \in Supply : c.supplies[s] \in Amounts[s]
    /\ \A d \in Device : c.devices[d] \in Values[d] \cup {Gone}

VARIABLES
  ch,     \* [gear: [owned, at], devices, supplies, records]
  shown,  \* what of it the record editor had on screen while the last body was in flight
  sent    \* the lists that body brought
vars == <<ch, shown, sent>>
-----------------------------------------------------------------------------
\* Units a source was acquired with, and what records of one status take of it.
Stock(c, s) == IF s \in Purchase THEN c.gear.owned[s] ELSE c.supplies[s]
Taken(c, s, status) ==
  Total([r \in {r \in c.records : r.status = status} |-> r.from[s]])

\* The device a row is soldered into; an Increase may sit below its Add.
Below(c, m) ==
  c.gear.at[m] \in Mod /\ Rule[c.gear.at[m]] = "add" /\ c.gear.at[c.gear.at[m]] # Gone
Named(c, m) == IF Below(c, m) THEN c.gear.at[c.gear.at[m]] ELSE c.gear.at[m]
HostOf(c, m) ==
  IF Named(c, m) \in Device /\ c.devices[Named(c, m)] # Gone THEN Named(c, m) ELSE Gone

\* Parts a modification takes on an attribute of `value`; 0 where it cannot be made.
Needs(m, host, value) ==
  CASE Rule[m] = "add" -> IF value = 0 THEN DeviceRating[host] * 8 ELSE 0
    [] Rule[m] = "increase" -> IF value > 0 THEN (value + 1) * 8 ELSE 0
    [] Rule[m] = "module" -> 8
NeedsNow(c, m) ==
  IF Below(c, m) /\ Rule[m] = "increase" THEN 16
  ELSE IF HostOf(c, m) = Gone THEN (IF Rule[m] = "module" THEN 8 ELSE 0)
  ELSE Needs(m, HostOf(c, m), c.devices[HostOf(c, m)])
\* What a completed record says it took, from what it froze of its device.
FrozenNeed(r) ==
  CASE Rule[r.mod] = "add" -> r.snap.rating * 8
    [] Rule[r.mod] = "increase" -> (r.snap.value + 1) * 8
    [] Rule[r.mod] = "module" -> 8

\* A source promised to more than it holds.
Overdrawn(c, s) == Taken(c, s, "completed") + Taken(c, s, "pending") > Stock(c, s)
ShopTwice(c) == Cardinality({s \in Supply : ShopUnits[s] > 0 /\ c.supplies[s] > 0}) > 1
Bad(c, r) ==
  \/ r.status = "completed" /\ ~(FrozenNeed(r) = r.needs /\ r.needs > 0 /\ Total(r.from) = r.needs)
  \/ r.status = "pending" /\ Total(r.from) > r.needs
  \/ r.status \in {"completed", "pending"} /\ \E s \in Source : r.from[s] > 0 /\ Overdrawn(c, s)
  \/ \E q \in c.records \ {r} :
       \/ q.id = r.id
       \/ q.mod = r.mod /\ "cancelled" \notin {q.status, r.status}
  \/ ShopTwice(c)

Active(c, m) == {r \in c.records : r.mod = m /\ r.status # "cancelled"}
\* A cancelled record leaves a row a draft; a row without any is of old.
Status(c, m) ==
  IF \E r \in Active(c, m) : TRUE THEN (CHOOSE r \in Active(c, m) : TRUE).status
  ELSE IF \E r \in c.records : r.mod = m THEN "pending" ELSE "unverified"
Misplaced(c, m) == \E r \in Active(c, m) : r.host # HostOf(c, m)
Mismatch(c, m) == Misplaced(c, m) \/ \E r \in Active(c, m) : Bad(c, r)
\* More than one modification soldered straight into a device.
Crowded(c, m) ==
  /\ HostOf(c, m) # Gone /\ c.gear.at[m] = HostOf(c, m) /\ Status(c, m) # "pending"
  /\ \E n \in Mod \ {m} : c.gear.at[n] = c.gear.at[m] /\ Status(c, n) # "pending"
ValidAlone(c, m) ==
  /\ c.gear.at[m] # Gone /\ NeedsNow(c, m) > 0 /\ ~Mismatch(c, m)
  /\ Below(c, m) <=> c.gear.at[m] \in Mod
  /\ Below(c, m) => Rule[m] = "increase"
  /\ Status(c, m) # "pending" /\ ~Crowded(c, m)
\* A row below another modification falls with it.
Fallen(c, m) ==
  LET above == c.gear.at[m]
  IN  above \in Mod /\ c.gear.at[above] # Gone /\ ~ValidAlone(c, above)
\* The modification has its effect.
Valid(c, m) == ValidAlone(c, m) /\ ~Fallen(c, m)
-----------------------------------------------------------------------------
IsNewIn(old, new, m) == new.gear.at[m] # Gone /\ old.gear.at[m] = Gone

\* A modification added without a record is a draft.
Draft(new, m) ==
  [id |-> <<m, Cardinality({r \in new.records : r.mod = m}) + 1>>, mod |-> m,
   host |-> Named(new, m),
   status |-> "pending", needs |-> 0, from |-> NoParts, snap |-> [rating |-> 0, value |-> 0]]
Drafted(old, new) ==
  [new EXCEPT !.records =
     @ \cup {Draft(new, m) : m \in {m \in Mod : IsNewIn(old, new, m) /\ Active(new, m) = {}}}]

\* A closed record stays as it is, or is corrected to cancelled.
Closed(c) == {r \in c.records : r.status # "pending"}
KeepsHistory(old, new) ==
  \A r \in Closed(old) : \E n \in new.records :
    \/ n = r
    \/ r.status # "cancelled" /\ n = [r EXCEPT !.status = "cancelled"]

\* Parts already used stay as they were acquired, and so do a shop's.
Spent(new) ==
  {s \in Source : \E r \in new.records : r.status = "completed" /\ r.from[s] > 0}
\* mutant: a used purchase must only still be there
KeepsPurchases_Present(old, new) ==
  \A s \in Spent(new) \cap Purchase : old.gear.owned[s] > 0 => new.gear.owned[s] > 0
KeepsPurchases(old, new) ==
  \A s \in Spent(new) \cap Purchase :
    old.gear.owned[s] > 0 => new.gear.owned[s] = old.gear.owned[s]
KeepsSupplies(old, new) ==
  /\ \A s \in Spent(new) \cap Supply :
       old.supplies[s] > 0 => new.supplies[s] = old.supplies[s]
  /\ \A s \in Supply : ShopUnits[s] > 0 /\ new.supplies[s] > 0 =>
       IF old.supplies[s] > 0 THEN new.supplies[s] = old.supplies[s]
       ELSE new.supplies[s] <= ShopUnits[s]

\* Records this patch completes, or marks as from before records were kept.
Settling(old, new) ==
  {r \in new.records : /\ r.status \in {"completed", "historical"}
                       /\ ~\E o \in old.records : o.id = r.id /\ o.status = r.status}
MaySettle(old, new, r) ==
  /\ r.status = "historical" =>
       old.gear.at[r.mod] # Gone /\ ~\E o \in old.records : o.mod = r.mod /\ o.status = "pending"
  /\ new.gear.at[r.mod] # Gone /\ r.host \in Device /\ new.devices[r.host] # Gone
  /\ Below(new, r.mod) \/ Needs(r.mod, r.host, new.devices[r.host]) > 0
Settle(new, r) ==
  LET below == Below(new, r.mod)
  IN  [r EXCEPT !.from = IF r.status = "historical" THEN NoParts ELSE @,
                !.needs = IF below THEN 16 ELSE Needs(r.mod, r.host, new.devices[r.host]),
                !.snap = [rating |-> DeviceRating[r.host],
                          value |-> IF below THEN 1 ELSE new.devices[r.host]]]
\* Then drafts of removed rows go, and those left ask for what they need now.
\* mutant: a draft asks for what it asked for when it was made
Settled_AsDrafted(old, new) ==
  LET closing == Settling(old, new)
      drafts == {r \in new.records : r.status = "pending" /\ new.gear.at[r.mod] # Gone}
      rest == {r \in new.records \ closing : r.status # "pending"}
  IN  [new EXCEPT !.records = rest \cup drafts \cup {Settle(new, r) : r \in closing}]
Settled(old, new) ==
  LET closing == Settling(old, new)
      drafts == {r \in new.records : r.status = "pending" /\ new.gear.at[r.mod] # Gone}
      rest == {r \in new.records \ closing : r.status # "pending"}
  IN  [new EXCEPT !.records = rest \cup {Settle(new, r) : r \in closing}
                                   \cup {[r EXCEPT !.needs = NeedsNow(new, r.mod)] : r \in drafts}]

\* Everything is judged together, so no half of a construction is answered.
AddsUp(old, new) ==
  /\ ~ShopTwice(new)
  /\ \A r \in new.records :
       /\ ~Bad(new, r)
       /\ r.status = "completed" /\ new.gear.at[r.mod] # Gone =>
            ~Misplaced(new, r.mod) \/ Crowded(new, r.mod) \/ Fallen(new, r.mod)
  /\ \A r \in Settling(old, new) : r.status = "completed" => Valid(new, r.mod)

\* What a record is edited from.
OnScreen(c) == [gear |-> [at |-> c.gear.at], devices |-> c.devices, records |-> c.records]

\* The whole handler on one body; a refused one changes nothing.
Patch(body) ==
  LET laid == [f \in DOMAIN ch |-> IF f \in DOMAIN body THEN body[f] ELSE ch[f]]
      new == Drafted(ch, laid)
      settled == Settled(ch, new)
  IN  /\ KeepsHistory(ch, new) /\ KeepsPurchases(ch, new) /\ KeepsSupplies(ch, new)
      /\ \A r \in Settling(ch, new) : MaySettle(ch, new, r)
      /\ AddsUp(ch, settled)
      /\ \A m \in Mod : Cardinality({r \in settled.records : r.mod = m}) <= MaxRecords[m]
      /\ ch' = settled
      /\ shown' = OnScreen(ch) /\ sent' = DOMAIN body
-----------------------------------------------------------------------------
\* The record editor on screen c: save a draft's parts, complete, call historical.
MaySave(c, m, status) ==
  /\ c.gear.at[m] # Gone /\ HostOf(c, m) # Gone
  /\ Status(c, m) \in {"pending", "unverified"}
  /\ status = "historical" => Status(c, m) = "unverified"
Saved(c, m, status, from) ==
  LET mine == Active(c, m)
      fresh == [Draft(c, m) EXCEPT !.host = HostOf(c, m)]
      kept == IF mine = {} THEN fresh ELSE CHOOSE r \in mine : TRUE
  IN  (c.records \ mine) \cup {[kept EXCEPT !.status = status, !.from = from]}
MayCorrect(c, r) == r \in c.records /\ r.status \in {"completed", "historical"}
Corrected(c, r) == (c.records \ {r}) \cup {[r EXCEPT !.status = "cancelled"]}

\* The screen a list of records is made from: what is shown now, or what was
\* shown while a body without records was in flight.  Behind one with records
\* a list waits alone only if it saves the same record a step on, which is
\* the list the next screen makes of it.
Screens == {OnScreen(ch)} \cup (IF "records" \in sent THEN {} ELSE {shown})
SaveRecord(m, status, from) ==
  \E c \in Screens : MaySave(c, m, status) /\ Patch([records |-> Saved(c, m, status, from)])
CorrectRecord(r) ==
  \E c \in Screens : MayCorrect(c, r) /\ Patch([records |-> Corrected(c, r)])

\* Behind another list that waits, one of records waits too, whatever is in flight.
Waited ==
  {Saved(shown, e[1], e[2], e[3]) :
     e \in {e \in Mod \X {"pending", "completed", "historical"} \X Spreads :
              MaySave(shown, e[1], e[2])}}
    \cup {Corrected(shown, r) : r \in {r \in shown.records : MayCorrect(shown, r)}}
With(body, list) ==
  [f \in DOMAIN body \cup {"records"} |-> IF f = "records" THEN list ELSE body[f]]
Send(body) ==
  \/ Patch(body)
  \/ /\ DOMAIN body \subseteq Beside /\ DOMAIN body \cap sent = {}
     /\ \E list \in Waited : Patch(With(body, list))

ChangePurchase(s, n) == Send([gear |-> [ch.gear EXCEPT !.owned[s] = n]])
Present(at) == at # Gone /\ IF at \in Mod THEN ch.gear.at[at] # Gone ELSE ch.devices[at] # Gone
\* A row is added once, under a name of its own; no screen moves one, a body may.
AddMod(m, at) ==
  /\ ch.gear.at[m] = Gone /\ ~\E r \in ch.records : r.mod = m
  /\ Present(at) /\ Send([gear |-> [ch.gear EXCEPT !.at[m] = at]])
MoveMod(m, at) ==
  /\ ch.gear.at[m] \notin {Gone, at}
  /\ Present(at) /\ Send([gear |-> [ch.gear EXCEPT !.at[m] = at]])
RemoveMod(m) ==
  LET tree == {m} \cup {n \in Mod : ch.gear.at[n] = m}
  IN  /\ ch.gear.at[m] # Gone
      /\ Send([gear |-> [ch.gear EXCEPT !.at = [n \in Mod |-> IF n \in tree THEN Gone ELSE @[n]]]])
ArrangeDevice(d, v) == ch.devices[d] # Gone /\ Send([devices |-> [ch.devices EXCEPT ![d] = v]])
RegisterSupply(s, n) == Send([supplies |-> [ch.supplies EXCEPT ![s] = n]])
\* The row and its device leave in one body.
ScrapDevice(d) ==
  /\ ch.devices[d] # Gone
  /\ Send([gear |-> [ch.gear EXCEPT !.at = [m \in Mod |-> IF HostOf(ch, m) = d THEN Gone ELSE @[m]]],
           devices |-> [ch.devices EXCEPT ![d] = Gone]])

Init == ch \in Starting /\ shown = OnScreen(ch) /\ sent = {}
Next ==
  \/ \E s \in Purchase : \E n \in Amounts[s] : ChangePurchase(s, n)
  \/ \E m \in Mod : \E at \in Places[m] : AddMod(m, at) \/ MoveMod(m, at)
  \/ \E m \in Mod : RemoveMod(m)
  \/ \E d \in Device : \E v \in Values[d] : ArrangeDevice(d, v)
  \/ \E s \in Supply : \E n \in Amounts[s] : RegisterSupply(s, n)
  \/ \E d \in Device : ScrapDevice(d)
  \/ \E m \in Mod, status \in {"pending", "completed", "historical"}, from \in Spreads :
       SaveRecord(m, status, from)
  \/ \E r \in ch.records \cup shown.records : CorrectRecord(r)
Spec == Init /\ [][Next]_vars
-----------------------------------------------------------------------------
TypeOK ==
  /\ \A s \in Source : Stock(ch, s) \in Amounts[s]
  /\ ch.gear.at \in [Mod -> Device \cup Mod \cup {Gone}]
  /\ \A d \in Device : ch.devices[d] \in Values[d] \cup {Gone}
  /\ \A r \in ch.records :
       /\ r.mod \in Mod /\ r.host \in Device \cup Mod \cup {Gone} /\ r.status \in Statuses
       /\ r.from \in Spreads \cup {NoParts} /\ r.needs \in Nat
  /\ sent \subseteq DOMAIN ch
  /\ {<<r.id, r.mod>> : r \in Closed(shown)} \subseteq {<<r.id, r.mod>> : r \in Closed(ch)}

\* No source gives more than it was acquired with, to what is built and to
\* what is reserved, however the lists were replaced, in whatever order and
\* from however old a screen.
PartsCovered ==
  \A s \in Source : Taken(ch, s, "completed") + Taken(ch, s, "pending") <= Stock(ch, s)

\* A completed construction took exactly what the device it was built on asked
\* for, and a row has one record in force: no edit of it, of its parts, of its
\* device or of another construction changes that afterwards.
CompletedIsPaid ==
  \A r \in ch.records : r.status = "completed" =>
    /\ Total(r.from) = r.needs /\ r.needs = FrozenNeed(r) /\ r.needs > 0
    /\ Active(ch, r.mod) = {r}

\* No source something takes from, built or reserved, is promised twice.
SourcesInUseHold ==
  \A r \in ch.records : r.status \in {"completed", "pending"} =>
    \A s \in Source : r.from[s] > 0 => ~Overdrawn(ch, s)

\* What a draft asks for and reserves is for its row and its device of today.
DraftsAreCurrent ==
  \A r \in ch.records : r.status = "pending" =>
    /\ ch.gear.at[r.mod] # Gone
    /\ r.needs = NeedsNow(ch, r.mod) /\ ~(Total(r.from) > r.needs)

\* A closed record changes only by the correction that cancels it, and is then
\* kept with what it took.
ClosedIsFinal ==
  [][\A r \in Closed(ch) : \E n \in ch'.records :
       n = r \/ (n.id = r.id /\ n.status = "cancelled" /\ n.from = r.from)]_vars

\* Parts used come back only by a correction, and a purchase that is used keeps
\* the units it was bought with.
PartsComeBackByCorrection ==
  [][ \A s \in Source :
        /\ Taken(ch', s, "completed") < Taken(ch, s, "completed") =>
             \E n \in ch'.records : n.status = "cancelled" /\ n \notin ch.records /\ n.from[s] > 0
        /\ Taken(ch, s, "completed") > 0 /\ Taken(ch', s, "completed") > 0 =>
             Stock(ch', s) = Stock(ch, s) \/ Taken(ch', s, "completed") # Taken(ch, s, "completed")
    ]_vars

\* What the records say of today is true: each completed one is paid for out of
\* parts there are, each draft asks for what its row needs now.
RecordsAreTrue == CompletedIsPaid /\ SourcesInUseHold /\ DraftsAreCurrent

\* Parts are neither promised twice nor handed back from what was built.
PartsAreConserved == [](TypeOK /\ PartsCovered) /\ ClosedIsFinal /\ PartsComeBackByCorrection

\* A modification is of old only if it came with the character: one that was
\* added here, or was a draft, never turns into one that needs no parts.
\* (electronic_construction.py _draft_new_modifications)
NothingBecomesOld ==
  [][ \A m \in Mod : ch'.gear.at[m] # Gone /\ Status(ch', m) = "unverified" =>
        ch.gear.at[m] # Gone /\ Status(ch, m) = "unverified" ]_vars
=============================================================================
