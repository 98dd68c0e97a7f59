------------------------ MODULE Construction_proofs -------------------------
(***************************************************************************)
(* Proofs about Construction for any devices, modifications, sources and   *)
(* bodies: whatever lists a patch replaces, and from however old a screen  *)
(* they were made, the answer is one the checks of                         *)
(* prepare_construction_patch passed as a whole, after the last change it  *)
(* makes.                                                                  *)
(***************************************************************************)
EXTENDS Construction, Aggregates_proofs

\* A record of a construction has these fields and no other.
Shaped(r) ==
  r = [id |-> r.id, mod |-> r.mod, host |-> r.host, status |-> r.status,
       needs |-> r.needs, from |-> r.from, snap |-> r.snap]
AllShaped(c) == \A r \in c.records : Shaped(r)
Fields == {"gear", "devices", "supplies", "records"}

\* And of these kinds.
Proper(r) ==
  /\ r.mod \in Mod /\ r.host \in Device \cup Mod \cup {Gone} /\ r.status \in Statuses
  /\ r.from \in Spreads \cup {NoParts} /\ r.needs \in Nat
Recorded(c) == IsFiniteSet(c.records) /\ AllShaped(c) /\ \A r \in c.records : Proper(r)

\* The other lists, each of what it may hold.
Geared(c) == c.gear \in Gear /\ \A s \in Purchase : c.gear.owned[s] \in Amounts[s]
Devised(c) == DOMAIN c.devices = Device /\ \A d \in Device : c.devices[d] \in Values[d] \cup {Gone}
Supplied(c) == c.supplies \in [Supply -> Nat] /\ \A s \in Supply : c.supplies[s] \in Amounts[s]

Listed(c) ==
  DOMAIN c = Fields /\ c = [f \in Fields |-> c[f]] /\ Geared(c) /\ Devised(c) /\ Supplied(c)

\* A body brings some of them.
Carried(body) ==
  /\ DOMAIN body \subseteq Fields
  /\ "gear" \in DOMAIN body => Geared(body)
  /\ "devices" \in DOMAIN body => Devised(body)
  /\ "supplies" \in DOMAIN body => Supplied(body)
  /\ "records" \in DOMAIN body => Recorded(body)

\* Two records are told apart by their names.
Distinct(c) == \A q, r \in c.records : q.id = r.id => q = r

ClosedNames(c) == {<<r.id, r.mod>> : r \in Closed(c)}
Covered(c) == \A s \in Source : Taken(c, s, "completed") + Taken(c, s, "pending") <= Stock(c, s)

\* The records of the screen count too: a body may be made from them.
IInv ==
  /\ Listed(ch) /\ Recorded(ch) /\ Recorded(shown)
  /\ Distinct(ch) /\ ClosedNames(shown) \subseteq ClosedNames(ch)
  /\ Covered(ch) /\ sent \subseteq Fields
  /\ RecordsAreTrue

-----------------------------------------------------------------------------
(* What records take of a source.                                           *)
LEMMA Taking ==
  ASSUME NEW c, Recorded(c), NEW s \in Source, NEW status
  PROVE  /\ Taken(c, s, status) \in Nat
         /\ Taken(c, s, status) # 0 => \E r \in c.records : r.status = status /\ r.from[s] > 0
<1> DEFINE R == {r \in c.records : r.status = status}
           f == [r \in R |-> r.from[s]]
<1>1. IsFiniteSet(R)
  BY FS_Subset DEF Recorded
<1>2. \A r \in R : f[r] = r.from[s] /\ f[r] \in Nat
  BY ConstructionAssumption DEF Recorded, Proper, NoParts
<1>3. DOMAIN f = R /\ Taken(c, s, status) = Total(f)
  BY DEF Taken
<1>4. \A r \in R : r \in c.records /\ r.status = status
  OBVIOUS
<1> HIDE DEF R, f
<1>5. Taken(c, s, status) = SumOn(f, R)
  BY <1>3, TotalIsSum
<1>6. SumOn(f, R) \in Nat
  BY <1>1, <1>2, SumIsNat
<1>7. ASSUME SumOn(f, R) # 0 PROVE \E r \in R : f[r] > 0
  <2> SUFFICES ASSUME \A r \in R : ~(f[r] > 0) PROVE FALSE
    OBVIOUS
  <2>1. \A r \in R : f[r] = 0
    BY <1>2
  <2>2. SumOn(f, R) = 0
    BY <1>1, <2>1, SumOfZeros
  <2> QED
    BY <1>7, <2>2
<1> QED
  BY <1>2, <1>4, <1>5, <1>6, <1>7

(* What is taken does not fall while the records that take it stay.         *)
LEMMA TakingStays ==
  ASSUME NEW c, NEW d, Recorded(c), Recorded(d), NEW s \in Source, NEW status,
         \A r \in c.records : r.status = status /\ r.from[s] > 0 => r \in d.records
  PROVE  Taken(c, s, status) <= Taken(d, s, status)
<1> DEFINE R == {r \in c.records : r.status = status}
           Q == {r \in d.records : r.status = status}
           f == [r \in R |-> r.from[s]]
           g == [r \in Q |-> r.from[s]]
           P == {r \in R : r.from[s] > 0}
           h == [r \in R \cup Q |-> r.from[s]]
<1>1. IsFiniteSet(R) /\ IsFiniteSet(Q)
  BY FS_Subset DEF Recorded
<1>2. \A r \in R \cup Q : h[r] = r.from[s] /\ h[r] \in Nat
  BY ConstructionAssumption DEF Recorded, Proper, NoParts
<1>3. \A r \in R : f[r] = h[r]
  OBVIOUS
<1>4. \A r \in Q : g[r] = h[r]
  OBVIOUS
<1>5. P \subseteq R /\ P \subseteq Q
  OBVIOUS
<1>6. \A r \in R \ P : r \in R \cup Q /\ ~(r.from[s] > 0)
  OBVIOUS
<1>7. DOMAIN f = R /\ Taken(c, s, status) = Total(f) /\ DOMAIN g = Q /\ Taken(d, s, status) = Total(g)
  BY DEF Taken
<1> HIDE DEF R, Q, P, f, g, h
<1>8. /\ (\A r \in R : h[r] \in Int) /\ (\A r \in Q : h[r] \in Nat)
      /\ \A r \in R \ P : h[r] = 0
  BY <1>2, <1>6
<1>9. Total(f) = SumOn(h, R)
  <2>1. \A r \in R : f[r] \in Int /\ h[r] = f[r]
    BY <1>3, <1>8
  <2> QED
    BY <1>1, <1>7, <2>1, TotalIsSumOn
<1>10. Total(g) = SumOn(h, Q)
  <2>1. \A r \in Q : g[r] \in Int /\ h[r] = g[r]
    BY <1>4, <1>8
  <2> QED
    BY <1>1, <1>7, <2>1, TotalIsSumOn
<1>11. SumOn(h, R) = SumOn(h, P)
  BY ONLY <1>1, <1>5, <1>8, SumOfSupport
<1>12. SumOn(h, P) <= SumOn(h, Q)
  BY ONLY <1>1, <1>5, <1>8, SumOfMore
<1> QED
  BY ONLY <1>7, <1>9, <1>10, <1>11, <1>12

-----------------------------------------------------------------------------
(* Where a modification sits and what it takes are of their kinds.          *)
LEMMA NeedIsNat ==
  ASSUME NEW m \in Mod, NEW d \in Device, NEW v \in Nat
  PROVE  Needs(m, d, v) \in Nat
<1>1. Rule[m] \in {"add", "increase", "module"} /\ DeviceRating[d] \in Nat
  BY ConstructionAssumption
<1>2. CASE Rule[m] = "add"
  BY <1>1, <1>2 DEF Needs
<1>3. CASE Rule[m] = "increase"
  BY <1>3 DEF Needs
<1>4. CASE Rule[m] = "module"
  BY <1>4 DEF Needs
<1> QED
  BY <1>1, <1>2, <1>3, <1>4

LEMMA ArrangedIsNat ==
  ASSUME NEW c, Devised(c), NEW d \in Device, c.devices[d] # Gone
  PROVE  c.devices[d] \in Nat
BY ConstructionAssumption DEF Devised

LEMMA NeedNowIsNat ==
  ASSUME NEW c, Geared(c), Devised(c), NEW m \in Mod
  PROVE  /\ NeedsNow(c, m) \in Nat
         /\ Named(c, m) \in Device \cup Mod \cup {Gone}
<1>1. c.gear.at \in [Mod -> Device \cup Mod \cup {Gone}]
  BY DEF Geared, Gear
<1>2. Named(c, m) \in Device \cup Mod \cup {Gone}
  BY <1>1 DEF Named, Below
<1>3. HostOf(c, m) # Gone => HostOf(c, m) \in Device /\ c.devices[HostOf(c, m)] # Gone
  BY DEF HostOf
<1>4. HostOf(c, m) # Gone => Needs(m, HostOf(c, m), c.devices[HostOf(c, m)]) \in Nat
  BY <1>3, ArrangedIsNat, NeedIsNat
<1>5. NeedsNow(c, m) \in Nat
  BY <1>4 DEF NeedsNow
<1> QED
  BY <1>2, <1>5

(* What a settled record keeps of the one it was.                           *)
LEMMA SettleKeeps ==
  ASSUME NEW new, NEW r, Shaped(r)
  PROVE  /\ Shaped(Settle(new, r)) /\ Settle(new, r).status = r.status
         /\ Settle(new, r).mod = r.mod /\ Settle(new, r).host = r.host
         /\ Settle(new, r).from = IF r.status = "historical" THEN NoParts ELSE r.from
         /\ Settle(new, r).needs = IF Below(new, r.mod) THEN 16
                                   ELSE Needs(r.mod, r.host, new.devices[r.host])
<1> DEFINE below == Below(new, r.mod)
           from == IF r.status = "historical" THEN NoParts ELSE r.from
           needs == IF below THEN 16 ELSE Needs(r.mod, r.host, new.devices[r.host])
           snap == [rating |-> DeviceRating[r.host],
                    value |-> IF below THEN 1 ELSE new.devices[r.host]]
           x == [r EXCEPT !.from = from, !.needs = needs, !.snap = snap]
<1>1. Settle(new, r) = x
  BY DEF Settle, Shaped
<1> HIDE DEF from, needs, snap
<1>2. x = [id |-> r.id, mod |-> r.mod, host |-> r.host, status |-> r.status,
           needs |-> needs, from |-> from, snap |-> snap]
  <2> DEFINE y == [r EXCEPT !.from = from]
             z == [y EXCEPT !.needs = needs]
  <2>1. y = [id |-> r.id, mod |-> r.mod, host |-> r.host, status |-> r.status,
             needs |-> r.needs, from |-> from, snap |-> r.snap]
    BY DEF Shaped
  <2> HIDE DEF y
  <2>2. z = [id |-> r.id, mod |-> r.mod, host |-> r.host, status |-> r.status,
             needs |-> needs, from |-> from, snap |-> r.snap]
    BY <2>1
  <2> HIDE DEF z
  <2>3. [z EXCEPT !.snap = snap] =
            [id |-> r.id, mod |-> r.mod, host |-> r.host, status |-> r.status,
             needs |-> needs, from |-> from, snap |-> snap]
    BY <2>2
  <2>4. x = [z EXCEPT !.snap = snap]
    BY DEF y, z
  <2> QED
    BY <2>3, <2>4
<1> HIDE DEF x
<1>3. /\ Shaped(x) /\ x.status = r.status /\ x.mod = r.mod /\ x.host = r.host
      /\ x.from = from /\ x.needs = needs
  BY <1>2 DEF Shaped
<1> QED
  BY <1>1, <1>3 DEF from, needs

(* A draft that is asked for what it needs now stays a draft of its row.    *)
LEMMA AskedAnew ==
  ASSUME NEW r, Shaped(r), NEW n
  PROVE  /\ Shaped([r EXCEPT !.needs = n])
         /\ [r EXCEPT !.needs = n].needs = n
         /\ [r EXCEPT !.needs = n].mod = r.mod
         /\ [r EXCEPT !.needs = n].host = r.host
         /\ [r EXCEPT !.needs = n].from = r.from
         /\ [r EXCEPT !.needs = n].status = r.status
BY DEF Shaped

(* Which records an answer holds, and that settling touches nothing else.   *)
LEMMA SettledRecords ==
  ASSUME NEW old, NEW new, DOMAIN new = Fields, new = [f \in Fields |-> new[f]], AllShaped(new)
  PROVE  /\ DOMAIN Settled(old, new) = Fields
         /\ Settled(old, new) = [f \in Fields |-> Settled(old, new)[f]]
         /\ Settled(old, new).gear = new.gear
         /\ Settled(old, new).devices = new.devices
         /\ AllShaped(Settled(old, new))
         /\ \A r \in Settled(old, new).records : r.status = "pending" =>
              new.gear.at[r.mod] # Gone /\ r.needs = NeedsNow(new, r.mod)
         /\ \A r \in new.records \ Settling(old, new) :
              r.status # "pending" => r \in Settled(old, new).records
<1> DEFINE closing == Settling(old, new)
           drafts == {r \in new.records : r.status = "pending" /\ new.gear.at[r.mod] # Gone}
           rest == {r \in new.records \ closing : r.status # "pending"}
           asked == {[r EXCEPT !.needs = NeedsNow(new, r.mod)] : r \in drafts}
           done == {Settle(new, r) : r \in closing}
           s == Settled(old, new)
<1>1. s = [new EXCEPT !.records = rest \cup done \cup asked]
  BY DEF Settled
<1>2. \A r \in rest : Shaped(r) /\ r.status # "pending"
  BY DEF AllShaped
<1>3. \A r \in done : Shaped(r) /\ r.status # "pending"
  <2> TAKE r \in done
  <2>1. PICK c \in closing : r = Settle(new, c)
    OBVIOUS
  <2>2. Shaped(c) /\ c.status \in {"completed", "historical"}
    BY DEF AllShaped, Settling
  <2> QED
    BY <2>1, <2>2, SettleKeeps
<1>4. \A r \in asked : Shaped(r) /\ new.gear.at[r.mod] # Gone /\ r.needs = NeedsNow(new, r.mod)
  <2> TAKE r \in asked
  <2>1. PICK d \in drafts : r = [d EXCEPT !.needs = NeedsNow(new, d.mod)]
    OBVIOUS
  <2>2. Shaped(d) /\ new.gear.at[d.mod] # Gone
    BY DEF AllShaped
  <2> QED
    BY <2>1, <2>2, AskedAnew
<1> HIDE DEF rest, done, asked, s
<1>5. /\ DOMAIN s = Fields /\ s = [f \in Fields |-> s[f]]
      /\ s.gear = new.gear /\ s.devices = new.devices
      /\ s.records = rest \cup done \cup asked
  BY <1>1 DEF Fields
<1>6. AllShaped(s)
  BY <1>2, <1>3, <1>4, <1>5 DEF AllShaped
<1>7. \A r \in s.records : r.status = "pending" =>
        new.gear.at[r.mod] # Gone /\ r.needs = NeedsNow(new, r.mod)
  BY <1>2, <1>3, <1>4, <1>5
<1>8. \A r \in new.records \ closing : r.status # "pending" => r \in s.records
  BY <1>5 DEF rest
<1> QED
  BY <1>5, <1>6, <1>7, <1>8 DEF s

(* They are of their kinds, and a completed one takes what the body says.   *)
LEMMA SettledKinds ==
  ASSUME NEW old, NEW new, Listed(new), Recorded(new),
         \A r \in Settling(old, new) : MaySettle(old, new, r)
  PROVE  /\ Listed(Settled(old, new)) /\ Recorded(Settled(old, new))
         /\ Settled(old, new).gear = new.gear /\ Settled(old, new).supplies = new.supplies
         /\ \A r \in Settled(old, new).records : r.status = "completed" =>
              \E q \in new.records : q.status = "completed" /\ q.from = r.from
<1> DEFINE closing == Settling(old, new)
           drafts == {r \in new.records : r.status = "pending" /\ new.gear.at[r.mod] # Gone}
           rest == {r \in new.records \ closing : r.status # "pending"}
           asked == {[r EXCEPT !.needs = NeedsNow(new, r.mod)] : r \in drafts}
           done == {Settle(new, r) : r \in closing}
           s == Settled(old, new)
<1>1. s = [new EXCEPT !.records = rest \cup done \cup asked]
  BY DEF Settled
<1>2. \A r \in new.records : Shaped(r) /\ Proper(r)
  BY DEF Recorded, AllShaped
<1>3. \A r \in rest : r \in new.records
  OBVIOUS
<1>4. \A r \in done : Proper(r) /\ \E q \in new.records : q.status = r.status /\
                        (r.status = "completed" => q.from = r.from)
  <2> TAKE r \in done
  <2>1. PICK q \in closing : r = Settle(new, q)
    OBVIOUS
  <2>2. q \in new.records /\ Shaped(q) /\ Proper(q) /\ q.status \in {"completed", "historical"}
    BY <1>2 DEF Settling
  <2>3. /\ r.status = q.status /\ r.mod = q.mod /\ r.host = q.host
        /\ r.from = IF q.status = "historical" THEN NoParts ELSE q.from
        /\ r.needs = IF Below(new, q.mod) THEN 16 ELSE Needs(q.mod, q.host, new.devices[q.host])
    BY <2>1, <2>2, SettleKeeps
  <2>4. q.host \in Device /\ new.devices[q.host] # Gone
    BY DEF MaySettle
  <2>5. Needs(q.mod, q.host, new.devices[q.host]) \in Nat
    BY <2>2, <2>4, ArrangedIsNat, NeedIsNat DEF Listed, Proper
  <2>6. r.needs \in Nat
    BY <2>3, <2>5
  <2>7. r.from \in Spreads \cup {NoParts}
    BY <2>2, <2>3 DEF Proper
  <2>8. Proper(r)
    BY <2>2, <2>3, <2>6, <2>7 DEF Proper
  <2>9. r.status = "completed" => q.from = r.from
    BY <2>3
  <2> QED
    BY <2>2, <2>3, <2>8, <2>9
<1>5. \A r \in asked : Proper(r) /\ r.status = "pending"
  <2> TAKE r \in asked
  <2>1. PICK d \in drafts : r = [d EXCEPT !.needs = NeedsNow(new, d.mod)]
    OBVIOUS
  <2>2. d \in new.records /\ Shaped(d) /\ Proper(d) /\ d.status = "pending"
    BY <1>2
  <2>3. NeedsNow(new, d.mod) \in Nat
    BY <2>2, NeedNowIsNat DEF Listed, Proper
  <2>4. /\ r.status = d.status /\ r.mod = d.mod /\ r.host = d.host /\ r.from = d.from
        /\ r.needs = NeedsNow(new, d.mod)
    BY <2>1, <2>2, AskedAnew
  <2> QED
    BY <2>2, <2>3, <2>4 DEF Proper
<1>6. IsFiniteSet(rest) /\ IsFiniteSet(done) /\ IsFiniteSet(asked)
  <2>1. IsFiniteSet(rest) /\ IsFiniteSet(closing) /\ IsFiniteSet(drafts)
    BY FS_Subset DEF Recorded, Settling
  <2>2. done = ImageOf([r \in closing |-> Settle(new, r)], closing)
    BY DEF ImageOf
  <2>3. asked = ImageOf([r \in drafts |-> [r EXCEPT !.needs = NeedsNow(new, r.mod)]], drafts)
    BY DEF ImageOf
  <2> HIDE DEF rest, done, asked, closing, drafts
  <2> QED
    BY <2>1, <2>2, <2>3, ImageIsFinite
<1> HIDE DEF rest, done, asked, s
<1>7. /\ DOMAIN s = Fields /\ s = [f \in Fields |-> s[f]]
      /\ s.gear = new.gear /\ s.devices = new.devices /\ s.supplies = new.supplies
      /\ s.records = rest \cup done \cup asked
  BY <1>1 DEF Listed, Fields
<1>8. Listed(s)
  BY <1>7 DEF Listed, Geared, Devised, Supplied
<1>9. Recorded(s)
  <2>1. IsFiniteSet(s.records)
    <3>1. IsFiniteSet(rest \cup done)
      BY ONLY <1>6, FS_Union
    <3>2. IsFiniteSet((rest \cup done) \cup asked)
      BY ONLY <1>6, <3>1, FS_Union
    <3> QED
      BY <1>7, <3>2
  <2>2. AllShaped(s)
    BY SettledRecords DEF s, Listed, Recorded
  <2>3. \A r \in s.records : Proper(r)
    BY <1>2, <1>3, <1>4, <1>5, <1>7
  <2> QED
    BY <2>1, <2>2, <2>3 DEF Recorded
<1>10. \A r \in s.records : r.status = "completed" =>
         \E q \in new.records : q.status = "completed" /\ q.from = r.from
  BY <1>3, <1>4, <1>5, <1>7
<1> QED
  BY <1>7, <1>8, <1>9, <1>10 DEF s

-----------------------------------------------------------------------------
(* The drafts the server makes are records like any other.                  *)
LEMMA DraftedRecords ==
  ASSUME NEW old, NEW new, DOMAIN new = Fields, new = [f \in Fields |-> new[f]], AllShaped(new)
  PROVE  /\ DOMAIN Drafted(old, new) = Fields
         /\ Drafted(old, new) = [f \in Fields |-> Drafted(old, new)[f]]
         /\ AllShaped(Drafted(old, new))
<1> DEFINE made == {Draft(new, m) : m \in {m \in Mod : IsNewIn(old, new, m) /\ Active(new, m) = {}}}
           d == Drafted(old, new)
<1>1. \A m : Shaped(Draft(new, m))
  BY DEF Draft, Shaped
<1>2. \A r \in made : Shaped(r)
  BY <1>1
<1>3. d = [new EXCEPT !.records = new.records \cup made]
  BY DEF Drafted
<1> HIDE DEF made, d
<1>4. DOMAIN d = Fields /\ d = [f \in Fields |-> d[f]] /\ d.records = new.records \cup made
  BY <1>3 DEF Fields
<1>5. AllShaped(d)
  BY <1>2, <1>4 DEF AllShaped
<1> QED
  BY <1>4, <1>5 DEF d

LEMMA DraftedKinds ==
  ASSUME NEW old, NEW new, Listed(new), Recorded(new)
  PROVE  /\ Listed(Drafted(old, new)) /\ Recorded(Drafted(old, new))
         /\ Drafted(old, new).gear = new.gear /\ Drafted(old, new).supplies = new.supplies
<1> DEFINE bare == {m \in Mod : IsNewIn(old, new, m) /\ Active(new, m) = {}}
           made == {Draft(new, m) : m \in bare}
           d == Drafted(old, new)
<1>1. d = [new EXCEPT !.records = new.records \cup made]
  BY DEF Drafted
<1>2. \A r \in made : Proper(r)
  <2> TAKE r \in made
  <2>1. PICK m \in Mod : r = Draft(new, m)
    OBVIOUS
  <2>2. Named(new, m) \in Device \cup Mod \cup {Gone}
    BY NeedNowIsNat DEF Listed
  <2> QED
    BY <2>1, <2>2 DEF Draft, Proper, Statuses
<1>3. IsFiniteSet(made)
  <2>1. IsFiniteSet(bare)
    BY ConstructionAssumption, FS_Subset
  <2>2. made = ImageOf([m \in bare |-> Draft(new, m)], bare)
    BY DEF ImageOf
  <2> HIDE DEF made, bare
  <2> QED
    BY <2>1, <2>2, ImageIsFinite
<1> HIDE DEF made, d
<1>4. /\ DOMAIN d = Fields /\ d = [f \in Fields |-> d[f]]
      /\ d.gear = new.gear /\ d.devices = new.devices /\ d.supplies = new.supplies
      /\ d.records = new.records \cup made
  BY <1>1 DEF Listed, Fields
<1>5. Listed(d)
  BY <1>4 DEF Listed, Geared, Devised, Supplied
<1>6. Recorded(d)
  <2>1. IsFiniteSet(d.records)
    <3>1. IsFiniteSet(new.records)
      BY DEF Recorded
    <3>2. IsFiniteSet(new.records \cup made)
      BY ONLY <1>3, <3>1, FS_Union
    <3> QED
      BY <1>4, <3>2
  <2>2. AllShaped(d)
    BY DraftedRecords DEF d, Listed, Recorded
  <2>3. \A r \in d.records : Proper(r)
    BY <1>2, <1>4 DEF Recorded
  <2> QED
    BY <2>1, <2>2, <2>3 DEF Recorded
<1> QED
  BY <1>4, <1>5, <1>6 DEF d

(* What passes _validate_together is paid for and promised once.            *)
LEMMA JudgedIsTrue ==
  ASSUME NEW c, NEW r \in c.records, ~Bad(c, r)
  PROVE  /\ r.status = "completed" =>
              Total(r.from) = r.needs /\ r.needs = FrozenNeed(r) /\ r.needs > 0 /\ Active(c, r.mod) = {r}
         /\ r.status \in {"completed", "pending"} => \A s \in Source : r.from[s] > 0 => ~Overdrawn(c, s)
         /\ r.status = "pending" => ~(Total(r.from) > r.needs)
<1>1. r.status = "completed" => Total(r.from) = r.needs /\ r.needs = FrozenNeed(r) /\ r.needs > 0
  BY DEF Bad
<1>2. ASSUME r.status = "completed" PROVE Active(c, r.mod) = {r}
  <2>1. r \in Active(c, r.mod)
    BY <1>2 DEF Active
  <2>2. ASSUME NEW q \in Active(c, r.mod) PROVE q = r
    BY <1>2 DEF Active, Bad
  <2> QED
    BY <2>1, <2>2
<1>3. r.status \in {"completed", "pending"} => \A s \in Source : r.from[s] > 0 => ~Overdrawn(c, s)
  BY DEF Bad
<1>4. r.status = "pending" => ~(Total(r.from) > r.needs)
  BY DEF Bad
<1> QED
  BY <1>1, <1>2, <1>3, <1>4

(* Nothing that passes it is called by the name of another, and a source is *)
(* either left alone or promised to no more than it holds.                  *)
LEMMA JudgedIsCovered ==
  ASSUME NEW c, Listed(c), Recorded(c), \A r \in c.records : ~Bad(c, r)
  PROVE  Distinct(c) /\ Covered(c)
<1>1. Distinct(c)
  BY DEF Distinct, Bad
<1>2. ASSUME NEW s \in Source
      PROVE  Taken(c, s, "completed") + Taken(c, s, "pending") <= Stock(c, s)
  <2> DEFINE built == Taken(c, s, "completed")
             held == Taken(c, s, "pending")
  <2>1. built \in Nat /\ held \in Nat
    BY Taking
  <2>2. Stock(c, s) \in Nat
    BY DEF Stock, Listed, Geared, Gear, Supplied, Source
  <2>3. ASSUME built # 0 \/ held # 0 PROVE ~Overdrawn(c, s)
    <3>1. PICK r \in c.records : r.status \in {"completed", "pending"} /\ r.from[s] > 0
      BY <2>3, Taking
    <3> QED
      BY <3>1, JudgedIsTrue
  <2>4. Overdrawn(c, s) <=> built + held > Stock(c, s)
    BY DEF Overdrawn
  <2> HIDE DEF built, held
  <2>5. built + held <= Stock(c, s)
    BY <2>1, <2>2, <2>3, <2>4
  <2> QED
    BY <2>5 DEF built, held
<1> QED
  BY <1>1, <1>2 DEF Covered

(* What a row needs now is read from the rows and the devices alone.        *)
LEMMA NeedIsOfTheDevice ==
  ASSUME NEW c, NEW d, c.gear = d.gear, c.devices = d.devices, NEW m
  PROVE  NeedsNow(c, m) = NeedsNow(d, m)
BY DEF NeedsNow, HostOf, Named, Below

-----------------------------------------------------------------------------
(* What the character is made of once a body is laid over it, and again     *)
(* once the server has added the drafts.                                    *)
LEMMA LaidOK ==
  ASSUME Listed(ch), Recorded(ch), NEW body, Carried(body), NEW laid,
         laid = [f \in DOMAIN ch |-> IF f \in DOMAIN body THEN body[f] ELSE ch[f]]
  PROVE  Listed(laid) /\ Recorded(laid)
<1>1. DOMAIN laid = Fields /\ \A f \in Fields : laid[f] = IF f \in DOMAIN body THEN body[f] ELSE ch[f]
  BY DEF Listed
<1>2. laid = [f \in Fields |-> laid[f]]
  BY DEF Listed
<1>3. /\ laid.gear = IF "gear" \in DOMAIN body THEN body.gear ELSE ch.gear
      /\ laid.devices = IF "devices" \in DOMAIN body THEN body.devices ELSE ch.devices
      /\ laid.supplies = IF "supplies" \in DOMAIN body THEN body.supplies ELSE ch.supplies
      /\ laid.records = IF "records" \in DOMAIN body THEN body.records ELSE ch.records
  BY <1>1 DEF Fields
<1>4. Geared(laid)
  BY <1>3 DEF Listed, Carried, Geared
<1>5. Devised(laid)
  BY <1>3 DEF Listed, Carried, Devised
<1>6. Supplied(laid)
  BY <1>3 DEF Listed, Carried, Supplied
<1>7. Recorded(laid)
  BY <1>3 DEF Carried, Recorded, AllShaped
<1> QED
  BY <1>1, <1>2, <1>4, <1>5, <1>6, <1>7 DEF Listed

(* Closed records go into the answer as they are, or are cancelled there.   *)
LEMMA ClosedIsKept ==
  ASSUME NEW old, NEW new, Listed(new), Recorded(new), Recorded(old), KeepsHistory(old, new),
         NEW r \in Closed(old)
  PROVE  \E n \in Settled(old, new).records :
           \/ n = r
           \/ /\ r.status # "cancelled" /\ n.status = "cancelled"
              /\ n.id = r.id /\ n.mod = r.mod /\ n.from = r.from
<1>1. r \in old.records /\ r.status # "pending" /\ Shaped(r)
  BY DEF Closed, Recorded, AllShaped
<1>2. PICK n \in new.records :
        n = r \/ (r.status # "cancelled" /\ n = [r EXCEPT !.status = "cancelled"])
  BY DEF KeepsHistory
<1>3. n = r \/ /\ r.status # "cancelled" /\ n.status = "cancelled"
                /\ n.id = r.id /\ n.mod = r.mod /\ n.from = r.from
  BY <1>1, <1>2 DEF Shaped
<1>4. n \notin Settling(old, new) /\ n.status # "pending"
  BY <1>1, <1>3 DEF Settling
<1>5. n \in Settled(old, new).records
  BY <1>4, SettledRecords DEF Listed, Recorded
<1> QED
  BY <1>3, <1>5

(* What ClosedIsFinal and PartsComeBackByCorrection say of one step.        *)
ClosedKept ==
  \A r \in Closed(ch) : \E n \in ch'.records :
    n = r \/ (n.id = r.id /\ n.status = "cancelled" /\ n.from = r.from)
GivenBack(s) ==
  Taken(ch', s, "completed") < Taken(ch, s, "completed") =>
    \E n \in ch'.records : n.status = "cancelled" /\ n \notin ch.records /\ n.from[s] > 0
BoughtAsBefore(s) ==
  Taken(ch, s, "completed") > 0 /\ Taken(ch', s, "completed") > 0 =>
    Stock(ch', s) = Stock(ch, s) \/ Taken(ch', s, "completed") # Taken(ch, s, "completed")

(* One body: the records it brings are records, and the answer is true.     *)
LEMMA PatchOK ==
  ASSUME IInv, NEW body, Patch(body), Carried(body)
  PROVE  IInv' /\ ClosedKept /\ \A s \in Source : GivenBack(s) /\ BoughtAsBefore(s)
<1> DEFINE laid == [f \in DOMAIN ch |-> IF f \in DOMAIN body THEN body[f] ELSE ch[f]]
           new == Drafted(ch, laid)
           settled == Settled(ch, new)
<1>1. /\ KeepsHistory(ch, new) /\ KeepsPurchases(ch, new) /\ KeepsSupplies(ch, new)
      /\ \A r \in Settling(ch, new) : MaySettle(ch, new, r)
      /\ AddsUp(ch, settled)
      /\ ch' = settled
      /\ shown' = OnScreen(ch) /\ sent' = DOMAIN body
  BY DEF Patch
<1>2. Listed(laid) /\ Recorded(laid)
  BY LaidOK DEF IInv
<1> HIDE DEF laid
<1>3. Listed(new) /\ Recorded(new)
  BY <1>2, DraftedKinds
<1> HIDE DEF new
<1>4. /\ Listed(settled) /\ Recorded(settled)
      /\ settled.gear = new.gear /\ settled.supplies = new.supplies
      /\ \A r \in settled.records : r.status = "completed" =>
           \E q \in new.records : q.status = "completed" /\ q.from = r.from
  BY <1>1, <1>3, SettledKinds
<1>5. /\ settled.devices = new.devices
      /\ \A r \in settled.records : r.status = "pending" =>
           new.gear.at[r.mod] # Gone /\ r.needs = NeedsNow(new, r.mod)
  BY <1>3, SettledRecords DEF Listed, Recorded
<1>6. \A r \in settled.records : ~Bad(settled, r)
  BY <1>1 DEF AddsUp
<1>7. ASSUME NEW r \in Closed(ch)
      PROVE  \E n \in settled.records :
               \/ n = r
               \/ /\ r.status # "cancelled" /\ n.status = "cancelled"
                  /\ n.id = r.id /\ n.mod = r.mod /\ n.from = r.from
  BY <1>1, <1>3, ClosedIsKept DEF IInv
<1>8. Distinct(settled) /\ Covered(settled)
  BY <1>4, <1>6, JudgedIsCovered
<1> HIDE DEF settled
<1>9. RecordsAreTrue'
  <2>1. CompletedIsPaid'
    BY <1>1, <1>6, JudgedIsTrue DEF CompletedIsPaid
  <2>2. SourcesInUseHold'
    BY <1>1, <1>6, JudgedIsTrue DEF SourcesInUseHold
  <2>3. DraftsAreCurrent'
    <3> SUFFICES ASSUME NEW r \in settled.records, r.status = "pending"
                 PROVE  /\ settled.gear.at[r.mod] # Gone
                        /\ r.needs = NeedsNow(settled, r.mod) /\ ~(Total(r.from) > r.needs)
      BY <1>1 DEF DraftsAreCurrent
    <3>1. NeedsNow(settled, r.mod) = NeedsNow(new, r.mod)
      BY <1>4, <1>5, NeedIsOfTheDevice
    <3>2. ~(Total(r.from) > r.needs)
      BY <1>6, JudgedIsTrue
    <3> QED
      BY <1>4, <1>5, <3>1, <3>2
  <2> QED
    BY <2>1, <2>2, <2>3 DEF RecordsAreTrue
<1>10. Recorded(shown') /\ ClosedNames(shown') \subseteq ClosedNames(settled)
  <2>1. shown'.records = ch.records
    BY <1>1 DEF OnScreen
  <2>2. Recorded(shown')
    BY <2>1 DEF IInv, Recorded, AllShaped
  <2>3. \A r \in Closed(ch) : <<r.id, r.mod>> \in ClosedNames(settled)
    <3> TAKE r \in Closed(ch)
    <3>1. PICK n \in settled.records :
            n = r \/ (n.status = "cancelled" /\ n.id = r.id /\ n.mod = r.mod)
      BY <1>7
    <3>2. n.status # "pending"
      BY <3>1 DEF Closed
    <3> QED
      BY <3>1, <3>2 DEF Closed, ClosedNames
  <2>4. Closed(shown') = Closed(ch)
    BY <2>1 DEF Closed
  <2> QED
    BY <2>2, <2>3, <2>4 DEF ClosedNames
<1>11. IInv'
  BY <1>1, <1>4, <1>8, <1>9, <1>10
     DEF IInv, Carried, Listed, Geared, Devised, Supplied, Recorded, AllShaped, Distinct, ClosedNames, Closed,
         Covered, Taken, Stock
<1>12. ClosedKept
  BY <1>1, <1>7 DEF ClosedKept
<1>13. ASSUME NEW s \in Source PROVE GivenBack(s)
  <2> SUFFICES ASSUME Taken(settled, s, "completed") < Taken(ch, s, "completed")
               PROVE  \E n \in settled.records :
                        n.status = "cancelled" /\ n \notin ch.records /\ n.from[s] > 0
    BY <1>1 DEF GivenBack
  <2>1. Taken(settled, s, "completed") \in Nat /\ Taken(ch, s, "completed") \in Nat
    BY <1>4, Taking DEF IInv
  <2>2. ~(Taken(ch, s, "completed") <= Taken(settled, s, "completed"))
    BY <2>1
  <2>3. PICK r \in ch.records :
          r.status = "completed" /\ r.from[s] > 0 /\ r \notin settled.records
    BY <1>4, <2>2, TakingStays DEF IInv
  <2>4. PICK n \in settled.records : n.status = "cancelled" /\ n.id = r.id /\ n.from = r.from
    BY <1>7, <2>3 DEF Closed
  <2>5. n \notin ch.records
    BY <2>3, <2>4 DEF IInv, Distinct
  <2> QED
    BY <2>3, <2>4, <2>5
<1>14. ASSUME NEW s \in Source PROVE BoughtAsBefore(s)
  <2> SUFFICES ASSUME Taken(ch, s, "completed") > 0, Taken(settled, s, "completed") > 0
               PROVE  Stock(settled, s) = Stock(ch, s)
    BY <1>1 DEF BoughtAsBefore
  <2>1. Stock(ch, s) > 0
    <3>1. Taken(ch, s, "completed") \in Nat /\ Taken(ch, s, "pending") \in Nat
      BY Taking DEF IInv
    <3>2. Stock(ch, s) \in Nat
      BY DEF IInv, Stock, Listed, Geared, Gear, Supplied, Source
    <3>3. Taken(ch, s, "completed") + Taken(ch, s, "pending") <= Stock(ch, s)
      BY DEF IInv, Covered
    <3> QED
      BY <3>1, <3>2, <3>3
  <2>2. s \in Spent(new)
    <3>1. PICK r \in settled.records : r.status = "completed" /\ r.from[s] > 0
      BY <1>4, Taking
    <3>2. PICK q \in new.records : q.status = "completed" /\ q.from = r.from
      BY <1>4, <3>1
    <3> QED
      BY <3>1, <3>2 DEF Spent
  <2>3. Stock(new, s) = Stock(ch, s)
    BY <1>1, <2>1, <2>2 DEF KeepsPurchases, KeepsSupplies, Stock, Source
  <2> QED
    BY <1>4, <2>3 DEF Stock
<1> QED
  BY <1>11, <1>12, <1>13, <1>14

-----------------------------------------------------------------------------
(* The bodies the screens send that bring no records.                       *)
LEMMA RowsMoved ==
  ASSUME Listed(ch), NEW at \in [Mod -> Device \cup Mod \cup {Gone}]
  PROVE  [ch.gear EXCEPT !.at = at] \in Gear /\ [ch.gear EXCEPT !.at = at].owned = ch.gear.owned
BY DEF Listed, Geared, Gear

LEMMA OneRowMoved ==
  ASSUME Listed(ch), NEW m \in Mod, NEW at \in Places[m],
         NEW body, body = [gear |-> [ch.gear EXCEPT !.at[m] = at]]
  PROVE  Carried(body)
<1>1. Places[m] \subseteq Device \cup Mod
  BY ConstructionAssumption
<1>2. [ch.gear EXCEPT !.at[m] = at] \in Gear /\ [ch.gear EXCEPT !.at[m] = at].owned = ch.gear.owned
  BY <1>1 DEF Listed, Geared, Gear
<1>3. Geared(body)
  BY <1>2 DEF Listed, Geared
<1> QED
  BY <1>3 DEF Carried, Fields

(* The lists of records the record editor makes of a screen.                *)
LEMMA SavedOK ==
  ASSUME NEW c, Recorded(c), NEW m \in Mod, NEW from \in Spreads,
         NEW status \in {"pending", "completed", "historical"}
  PROVE  Recorded([records |-> Saved(c, m, status, from)])
<1> DEFINE mine == Active(c, m)
           fresh == [Draft(c, m) EXCEPT !.host = HostOf(c, m)]
           kept == IF mine = {} THEN fresh ELSE CHOOSE r \in mine : TRUE
           saved == [kept EXCEPT !.status = status, !.from = from]
           list == (c.records \ mine) \cup {saved}
<1>1. Shaped(fresh) /\ Proper(fresh)
  <2> DEFINE d == Draft(c, m)
             none == [rating |-> 0, value |-> 0]
  <2>1. d = [id |-> d.id, mod |-> m, host |-> d.host, status |-> "pending",
             needs |-> 0, from |-> NoParts, snap |-> none]
    BY DEF Draft
  <2>2. fresh = [d EXCEPT !.host = HostOf(c, m)]
    OBVIOUS
  <2> HIDE DEF d, fresh, none
  <2>3. fresh = [id |-> d.id, mod |-> m, host |-> HostOf(c, m), status |-> "pending",
                 needs |-> 0, from |-> NoParts, snap |-> none]
    BY <2>1, <2>2
  <2>4. HostOf(c, m) \in Device \cup {Gone}
    BY DEF HostOf
  <2> QED
    BY <2>3, <2>4 DEF Shaped, Proper, Statuses
<1>2. Shaped(kept) /\ Proper(kept)
  BY <1>1 DEF Active, Recorded, AllShaped
<1>3. list = Saved(c, m, status, from)
  BY DEF Saved
<1> HIDE DEF kept
<1>4. saved = [id |-> kept.id, mod |-> kept.mod, host |-> kept.host, status |-> status,
               needs |-> kept.needs, from |-> from, snap |-> kept.snap]
  <2> DEFINE x == [kept EXCEPT !.status = status]
  <2>1. x = [id |-> kept.id, mod |-> kept.mod, host |-> kept.host, status |-> status,
             needs |-> kept.needs, from |-> kept.from, snap |-> kept.snap]
    BY <1>2 DEF Shaped
  <2>2. saved = [x EXCEPT !.from = from]
    OBVIOUS
  <2> HIDE DEF x, saved
  <2> QED
    BY <2>1, <2>2
<1> HIDE DEF saved
<1>5. Shaped(saved) /\ Proper(saved)
  BY <1>2, <1>4 DEF Shaped, Proper, Statuses
<1>6. IsFiniteSet(list)
  <2>1. IsFiniteSet(c.records \ mine)
    BY FS_Subset DEF Recorded
  <2> QED
    BY <2>1, FS_AddElement
<1>7. \A r \in list : Shaped(r) /\ Proper(r)
  BY <1>5 DEF Recorded, AllShaped
<1> HIDE DEF list
<1> QED
  BY <1>3, <1>6, <1>7 DEF Recorded, AllShaped

LEMMA CorrectedOK ==
  ASSUME NEW c, Recorded(c), NEW r \in c.records
  PROVE  Recorded([records |-> Corrected(c, r)])
<1> DEFINE x == [r EXCEPT !.status = "cancelled"]
           list == (c.records \ {r}) \cup {x}
<1>1. Shaped(x) /\ Proper(x)
  <2>1. Shaped(r) /\ Proper(r)
    BY DEF Recorded, AllShaped
  <2> QED
    BY <2>1 DEF Shaped, Proper, Statuses
<1>2. list = Corrected(c, r)
  BY DEF Corrected
<1> HIDE DEF x
<1>3. IsFiniteSet(list)
  <2>1. IsFiniteSet(c.records \ {r})
    BY FS_Subset DEF Recorded
  <2> QED
    BY <2>1, FS_AddElement
<1>4. \A q \in list : Shaped(q) /\ Proper(q)
  BY <1>1 DEF Recorded, AllShaped
<1> HIDE DEF list
<1> QED
  BY <1>2, <1>3, <1>4 DEF Recorded, AllShaped

(* A body alone, or with a list of records that waited beside it.           *)
LEMMA SendOK ==
  ASSUME IInv, NEW body, Send(body), Carried(body)
  PROVE  \E b : Patch(b) /\ Carried(b)
<1>1. CASE Patch(body)
  BY <1>1
<1>2. CASE \E list \in Waited : Patch(With(body, list))
  <2>1. PICK list \in Waited : Patch(With(body, list))
    BY <1>2
  <2> DEFINE b == With(body, list)
             only == [records |-> list]
  <2>2. Recorded(shown)
    BY DEF IInv
  <2>3. Recorded(only)
    <3>1. CASE \E m \in Mod, status \in {"pending", "completed", "historical"}, from \in Spreads :
                 list = Saved(shown, m, status, from)
      BY <2>2, <3>1, SavedOK
    <3>2. CASE \E r \in shown.records : list = Corrected(shown, r)
      BY <2>2, <3>2, CorrectedOK
    <3> QED
      BY <3>1, <3>2 DEF Waited
  <2>4. /\ DOMAIN b = DOMAIN body \cup {"records"} /\ b["records"] = list
        /\ \A f \in DOMAIN body \ {"records"} : b[f] = body[f]
    BY DEF With
  <2> HIDE DEF b
  <2>5. b.records = only.records
    BY <2>4
  <2> HIDE DEF only
  <2>6. Recorded(b)
    BY <2>3, <2>5 DEF Recorded, AllShaped
  <2>7. /\ "gear" \in DOMAIN b => b.gear = body.gear /\ "gear" \in DOMAIN body
        /\ "devices" \in DOMAIN b => b.devices = body.devices /\ "devices" \in DOMAIN body
        /\ "supplies" \in DOMAIN b => b.supplies = body.supplies /\ "supplies" \in DOMAIN body
    BY <2>4
  <2>8. Carried(b)
    BY <2>4, <2>6, <2>7 DEF Carried, Fields, Geared, Devised, Supplied
  <2> QED
    BY <2>1, <2>8 DEF b
<1> QED
  BY <1>1, <1>2 DEF Send

(* Every step is a body whose lists are what those lists may be: where it   *)
(* brings records, they were on screen or are a draft of the record editor. *)
LEMMA StepIsPatch ==
  ASSUME IInv, Next
  PROVE  \E body : Patch(body) /\ Carried(body)
<1>0. Listed(ch) /\ Recorded(ch) /\ \A c \in {OnScreen(ch), shown} : Recorded(c)
  BY DEF IInv, Recorded, AllShaped, OnScreen
<1>1. ASSUME NEW s \in Purchase, NEW n \in Amounts[s], ChangePurchase(s, n)
      PROVE  \E body : Patch(body) /\ Carried(body)
  <2> DEFINE body == [gear |-> [ch.gear EXCEPT !.owned[s] = n]]
  <2>1. n \in Nat
    BY ConstructionAssumption DEF Source
  <2>2. /\ body.gear \in Gear
        /\ \A p \in Purchase : body.gear.owned[p] = IF p = s THEN n ELSE ch.gear.owned[p]
    BY <1>0, <2>1 DEF Listed, Geared, Gear
  <2>3. Geared(body)
    BY <1>0, <2>2 DEF Listed, Geared
  <2>4. Send(body)
    BY <1>1 DEF ChangePurchase
  <2> QED
    BY <2>3, <2>4, SendOK DEF Carried, Fields
<1>2. ASSUME NEW m \in Mod, NEW at \in Places[m], AddMod(m, at) \/ MoveMod(m, at)
      PROVE  \E body : Patch(body) /\ Carried(body)
  BY <1>0, <1>2, OneRowMoved, SendOK DEF AddMod, MoveMod
<1>3. ASSUME NEW m \in Mod, RemoveMod(m)
      PROVE  \E body : Patch(body) /\ Carried(body)
  <2> DEFINE tree == {m} \cup {n \in Mod : ch.gear.at[n] = m}
             at == [n \in Mod |-> IF n \in tree THEN Gone ELSE ch.gear.at[n]]
             body == [gear |-> [ch.gear EXCEPT !.at = at]]
  <2>1. at \in [Mod -> Device \cup Mod \cup {Gone}]
    BY <1>0 DEF Listed, Geared, Gear
  <2>2. Send(body)
    BY <1>3 DEF RemoveMod
  <2> HIDE DEF at
  <2>3. Geared(body)
    BY <1>0, <2>1, RowsMoved DEF Listed, Geared
  <2> QED
    BY <2>2, <2>3, SendOK DEF Carried, Fields
<1>4. ASSUME NEW d \in Device, NEW v \in Values[d], ArrangeDevice(d, v)
      PROVE  \E body : Patch(body) /\ Carried(body)
  <2> DEFINE body == [devices |-> [ch.devices EXCEPT ![d] = v]]
  <2>1. Devised(body)
    BY <1>0 DEF Listed, Devised
  <2>2. Send(body)
    BY <1>4 DEF ArrangeDevice
  <2> QED
    BY <2>1, <2>2, SendOK DEF Carried, Fields
<1>5. ASSUME NEW s \in Supply, NEW n \in Amounts[s], RegisterSupply(s, n)
      PROVE  \E body : Patch(body) /\ Carried(body)
  <2> DEFINE body == [supplies |-> [ch.supplies EXCEPT ![s] = n]]
  <2>1. n \in Nat
    BY ConstructionAssumption DEF Source
  <2>2. Supplied(body)
    BY <1>0, <2>1 DEF Listed, Supplied
  <2>3. Send(body)
    BY <1>5 DEF RegisterSupply
  <2> QED
    BY <2>2, <2>3, SendOK DEF Carried, Fields
<1>6. ASSUME NEW d \in Device, ScrapDevice(d)
      PROVE  \E body : Patch(body) /\ Carried(body)
  <2> DEFINE at == [m \in Mod |-> IF HostOf(ch, m) = d THEN Gone ELSE ch.gear.at[m]]
             gear == [ch.gear EXCEPT !.at = at]
             devices == [ch.devices EXCEPT ![d] = Gone]
             body == [gear |-> gear, devices |-> devices]
  <2>1. at \in [Mod -> Device \cup Mod \cup {Gone}]
    BY <1>0 DEF Listed, Geared, Gear
  <2>2. Send(body)
    BY <1>6 DEF ScrapDevice
  <2> HIDE DEF at
  <2>3. Geared(body)
    BY <1>0, <2>1, RowsMoved DEF Listed, Geared
  <2>4. Devised(body)
    BY <1>0 DEF Listed, Devised
  <2> QED
    BY <2>2, <2>3, <2>4, SendOK DEF Carried, Fields
<1>7. ASSUME NEW m \in Mod, NEW status \in {"pending", "completed", "historical"},
             NEW from \in Spreads, SaveRecord(m, status, from)
      PROVE  \E body : Patch(body) /\ Carried(body)
  <2>1. PICK c \in {OnScreen(ch), shown} : Patch([records |-> Saved(c, m, status, from)])
    BY <1>7 DEF SaveRecord, Screens
  <2>2. Recorded([records |-> Saved(c, m, status, from)])
    BY <1>0, SavedOK
  <2> QED
    BY <2>1, <2>2 DEF Carried, Fields
<1>8. ASSUME NEW r, CorrectRecord(r)
      PROVE  \E body : Patch(body) /\ Carried(body)
  <2>1. PICK c \in {OnScreen(ch), shown} : r \in c.records /\ Patch([records |-> Corrected(c, r)])
    BY <1>8 DEF CorrectRecord, MayCorrect, Screens
  <2>2. Recorded([records |-> Corrected(c, r)])
    BY <1>0, <2>1, CorrectedOK
  <2> QED
    BY <2>1, <2>2 DEF Carried, Fields
<1> QED
  BY <1>1, <1>2, <1>3, <1>4, <1>5, <1>6, <1>7, <1>8 DEF Next

LEMMA InitOK == Init => IInv
<1> SUFFICES ASSUME Init PROVE IInv
  OBVIOUS
<1>0. /\ ch \in [gear : Gear, devices : [Device -> Nat \cup {Gone}],
                 supplies : [Supply -> Nat], records : {{}}]
      /\ \A s \in Purchase : ch.gear.owned[s] \in Amounts[s]
      /\ \A s \in Supply : ch.supplies[s] \in Amounts[s]
      /\ \A d \in Device : ch.devices[d] \in Values[d] \cup {Gone}
  BY StartingAssumption DEF Init
<1>1. DOMAIN ch = Fields /\ ch = [f \in Fields |-> ch[f]] /\ ch.records = {}
  BY <1>0 DEF Fields
<1>2. Listed(ch)
  BY <1>0, <1>1 DEF Listed, Geared, Devised, Supplied
<1>3. shown.records = {} /\ sent = {}
  BY <1>1 DEF Init, OnScreen
<1>4. Recorded(ch) /\ Recorded(shown) /\ Distinct(ch) /\ ClosedNames(shown) = {}
  BY <1>1, <1>3, FS_EmptySet DEF Recorded, AllShaped, Distinct, ClosedNames, Closed
<1>5. \A r \in ch.records : ~Bad(ch, r)
  BY <1>1
<1>6. Covered(ch)
  BY <1>2, <1>4, <1>5, JudgedIsCovered
<1>7. RecordsAreTrue
  BY <1>1 DEF RecordsAreTrue, CompletedIsPaid, SourcesInUseHold, DraftsAreCurrent
<1> QED
  BY <1>2, <1>3, <1>4, <1>6, <1>7 DEF IInv

LEMMA StepOK == IInv /\ [Next]_vars => IInv'
<1> SUFFICES ASSUME IInv, [Next]_vars PROVE IInv'
  OBVIOUS
<1>1. CASE Next
  BY <1>1, StepIsPatch, PatchOK
<1>2. CASE UNCHANGED vars
  <2>1. ch' = ch /\ shown' = shown /\ sent' = sent
    BY <1>2 DEF vars
  <2>2. RecordsAreTrue'
    BY <2>1 DEF IInv, RecordsAreTrue, CompletedIsPaid, SourcesInUseHold, DraftsAreCurrent
  <2> QED
    BY <2>1, <2>2
       DEF IInv, Listed, Geared, Devised, Supplied, Recorded, AllShaped, Distinct, ClosedNames, Closed,
           Covered, Taken, Stock
<1> QED
  BY <1>1, <1>2

(* What every answer says of constructions is true, whatever bodies came in *)
(* whatever order: a completed one took exactly what its device asked for,  *)
(* out of sources that hold that much, and is the one record in force of    *)
(* its row; a draft asks for what its row needs on the device of today.     *)
THEOREM RecordsStayTrue == Spec => []RecordsAreTrue
<1>1. IInv => RecordsAreTrue
  BY DEF IInv
<1> QED
  BY <1>1, InitOK, StepOK, PTL DEF Spec

(* A completed or historical record is never dropped or rewritten by a      *)
(* body, old or new: it may only be cancelled, with what it took still on   *)
(* it (_protect_closed_records).                                            *)
THEOREM ClosedRecordsStay == Spec => ClosedIsFinal
<1>1. IInv /\ Next => ClosedKept
  BY StepIsPatch, PatchOK
<1>2. IInv /\ [Next]_vars =>
        [\A r \in Closed(ch) : \E n \in ch'.records :
           n = r \/ (n.id = r.id /\ n.status = "cancelled" /\ n.from = r.from)]_vars
  BY <1>1 DEF ClosedKept
<1> QED
  BY <1>2, InitOK, StepOK, PTL DEF Spec, ClosedIsFinal

(* Every list holds what it may hold, whatever lists a body replaces.       *)
LEMMA KindsOK == IInv => TypeOK
<1> SUFFICES ASSUME IInv PROVE TypeOK
  OBVIOUS
<1>1. \A s \in Source : Stock(ch, s) \in Amounts[s]
  BY DEF IInv, Listed, Geared, Supplied, Stock, Source
<1>2. ch.gear.at \in [Mod -> Device \cup Mod \cup {Gone}]
  BY DEF IInv, Listed, Geared, Gear
<1>3. \A d \in Device : ch.devices[d] \in Values[d] \cup {Gone}
  BY DEF IInv, Listed, Devised
<1>4. \A r \in ch.records : Proper(r)
  BY DEF IInv, Recorded
<1>5. ClosedNames(shown) \subseteq ClosedNames(ch)
  BY DEF IInv
<1>6. sent \subseteq DOMAIN ch
  BY DEF IInv, Listed
<1> QED
  BY ONLY <1>1, <1>2, <1>3, <1>4, <1>5, <1>6, Zenon DEF TypeOK, Proper, ClosedNames

(* No source of parts is ever promised to more than it holds, built and     *)
(* reserved together; what a completed construction took comes back only by *)
(* the correction that cancels it, and meanwhile its purchase keeps the     *)
(* units it was bought with (_validate_together, _protect_closed_records,   *)
(* _protect_consumed_purchases).                                            *)
THEOREM PartsStayConserved == Spec => PartsAreConserved
<1>1. IInv => TypeOK /\ PartsCovered
  BY KindsOK DEF IInv, Covered, PartsCovered
<1>2. IInv /\ Next => \A s \in Source : GivenBack(s) /\ BoughtAsBefore(s)
  BY StepIsPatch, PatchOK
<1>3. IInv /\ [Next]_vars =>
        [ \A s \in Source :
            /\ Taken(ch', s, "completed") < Taken(ch, s, "completed") =>
                 \E n \in ch'.records : n.status = "cancelled" /\ n \notin ch.records /\ n.from[s] > 0
            /\ Taken(ch, s, "completed") > 0 /\ Taken(ch', s, "completed") > 0 =>
                 Stock(ch', s) = Stock(ch, s) \/ Taken(ch', s, "completed") # Taken(ch, s, "completed")
        ]_vars
  BY <1>2 DEF GivenBack, BoughtAsBefore
<1>4. Spec => []IInv
  BY InitOK, StepOK, PTL DEF Spec
<1>5. Spec => [](TypeOK /\ PartsCovered)
  BY <1>1, <1>4, PTL
<1>6. Spec => PartsComeBackByCorrection
  BY <1>3, <1>4, PTL DEF Spec, PartsComeBackByCorrection
<1> QED
  BY <1>5, <1>6, ClosedRecordsStay, PTL DEF PartsAreConserved
=============================================================================
