-------------------------- MODULE LifeModules_proofs --------------------------
(***************************************************************************)
(* Proofs about a Life Modules character, for every catalog of skills.     *)
(*                                                                         *)
(* LifeSkillGrants, for every saved list of modules and every set of       *)
(* transfers: no skill is ever free beyond its cap.  A module gives a      *)
(* skill no more than its room, and a transfer is refused with its whole   *)
(* pool when it does; a pool reads one row for each skill, so no two rows  *)
(* share a room.  And no level is made or vanishes: what the modules read  *)
(* so far give is what the skills have, what the pools still hold and what *)
(* was lost (LevelsConserved), which needs the pools and losses to be      *)
(* those of the modules read so far.                                       *)
(*                                                                         *)
(* LifeCareer, for every sequence of raises and every change of catalog,   *)
(* prices and caps under them: the replay is unfolded row by row, and      *)
(* Accounts says what it has counted after each.                           *)
(***************************************************************************)
EXTENDS LifeSkillGrants, LifeCareer, Aggregates_proofs

Entries == [entry : Nat, module : Module, answer : (SUBSET Skill) \cup {Unanswered}]
Rows == [id : Nat, entry : Nat, source : Skill, dest : Skill \cup {NoSkill},
         ranks : Nat \ {0}, print : [module : Module, amount : Nat]]

\* The saved inputs never change, and what they are is an assumption.
InputsOK ==
  /\ acquired \in Seq(Entries)
  /\ \A i, j \in DOMAIN acquired : acquired[i].entry = acquired[j].entry => i = j
  /\ transfers \subseteq Rows /\ IsFiniteSet(transfers)

IInv == InputsOK /\ TypeOK /\ CapHolds

-----------------------------------------------------------------------------
(* Caps are numbers, so a room is one, and no more than the cap leaves.     *)
LEMMA RoomIsLeft ==
  ASSUME TypeOK, CapHolds, NEW s \in Skill
  PROVE  /\ Cap(s) \in Nat /\ free[s] \in Nat
         /\ Room(s) \in Nat /\ free[s] + Room(s) <= Cap(s)
<1>1. Cap(s) \in Nat
  BY GrantsAssumption DEF Cap
<1>2. free[s] \in Nat /\ free[s] <= Cap(s)
  BY DEF TypeOK, CapHolds
<1> HIDE DEF Cap
<1> QED
  BY <1>1, <1>2 DEF Room

(* A module keeps a number of levels on a skill, and no more than its room. *)
LEMMA KeptFits ==
  ASSUME TypeOK, CapHolds, NEW e \in Entries, NEW s \in Skill
  PROVE  Kept(e, s) \in Nat /\ Kept(e, s) <= Room(s)
<1>1. Gives[e.module][s] \in Nat /\ OptionGives[e.module] \in Nat
  BY GrantsAssumption DEF Entries
<1>2. Amount(e, s) \in Nat
  BY <1>1 DEF Amount
<1>3. Room(s) \in Nat
  BY RoomIsLeft
<1> HIDE DEF Amount, Room
<1> QED
  BY <1>2, <1>3 DEF Kept

(* A pool that is not refused gives a skill no more than its room: the one  *)
(* row that is read for it passed the test of its own capacity.             *)
LEMMA ReceivedFits ==
  ASSUME InputsOK, TypeOK, CapHolds, NEW p, ~Refused(p), NEW s \in Skill
  PROVE  Received(p, s) \in Nat /\ Received(p, s) <= Room(s)
<1>0. Room(s) \in Nat
  BY RoomIsLeft
<1>1. CASE ~\E r \in RowsOf(p) : r.dest = s
  BY <1>0, <1>1 DEF Received
<1>2. CASE \E r \in RowsOf(p) : r.dest = s
  <2>1. PICK r \in RowsOf(p) : r.dest = s /\ Received(p, s) = r.ranks
    BY <1>2 DEF Received
  <2>2. r \in Rows
    BY <2>1 DEF RowsOf, InputsOK
  <2>3. ~(r.ranks > Room(r.dest))
    BY <2>1 DEF Refused, BadRows
  <2>4. r.ranks \in Nat
    BY <2>2 DEF Rows
  <2> QED
    BY <1>0, <2>1, <2>3, <2>4
<1> QED
  BY <1>1, <1>2

-----------------------------------------------------------------------------
LEMMA InitOK == Init => IInv
<1> SUFFICES ASSUME Init PROVE IInv
  OBVIOUS
<1>1. InputsOK
  BY GrantsAssumption DEF Init, InputsOK, Entries, Rows
<1>2. TypeOK
  BY DEF Init, TypeOK
<1>3. \A s \in Skill : Cap(s) \in Nat /\ free[s] = 0
  BY GrantsAssumption DEF Init, Cap
<1> QED
  BY <1>1, <1>2, <1>3 DEF IInv, CapHolds

LEMMA StepOK == IInv /\ [Next]_vars => IInv'
<1> SUFFICES ASSUME IInv, [Next]_vars PROVE IInv'
  OBVIOUS
<1> USE DEF IInv
<1>0. inputs' = inputs => InputsOK'
  BY DEF InputsOK, inputs
<1>1. CASE TakeModule
  <2>1. PICK i \in DOMAIN acquired :
          /\ taken' = taken \cup {i}
          /\ free' = [s \in Skill |-> free[s] + Kept(acquired[i], s)]
          /\ errors' = IF acquired[i].module \in Misnamed THEN errors \cup {"grant"} ELSE errors
          /\ UNCHANGED <<inputs, finished>>
    BY <1>1 DEF TakeModule
  <2>2. acquired[i] \in Entries
    BY DEF InputsOK
  <2>3. \A s \in Skill : free'[s] \in Nat /\ free'[s] <= Cap(s)
    <3> TAKE s \in Skill
    <3>1. /\ Cap(s) \in Nat /\ free[s] \in Nat
          /\ Room(s) \in Nat /\ free[s] + Room(s) <= Cap(s)
      BY RoomIsLeft
    <3>2. Kept(acquired[i], s) \in Nat /\ Kept(acquired[i], s) <= Room(s)
      BY <2>2, KeptFits
    <3>3. free'[s] = free[s] + Kept(acquired[i], s)
      BY <2>1
    <3> QED
      BY <3>1, <3>2, <3>3
  <2>4. TypeOK'
    BY <2>1, <2>3 DEF TypeOK, inputs
  <2> QED
    BY <1>0, <2>1, <2>3, <2>4 DEF CapHolds, Cap
<1>2. CASE SkipModule
  <2>1. TypeOK'
    BY <1>2 DEF SkipModule, TypeOK, inputs
  <2> QED
    BY <1>0, <1>2, <2>1 DEF SkipModule, CapHolds, Cap
<1>3. CASE RefusePool
  <2>1. TypeOK'
    BY <1>3 DEF RefusePool, TypeOK, inputs
  <2> QED
    BY <1>0, <1>3, <2>1 DEF RefusePool, CapHolds, Cap
<1>4. CASE ApplyPool
  <2>1. /\ ~Refused(Head(queue))
        /\ free' = [s \in Skill |-> free[s] + Received(Head(queue), s)]
        /\ errors' \in {errors, errors \cup {"pending"}}
        /\ UNCHANGED <<inputs, taken, finished>>
    BY <1>4 DEF ApplyPool
  <2>2. \A s \in Skill : free'[s] \in Nat /\ free'[s] <= Cap(s)
    <3> TAKE s \in Skill
    <3>1. /\ Cap(s) \in Nat /\ free[s] \in Nat
          /\ Room(s) \in Nat /\ free[s] + Room(s) <= Cap(s)
      BY RoomIsLeft
    <3>2. Received(Head(queue), s) \in Nat /\ Received(Head(queue), s) <= Room(s)
      BY <2>1, ReceivedFits
    <3>3. free'[s] = free[s] + Received(Head(queue), s)
      BY <2>1
    <3> QED
      BY <3>1, <3>2, <3>3
  <2>3. TypeOK'
    BY <2>1, <2>2 DEF TypeOK, inputs
  <2> QED
    BY <1>0, <2>1, <2>2, <2>3 DEF CapHolds, Cap
<1>5. CASE Finish
  <2>1. TypeOK'
    BY <1>5 DEF Finish, TypeOK, inputs
  <2> QED
    BY <1>0, <1>5, <2>1 DEF Finish, CapHolds, Cap
<1>6. CASE UNCHANGED vars
  BY <1>6 DEF vars, inputs, InputsOK, TypeOK, CapHolds, Cap
<1> QED
  BY <1>1, <1>2, <1>3, <1>4, <1>5, <1>6 DEF Next

(* No skill is free beyond its cap, whatever modules, choices and transfers *)
(* a character was saved with: _apply_direct and _apply_knowledge keep no   *)
(* more than there is room for, and both _allocate functions refuse a pool  *)
(* whose transfer asks for more than its target has left.                   *)
THEOREM FreeLevelsStayWithinCaps == Spec => []FreeLevelsOK
<1>1. IInv => FreeLevelsOK
  BY DEF IInv, FreeLevelsOK
<1> QED
  BY <1>1, InitOK, StepOK, PTL DEF Spec

-----------------------------------------------------------------------------
(* What a module gives, level by level.                                     *)

LEMMA SkillsAreFinite == IsFiniteSet(Skill)
  BY GrantsAssumption, FS_Union DEF Skill

LEMMA AmountsSplit ==
  ASSUME TypeOK, CapHolds, NEW e \in Entries, NEW s \in Skill
  PROVE  /\ Amount(e, s) \in Nat /\ Kept(e, s) \in Nat /\ Excess(e, s) \in Nat
         /\ Amount(e, s) = Kept(e, s) + Excess(e, s)
<1>1. Gives[e.module][s] \in Nat /\ OptionGives[e.module] \in Nat
  BY GrantsAssumption DEF Entries
<1>2. Amount(e, s) \in Nat
  BY <1>1 DEF Amount
<1>3. Room(s) \in Nat
  BY RoomIsLeft
<1> HIDE DEF Amount, Room
<1> QED
  BY <1>2, <1>3 DEF Kept, Excess

\* The skills whose excess the module loses, as opposed to those it opens a pool for.
Losing(e) == {s \in Skill : Excess(e, s) > 0 /\ ~Transferable(e, s)}

\* A pool before it is settled, and after.
Pool == [entry : Nat, module : Module, source : Skill, grant : Nat, total : Nat]

LEMMA LostLevels ==
  ASSUME TypeOK, CapHolds, NEW e \in Entries
  PROVE  /\ IsFiniteSet(LostTo(e))
         /\ \A l \in LostTo(e) : l.levels \in Nat /\ l.entry = e.entry
         /\ Total([l \in LostTo(e) |-> l.levels])
              = SumOn([s \in Skill |-> Excess(e, s)], Losing(e))
<1> DEFINE L == Losing(e)
           f == [s \in Skill |-> Excess(e, s)]
           h == [s \in L |-> [entry |-> e.entry, skill |-> s, levels |-> Excess(e, s)]]
           D == LostTo(e)
           g == [l \in D |-> l.levels]
<1>1. L \in SUBSET Skill /\ IsFiniteSet(L)
  BY SkillsAreFinite, FS_Subset DEF Losing
<1>2. D = ImageOf(h, L)
  BY DEF LostTo, Losing, ImageOf
<1>3. \A s \in L : h[s] \in D /\ h[s].levels = Excess(e, s)
  BY <1>2 DEF ImageOf
<1>4. \A s \in Skill : Excess(e, s) \in Nat
  BY AmountsSplit
<1>5. \A s \in L : f[s] \in Int /\ g[h[s]] = f[s]
  BY <1>1, <1>3, <1>4
<1>6. \A s, t \in L : h[s] = h[t] => s = t
  <2> TAKE s, t \in L
  <2>1. h[s].skill = s /\ h[t].skill = t
    OBVIOUS
  <2> QED
    BY <2>1
<1>7. \A l \in D : l.levels \in Nat /\ l.entry = e.entry
  BY <1>1, <1>4 DEF LostTo, Losing
<1>8. DOMAIN g = D
  OBVIOUS
<1> HIDE DEF L, f, h, D, g
<1>9. IsFiniteSet(ImageOf(h, L)) /\ SumOn(g, ImageOf(h, L)) = SumOn(f, L)
  BY ONLY <1>1, <1>5, <1>6, SumAlong
<1>10. Total(g) = SumOn(g, D)
  BY <1>8, TotalIsSum
<1>11. IsFiniteSet(D) /\ Total(g) = SumOn(f, L)
  BY <1>2, <1>9, <1>10
<1> QED
  BY <1>7, <1>11 DEF L, f, D, g

LEMMA OpenedLevels ==
  ASSUME TypeOK, CapHolds, NEW e \in Entries
  PROVE  /\ OpenedBy(e) \in Seq(Pool)
         /\ \A k \in DOMAIN OpenedBy(e) : OpenedBy(e)[k].entry = e.entry
         /\ \A j, k \in DOMAIN OpenedBy(e) :
              OpenedBy(e)[j].source = OpenedBy(e)[k].source => j = k
         /\ Total([k \in DOMAIN OpenedBy(e) |-> OpenedBy(e)[k].total])
              = SumOn([s \in Skill |-> Excess(e, s)], Opening(e))
<1> DEFINE O == Opening(e)
           p == Picked(Order, O)
           q == OpenedBy(e)
           f == [k \in DOMAIN q |-> q[k].total]
           g == [s \in Skill |-> Excess(e, s)]
<1>1. O \in SUBSET Skill /\ IsFiniteSet(O)
  BY SkillsAreFinite, FS_Subset DEF Opening
<1>2. /\ p \in Seq(O) /\ ImageOf(p, DOMAIN p) = O
      /\ \A j, k \in DOMAIN p : p[j] = p[k] => j = k
  <2>1. /\ Order \in Seq(Skill) /\ O \in SUBSET Skill
        /\ \A x \in O : \E i \in DOMAIN Order : Order[i] = x
        /\ \A i, j \in DOMAIN Order : Order[i] = Order[j] => i = j
    BY <1>1, GrantsAssumption
  <2> HIDE DEF O
  <2> QED
    BY ONLY <2>1, PickedOnce
<1>3. q = [k \in DOMAIN p |-> [entry |-> e.entry, module |-> e.module, source |-> p[k],
                               grant |-> Amount(e, p[k]), total |-> Excess(e, p[k])]]
  BY DEF OpenedBy
<1>4. \A s \in Skill : Amount(e, s) \in Nat /\ Excess(e, s) \in Nat
  BY AmountsSplit
<1>5. e.entry \in Nat /\ e.module \in Module
  BY DEF Entries
<1>6. DOMAIN p = 1..Len(p) /\ Len(p) \in Nat /\ \A k \in DOMAIN p : p[k] \in Skill
  BY <1>1, <1>2
<1> HIDE DEF p, q, O
<1>7. DOMAIN q = DOMAIN p
  BY <1>3
<1>8. \A k \in DOMAIN p : /\ q[k].entry = e.entry /\ q[k].source = p[k]
                          /\ q[k].total = Excess(e, p[k]) /\ q[k] \in Pool
  BY <1>3, <1>4, <1>5, <1>6 DEF Pool
<1>9. q \in Seq(Pool)
  <2>1. q \in [1..Len(p) -> Pool]
    BY <1>3, <1>6, <1>8
  <2> QED
    BY <1>6, <2>1
<1>10. Total(f) = SumOn(g, O)
  <2>1. \A k \in DOMAIN p : f[k] \in Int /\ g[p[k]] = f[k]
    BY <1>4, <1>6, <1>7, <1>8
  <2>2. IsFiniteSet(DOMAIN p)
    BY <1>6, FS_Interval
  <2>3. DOMAIN f = DOMAIN p
    BY <1>7
  <2> HIDE DEF f, g
  <2>4. SumOn(g, ImageOf(p, DOMAIN p)) = SumOn(f, DOMAIN p)
    BY ONLY <1>2, <2>1, <2>2, SumAlong
  <2>5. Total(f) = SumOn(f, DOMAIN p)
    BY <2>3, TotalIsSum
  <2> QED
    BY <1>2, <2>4, <2>5
<1> QED
  BY <1>2, <1>7, <1>8, <1>9, <1>10 DEF q, O

(* Every level a module gives is kept by a skill, lost, or in a pool it opens. *)
LEMMA LevelsOfModule ==
  ASSUME TypeOK, CapHolds, NEW e \in Entries
  PROVE  /\ Total([s \in Skill |-> Amount(e, s)])
              = Total([s \in Skill |-> Kept(e, s)])
                + Total([l \in LostTo(e) |-> l.levels])
                + Total([k \in DOMAIN OpenedBy(e) |-> OpenedBy(e)[k].total])
         /\ Total([s \in Skill |-> Kept(e, s)]) \in Int
         /\ Total([l \in LostTo(e) |-> l.levels]) \in Int
         /\ Total([k \in DOMAIN OpenedBy(e) |-> OpenedBy(e)[k].total]) \in Int
<1> DEFINE a == [s \in Skill |-> Amount(e, s)]
           b == [s \in Skill |-> Kept(e, s)]
           f == [s \in Skill |-> Excess(e, s)]
           L == Losing(e)
           O == Opening(e)
<1>1. IsFiniteSet(Skill)
  BY SkillsAreFinite
<1>2. \A s \in Skill : b[s] \in Int /\ f[s] \in Int /\ a[s] = b[s] + f[s]
  BY AmountsSplit
<1>3. /\ L \in SUBSET Skill /\ O \in SUBSET Skill /\ L \cap O = {}
      /\ \A s \in Skill \ (L \cup O) : ~(Excess(e, s) > 0)
  BY DEF Losing, Opening
<1>4. \A s \in Skill \ (L \cup O) : f[s] = 0
  BY <1>3, AmountsSplit
<1>5. IsFiniteSet(L) /\ IsFiniteSet(O)
  BY <1>1, <1>3, FS_Subset
<1>6. DOMAIN a = Skill /\ DOMAIN b = Skill
  OBVIOUS
<1>7. /\ Total([l \in LostTo(e) |-> l.levels]) = SumOn(f, L)
      /\ Total([k \in DOMAIN OpenedBy(e) |-> OpenedBy(e)[k].total]) = SumOn(f, O)
  BY LostLevels, OpenedLevels
<1> HIDE DEF a, b, f, L, O
<1>8. SumOn(a, Skill) = SumOn(b, Skill) + SumOn(f, Skill)
  BY ONLY <1>1, <1>2, SumOfSums
<1>9. SumOn(f, Skill) = SumOn(f, L \cup O)
  <2> DEFINE W == L \cup O
  <2>1. W \subseteq Skill /\ \A s \in Skill \ W : f[s] = 0
    BY <1>3, <1>4
  <2>2. \A s \in Skill : f[s] \in Int
    BY <1>2
  <2> HIDE DEF W
  <2>3. SumOn(f, Skill) = SumOn(f, W)
    BY ONLY <1>1, <2>1, <2>2, SumOfSupport
  <2> QED
    BY <2>3 DEF W
<1>10. SumOn(f, L \cup O) = SumOn(f, L) + SumOn(f, O)
  <2>1. \A s \in L \cup O : f[s] \in Int
    BY <1>2, <1>3
  <2> QED
    BY ONLY <1>3, <1>5, <2>1, SumOfParts
<1>11. SumOn(b, Skill) \in Int
  BY <1>1, <1>2, SumIsInt
<1>12. SumOn(f, L) \in Int
  BY <1>2, <1>3, <1>5, SumIsInt
<1>13. SumOn(f, O) \in Int
  BY <1>2, <1>3, <1>5, SumIsInt
<1>14. Total(a) = SumOn(a, Skill) /\ Total(b) = SumOn(b, Skill)
  BY <1>6, TotalIsSum
<1>15. Total(a) = Total(b) + SumOn(f, L) + SumOn(f, O)
  BY <1>8, <1>9, <1>10, <1>11, <1>12, <1>13, <1>14
<1> QED
  BY <1>7, <1>11, <1>12, <1>13, <1>14, <1>15 DEF a, b

-----------------------------------------------------------------------------
(* What a pool moves.                                                       *)

LEMMA InputsStay ==
  ASSUME inputs' = inputs
  PROVE  /\ Chosen' = Chosen
         /\ \A p : RowsOf(p)' = RowsOf(p)
         /\ \A p : Candidates(p)' = Candidates(p)
<1>1. acquired' = acquired /\ transfers' = transfers
  BY DEF inputs
<1>2. Chosen' = Chosen
  BY <1>1 DEF Chosen
<1>3. Native' = Native
  BY <1>1, <1>2 DEF Native
<1>4. \A p : RowsOf(p)' = RowsOf(p)
  BY <1>1 DEF RowsOf
<1>5. \A p : Candidates(p)' = Candidates(p)
  BY <1>3 DEF Candidates
<1> QED
  BY <1>2, <1>4, <1>5

LEMMA RowsAreFinite ==
  ASSUME InputsOK, NEW S, S \subseteq transfers
  PROVE  /\ IsFiniteSet(S) /\ S \subseteq Rows /\ \A r \in S : r.ranks \in Nat
         /\ Ranks(S) \in Nat /\ Ranks(S) = SumOn([r \in S |-> r.ranks], S)
<1> DEFINE f == [r \in S |-> r.ranks]
<1>1. IsFiniteSet(S) /\ S \subseteq Rows
  BY FS_Subset DEF InputsOK
<1>2. \A r \in S : r.ranks \in Nat
  BY <1>1 DEF Rows
<1>3. DOMAIN f = S /\ \A r \in S : f[r] \in Nat
  BY <1>2
<1>4. Ranks(S) = Total(f)
  BY DEF Ranks
<1> HIDE DEF f
<1>5. SumOn(f, S) \in Nat
  BY <1>1, <1>3, SumIsNat
<1>6. Total(f) = SumOn(f, S)
  BY <1>3, TotalIsSum
<1> QED
  BY <1>1, <1>2, <1>4, <1>5, <1>6 DEF f

(* The targets of a pool that is not refused get the ranks of its rows, each
   rank once.                                                               *)
LEMMA ReceivedAddsUp ==
  ASSUME InputsOK, TypeOK, CapHolds, NEW p, ~Refused(p)
  PROVE  Total([s \in Skill |-> Received(p, s)]) = Ranks(RowsOf(p))
<1> DEFINE R == RowsOf(p)
           f == [r \in R |-> r.ranks]
           g == [s \in Skill |-> Received(p, s)]
           h == [r \in R |-> r.dest]
           I == ImageOf(h, R)
<1>1. R \subseteq transfers
  BY DEF RowsOf
<1>2. /\ IsFiniteSet(R) /\ R \subseteq Rows /\ \A r \in R : r.ranks \in Nat
      /\ Ranks(R) = SumOn(f, R)
  BY <1>1, RowsAreFinite
<1>3. ASSUME NEW r \in R
      PROVE  r.dest \in Skill /\ \A o \in R : o.dest = r.dest => o = r
  <2>1. r.dest \in Candidates(p) /\ \A o \in R \ {r} : o.dest # r.dest
    BY DEF Refused, BadRows
  <2>2. Candidates(p) \subseteq Skill
    BY DEF Candidates, Skill
  <2> QED
    BY <2>1, <2>2
<1>4. ASSUME NEW r \in R PROVE Received(p, r.dest) = r.ranks
  <2>1. \E o \in RowsOf(p) : o.dest = r.dest
    OBVIOUS
  <2>2. (CHOOSE o \in RowsOf(p) : o.dest = r.dest) = r
    BY <1>3
  <2> QED
    BY <2>1, <2>2 DEF Received
<1>5. \A s \in Skill : Received(p, s) \in Nat
  BY ReceivedFits
<1>6. \A r \in R : f[r] \in Int /\ g[h[r]] = f[r]
  BY <1>2, <1>3, <1>4
<1>7. \A r, o \in R : h[r] = h[o] => r = o
  BY <1>3
<1>8. I \subseteq Skill
  BY <1>3 DEF ImageOf
<1>9. \A s \in Skill \ I : g[s] = 0
  <2> TAKE s \in Skill \ I
  <2>1. ~\E r \in RowsOf(p) : r.dest = s
    BY DEF ImageOf
  <2> QED
    BY <2>1 DEF Received
<1>10. \A s \in Skill : g[s] \in Int
  BY <1>5
<1>11. DOMAIN g = Skill /\ IsFiniteSet(Skill)
  BY SkillsAreFinite
<1> HIDE DEF R, f, g, h, I
<1>12. SumOn(g, I) = SumOn(f, R)
  BY ONLY <1>2, <1>6, <1>7, SumAlong DEF I
<1>13. SumOn(g, Skill) = SumOn(g, I)
  BY ONLY <1>8, <1>9, <1>10, <1>11, SumOfSupport
<1>14. Total(g) = SumOn(g, Skill)
  BY <1>11, TotalIsSum
<1> QED
  BY <1>2, <1>12, <1>13, <1>14 DEF g, R

(* What is still movable is at most what is left; none of it is only when no
   skill has any room.                                                      *)
LEMMA StillMovableIs ==
  ASSUME NEW p, NEW left \in Nat, NEW free2 \in [Skill -> Nat],
         \A s \in Skill : free2[s] <= Cap(s)
  PROVE  /\ StillMovable(p, left, free2) \in Nat
         /\ StillMovable(p, left, free2) <= left
         /\ (StillMovable(p, left, free2) = 0 /\ left > 0) =>
              \A s \in Candidates(p) : s \notin Exotic /\ free2[s] = Cap(s)
<1> DEFINE C == Candidates(p)
           f == [s \in C |-> ActiveCap - free2[s]]
           open == Total(f)
<1>1. StillMovable(p, left, free2) =
        IF p.source \in Knowledge \/ C \cap Exotic # {} \/ open >= left THEN left ELSE open
  BY DEF StillMovable
<1>2. CASE p.source \in Knowledge
  BY <1>1, <1>2
<1>3. CASE p.source \notin Knowledge
  <2>1. C \subseteq Active
    BY <1>3 DEF Candidates
  <2>2. C \subseteq Skill /\ IsFiniteSet(C)
    BY <2>1, SkillsAreFinite, FS_Subset DEF Skill
  <2>3. \A s \in C : Cap(s) = ActiveCap /\ ActiveCap \in Nat
    BY <2>1, GrantsAssumption DEF Cap
  <2>4. \A s \in C : f[s] \in Nat /\ f[s] = Cap(s) - free2[s] /\ Cap(s) \in Nat
    BY <2>2, <2>3
  <2>5. DOMAIN f = C
    OBVIOUS
  <2> HIDE DEF C, f
  <2>6. Total(f) = SumOn(f, C)
    BY <2>5, TotalIsSum
  <2>7. SumOn(f, C) \in Nat
    BY ONLY <2>2, <2>4, SumIsNat
  <2>8. ASSUME open = 0 PROVE \A s \in C : free2[s] = Cap(s)
    <3>1. SumOn(f, C) <= 0
      BY <2>6, <2>8
    <3>2. \A s \in C : f[s] = 0
      BY ONLY <2>2, <2>4, <3>1, SumIsZero
    <3> QED
      BY <2>2, <2>4, <3>2
  <2>9. open \in Nat
    BY <2>6, <2>7
  <2> HIDE DEF open
  <2>10. StillMovable(p, left, free2) \in Nat /\ StillMovable(p, left, free2) <= left
    BY <1>1, <2>9
  <2>11. ASSUME StillMovable(p, left, free2) = 0, left > 0
         PROVE  open = 0 /\ C \cap Exotic = {}
    BY <1>1, <2>9, <2>11
  <2> QED
    BY <2>8, <2>10, <2>11 DEF C
<1> QED
  BY <1>2, <1>3

-----------------------------------------------------------------------------
(* Where the levels are, and what the pools have come to.                   *)

SettledPool ==
  {p \in [entry : Nat, source : Skill, total : Nat, allocated : Int, remaining : Nat,
          unallocatable : Int, status : {"invalid", "pending", "unallocatable", "complete"},
          provisional : BOOLEAN] :
     p.unallocatable = p.total - p.allocated - p.remaining}

Apart(p, q) == p.entry # q.entry \/ p.source # q.source

\* A module that was taken opened it.
Opened(p) == \E i \in taken : p.entry = acquired[i].entry

(* No pool is there twice, neither settled nor waiting. *)
PoolsKnown ==
  /\ queue \in Seq(Pool) /\ pools \in Seq(SettledPool)
  /\ \A j, k \in DOMAIN queue : j # k => Apart(queue[j], queue[k])
  /\ \A j, k \in DOMAIN pools : j # k => Apart(pools[j], pools[k])
  /\ \A j \in DOMAIN pools : \A k \in DOMAIN queue : Apart(pools[j], queue[k])
  /\ \A k \in DOMAIN queue : Opened(queue[k])
  /\ \A k \in DOMAIN pools : Opened(pools[k])

LossesKnown ==
  /\ IsFiniteSet(losses)
  /\ \A l \in losses : l.levels \in Nat /\ Opened(l)

(* Until something is wrong every pool has applied its rows and has nothing
   left to move; one that gives levels up has no target with room, then or
   later.                                                                   *)
Judged ==
  \A k \in DOMAIN pools :
    /\ errors = {} => /\ pools[k].allocated = Ranks(RowsOf(pools[k]))
                      /\ pools[k].remaining = 0 /\ ~pools[k].provisional
    /\ (pools[k].unallocatable > 0 /\ pools[k].remaining = 0) =>
         \A s \in Candidates(pools[k]) : s \notin Exotic /\ free[s] = Cap(s)

Ended == finished => queue = << >> /\ taken = Chosen /\ (errors = {} => Orphans = {})

GivenBy(i) == IF StageOf[acquired[i].module] \in Stages
              THEN Total([s \in Skill |-> Amount(acquired[i], s)]) ELSE 0
Given      == [i \in taken |-> GivenBy(i)]
LostLevel  == [l \in losses |-> l.levels]
PoolLevel  == [k \in DOMAIN pools |-> pools[k].remaining + pools[k].unallocatable]
QueueLevel == [k \in DOMAIN queue |-> queue[k].total]

Flow == PoolsKnown /\ LossesKnown /\ Judged /\ Ended /\ LevelsConserved

LEMMA Conserved ==
  LevelsConserved <=> Total(Given) = Total(free) + Total(LostLevel)
                                       + Total(PoolLevel) + Total(QueueLevel)
BY DEF LevelsConserved, Given, GivenBy, LostLevel, PoolLevel, QueueLevel

LEMMA LevelsAreNumbers ==
  TypeOK /\ PoolsKnown /\ LossesKnown =>
    /\ Total(free) \in Int /\ Total(LostLevel) \in Int
    /\ Total(PoolLevel) \in Int /\ Total(QueueLevel) \in Int
    /\ PoolLevel \in [1..Len(pools) -> Int] /\ Len(pools) \in Nat
    /\ QueueLevel \in [1..Len(queue) -> Int] /\ Len(queue) \in Nat
<1> SUFFICES ASSUME TypeOK, PoolsKnown, LossesKnown
             PROVE  /\ Total(free) \in Int /\ Total(LostLevel) \in Int
                    /\ Total(PoolLevel) \in Int /\ Total(QueueLevel) \in Int
                    /\ PoolLevel \in [1..Len(pools) -> Int] /\ Len(pools) \in Nat
                    /\ QueueLevel \in [1..Len(queue) -> Int] /\ Len(queue) \in Nat
  OBVIOUS
<1>1. Total(free) \in Int
  <2>1. DOMAIN free = Skill /\ \A s \in DOMAIN free : free[s] \in Int
    BY DEF TypeOK
  <2> QED
    BY <2>1, SkillsAreFinite, TotalIsInt
<1>2. Total(LostLevel) \in Int
  <2>1. DOMAIN LostLevel = losses /\ \A l \in DOMAIN LostLevel : LostLevel[l] \in Int
    BY DEF LostLevel, LossesKnown
  <2> QED
    BY <2>1, TotalIsInt DEF LossesKnown
<1>3. PoolLevel \in [1..Len(pools) -> Int] /\ Len(pools) \in Nat
  <2>1. pools \in Seq(SettledPool) /\ DOMAIN pools = 1..Len(pools)
    BY DEF PoolsKnown
  <2>2. \A k \in DOMAIN pools : pools[k].remaining \in Int /\ pools[k].unallocatable \in Int
    BY <2>1 DEF SettledPool
  <2> QED
    BY <2>1, <2>2 DEF PoolLevel
<1>4. QueueLevel \in [1..Len(queue) -> Int] /\ Len(queue) \in Nat
  <2>1. queue \in Seq(Pool) /\ DOMAIN queue = 1..Len(queue)
    BY DEF PoolsKnown
  <2>2. \A k \in DOMAIN queue : queue[k].total \in Int
    <3>1. \A k \in DOMAIN queue : queue[k] \in Pool
      BY <2>1
    <3> QED
      BY <3>1 DEF Pool
  <2> QED
    BY <2>1, <2>2 DEF QueueLevel
<1>5. Total(PoolLevel) \in Int
  <2>1. DOMAIN PoolLevel = 1..Len(pools) /\ \A k \in 1..Len(pools) : PoolLevel[k] \in Int
    BY <1>3
  <2>2. IsFiniteSet(1..Len(pools))
    BY <1>3, FS_Interval
  <2> QED
    BY ONLY <2>1, <2>2, TotalIsInt
<1>6. Total(QueueLevel) \in Int
  <2>1. DOMAIN QueueLevel = 1..Len(queue) /\ \A k \in 1..Len(queue) : QueueLevel[k] \in Int
    BY <1>4
  <2>2. IsFiniteSet(1..Len(queue))
    BY <1>4, FS_Interval
  <2> QED
    BY ONLY <2>1, <2>2, TotalIsInt
<1> QED
  BY <1>1, <1>2, <1>3, <1>4, <1>5, <1>6

LEMMA AllTaken ==
  ASSUME IInv
  PROVE  /\ IsFiniteSet(taken) /\ taken \subseteq DOMAIN acquired
         /\ \A i \in DOMAIN acquired : acquired[i] \in Entries /\ GivenBy(i) \in Int
<1>1. acquired \in Seq(Entries) /\ taken \subseteq 1..Len(acquired) /\ Len(acquired) \in Nat
  BY DEF IInv, InputsOK, TypeOK
<1>2. IsFiniteSet(taken)
  <2>1. IsFiniteSet(1..Len(acquired))
    BY <1>1, FS_Interval
  <2> QED
    BY ONLY <1>1, <2>1, FS_Subset
<1>3. ASSUME NEW i \in DOMAIN acquired PROVE acquired[i] \in Entries /\ GivenBy(i) \in Int
  <2>1. acquired[i] \in Entries
    BY <1>1
  <2> DEFINE f == [s \in Skill |-> Amount(acquired[i], s)]
  <2>2. DOMAIN f = Skill /\ \A s \in DOMAIN f : f[s] \in Int
    BY <2>1, AmountsSplit DEF IInv
  <2> HIDE DEF f
  <2>3. Total(f) \in Int
    BY <2>2, SkillsAreFinite, TotalIsInt
  <2> QED
    BY <2>1, <2>3 DEF GivenBy, f
<1> QED
  BY <1>1, <1>2, <1>3

(* The skills may only gain. *)
LEMMA GainsAddUp ==
  ASSUME NEW old \in [Skill -> Nat], NEW gain, DOMAIN gain = Skill,
         \A s \in Skill : gain[s] \in Nat,
         NEW new, new = [s \in Skill |-> old[s] + gain[s]]
  PROVE  Total(new) = Total(old) + Total(gain)
<1>1. /\ \A s \in Skill : old[s] \in Int /\ gain[s] \in Int /\ new[s] = old[s] + gain[s]
      /\ DOMAIN new = Skill /\ DOMAIN old = Skill /\ IsFiniteSet(Skill)
  BY SkillsAreFinite
<1>2. SumOn(new, Skill) = SumOn(old, Skill) + SumOn(gain, Skill)
  BY ONLY <1>1, SumOfSums
<1> QED
  BY <1>1, <1>2, TotalIsSum

(* A pool at the head of the queue becomes a settled one. *)
LEMMA PoolMoves ==
  ASSUME PoolsKnown, queue # << >>, NEW q \in SettledPool,
         q.entry = Head(queue).entry, q.source = Head(queue).source,
         queue' = Tail(queue), pools' = Append(pools, q),
         taken' = taken, acquired' = acquired
  PROVE  /\ PoolsKnown'
         /\ Len(queue) = Len(queue') + 1 /\ Len(pools') = Len(pools) + 1
         /\ \A k \in 1..Len(queue') : queue'[k] = queue[k + 1]
         /\ \A k \in 1..Len(pools) : pools'[k] = pools[k]
         /\ pools'[Len(pools')] = q /\ Head(queue) = queue[1] /\ Head(queue) \in Pool
<1>1. /\ queue \in Seq(Pool) /\ pools \in Seq(SettledPool)
      /\ Len(pools) \in Nat /\ Len(queue) \in Nat
      /\ DOMAIN pools = 1..Len(pools) /\ DOMAIN queue = 1..Len(queue)
  BY DEF PoolsKnown
<1>2. /\ queue' \in Seq(Pool) /\ Len(queue') = Len(queue) - 1
      /\ \A k \in 1..Len(queue') : queue'[k] = queue[k + 1]
      /\ Head(queue) = queue[1] /\ Head(queue) \in Pool /\ Len(queue) # 0
  BY <1>1, HeadTailProperties
<1>3. /\ pools' \in Seq(SettledPool) /\ Len(pools') = Len(pools) + 1
      /\ \A k \in 1..Len(pools) : pools'[k] = pools[k]
      /\ pools'[Len(pools) + 1] = q
  BY <1>1, AppendProperties
<1>4. Len(queue') \in Nat /\ DOMAIN queue' = 1..Len(queue') /\ DOMAIN pools' = 1..(Len(pools) + 1)
  BY <1>1, <1>2, <1>3
<1>5. \A k \in DOMAIN queue' : k + 1 \in DOMAIN queue /\ k + 1 # 1
  BY <1>1, <1>2, <1>4
<1>6. 1 \in DOMAIN queue
  BY <1>1, <1>2
<1>7. \A k \in DOMAIN pools' : k \in DOMAIN pools \/ k = Len(pools) + 1
  BY <1>1, <1>4
<1>8. \A j, k \in DOMAIN queue : j # k => Apart(queue[j], queue[k])
  BY DEF PoolsKnown
<1>9. \A j \in DOMAIN pools : \A k \in DOMAIN queue : Apart(pools[j], queue[k])
  BY DEF PoolsKnown
<1>10. \A j, k \in DOMAIN queue' : j # k => Apart(queue'[j], queue'[k])
  <2> TAKE j, k \in DOMAIN queue'
  <2>1. j # k => j + 1 # k + 1
    BY <1>4
  <2> QED
    BY <1>2, <1>4, <1>5, <1>8, <2>1
<1>11. \A p : Apart(q, p) <=> Apart(queue[1], p)
  BY <1>2 DEF Apart
<1>12. \A p : Apart(p, q) <=> Apart(p, queue[1])
  BY <1>2 DEF Apart
<1>13. \A j, k \in DOMAIN pools' : j # k => Apart(pools'[j], pools'[k])
  <2> TAKE j, k \in DOMAIN pools'
  <2>1. CASE j \in DOMAIN pools /\ k \in DOMAIN pools
    BY <1>1, <1>3, <2>1 DEF PoolsKnown
  <2>2. CASE j \in DOMAIN pools /\ k = Len(pools) + 1
    BY <1>1, <1>3, <1>6, <1>9, <1>12, <2>2
  <2>3. CASE j = Len(pools) + 1 /\ k \in DOMAIN pools
    <3>1. Apart(pools[k], queue[1])
      BY <1>6, <1>9, <2>3
    <3>2. Apart(queue[1], pools[k])
      BY <3>1 DEF Apart
    <3> QED
      BY <1>1, <1>3, <1>11, <2>3, <3>2
  <2>4. CASE j = Len(pools) + 1 /\ k = Len(pools) + 1
    BY <2>4
  <2> QED
    BY <1>7, <2>1, <2>2, <2>3, <2>4
<1>14. \A j \in DOMAIN pools' : \A k \in DOMAIN queue' : Apart(pools'[j], queue'[k])
  <2> TAKE j \in DOMAIN pools'
  <2> TAKE k \in DOMAIN queue'
  <2>1. queue'[k] = queue[k + 1] /\ k + 1 \in DOMAIN queue /\ k + 1 # 1
    BY <1>2, <1>4, <1>5
  <2>2. CASE j \in DOMAIN pools
    BY <1>1, <1>3, <1>9, <2>1, <2>2
  <2>3. CASE j = Len(pools) + 1
    <3>1. Apart(queue[1], queue[k + 1])
      BY <1>6, <1>8, <2>1
    <3> QED
      BY <1>3, <1>11, <2>1, <2>3, <3>1
  <2> QED
    BY <1>7, <2>2, <2>3
<1>15. \A p : Opened(p)' <=> Opened(p)
  BY DEF Opened
<1>16. \A k \in DOMAIN queue' : Opened(queue'[k])
  BY <1>2, <1>4, <1>5 DEF PoolsKnown
<1>17. Opened(q)
  <2>1. Opened(queue[1])
    BY <1>6 DEF PoolsKnown
  <2> QED
    BY <1>2, <2>1 DEF Opened
<1>18. \A k \in DOMAIN pools' : Opened(pools'[k])
  BY <1>1, <1>3, <1>7, <1>17 DEF PoolsKnown
<1>19. PoolsKnown'
  <2>1. \A k \in DOMAIN queue' : Opened(queue[k])'
    BY <1>16 DEF Opened
  <2>2. \A k \in DOMAIN pools' : Opened(pools[k])'
    BY <1>18 DEF Opened
  <2> QED
    BY <1>2, <1>3, <1>10, <1>13, <1>14, <2>1, <2>2 DEF PoolsKnown
<1> QED
  BY <1>1, <1>2, <1>3, <1>19

(* No level goes astray when a pool is settled: what the skills do not gain
   stays in it.                                                             *)
LEMMA PoolConserves ==
  ASSUME IInv, IInv', PoolsKnown, LossesKnown, LevelsConserved, queue # << >>,
         NEW q \in SettledPool, q.entry = Head(queue).entry, q.source = Head(queue).source,
         queue' = Tail(queue), pools' = Append(pools, q),
         inputs' = inputs, taken' = taken, losses' = losses,
         NEW moved \in Int, Total(free') = Total(free) + moved,
         q.remaining + q.unallocatable + moved = Head(queue).total
  PROVE  PoolsKnown' /\ LossesKnown' /\ LevelsConserved'
<1>0. acquired' = acquired
  BY DEF inputs
<1>1. /\ PoolsKnown'
      /\ Len(queue) = Len(queue') + 1 /\ Len(pools') = Len(pools) + 1
      /\ \A k \in 1..Len(queue') : queue'[k] = queue[k + 1]
      /\ \A k \in 1..Len(pools) : pools'[k] = pools[k]
      /\ pools'[Len(pools')] = q /\ Head(queue) = queue[1] /\ Head(queue) \in Pool
  BY <1>0, PoolMoves
<1>2. LossesKnown'
  BY <1>0 DEF LossesKnown, Opened
<1>3. Given' = Given /\ LostLevel' = LostLevel
  BY <1>0 DEF Given, GivenBy, LostLevel, Amount
<1>4. /\ Total(free) \in Int /\ Total(LostLevel) \in Int
      /\ Total(PoolLevel) \in Int /\ Total(QueueLevel) \in Int
      /\ PoolLevel \in [1..Len(pools) -> Int] /\ Len(pools) \in Nat
      /\ QueueLevel \in [1..Len(queue) -> Int] /\ Len(queue) \in Nat
  BY LevelsAreNumbers DEF IInv
<1>5. /\ PoolLevel' \in [1..Len(pools') -> Int] /\ Len(pools') \in Nat
      /\ QueueLevel' \in [1..Len(queue') -> Int] /\ Len(queue') \in Nat
      /\ Total(QueueLevel') \in Int /\ Total(PoolLevel') \in Int
  <2>1. (TypeOK /\ PoolsKnown /\ LossesKnown)'
    BY <1>1, <1>2 DEF IInv
  <2>2. (/\ Total(free) \in Int /\ Total(LostLevel) \in Int
         /\ Total(PoolLevel) \in Int /\ Total(QueueLevel) \in Int
         /\ PoolLevel \in [1..Len(pools) -> Int] /\ Len(pools) \in Nat
         /\ QueueLevel \in [1..Len(queue) -> Int] /\ Len(queue) \in Nat)'
    BY <2>1, LevelsAreNumbers, PTL
  <2> QED
    BY <2>2
<1>6. Total(PoolLevel') = Total(PoolLevel) + (q.remaining + q.unallocatable)
  <2> DEFINE n == Len(pools)
             f == PoolLevel'
             g == PoolLevel
  <2>1. f \in [1..(n + 1) -> Int] /\ g \in [1..n -> Int] /\ n \in Nat
    BY <1>1, <1>4, <1>5
  <2>2. \A k \in 1..n : g[k] = f[k]
    <3> TAKE k \in 1..n
    <3>1. k \in DOMAIN pools /\ k \in DOMAIN pools'
      BY <2>1 DEF PoolLevel
    <3> QED
      BY <1>1, <3>1 DEF PoolLevel
  <2>3. f[n + 1] = q.remaining + q.unallocatable
    <3>1. n + 1 \in DOMAIN pools'
      BY <2>1 DEF PoolLevel
    <3> QED
      BY <1>1, <3>1 DEF PoolLevel
  <2> HIDE DEF f, g, n
  <2>4. Total(f) = Total(g) + f[n + 1]
    BY ONLY <2>1, <2>2, TotalOfOneMore
  <2> QED
    BY <2>3, <2>4 DEF f, g
<1>7. Total(QueueLevel) = Head(queue).total + Total(QueueLevel')
  <2> DEFINE n == Len(queue')
             f == QueueLevel
             g == QueueLevel'
  <2>1. f \in [1..(n + 1) -> Int] /\ g \in [1..n -> Int] /\ n \in Nat
    BY <1>1, <1>4, <1>5
  <2>2. \A k \in 1..n : g[k] = f[k + 1]
    <3> TAKE k \in 1..n
    <3>1. k \in DOMAIN queue' /\ k + 1 \in DOMAIN queue
      BY <2>1 DEF QueueLevel
    <3> QED
      BY <1>1, <3>1 DEF QueueLevel
  <2>3. f[1] = Head(queue).total
    <3>1. 1 \in DOMAIN queue
      BY <2>1 DEF QueueLevel
    <3> QED
      BY <1>1, <3>1 DEF QueueLevel
  <2> HIDE DEF f, g, n
  <2>4. Total(f) = f[1] + Total(g)
    BY ONLY <2>1, <2>2, TotalOfTail
  <2> QED
    BY <2>3, <2>4 DEF f, g
<1>8. q.remaining \in Int /\ q.unallocatable \in Int
  BY DEF SettledPool
<1>9. Total(Given) = Total(free) + Total(LostLevel) + Total(PoolLevel) + Total(QueueLevel)
  BY Conserved
<1>10. Total(Given') = Total(free') + Total(LostLevel') + Total(PoolLevel') + Total(QueueLevel')
  <2>1. Total(Given') = Total(Given) /\ Total(LostLevel') = Total(LostLevel)
    BY ONLY <1>3, Zenon
  <2>2. Head(queue).total \in Int
    BY <1>1 DEF Pool
  <2> DEFINE a == Total(free)        b == Total(LostLevel)
             c == Total(PoolLevel)   d == Total(QueueLevel)
             x == Total(free')       y == Total(PoolLevel')
             z == Total(QueueLevel') h == Head(queue).total
             rest == q.remaining + q.unallocatable
  <2>3. a \in Int /\ b \in Int /\ c \in Int /\ d \in Int /\ z \in Int
    BY <1>4, <1>5
  <2>4. h \in Int /\ rest \in Int
    BY <1>8, <2>2
  <2>5. x = a + moved
    OBVIOUS
  <2>6. y = c + rest
    BY <1>6
  <2>7. d = h + z
    BY <1>7
  <2>8. rest + moved = h
    OBVIOUS
  <2> HIDE DEF a, b, c, d, x, y, z, h, rest
  <2>9. a + b + c + d = x + b + y + z
    BY ONLY <2>3, <2>4, <2>5, <2>6, <2>7, <2>8, moved \in Int
  <2> QED
    BY <1>9, <2>1, <2>9 DEF a, b, c, d, x, y, z
<1>11. LevelsConserved'
  BY <1>10 DEF LevelsConserved, Given, GivenBy, LostLevel, PoolLevel, QueueLevel
<1> QED
  BY <1>1, <1>2, <1>11

(* Judged' in the terms of the inputs, which no step changes. *)
LEMMA JudgedNext ==
  ASSUME inputs' = inputs,
         \A k \in DOMAIN pools' :
           /\ errors' = {} => /\ pools'[k].allocated = Ranks(RowsOf(pools'[k]))
                              /\ pools'[k].remaining = 0 /\ ~pools'[k].provisional
           /\ (pools'[k].unallocatable > 0 /\ pools'[k].remaining = 0) =>
                \A s \in Candidates(pools'[k]) : s \notin Exotic /\ free'[s] = Cap(s)
  PROVE  Judged'
<1>1. acquired' = acquired /\ transfers' = transfers
  BY DEF inputs
<1>2. Native' = Native
  <2>1. Chosen' = Chosen
    BY InputsStay
  <2> QED
    BY <1>1, <2>1 DEF Native
<1>3. \A k : RowsOf(pools[k])' = RowsOf(pools'[k])
  BY <1>1 DEF RowsOf
<1>4. \A k : Candidates(pools[k])' = Candidates(pools'[k])
  BY <1>2 DEF Candidates
<1>5. \A k \in DOMAIN pools' :
        errors' = {} => /\ pools'[k].allocated = Ranks(RowsOf(pools[k])')
                        /\ pools'[k].remaining = 0 /\ ~pools'[k].provisional
  BY <1>3
<1>6. \A k \in DOMAIN pools' :
        (pools'[k].unallocatable > 0 /\ pools'[k].remaining = 0) =>
           \A s \in Candidates(pools[k])' : s \notin Exotic /\ free'[s] = Cap(s)
  BY <1>4
<1> QED
  BY <1>5, <1>6 DEF Judged, Ranks, Cap

(* A skill that was full stays full. *)
LEMMA FullStaysFull ==
  ASSUME IInv, IInv', NEW gain, \A s \in Skill : gain[s] \in Nat,
         free' = [s \in Skill |-> free[s] + gain[s]], NEW s \in Skill, free[s] = Cap(s)
  PROVE  free'[s] = Cap(s)
<1>1. free[s] \in Nat /\ free'[s] = free[s] + gain[s] /\ gain[s] \in Nat
  BY DEF IInv, TypeOK
<1>2. free'[s] <= Cap(s)
  BY DEF IInv, CapHolds, Cap
<1> QED
  BY <1>1, <1>2

LEMMA CandidatesAreSkills == ASSUME NEW p PROVE Candidates(p) \subseteq Skill
  BY DEF Candidates, Skill

(* One module more among those taken. *)
LEMMA GivenGrows ==
  ASSUME IInv, NEW i \in DOMAIN acquired, i \notin taken, taken' = taken \cup {i},
         acquired' = acquired
  PROVE  Total(Given') = Total(Given) + GivenBy(i) /\ GivenBy(i) \in Int
<1> DEFINE f == Given'
           g == Given
           S == taken'
<1>1. /\ f = [j \in S |-> GivenBy(j)] /\ g = [j \in taken |-> GivenBy(j)]
      /\ DOMAIN f = S /\ DOMAIN g = taken
  BY DEF Given, GivenBy, Amount
<1>2. /\ IsFiniteSet(taken) /\ taken \subseteq DOMAIN acquired
      /\ \A j \in DOMAIN acquired : GivenBy(j) \in Int
  BY AllTaken
<1>3. S = taken \cup {i} /\ i \in S /\ S \ {i} = taken
  OBVIOUS
<1>4. IsFiniteSet(S)
  BY <1>2, <1>3, FS_AddElement
<1>5. \A j \in S : f[j] \in Int
  BY <1>1, <1>2, <1>3
<1>6. \A j \in taken : g[j] \in Int /\ f[j] = g[j]
  BY <1>1, <1>2, <1>3
<1>7. f[i] = GivenBy(i) /\ GivenBy(i) \in Int
  BY <1>1, <1>2, <1>3
<1> HIDE DEF f, g, S
<1>8. SumOn(f, S) = f[i] + SumOn(f, S \ {i})
  BY ONLY <1>3, <1>4, <1>5, SumTakesOut
<1>9. SumOn(g, taken) = SumOn(f, taken) /\ SumOn(g, taken) \in Int
  <2>1. SumOn(g, taken) = SumOn(f, taken)
    BY ONLY <1>2, <1>6, SumsAgree
  <2>2. SumOn(g, taken) \in Int
    BY ONLY <1>2, <1>6, SumIsInt
  <2> QED
    BY <2>1, <2>2
<1>10. Total(f) = SumOn(f, S) /\ Total(g) = SumOn(g, taken)
  BY <1>1, TotalIsSum
<1>11. SumOn(f, S) = f[i] + SumOn(f, taken)
  BY ONLY <1>3, <1>8, Zenon
<1>12. Total(f) = Total(g) + GivenBy(i)
  BY ONLY <1>7, <1>9, <1>10, <1>11
<1> QED
  BY <1>7, <1>12 DEF f, g

LEMMA TakeModuleFlows ==
  ASSUME IInv, IInv', Flow, TakeModule PROVE Flow'
<1> USE DEF IInv, Flow
<1>1. PICK i \in DOMAIN acquired :
        /\ queue = << >> /\ IsNext(i) /\ StageOf[acquired[i].module] \in Stages
        /\ taken' = taken \cup {i}
        /\ free' = [s \in Skill |-> free[s] + Kept(acquired[i], s)]
        /\ losses' = losses \cup LostTo(acquired[i])
        /\ queue' = OpenedBy(acquired[i])
        /\ errors' \in {errors, errors \cup {"grant"}}
        /\ UNCHANGED <<inputs, pools, finished>>
  BY DEF TakeModule
<1> DEFINE e == acquired[i]
           T == LostTo(e)
           gain == [s \in Skill |-> Kept(e, s)]
<1>2. inputs' = inputs /\ acquired' = acquired /\ pools' = pools /\ finished' = finished
  BY <1>1 DEF inputs
<1>3. e \in Entries /\ i \notin taken /\ i \in Chosen
  BY <1>1 DEF InputsOK, IsNext
<1>4. \A j \in taken : j \in DOMAIN acquired /\ acquired[j].entry # e.entry
  BY <1>3 DEF InputsOK, TypeOK
<1>5. \A s \in Skill : gain[s] \in Nat
  BY <1>3, AmountsSplit
<1>6. /\ queue' \in Seq(Pool)
      /\ \A k \in DOMAIN queue' : queue'[k].entry = e.entry
      /\ \A j, k \in DOMAIN queue' : queue'[j].source = queue'[k].source => j = k
  BY <1>1, <1>3, OpenedLevels
<1>7. IsFiniteSet(T) /\ \A l \in T : l.levels \in Nat /\ l.entry = e.entry
  BY <1>3, LostLevels
<1>8. PoolsKnown'
  <2>1. \A j, k \in DOMAIN queue' : j # k => Apart(queue'[j], queue'[k])
    BY <1>6 DEF Apart
  <2>2. \A j \in DOMAIN pools : pools[j].entry # e.entry
    BY <1>4 DEF PoolsKnown, Opened
  <2>3. \A j \in DOMAIN pools : \A k \in DOMAIN queue' : Apart(pools[j], queue'[k])
    BY <1>6, <2>2 DEF Apart
  <2>4. \A k \in DOMAIN queue' : \E j \in taken' : queue'[k].entry = acquired[j].entry
    BY <1>1, <1>6
  <2>5. \A k \in DOMAIN pools : \E j \in taken' : pools[k].entry = acquired[j].entry
    BY <1>1 DEF PoolsKnown, Opened
  <2> QED
    BY <1>2, <1>6, <2>1, <2>3, <2>4, <2>5 DEF PoolsKnown, Opened
<1>9. LossesKnown'
  <2>1. IsFiniteSet(losses')
    BY <1>1, <1>7, FS_Union DEF LossesKnown
  <2>2. \A l \in losses' : l.levels \in Nat /\ \E j \in taken' : l.entry = acquired[j].entry
    BY <1>1, <1>7 DEF LossesKnown, Opened
  <2> QED
    BY <1>2, <2>1, <2>2 DEF LossesKnown, Opened
<1>10. Judged'
  <2>1. \A k \in DOMAIN pools :
          /\ errors' = {} => /\ pools[k].allocated = Ranks(RowsOf(pools[k]))
                             /\ pools[k].remaining = 0 /\ ~pools[k].provisional
    BY <1>1 DEF Judged
  <2>2. ASSUME NEW k \in DOMAIN pools, pools[k].unallocatable > 0, pools[k].remaining = 0,
               NEW s \in Candidates(pools[k])
        PROVE  s \notin Exotic /\ free'[s] = Cap(s)
    <3>1. s \notin Exotic /\ free[s] = Cap(s)
      BY <2>2 DEF Judged
    <3>2. s \in Skill
      BY CandidatesAreSkills
    <3>3. free' = [t \in Skill |-> free[t] + gain[t]]
      BY <1>1
    <3> HIDE DEF gain
    <3>4. free'[s] = Cap(s)
      BY <1>5, <3>1, <3>2, <3>3, FullStaysFull
    <3> QED
      BY <3>1, <3>4
  <2> QED
    BY <1>2, <2>1, <2>2, JudgedNext
<1>11. Ended'
  <2>1. ~finished
    BY <1>1, <1>3 DEF Ended
  <2> QED
    BY <1>2, <2>1 DEF Ended
<1>12. LevelsConserved'
  <2>1. /\ Total(free) \in Int /\ Total(LostLevel) \in Int /\ Total(PoolLevel) \in Int
        /\ Total(Given) = Total(free) + Total(LostLevel) + Total(PoolLevel) + Total(QueueLevel)
    BY LevelsAreNumbers, Conserved
  <2>2. Total(QueueLevel) = 0
    <3>1. DOMAIN QueueLevel = {}
      BY <1>1 DEF QueueLevel
    <3> QED
      BY <3>1, TotalOfNothing
  <2>3. Total(Given') = Total(Given) + GivenBy(i)
    BY <1>1, <1>2, <1>3, GivenGrows
  <2>4. Total(free') = Total(free) + Total(gain)
    <3>1. free \in [Skill -> Nat] /\ DOMAIN gain = Skill
      BY DEF TypeOK
    <3>2. free' = [s \in Skill |-> free[s] + gain[s]]
      BY <1>1
    <3> HIDE DEF gain
    <3> QED
      BY ONLY <1>5, <3>1, <3>2, GainsAddUp
  <2>5. Total(LostLevel') = Total(LostLevel) + Total([l \in T |-> l.levels])
    <3> DEFINE f == LostLevel'
               g == LostLevel
               h == [l \in T |-> l.levels]
               S == losses'
    <3>1. losses \cap T = {}
      BY <1>4, <1>7 DEF LossesKnown, Opened
    <3>2. S = losses \cup T /\ IsFiniteSet(losses) /\ IsFiniteSet(T)
      BY <1>1, <1>7 DEF LossesKnown
    <3>3. DOMAIN f = S /\ DOMAIN g = losses /\ DOMAIN h = T
      BY DEF LostLevel
    <3>4. \A l \in losses : g[l] \in Int /\ f[l] = g[l]
      BY <3>2 DEF LostLevel, LossesKnown
    <3>5. \A l \in T : h[l] \in Int /\ f[l] = h[l]
      BY <1>7, <3>2 DEF LostLevel
    <3> HIDE DEF f, g, h, S
    <3>6. \A l \in losses \cup T : f[l] \in Int
      BY <3>4, <3>5
    <3>7. SumOn(f, losses \cup T) = SumOn(f, losses) + SumOn(f, T)
      BY ONLY <3>1, <3>2, <3>6, SumOfParts
    <3>8. SumOn(g, losses) = SumOn(f, losses)
      BY ONLY <3>2, <3>4, SumsAgree
    <3>9. SumOn(h, T) = SumOn(f, T)
      BY ONLY <3>2, <3>5, SumsAgree
    <3>10. Total(f) = SumOn(f, S) /\ Total(g) = SumOn(g, losses) /\ Total(h) = SumOn(h, T)
      BY <3>3, TotalIsSum
    <3>11. Total(f) = Total(g) + Total(h)
      BY <3>2, <3>7, <3>8, <3>9, <3>10
    <3> QED
      BY <3>11 DEF f, g, h
  <2>6. PoolLevel' = PoolLevel
    BY <1>2 DEF PoolLevel
  <2>7. Total(QueueLevel') = Total([k \in DOMAIN OpenedBy(e) |-> OpenedBy(e)[k].total])
    BY <1>1 DEF QueueLevel
  <2>8. GivenBy(i) = Total([s \in Skill |-> Amount(e, s)])
    BY <1>1 DEF GivenBy
  <2>9. /\ Total([s \in Skill |-> Amount(e, s)])
             = Total(gain) + Total([l \in T |-> l.levels])
               + Total([k \in DOMAIN OpenedBy(e) |-> OpenedBy(e)[k].total])
        /\ Total(gain) \in Int
        /\ Total([l \in T |-> l.levels]) \in Int
        /\ Total([k \in DOMAIN OpenedBy(e) |-> OpenedBy(e)[k].total]) \in Int
    BY <1>3, LevelsOfModule
  <2>10. Total(Given') = Total(free') + Total(LostLevel') + Total(PoolLevel') + Total(QueueLevel')
    <3> DEFINE a == Total(free)    b == Total(LostLevel)  c == Total(PoolLevel)
               x == Total(gain)    y == Total([l \in T |-> l.levels])
               z == Total([k \in DOMAIN OpenedBy(e) |-> OpenedBy(e)[k].total])
    <3>1. a \in Int /\ b \in Int /\ c \in Int /\ x \in Int /\ y \in Int /\ z \in Int
      BY <2>1, <2>9
    <3>2. Total(Given') = (a + b + c + 0) + (x + y + z)
      BY <2>1, <2>2, <2>3, <2>8, <2>9
    <3>3. /\ Total(free') = a + x /\ Total(LostLevel') = b + y
          /\ Total(PoolLevel') = c /\ Total(QueueLevel') = z
      BY <2>4, <2>5, <2>6, <2>7
    <3> HIDE DEF a, b, c, x, y, z
    <3>4. (a + b + c + 0) + (x + y + z) = (a + x) + (b + y) + c + z
      BY ONLY <3>1
    <3> QED
      BY ONLY <3>2, <3>3, <3>4
  <2> QED
    BY <2>10 DEF LevelsConserved, Given, GivenBy, LostLevel, PoolLevel, QueueLevel
<1> QED
  BY <1>8, <1>9, <1>10, <1>11, <1>12

LEMMA RefusePoolFlows ==
  ASSUME IInv, IInv', Flow, RefusePool PROVE Flow'
<1> USE DEF IInv, Flow
<1> DEFINE p == Head(queue)
           q == Settled(p, 0, p.total, "invalid")
<1>1. /\ queue # << >> /\ queue' = Tail(queue) /\ pools' = Append(pools, q)
      /\ errors' = errors \cup {"transfer"} /\ inputs' = inputs
      /\ taken' = taken /\ free' = free /\ losses' = losses /\ finished' = finished
  BY DEF RefusePool
<1>2. p \in Pool
  <2>1. queue \in Seq(Pool)
    BY DEF PoolsKnown
  <2> QED
    BY <1>1, <2>1, HeadTailProperties
<1>3. p.total \in Nat /\ p.entry \in Nat /\ p.source \in Skill
  BY <1>2 DEF Pool
<1>4. /\ q.entry = p.entry /\ q.source = p.source /\ q.total = p.total /\ q.allocated = 0
      /\ q.remaining = p.total /\ q.unallocatable = 0 /\ q \in SettledPool
  BY <1>3 DEF Settled, SettledPool
<1> HIDE DEF q
<1>5. PoolsKnown' /\ LossesKnown' /\ LevelsConserved'
  <2> DEFINE none == 0
  <2>1. none \in Int /\ Total(free') = Total(free) + none
        /\ q.remaining + q.unallocatable + none = p.total
    BY <1>1, <1>3, <1>4, LevelsAreNumbers
  <2> HIDE DEF none
  <2> QED
    BY <1>1, <1>4, <2>1, PoolConserves
<1>6. /\ Len(pools') = Len(pools) + 1 /\ pools'[Len(pools')] = q
      /\ \A k \in 1..Len(pools) : pools'[k] = pools[k]
  BY <1>1, <1>4, PoolMoves DEF inputs
<1>7. \A k \in DOMAIN pools' : k \in 1..Len(pools) \/ k = Len(pools')
  BY <1>5, <1>6 DEF PoolsKnown
<1>8. DOMAIN pools = 1..Len(pools)
  BY DEF PoolsKnown
<1>9. Judged'
  <2>1. ASSUME NEW k \in DOMAIN pools', pools'[k].unallocatable > 0, pools'[k].remaining = 0,
               NEW s \in Candidates(pools'[k])
        PROVE  s \notin Exotic /\ free'[s] = Cap(s)
    <3>1. k \in DOMAIN pools /\ pools'[k] = pools[k]
      BY <1>4, <1>6, <1>7, <1>8, <2>1
    <3> QED
      BY <1>1, <2>1, <3>1 DEF Judged
  <2>2. errors' # {}
    BY <1>1
  <2> QED
    BY <1>1, <2>1, <2>2, JudgedNext
<1>10. Ended'
  <2>1. ~finished
    BY <1>1 DEF Ended
  <2> QED
    BY <1>1, <2>1 DEF Ended
<1> QED
  BY <1>5, <1>9, <1>10

LEMMA ApplyPoolFlows ==
  ASSUME IInv, IInv', Flow, ApplyPool PROVE Flow'
<1> USE DEF IInv, Flow
<1> DEFINE p == Head(queue)
           ranks == Ranks(RowsOf(p))
           left == p.total - ranks
           rest == StillMovable(p, left, free')
           status == IF rest > 0 THEN "pending" ELSE IF left > 0 THEN "unallocatable" ELSE "complete"
           q == Settled(p, p.total - left, rest, status)
           gain == [s \in Skill |-> Received(p, s)]
<1>1. /\ queue # << >> /\ ~Refused(p) /\ queue' = Tail(queue) /\ pools' = Append(pools, q)
      /\ free' = [s \in Skill |-> free[s] + Received(p, s)]
      /\ errors' = IF rest > 0 THEN errors \cup {"pending"} ELSE errors
      /\ inputs' = inputs /\ taken' = taken /\ losses' = losses /\ finished' = finished
  BY DEF ApplyPool
<1>2. p \in Pool
  <2>1. queue \in Seq(Pool)
    BY DEF PoolsKnown
  <2> QED
    BY <1>1, <2>1, HeadTailProperties
<1>3. p.total \in Nat /\ p.entry \in Nat /\ p.source \in Skill
  BY <1>2 DEF Pool
<1>4. RowsOf(p) \subseteq transfers
  BY DEF RowsOf
<1>5. ranks \in Nat
  BY <1>4, RowsAreFinite
<1>6. left \in Nat /\ p.total - left = ranks
  <2>1. ~(ranks > p.total)
    BY <1>1 DEF Refused
  <2> HIDE DEF ranks
  <2> QED
    BY <1>3, <1>5, <2>1
<1>7. /\ rest \in Nat /\ rest <= left
      /\ (rest = 0 /\ left > 0) => \A s \in Candidates(p) : s \notin Exotic /\ free'[s] = Cap(s)
  <2>1. free' \in [Skill -> Nat] /\ \A s \in Skill : free'[s] <= Cap(s)
    BY DEF TypeOK, CapHolds, Cap
  <2> HIDE DEF left
  <2> QED
    BY <1>6, <2>1, StillMovableIs
<1>8. status \in {"invalid", "pending", "unallocatable", "complete"}
  OBVIOUS
<1> HIDE DEF rest, left, ranks, status
<1>9. /\ q.entry = p.entry /\ q.source = p.source /\ q.allocated = ranks
      /\ q.remaining = rest /\ q.unallocatable = left - rest /\ q \in SettledPool
      /\ q.provisional = (errors # {})
  BY <1>3, <1>5, <1>6, <1>7, <1>8 DEF Settled, SettledPool
<1> HIDE DEF q
<1>10. \A s \in Skill : gain[s] \in Nat
  BY <1>1, ReceivedFits
<1>11. Total(free') = Total(free) + ranks
  <2>1. free \in [Skill -> Nat] /\ DOMAIN gain = Skill
    BY DEF TypeOK
  <2>2. free' = [s \in Skill |-> free[s] + gain[s]]
    BY <1>1
  <2>3. Total(gain) = ranks
    BY <1>1, ReceivedAddsUp DEF ranks
  <2> HIDE DEF gain
  <2>4. Total(free') = Total(free) + Total(gain)
    BY ONLY <1>10, <2>1, <2>2, GainsAddUp
  <2> QED
    BY <2>3, <2>4
<1>12. PoolsKnown' /\ LossesKnown' /\ LevelsConserved'
  <2>1. q.remaining + q.unallocatable + ranks = p.total /\ ranks \in Int
    BY <1>3, <1>5, <1>6, <1>7, <1>9
  <2> QED
    BY <1>1, <1>9, <1>11, <2>1, PoolConserves
<1>13. /\ Len(pools') = Len(pools) + 1 /\ pools'[Len(pools')] = q
       /\ \A k \in 1..Len(pools) : pools'[k] = pools[k]
  BY <1>1, <1>9, PoolMoves DEF inputs
<1>14. \A k \in DOMAIN pools' : k \in 1..Len(pools) \/ k = Len(pools')
  BY <1>12, <1>13 DEF PoolsKnown
<1>15. DOMAIN pools = 1..Len(pools)
  BY DEF PoolsKnown
<1>16. RowsOf(q) = RowsOf(p)
  BY <1>9 DEF RowsOf
<1>17. Candidates(q) = Candidates(p)
  BY <1>9 DEF Candidates
<1>18. ASSUME NEW k \in DOMAIN pools', errors' = {}
       PROVE  /\ pools'[k].allocated = Ranks(RowsOf(pools'[k]))
              /\ pools'[k].remaining = 0 /\ ~pools'[k].provisional
  <2>1. errors = {} /\ ~(rest > 0)
    BY <1>1, <1>18
  <2>2. CASE k \in 1..Len(pools)
    <3>1. pools'[k] = pools[k] /\ k \in DOMAIN pools
      BY <1>13, <1>15, <2>2
    <3>2. /\ pools[k].allocated = Ranks(RowsOf(pools[k]))
          /\ pools[k].remaining = 0 /\ ~pools[k].provisional
      BY <2>1, <3>1 DEF Judged
    <3> QED
      BY <3>1, <3>2, Zenon
  <2>3. CASE k = Len(pools')
    <3>1. pools'[k] = q
      BY <1>13, <2>3
    <3>2. q.remaining = 0
      BY <1>7, <1>9, <2>1
    <3>4. ~q.provisional
      BY ONLY <1>9, <2>1, Zenon
    <3>3. q.allocated = Ranks(RowsOf(q))
      BY <1>9, <1>16 DEF ranks
    <3> QED
      BY <3>1, <3>2, <3>3, <3>4, Zenon
  <2> QED
    BY <1>14, <2>2, <2>3
<1>19. ASSUME NEW k \in DOMAIN pools', pools'[k].unallocatable > 0, pools'[k].remaining = 0,
              NEW s \in Candidates(pools'[k])
       PROVE  s \notin Exotic /\ free'[s] = Cap(s)
  <2>1. CASE k \in 1..Len(pools)
    <3>1. k \in DOMAIN pools /\ pools'[k] = pools[k]
      BY <1>13, <1>15, <2>1
    <3>2. s \notin Exotic /\ free[s] = Cap(s)
      BY <1>19, <3>1 DEF Judged
    <3>3. s \in Skill
      BY CandidatesAreSkills
    <3>4. free' = [t \in Skill |-> free[t] + gain[t]]
      BY <1>1
    <3> HIDE DEF gain
    <3>5. free'[s] = Cap(s)
      BY <1>10, <3>2, <3>3, <3>4, FullStaysFull
    <3> QED
      BY <3>2, <3>5
  <2>2. CASE k = Len(pools')
    <3>1. left - rest > 0 /\ rest = 0 /\ s \in Candidates(p)
      BY <1>9, <1>13, <1>17, <1>19, <2>2
    <3>2. left > 0
      BY <1>6, <1>7, <3>1
    <3> QED
      BY <1>7, <3>1, <3>2
  <2> QED
    BY <1>14, <2>1, <2>2
<1>20. Judged'
  BY <1>1, <1>18, <1>19, JudgedNext
<1>21. Ended'
  <2>1. ~finished
    BY <1>1 DEF Ended
  <2> QED
    BY <1>1, <2>1 DEF Ended
<1> QED
  BY <1>12, <1>20, <1>21

LEMMA SkipModuleFlows ==
  ASSUME IInv, IInv', Flow, SkipModule PROVE Flow'
<1> USE DEF IInv, Flow
<1>1. PICK i \in DOMAIN acquired :
        /\ queue = << >> /\ IsNext(i) /\ StageOf[acquired[i].module] \notin Stages
        /\ taken' = taken \cup {i} /\ errors' = errors \cup {"grant"}
        /\ UNCHANGED <<inputs, queue, free, losses, pools, finished>>
  BY DEF SkipModule
<1>2. /\ inputs' = inputs /\ acquired' = acquired /\ queue' = queue /\ free' = free
      /\ losses' = losses /\ pools' = pools /\ finished' = finished
  BY <1>1 DEF inputs
<1>3. i \notin taken /\ i \in Chosen
  BY <1>1 DEF IsNext
<1>4. PoolsKnown' /\ LossesKnown'
  BY <1>1, <1>2 DEF PoolsKnown, LossesKnown, Opened
<1>5. Judged'
  <2>1. errors' # {}
    BY <1>1
  <2>2. \A k \in DOMAIN pools : (pools[k].unallocatable > 0 /\ pools[k].remaining = 0) =>
          \A s \in Candidates(pools[k]) : s \notin Exotic /\ free[s] = Cap(s)
    BY DEF Judged
  <2> QED
    BY <1>2, <2>1, <2>2, JudgedNext
<1>6. Ended'
  <2>1. ~finished
    BY <1>3 DEF Ended
  <2> QED
    BY <1>2, <2>1 DEF Ended
<1>7. LevelsConserved'
  <2>1. Total(Given') = Total(Given) + 0
    <3>1. GivenBy(i) = 0
      BY <1>1 DEF GivenBy
    <3> QED
      BY <1>1, <1>2, <1>3, <3>1, GivenGrows
  <2>2. Total(Given) = Total(free) + Total(LostLevel) + Total(PoolLevel) + Total(QueueLevel)
    BY Conserved
  <2>3. /\ Total(free) \in Int /\ Total(LostLevel) \in Int
        /\ Total(PoolLevel) \in Int /\ Total(QueueLevel) \in Int
    BY LevelsAreNumbers
  <2>4. LostLevel' = LostLevel /\ PoolLevel' = PoolLevel /\ QueueLevel' = QueueLevel
    BY <1>2 DEF LostLevel, PoolLevel, QueueLevel
  <2>5. Total(Given') = Total(free') + Total(LostLevel') + Total(PoolLevel') + Total(QueueLevel')
    <3>1. Total(Given') = Total(Given)
      BY <2>1, <2>2, <2>3
    <3> QED
      BY ONLY <1>2, <2>2, <2>4, <3>1, Zenon
  <2> QED
    BY <2>5 DEF LevelsConserved, Given, GivenBy, LostLevel, PoolLevel, QueueLevel
<1> QED
  BY <1>4, <1>5, <1>6, <1>7

LEMMA FinishFlows ==
  ASSUME IInv, IInv', Flow, Finish PROVE Flow'
<1> USE DEF IInv, Flow
<1>1. /\ queue = << >> /\ taken = Chosen
      /\ errors' = IF Orphans # {} THEN errors \cup {"orphan"} ELSE errors
      /\ inputs' = inputs /\ acquired' = acquired /\ transfers' = transfers /\ taken' = taken
      /\ queue' = queue /\ free' = free /\ losses' = losses /\ pools' = pools
  BY DEF Finish, inputs
<1>2. PoolsKnown' /\ LossesKnown'
  BY <1>1 DEF PoolsKnown, LossesKnown, Opened
<1>3. Judged'
  <2>1. errors' = {} => errors = {}
    BY <1>1
  <2> QED
    BY <1>1, <2>1, JudgedNext DEF Judged
<1>4. Ended'
  <2>1. Chosen' = Chosen
    BY <1>1, InputsStay
  <2>2. errors' = {} => Orphans = {}
    BY <1>1
  <2>3. Orphans' = Orphans
    BY <1>1 DEF Orphans
  <2> QED
    BY <1>1, <2>1, <2>2, <2>3 DEF Ended
<1>5. LevelsConserved'
  BY <1>1 DEF LevelsConserved, Amount
<1> QED
  BY <1>2, <1>3, <1>4, <1>5

LEMMA NothingFlows ==
  ASSUME IInv, IInv', Flow, UNCHANGED vars PROVE Flow'
<1> USE DEF IInv, Flow
<1>1. /\ inputs' = inputs /\ acquired' = acquired /\ transfers' = transfers /\ taken' = taken
      /\ queue' = queue /\ free' = free /\ losses' = losses /\ pools' = pools
      /\ errors' = errors /\ finished' = finished
  BY DEF vars, inputs
<1>2. PoolsKnown' /\ LossesKnown'
  BY <1>1 DEF PoolsKnown, LossesKnown, Opened
<1>3. Judged'
  BY <1>1, JudgedNext DEF Judged
<1>4. Ended'
  <2>1. Chosen' = Chosen
    BY <1>1, InputsStay
  <2>2. Orphans' = Orphans
    BY <1>1 DEF Orphans
  <2> QED
    BY <1>1, <2>1, <2>2 DEF Ended
<1>5. LevelsConserved'
  BY <1>1 DEF LevelsConserved, Amount
<1> QED
  BY <1>2, <1>3, <1>4, <1>5

LEMMA StepFlow == IInv /\ IInv' /\ Flow /\ [Next]_vars => Flow'
<1> SUFFICES ASSUME IInv, IInv', Flow, [Next]_vars PROVE Flow'
  OBVIOUS
<1>1. CASE TakeModule
  BY <1>1, TakeModuleFlows
<1>2. CASE SkipModule
  BY <1>2, SkipModuleFlows
<1>3. CASE RefusePool
  BY <1>3, RefusePoolFlows
<1>4. CASE ApplyPool
  BY <1>4, ApplyPoolFlows
<1>5. CASE Finish
  BY <1>5, FinishFlows
<1>6. CASE UNCHANGED vars
  BY <1>6, NothingFlows
<1> QED
  BY <1>1, <1>2, <1>3, <1>4, <1>5, <1>6 DEF Next

LEMMA InitFlow == Init => Flow
<1> SUFFICES ASSUME Init PROVE Flow
  OBVIOUS
<1>1. /\ queue = << >> /\ pools = << >> /\ losses = {} /\ taken = {} /\ ~finished
      /\ free = [s \in Skill |-> 0]
  BY DEF Init
<1>2. DOMAIN queue = {} /\ DOMAIN pools = {}
  BY <1>1
<1>3. PoolsKnown
  BY <1>1, <1>2 DEF PoolsKnown
<1>4. LossesKnown
  BY <1>1, FS_EmptySet DEF LossesKnown
<1>5. Judged /\ Ended
  BY <1>1, <1>2 DEF Judged, Ended
<1>6. LevelsConserved
  <2>1. DOMAIN Given = {} /\ DOMAIN LostLevel = {} /\ DOMAIN PoolLevel = {} /\ DOMAIN QueueLevel = {}
    BY <1>1, <1>2 DEF Given, LostLevel, PoolLevel, QueueLevel
  <2>2. Total(Given) = 0 /\ Total(LostLevel) = 0 /\ Total(PoolLevel) = 0 /\ Total(QueueLevel) = 0
    BY <2>1, TotalOfNothing
  <2>3. Total(free) = 0
    <3>1. DOMAIN free = Skill /\ \A s \in DOMAIN free : free[s] = 0
      BY <1>1
    <3> QED
      BY <3>1, SkillsAreFinite, TotalOfZeros
  <2> QED
    BY <2>2, <2>3, Conserved
<1> QED
  BY <1>3, <1>4, <1>5, <1>6 DEF Flow

LEMMA AlwaysFlow == Spec => [](IInv /\ Flow)
<1>1. Init => IInv /\ Flow
  BY InitOK, InitFlow
<1>2. IInv /\ Flow /\ [Next]_vars => (IInv /\ Flow)'
  BY StepOK, StepFlow
<1> QED
  BY <1>1, <1>2, PTL DEF Spec

(* Every level a module gives is, at every moment, on a skill, lost or in a *)
(* pool, and never in two places: what _apply_direct and _apply_knowledge   *)
(* leave over is what they report, and a pool's _allocate gives the targets *)
(* exactly what it takes from the pool, or nothing.                         *)
THEOREM GrantsLevelsConserved == Spec => []LevelsConserved
<1>1. Flow => LevelsConserved
  BY DEF Flow
<1> QED
  BY <1>1, AlwaysFlow, PTL

(* The saved transfers belong each to one pool, so that what the pools have
   allocated is what the transfers ask for, when none is left over.         *)
LEMMA EveryTransferApplied ==
  ASSUME IInv, Flow, Orphans = {}, errors = {}
  PROVE  Total([k \in DOMAIN pools |-> pools[k].allocated]) = Ranks(transfers)
<1> USE DEF IInv, Flow
<1> DEFINE K == DOMAIN pools
           R == [k \in K |-> RowsOf(pools[k])]
           f == [r \in transfers |-> r.ranks]
           g == [k \in K |-> pools[k].allocated]
<1>1. IsFiniteSet(K)
  <2>1. K = 1..Len(pools) /\ Len(pools) \in Nat
    BY DEF PoolsKnown
  <2> QED
    BY <2>1, FS_Interval
<1>2. \A r \in transfers : f[r] \in Int
  <2>1. \A r \in transfers : r.ranks \in Nat
    BY RowsAreFinite
  <2> QED
    BY <2>1
<1>3. ASSUME NEW k \in K
      PROVE  /\ R[k] \subseteq transfers /\ IsFiniteSet(R[k]) /\ g[k] = SumOn(f, R[k])
  <2> DEFINE S == RowsOf(pools[k])
             h == [r \in S |-> r.ranks]
  <2>1. R[k] = S /\ S \subseteq transfers
    BY DEF RowsOf
  <2>2. IsFiniteSet(S) /\ Ranks(S) = SumOn(h, S)
    BY <2>1, RowsAreFinite
  <2>3. g[k] = Ranks(S)
    BY DEF Judged
  <2>4. \A r \in S : f[r] \in Int /\ h[r] = f[r]
    BY <1>2, <2>1
  <2> HIDE DEF S, h, f, g, R
  <2>5. SumOn(f, S) = SumOn(h, S)
    BY ONLY <2>2, <2>4, SumsAgree
  <2> QED
    BY <2>1, <2>2, <2>3, <2>5
<1>4. \A k, l \in K : k # l => R[k] \cap R[l] = {}
  <2> SUFFICES ASSUME NEW k \in K, NEW l \in K, k # l PROVE R[k] \cap R[l] = {}
    OBVIOUS
  <2>1. pools[k].entry # pools[l].entry \/ pools[k].source # pools[l].source
    BY DEF PoolsKnown, Apart
  <2> QED
    BY <2>1 DEF RowsOf
<1>5. UnionOf(R, K) = transfers
  <2>1. UnionOf(R, K) \subseteq transfers
    BY <1>3 DEF UnionOf
  <2>2. ASSUME NEW r \in transfers PROVE r \in UnionOf(R, K)
    <3>1. PICK k \in K : pools[k].entry = r.entry /\ pools[k].source = r.source
      BY DEF Orphans
    <3>2. r \in R[k]
      BY <3>1 DEF RowsOf
    <3> QED
      BY <3>2 DEF UnionOf
  <2> QED
    BY <2>1, <2>2
<1>6. Ranks(transfers) = SumOn(f, transfers)
  BY RowsAreFinite
<1>7. DOMAIN g = K
  OBVIOUS
<1> HIDE DEF K, R, f, g
<1>8. SumOn(f, UnionOf(R, K)) = SumOn(g, K)
  <2>1. \A k \in K : \A r \in R[k] : f[r] \in Int
    BY <1>2, <1>3
  <2> QED
    BY ONLY <1>1, <1>3, <1>4, <2>1, SumOfFibres
<1>9. Total(g) = SumOn(g, K)
  BY <1>7, TotalIsSum
<1> QED
  BY <1>5, <1>6, <1>8, <1>9 DEF g, K

(* A career begins, and for good, only when every saved transfer has been   *)
(* applied by its pool and in full, and levels are given up as              *)
(* unallocatable only where every target is full: _unused_transfer_issues   *)
(* leaves no transfer over, and the capacity that _apply_transfers judged a *)
(* pool by is not there again when the later modules have been taken.       *)
THEOREM GrantsCompleteIsFinal == Spec => []CompleteIsFinal
<1>1. IInv /\ Flow => CompleteIsFinal
  <2> SUFFICES ASSUME IInv, Flow, Complete PROVE CompleteMeansApplied /\ NothingGivenUpWithRoom
    BY DEF CompleteIsFinal, CompleteMeansApplied, NothingGivenUpWithRoom
  <2>1. finished /\ errors = {} /\ Orphans = {}
    BY DEF Complete, Flow, Ended
  <2>2. \A k \in DOMAIN pools : pools[k].remaining = 0 /\ ~pools[k].provisional
    BY <2>1 DEF Flow, Judged
  <2>3. Total([k \in DOMAIN pools |-> pools[k].allocated]) = Ranks(transfers)
    BY <2>1, EveryTransferApplied
  <2>4. \A k \in DOMAIN pools : pools[k].unallocatable > 0 =>
          \A s \in Candidates(pools[k]) : s \notin Exotic /\ free[s] = Cap(s)
    BY <2>2 DEF Flow, Judged
  <2> QED
    BY <2>2, <2>3, <2>4 DEF CompleteMeansApplied, NothingGivenUpWithRoom
<1> QED
  BY <1>1, AlwaysFlow, PTL

-----------------------------------------------------------------------------
(* The skills bought and raised: LifeCareer. *)

(* The replay and the pricing of raises are folds: one recursion for both,  *)
(* so that it has to be shown once that it has a solution.                  *)
Stepped(kind, so, x) == IF kind = "replay" THEN Replayed(so, x) ELSE Priced(so, x)

Walking(kind, base, g, list, T) ==
  IF T = {} THEN base ELSE Stepped(kind, g[T \ {Max(T)}], list[Max(T)])

Walker(g, kind, base, list, D) == g = [T \in D |-> Walking(kind, base, g, list, T)]

LEMMA WalkerExists ==
  ASSUME NEW kind, NEW base, NEW list, NEW n \in Nat
  PROVE  \E g : Walker(g, kind, base, list, SUBSET (1 .. n))
<1> DEFINE D(m) == SUBSET (1 .. m)
           N == {m \in Nat : \E g : Walker(g, kind, base, list, D(m))}
           W(g, T) == Walking(kind, base, g, list, T)
<1>1. 0 \in N
  <2> DEFINE g == [T \in D(0) |-> base]
  <2>1. \A T \in D(0) : T = {}
    OBVIOUS
  <2>2. \A T \in D(0) : W(g, T) = base
    BY <2>1 DEF Walking
  <2>3. Walker(g, kind, base, list, D(0))
    BY <2>2 DEF Walker
  <2> QED
    BY <2>3
<1>2. ASSUME NEW m \in Nat, m \in N PROVE m + 1 \in N
  <2>1. PICK g : Walker(g, kind, base, list, D(m))
    BY <1>2
  <2> DEFINE h == [T \in D(m + 1) |-> W(g, T)]
  <2>2. \A T \in D(m) : g[T] = W(g, T)
    BY <2>1 DEF Walker
  <2>3. D(m) \subseteq D(m + 1)
    OBVIOUS
  <2>4. \A T \in D(m) : h[T] = g[T]
    <3>1. \A T \in D(m + 1) : h[T] = W(g, T)
      OBVIOUS
    <3> HIDE DEF h, D, W
    <3> QED
      BY <2>2, <2>3, <3>1
  <2>5. \A T \in D(m + 1) : T # {} => T \ {Max(T)} \in D(m)
    <3> SUFFICES ASSUME NEW T \in D(m + 1), T # {} PROVE T \ {Max(T)} \subseteq 1 .. m
      OBVIOUS
    <3> DEFINE x == Max(T)
    <3>1. m + 1 \in Nat /\ T \in SUBSET (1 .. m + 1)
      OBVIOUS
    <3>2. x \in T /\ \A y \in T : y <= x
      BY <3>1, MaxIsMember
    <3> HIDE DEF x
    <3>3. x \in 1 .. m + 1 /\ \A y \in T : y \in 1 .. m + 1
      BY <3>1, <3>2
    <3>4. \A y \in T \ {x} : y \in 1 .. m
      BY <3>2, <3>3
    <3> QED
      BY <3>4 DEF x
  <2>6. \A T \in D(m + 1) : W(h, T) = W(g, T)
    <3> HIDE DEF h, D
    <3> QED
      BY <2>4, <2>5 DEF Walking
  <2>7. Walker(h, kind, base, list, D(m + 1))
    BY <2>6 DEF Walker
  <2> HIDE DEF h, D
  <2>8. \E k : Walker(k, kind, base, list, D(m + 1))
    BY <2>7
  <2>9. m + 1 \in Nat
    OBVIOUS
  <2> QED
    BY <2>8, <2>9
<1> HIDE DEF N
<1>3. n \in N
  BY <1>1, <1>2, NatSetInduction
<1> QED
  BY <1>3 DEF N

-----------------------------------------------------------------------------
(* The replay, one row at a time.                                           *)
Start == [at |-> snapshot.creation, seen |-> {}, ok |-> TRUE, karma |-> 0]

Replayer(g, list, D) ==
  g = [T \in D |-> IF T = {} THEN Start ELSE Replayed(g[T \ {Max(T)}], list[Max(T)])]

\* How far the replay is after the first n rows.
ReplayedTo(list, n) == (CHOOSE g : Replayer(g, list, SUBSET (DOMAIN list)))[1 .. n]

LEMMA ReplayIsFold ==
  ASSUME NEW list
  PROVE  Replay(list) = (CHOOSE g : Replayer(g, list, SUBSET (DOMAIN list)))[DOMAIN list]
BY DEF Replay, FoldLeft, MapThenFoldSet, Replayer, Start

LEMMA ReplayStepwise ==
  ASSUME NEW X, NEW list \in Seq(X)
  PROVE  /\ Replay(list) = ReplayedTo(list, Len(list))
         /\ ReplayedTo(list, 0) = Start
         /\ \A n \in 1 .. Len(list) :
              ReplayedTo(list, n) = Replayed(ReplayedTo(list, n - 1), list[n])
<1> DEFINE D == SUBSET (DOMAIN list)
           g == CHOOSE g : Replayer(g, list, D)
           R(T) == IF T = {} THEN Start ELSE Replayed(g[T \ {Max(T)}], list[Max(T)])
<1>1. DOMAIN list = 1 .. Len(list) /\ Len(list) \in Nat
  OBVIOUS
<1>2. Replayer(g, list, D)
  <2>1. PICK h : Walker(h, "replay", Start, list, D)
    BY <1>1, WalkerExists
  <2>2. Replayer(h, list, D)
    BY <2>1 DEF Walker, Walking, Stepped, Replayer
  <2> HIDE DEF D
  <2> QED
    BY <2>2
<1>3. \A n : ReplayedTo(list, n) = g[1 .. n]
  BY DEF ReplayedTo
<1>4. Replay(list) = g[1 .. Len(list)]
  BY <1>1, ReplayIsFold
<1> HIDE DEF g
<1>5. \A T \in D : g[T] = R(T)
  BY <1>2 DEF Replayer
<1>6. ReplayedTo(list, 0) = Start
  <2>1. 1 .. 0 = {} /\ 1 .. 0 \in D
    OBVIOUS
  <2> QED
    BY <1>3, <1>5, <2>1
<1>7. ASSUME NEW n \in 1 .. Len(list)
      PROVE  ReplayedTo(list, n) = Replayed(ReplayedTo(list, n - 1), list[n])
  <2> DEFINE T == 1 .. n
  <2>1. T \in D /\ T # {}
    BY <1>1
  <2>2. Max(T) = n
    BY MaxOfSegment
  <2>3. T \ {n} = 1 .. n - 1
    OBVIOUS
  <2> HIDE DEF T
  <2>4. g[T] = Replayed(g[1 .. n - 1], list[n])
    BY <1>5, <2>1, <2>2, <2>3
  <2> QED
    BY <1>3, <2>4 DEF T
<1> QED
  BY <1>3, <1>4, <1>6, <1>7

(* The pricing of a list of raises, one at a time.                          *)
FirstOffer == [at |-> Replay(rows).at, next |-> raises + 1, new |-> <<>>]

Pricer(g, list, D) ==
  g = [T \in D |-> IF T = {} THEN FirstOffer ELSE Priced(g[T \ {Max(T)}], list[Max(T)])]

PricedTo(list, n) == (CHOOSE g : Pricer(g, list, SUBSET (DOMAIN list)))[1 .. n]

LEMMA PricingIsFold ==
  ASSUME NEW list
  PROVE  FoldLeft(Priced, FirstOffer, list)
           = (CHOOSE g : Pricer(g, list, SUBSET (DOMAIN list)))[DOMAIN list]
BY DEF FoldLeft, MapThenFoldSet, Pricer

LEMMA PricingStepwise ==
  ASSUME NEW X, NEW list \in Seq(X)
  PROVE  /\ FoldLeft(Priced, FirstOffer, list) = PricedTo(list, Len(list))
         /\ PricedTo(list, 0) = FirstOffer
         /\ \A n \in 1 .. Len(list) :
              PricedTo(list, n) = Priced(PricedTo(list, n - 1), list[n])
<1> DEFINE D == SUBSET (DOMAIN list)
           g == CHOOSE g : Pricer(g, list, D)
           P(T) == IF T = {} THEN FirstOffer ELSE Priced(g[T \ {Max(T)}], list[Max(T)])
<1>1. DOMAIN list = 1 .. Len(list) /\ Len(list) \in Nat
  OBVIOUS
<1>2. Pricer(g, list, D)
  <2>1. PICK h : Walker(h, "price", FirstOffer, list, D)
    BY <1>1, WalkerExists
  <2>2. Pricer(h, list, D)
    BY <2>1 DEF Walker, Walking, Stepped, Pricer
  <2> HIDE DEF D
  <2> QED
    BY <2>2
<1>3. \A n : PricedTo(list, n) = g[1 .. n]
  BY DEF PricedTo
<1>4. FoldLeft(Priced, FirstOffer, list) = g[1 .. Len(list)]
  BY <1>1, PricingIsFold
<1> HIDE DEF g
<1>5. \A T \in D : g[T] = P(T)
  BY <1>2 DEF Pricer
<1>6. PricedTo(list, 0) = FirstOffer
  <2>1. 1 .. 0 = {} /\ 1 .. 0 \in D
    OBVIOUS
  <2> QED
    BY <1>3, <1>5, <2>1
<1>7. ASSUME NEW n \in 1 .. Len(list)
      PROVE  PricedTo(list, n) = Priced(PricedTo(list, n - 1), list[n])
  <2> DEFINE T == 1 .. n
  <2>1. T \in D /\ T # {}
    BY <1>1
  <2>2. Max(T) = n
    BY MaxOfSegment
  <2>3. T \ {n} = 1 .. n - 1
    OBVIOUS
  <2> HIDE DEF T
  <2>4. g[T] = Priced(g[1 .. n - 1], list[n])
    BY <1>5, <2>1, <2>2, <2>3
  <2> QED
    BY <1>3, <2>4 DEF T
<1> QED
  BY <1>3, <1>4, <1>6, <1>7

-----------------------------------------------------------------------------
(* What a row of raises is, when the ids up to n have been given.           *)
Froms == UNION {[S -> Nat] : S \in SUBSET Skills}
Row(n) == [id : 1 .. n, target : Skills \cup Group, levels : 1 .. MaxLevels,
           from : Froms, rate : Rates]
So == [at : [Skills -> Nat], seen : SUBSET Nat, ok : BOOLEAN, karma : Nat]

LEMMA RowFields ==
  ASSUME NEW n \in Nat, NEW row \in Row(n)
  PROVE  /\ row.id \in 1 .. n /\ row.target \in Skills \cup Group
         /\ row.levels \in 1 .. MaxLevels /\ row.levels \in Nat
         /\ row.rate \in Rates /\ row.rate \in Nat
         /\ DOMAIN row.from \subseteq Skills /\ IsFiniteSet(DOMAIN row.from)
         /\ row.from \in [DOMAIN row.from -> Nat]
         /\ IsRow(row) <=> row.id \in 1 .. raises
<1>1. /\ row.id \in 1 .. n /\ row.target \in Skills \cup Group
      /\ row.levels \in 1 .. MaxLevels /\ row.rate \in Rates /\ row.from \in Froms
  BY DEF Row
<1>2. row.levels \in Nat /\ row.rate \in Nat
  <2>1. MaxLevels \in Nat /\ Rates \subseteq Nat
    BY CareerAssumption
  <2>2. row.levels \in 1 .. MaxLevels /\ row.rate \in Rates
    BY ONLY <1>1
  <2>3. row.levels \in Nat
    BY ONLY <2>1, <2>2
  <2>4. row.rate \in Nat
    BY ONLY <2>1, <2>2
  <2> QED
    BY ONLY <2>3, <2>4
<1>3. DOMAIN row.from \subseteq Skills /\ row.from \in [DOMAIN row.from -> Nat]
  BY <1>1 DEF Froms
<1>4. IsFiniteSet(DOMAIN row.from)
  BY <1>3, CareerAssumption, FS_Subset
<1>5. IsRow(row) <=> row.id \in 1 .. raises
  BY <1>1, <1>3 DEF IsRow
<1> QED
  BY ONLY <1>1, <1>2, <1>3, <1>4, <1>5

LEMMA MoreRows ==
  ASSUME NEW m \in Nat, NEW n \in Nat, m <= n
  PROVE  Row(m) \subseteq Row(n)
BY DEF Row

(* A price is a number.                                                     *)
LEMMA CostIsNat ==
  ASSUME NEW low \in Nat, NEW levels \in Nat, NEW rate \in Nat
  PROVE  Cost(low, levels, rate) \in Nat
<1> DEFINE S == (low + 1) .. (low + levels)
           f == [n \in S |-> n]
<1>1. IsFiniteSet(S) /\ DOMAIN f = S /\ \A x \in S : f[x] \in Nat
  BY FS_Interval
<1>2. Cost(low, levels, rate) = rate * Total(f)
  BY DEF Cost
<1> HIDE DEF f, S
<1>3. SumOn(f, S) \in Nat
  BY <1>1, SumIsNat
<1>4. Total(f) \in Nat
  BY <1>1, <1>3, TotalIsSum
<1> QED
  BY <1>2, <1>4

\* What a row of raises gives, and what it costs.
Lift(row) == Total([s \in DOMAIN row.from |-> row.levels])
Price(row) == Cost(Low(row.from), row.levels, row.rate)

LEMMA RowIsPriced ==
  ASSUME NEW n \in Nat, NEW row \in Row(n)
  PROVE  Lift(row) \in Int /\ Price(row) \in Nat
<1>1. /\ row.levels \in Nat /\ row.rate \in Nat
      /\ IsFiniteSet(DOMAIN row.from) /\ row.from \in [DOMAIN row.from -> Nat]
  BY RowFields
<1>2. Lift(row) \in Int
  <2> DEFINE f == [s \in DOMAIN row.from |-> row.levels]
  <2>1. DOMAIN f = DOMAIN row.from /\ \A s \in DOMAIN f : f[s] \in Int
    BY <1>1
  <2> HIDE DEF f
  <2>2. Total(f) \in Int
    BY <1>1, <2>1, TotalIsInt
  <2> QED
    BY <2>2 DEF f, Lift
<1>3. Low(row.from) \in Nat
  BY <1>1 DEF Low
<1>4. Price(row) \in Nat
  BY <1>1, <1>3, CostIsNat DEF Price
<1> QED
  BY <1>2, <1>4

\* The levels that stand above c.
Above(at, c) == Total([s \in Skills |-> at[s] - c[s]])

(* A raise adds its levels, and takes no rating down.                       *)
LEMMA LiftAdds ==
  ASSUME NEW n \in Nat, NEW row \in Row(n), NEW at \in [Skills -> Nat], NEW c \in [Skills -> Nat]
  PROVE  LET up == Lifted(at, row.from, row.levels) IN
         /\ up \in [Skills -> Nat]
         /\ \A s \in Skills : at[s] <= up[s]
         /\ Above(up, c) = Above(at, c) + Lift(row)
         /\ Above(at, c) \in Int
<1> DEFINE up == Lifted(at, row.from, row.levels)
           T == DOMAIN row.from
           f == [s \in Skills |-> at[s] - c[s]]
           g == [s \in Skills |-> IF s \in T THEN row.levels ELSE 0]
           h == [s \in Skills |-> up[s] - c[s]]
           e == [s \in T |-> row.levels]
<1>1. row.levels \in Nat /\ T \subseteq Skills /\ IsFiniteSet(T) /\ IsFiniteSet(Skills)
  BY RowFields, CareerAssumption
<1>2. up = [s \in Skills |-> IF s \in T THEN at[s] + row.levels ELSE at[s]]
  BY DEF Lifted
<1>3. up \in [Skills -> Nat] /\ \A s \in Skills : at[s] <= up[s]
  BY <1>1, <1>2
<1>4. \A s \in Skills : f[s] \in Int /\ g[s] \in Int /\ h[s] = f[s] + g[s]
  BY <1>1, <1>2
<1>5. /\ \A s \in T : g[s] = row.levels /\ e[s] \in Int /\ g[s] = e[s]
      /\ \A s \in Skills \ T : g[s] = 0
  BY <1>1
<1>6. DOMAIN f = Skills /\ DOMAIN h = Skills /\ DOMAIN e = T
  OBVIOUS
<1>7. Above(at, c) = Total(f) /\ Above(up, c) = Total(h) /\ Lift(row) = Total(e)
  BY DEF Above, Lift
<1> HIDE DEF up, f, g, h, e, T
<1>8. SumOn(h, Skills) = SumOn(f, Skills) + SumOn(g, Skills)
  BY <1>1, <1>4, SumOfSums
<1>9. SumOn(g, Skills) = SumOn(g, T)
  BY <1>1, <1>4, <1>5, SumOfSupport
<1>10. Total(e) = SumOn(g, T)
  BY <1>1, <1>5, <1>6, TotalIsSumOn
<1>11. Total(f) = SumOn(f, Skills) /\ Total(h) = SumOn(h, Skills)
  BY <1>6, TotalIsSum
<1>12. SumOn(f, Skills) \in Int
  BY <1>1, <1>4, SumIsInt
<1>13. Above(up, c) = Above(at, c) + Lift(row) /\ Above(at, c) \in Int
  BY <1>7, <1>8, <1>9, <1>10, <1>11, <1>12
<1> QED
  BY <1>3, <1>13 DEF up

LEMMA NothingAbove ==
  ASSUME NEW c \in [Skills -> Nat] PROVE Above(c, c) = 0
<1> DEFINE f == [s \in Skills |-> c[s] - c[s]]
<1>1. IsFiniteSet(Skills) /\ DOMAIN f = Skills /\ \A s \in DOMAIN f : f[s] = 0
  BY CareerAssumption
<1>2. Above(c, c) = Total(f)
  BY DEF Above
<1> HIDE DEF f
<1> QED
  BY <1>1, <1>2, TotalOfZeros

-----------------------------------------------------------------------------
(* Karma and levels along the replay.                                       *)
Rising(list) == \A i, j \in DOMAIN list : i < j => list[i].id < list[j].id

Lifts(list)  == [i \in DOMAIN list |-> Lift(list[i])]
Prices(list) == [i \in DOMAIN list |-> Price(list[i])]
Paid(list, n, so) == {i \in 1 .. n : list[i].id \in so.seen}

\* What the replay has counted after the first n rows.
Accounts(so, list, n) ==
  /\ so \in So
  /\ \A s \in Skills : snapshot.creation[s] <= so.at[s]
  /\ \A id \in so.seen : \E i \in 1 .. n : list[i].id = id
  /\ so.ok = TRUE => Paid(list, n, so) = 1 .. n
  /\ Above(so.at, snapshot.creation) = SumOn(Lifts(list), Paid(list, n, so))
  /\ so.karma = SumOn(Prices(list), Paid(list, n, so))

\* One more argument adds its value.
LEMMA SumOfOneMore ==
  ASSUME NEW f, NEW S, IsFiniteSet(S), NEW x, x \notin S, \A y \in S \cup {x} : f[y] \in Int
  PROVE  SumOn(f, S \cup {x}) = SumOn(f, S) + f[x]
<1> DEFINE T == S \cup {x}
<1>1. IsFiniteSet(T) /\ x \in T /\ T \ {x} = S
  BY FS_AddElement
<1>2. \A y \in T : f[y] \in Int
  OBVIOUS
<1> HIDE DEF T
<1>3. SumOn(f, T) = f[x] + SumOn(f, T \ {x})
  BY ONLY <1>1, <1>2, SumTakesOut
<1>4. SumOn(f, S) \in Int /\ f[x] \in Int
  BY <1>1, <1>2, SumIsInt
<1>5. SumOn(f, T) = f[x] + SumOn(f, S)
  BY ONLY <1>1, <1>3, Zenon
<1>6. SumOn(f, T) = SumOn(f, S) + f[x]
  BY ONLY <1>4, <1>5
<1> QED
  BY <1>6 DEF T

LEMMA AccountsGoOn ==
  ASSUME snapshot.creation \in [Skills -> Nat],
         NEW m \in Nat, NEW list \in Seq(Row(m)), Rising(list),
         NEW n \in Nat, n + 1 \in DOMAIN list, NEW so, Accounts(so, list, n)
  PROVE  Accounts(Replayed(so, list[n + 1]), list, n + 1)
<1> DEFINE k == n + 1
           row == list[k]
           c == snapshot.creation
           P == Paid(list, n, so)
           new == Replayed(so, row)
           Q == Paid(list, k, new)
           lifts == Lifts(list)
           prices == Prices(list)
<1>1. /\ k \in DOMAIN list /\ k \in Nat /\ 1 .. k = (1 .. n) \cup {k} /\ k \notin 1 .. n
      /\ 1 .. n \subseteq DOMAIN list /\ 1 .. k \subseteq DOMAIN list
      /\ \A i \in 1 .. n : i < k
  OBVIOUS
<1>2. row \in Row(m) /\ \A i \in DOMAIN list : list[i] \in Row(m)
  OBVIOUS
<1>3. \A i \in 1 .. n : list[i].id \in Nat /\ row.id \in Nat /\ list[i].id < row.id
  <2>1. \A i \in 1 .. n : list[i].id < row.id
    BY <1>1 DEF Rising
  <2>2. \A i \in DOMAIN list : list[i].id \in 1 .. m
    BY <1>2, RowFields
  <2> QED
    BY <1>1, <2>1, <2>2
<1>4. \A i \in 1 .. n : list[i].id # row.id
  BY <1>3
<1>5. row.id \notin so.seen
  BY <1>4 DEF Accounts
<1>6. so \in So /\ so.at \in [Skills -> Nat] /\ so.seen \in SUBSET Nat /\ so.karma \in Nat
  BY DEF Accounts, So
<1>7. P \subseteq 1 .. n /\ IsFiniteSet(P)
  <2>1. P \subseteq 1 .. n /\ IsFiniteSet(1 .. n)
    BY FS_Interval DEF Paid
  <2> QED
    BY <2>1, FS_Subset
<1>8. \A i \in DOMAIN list : lifts[i] = Lift(list[i]) /\ lifts[i] \in Int
                             /\ prices[i] = Price(list[i]) /\ prices[i] \in Nat
  BY <1>2, RowIsPriced DEF Lifts, Prices
<1>9. /\ Above(so.at, c) = SumOn(lifts, P)
      /\ so.karma = SumOn(prices, P)
      /\ \A s \in Skills : c[s] <= so.at[s]
  BY DEF Accounts
<1>n. row.id \in Nat
  BY <1>2, RowFields
<1>10. CASE Fits(so, row)
  <2> DEFINE up == Lifted(so.at, row.from, row.levels)
  <2>1. new = [at |-> up, seen |-> so.seen \cup {row.id}, ok |-> TRUE,
               karma |-> so.karma + Price(row)]
    BY <1>10 DEF Replayed, Price
  <2>2. up \in [Skills -> Nat] /\ Above(up, c) = Above(so.at, c) + Lift(row)
        /\ \A s \in Skills : so.at[s] <= up[s]
    BY <1>2, <1>6, LiftAdds
  <2>3. Q = P \cup {k}
    <3>1. new.seen = so.seen \cup {row.id}
      BY <2>1
    <3> HIDE DEF new, row
    <3>2. \A i \in 1 .. n : list[i].id \in new.seen <=> list[i].id \in so.seen
      BY <1>4, <3>1
    <3>3. list[k].id \in new.seen
      BY <3>1 DEF row
    <3> HIDE DEF k
    <3> QED
      BY <1>1, <3>2, <3>3 DEF Paid
  <2> HIDE DEF up
  <2>4. SumOn(lifts, Q) = SumOn(lifts, P) + lifts[k] /\ SumOn(prices, Q) = SumOn(prices, P) + prices[k]
    <3>1. \A y \in P \cup {k} : lifts[y] \in Int /\ prices[y] \in Int
      BY <1>1, <1>7, <1>8
    <3>2. k \notin P
      BY <1>1, <1>7
    <3> HIDE DEF lifts, prices, P, Q, k, row, new
    <3>3. SumOn(lifts, P \cup {k}) = SumOn(lifts, P) + lifts[k]
      BY ONLY <1>7, <3>1, <3>2, SumOfOneMore
    <3>4. SumOn(prices, P \cup {k}) = SumOn(prices, P) + prices[k]
      BY ONLY <1>7, <3>1, <3>2, SumOfOneMore
    <3> QED
      BY ONLY <2>3, <3>3, <3>4, Zenon
  <2>5. lifts[k] = Lift(row) /\ prices[k] = Price(row) /\ Price(row) \in Nat
    BY <1>1, <1>8
  <2> HIDE DEF row, lifts, prices, k, P
  <2>6. new \in So
    <3>1. so.seen \cup {row.id} \in SUBSET Nat /\ so.karma + Price(row) \in Nat
      BY <1>6, <1>n, <2>5
    <3> QED
      BY <2>1, <2>2, <3>1 DEF So
  <2>7. \A s \in Skills : c[s] <= up[s]
    <3> SUFFICES ASSUME NEW s \in Skills PROVE c[s] <= up[s]
      OBVIOUS
    <3>1. c[s] \in Nat /\ so.at[s] \in Nat /\ up[s] \in Nat
      BY <1>6, <2>2
    <3>2. c[s] <= so.at[s] /\ so.at[s] <= up[s]
      BY <1>9, <2>2
    <3> QED
      BY ONLY <3>1, <3>2
  <2>8. \A id \in so.seen \cup {row.id} : \E i \in 1 .. k : list[i].id = id
    BY <1>1 DEF Accounts, row
  <2>9. Q = 1 .. k \/ so.ok # TRUE
    BY <1>1, <2>3 DEF Accounts, P
  <2>10. new.ok = TRUE => Q = 1 .. k
    <3>1. so.ok = TRUE
      BY <1>10 DEF Fits, Accounts, So
    <3> QED
      BY <2>9, <3>1
  <2>11. Above(up, c) = SumOn(lifts, Q)
    BY <1>9, <2>2, <2>4, <2>5
  <2>12. so.karma + Price(row) = SumOn(prices, Q)
    BY <1>9, <2>4, <2>5
  <2>13. /\ new.at = up
         /\ new.seen = so.seen \cup {row.id}
         /\ new.karma = so.karma + Price(row)
    BY <2>1
  <2> HIDE DEF new
  <2>14. /\ \A id \in new.seen : \E i \in 1 .. k : list[i].id = id
         /\ \A s \in Skills : c[s] <= new.at[s]
         /\ Above(new.at, c) = SumOn(lifts, Q)
         /\ new.karma = SumOn(prices, Q)
    <3>1. \A id \in new.seen : \E i \in 1 .. k : list[i].id = id
      BY ONLY <2>8, <2>13
    <3>2. \A s \in Skills : c[s] <= new.at[s]
      BY ONLY <2>7, <2>13
    <3>3. Above(new.at, c) = SumOn(lifts, Q)
      BY ONLY <2>11, <2>13
    <3>4. new.karma = SumOn(prices, Q)
      BY ONLY <2>12, <2>13
    <3> QED
      BY ONLY <3>1, <3>2, <3>3, <3>4
  <2>15. Accounts(new, list, k)
    BY <2>6, <2>10, <2>14 DEF Accounts, lifts, prices
  <2> QED
    BY <2>15 DEF new, row, k
<1>11. CASE ~Fits(so, row)
  <2>1. new = [so EXCEPT !.ok = FALSE]
    BY <1>11 DEF Replayed
  <2>2. /\ new \in So /\ new.at = so.at /\ new.seen = so.seen /\ new.karma = so.karma
        /\ new.ok = FALSE
    BY <1>6, <2>1 DEF So
  <2>3. Q = P
    <3> HIDE DEF new, k, row
    <3>1. list[k].id \notin new.seen
      BY <1>5, <2>2 DEF row
    <3> QED
      BY <1>1, <2>2, <3>1 DEF Paid
  <2> HIDE DEF new, lifts, prices, k, row, P
  <2>4. \A id \in new.seen : \E i \in 1 .. k : list[i].id = id
    BY <1>1, <2>2 DEF Accounts
  <2>5. Above(new.at, c) = SumOn(lifts, Q) /\ new.karma = SumOn(prices, Q)
    BY <1>9, <2>2, <2>3
  <2>6. \A s \in Skills : c[s] <= new.at[s]
    BY <1>9, <2>2
  <2>7. ~(new.ok = TRUE)
    BY <2>2
  <2>8. Accounts(new, list, k)
    BY <2>2, <2>4, <2>5, <2>6, <2>7 DEF Accounts, lifts, prices
  <2> QED
    BY <2>8 DEF new, row, k
<1> QED
  BY <1>10, <1>11

LEMMA ReplayAccounts ==
  ASSUME snapshot.creation \in [Skills -> Nat],
         NEW m \in Nat, NEW list \in Seq(Row(m)), Rising(list)
  PROVE  Accounts(Replay(list), list, Len(list))
<1> DEFINE R(n) == ReplayedTo(list, n)
           N == {n \in Nat : n <= Len(list) => Accounts(R(n), list, n)}
<1>1. 0 \in N
  <2>1. R(0) = Start
    BY ReplayStepwise
  <2>2. Paid(list, 0, Start) = {} /\ 1 .. 0 = {}
    BY DEF Paid
  <2>3. Start \in So /\ Start.seen = {} /\ Start.at = snapshot.creation /\ Start.karma = 0
    BY DEF Start, So
  <2>4. Above(snapshot.creation, snapshot.creation) = 0
    BY NothingAbove
  <2>5. SumOn(Lifts(list), {}) = 0 /\ SumOn(Prices(list), {}) = 0
    BY SumOfNothing
  <2>6. \A s \in Skills : snapshot.creation[s] <= Start.at[s]
    BY <2>3
  <2>7. Accounts(Start, list, 0)
    BY <2>2, <2>3, <2>4, <2>5, <2>6 DEF Accounts
  <2> QED
    BY <2>1, <2>7
<1>2. ASSUME NEW n \in Nat, n \in N PROVE n + 1 \in N
  <2> SUFFICES ASSUME n + 1 <= Len(list) PROVE Accounts(R(n + 1), list, n + 1)
    OBVIOUS
  <2>1. Accounts(R(n), list, n)
    BY <1>2
  <2>2. n + 1 \in DOMAIN list /\ n + 1 \in 1 .. Len(list) /\ (n + 1) - 1 = n
    OBVIOUS
  <2>3. R(n + 1) = Replayed(R(n), list[n + 1])
    <3>1. R(n + 1) = Replayed(R((n + 1) - 1), list[n + 1])
      BY <2>2, ReplayStepwise
    <3> QED
      BY <2>2, <3>1
  <2> HIDE DEF R
  <2>4. Accounts(Replayed(R(n), list[n + 1]), list, n + 1)
    BY <2>1, <2>2, AccountsGoOn
  <2> QED
    BY <2>3, <2>4
<1>3. Len(list) \in Nat /\ Replay(list) = R(Len(list))
  BY ReplayStepwise
<1> HIDE DEF N
<1>4. Len(list) \in N
  BY <1>1, <1>2, <1>3, NatSetInduction
<1> QED
  BY <1>3, <1>4 DEF N

-----------------------------------------------------------------------------
(* The inductive invariant.  The rows left behind by a return to creation   *)
(* will be filed after the history, so they are kept in order with it.      *)
CareerInv ==
  /\ career \in BOOLEAN /\ whole \in BOOLEAN
  /\ bought \in [skills : [Skills -> Nat], groups : [Group -> Nat]]
  /\ snapshot \in [free : [Skills -> 0..CreationCap], creation : [Skills -> Nat]] \cup {NoSnapshot}
  /\ raises \in 0 .. MaxRaises
  /\ rows \in Seq(Row(raises)) /\ history \in Seq(Row(raises))
  /\ given \in Frees /\ catalog \in Catalogs /\ bonus \in Bonuses /\ rates \in Rates /\ barred \in Bars
  /\ career <=> snapshot # NoSnapshot
  /\ Rising(history \o rows)
  /\ career => \A s \in Skills : snapshot.free[s] <= snapshot.creation[s]

LEMMA InCareer ==
  ASSUME CareerInv, career
  PROVE  /\ snapshot \in [free : [Skills -> 0..CreationCap], creation : [Skills -> Nat]]
         /\ snapshot.free \in [Skills -> Nat] /\ snapshot.creation \in [Skills -> Nat]
         /\ \A s \in Skills : snapshot.free[s] <= snapshot.creation[s]
<1>1. snapshot \in [free : [Skills -> 0..CreationCap], creation : [Skills -> Nat]]
  BY DEF CareerInv
<1>2. CreationCap \in Nat
  BY CareerAssumption
<1>3. snapshot.free \in [Skills -> 0..CreationCap] /\ snapshot.creation \in [Skills -> Nat]
  BY <1>1
<1>4. snapshot.free \in [Skills -> Nat]
  BY ONLY <1>2, <1>3
<1>5. \A s \in Skills : snapshot.free[s] <= snapshot.creation[s]
  BY DEF CareerInv
<1> QED
  BY <1>1, <1>3, <1>4, <1>5

(* Parts of a list in order are in order.                                   *)
LEMMA RisingParts ==
  ASSUME NEW X, NEW p \in Seq(X), NEW q \in Seq(X), Rising(p \o q)
  PROVE  /\ Rising(p) /\ Rising(q)
         /\ \A i \in DOMAIN p, j \in DOMAIN q : p[i].id < q[j].id
<1> DEFINE l == Len(p)
           r == p \o q
<1>1. /\ DOMAIN p = 1 .. l /\ DOMAIN q = 1 .. Len(q) /\ l \in Nat /\ Len(q) \in Nat
      /\ DOMAIN r = 1 .. l + Len(q)
      /\ \A i \in 1 .. l : r[i] = p[i]
      /\ \A j \in 1 .. Len(q) : r[l + j] = q[j]
  OBVIOUS
<1>2. \A i, j \in DOMAIN r : i < j => r[i].id < r[j].id
  BY DEF Rising
<1> HIDE DEF r, l
<1>3. \A i \in 1 .. l : i \in DOMAIN r
  BY <1>1
<1>4. \A j \in 1 .. Len(q) : l + j \in DOMAIN r
  BY <1>1
<1>5. Rising(p)
  BY <1>1, <1>2, <1>3 DEF Rising
<1>6. \A i, j \in 1 .. Len(q) : i < j => q[i].id < q[j].id
  <2> SUFFICES ASSUME NEW i \in 1 .. Len(q), NEW j \in 1 .. Len(q), i < j
               PROVE  q[i].id < q[j].id
    OBVIOUS
  <2>1. l + i < l + j
    BY <1>1
  <2>2. r[l + i].id < r[l + j].id
    BY <1>2, <1>4, <2>1
  <2> QED
    BY <1>1, <2>2
<1>7. \A i \in 1 .. l, j \in 1 .. Len(q) : p[i].id < q[j].id
  <2> SUFFICES ASSUME NEW i \in 1 .. l, NEW j \in 1 .. Len(q) PROVE p[i].id < q[j].id
    OBVIOUS
  <2>1. i < l + j
    BY <1>1
  <2>2. r[i].id < r[l + j].id
    BY <1>2, <1>3, <1>4, <2>1
  <2> QED
    BY <1>1, <2>2
<1> QED
  BY <1>1, <1>5, <1>6, <1>7 DEF Rising

(* And lists in order, one after the other, are a list in order.            *)
LEMMA RisingTogether ==
  ASSUME NEW X, NEW p \in Seq(X), NEW q \in Seq(X), Rising(p), Rising(q),
         \A i \in DOMAIN p, j \in DOMAIN q : p[i].id < q[j].id
  PROVE  Rising(p \o q)
<1> DEFINE l == Len(p)
           r == p \o q
<1>1. /\ DOMAIN p = 1 .. l /\ DOMAIN q = 1 .. Len(q) /\ l \in Nat /\ Len(q) \in Nat
      /\ DOMAIN r = 1 .. l + Len(q)
      /\ \A i \in 1 .. l : r[i] = p[i]
      /\ \A j \in 1 .. Len(q) : r[l + j] = q[j]
  OBVIOUS
<1> HIDE DEF r, l
<1>2. \A k \in DOMAIN r : k \in 1 .. l \/ (k - l \in 1 .. Len(q) /\ k > l /\ l + (k - l) = k)
  BY <1>1
<1>3. \A k \in DOMAIN r : k - l \in 1 .. Len(q) /\ k > l /\ l + (k - l) = k => r[k] = q[k - l]
  <2> SUFFICES ASSUME NEW k \in DOMAIN r, NEW d \in 1 .. Len(q), l + d = k PROVE r[k] = q[d]
    OBVIOUS
  <2> QED
    BY <1>1
<1> SUFFICES ASSUME NEW i \in DOMAIN r, NEW j \in DOMAIN r, i < j PROVE r[i].id < r[j].id
  BY DEF Rising, r
<1>4. i \in Nat /\ j \in Nat
  BY <1>1
<1>5. CASE i \in 1 .. l /\ j \in 1 .. l
  BY <1>1, <1>5 DEF Rising
<1>6. CASE i \in 1 .. l /\ j \notin 1 .. l
  BY <1>1, <1>2, <1>3, <1>6
<1>7. CASE i \notin 1 .. l
  <2>1. i - l \in 1 .. Len(q) /\ i > l /\ l + (i - l) = i
    BY <1>2, <1>7
  <2>2. j - l \in 1 .. Len(q) /\ j > l /\ l + (j - l) = j
    BY <1>1, <1>2, <1>4, <2>1
  <2>3. r[i] = q[i - l] /\ r[j] = q[j - l]
    BY <1>3, <2>1, <2>2
  <2>4. i - l < j - l
    BY <1>1, <1>4
  <2> QED
    BY <1>1, <2>1, <2>2, <2>3, <2>4 DEF Rising
<1> QED
  BY <1>5, <1>6, <1>7

(* What the replay of a career comes to.                                    *)
LEMMA CareerAccounts ==
  ASSUME CareerInv, career
  PROVE  /\ Accounts(Replay(rows), rows, Len(rows))
         /\ Replay(rows).at \in [Skills -> Nat]
         /\ \A s \in Skills : snapshot.free[s] <= Replay(rows).at[s]
<1>1. snapshot.creation \in [Skills -> Nat] /\ snapshot.free \in [Skills -> Nat]
  BY InCareer
<1>2. raises \in Nat /\ rows \in Seq(Row(raises)) /\ history \in Seq(Row(raises))
  BY DEF CareerInv
<1>3. Rising(rows)
  BY <1>2, RisingParts DEF CareerInv
<1>4. Accounts(Replay(rows), rows, Len(rows))
  BY <1>1, <1>2, <1>3, ReplayAccounts
<1>5. Replay(rows).at \in [Skills -> Nat]
  BY <1>4 DEF Accounts, So
<1>6. ASSUME NEW s \in Skills PROVE snapshot.free[s] <= Replay(rows).at[s]
  <2>1. snapshot.free[s] <= snapshot.creation[s] /\ snapshot.creation[s] <= Replay(rows).at[s]
    BY <1>4, InCareer DEF Accounts
  <2>2. snapshot.free[s] \in Nat /\ snapshot.creation[s] \in Nat /\ Replay(rows).at[s] \in Nat
    BY <1>1, <1>5
  <2> QED
    BY ONLY <2>1, <2>2
<1> QED
  BY <1>4, <1>5, <1>6

(* The rows priced for a patch have the next ids, in their order.           *)
Offer(so, n) ==
  /\ so.at \in [Skills -> Nat]
  /\ so.next = raises + 1 + n
  /\ so.new \in Seq(Row(raises + n)) /\ Len(so.new) = n
  /\ \A i \in 1 .. n : so.new[i].id = raises + i

LEMMA OfferGoesOn ==
  ASSUME CareerInv, NEW n \in Nat, NEW so, Offer(so, n), NEW ask \in Ask
  PROVE  Offer(Priced(so, ask), n + 1)
<1> DEFINE row == [id |-> so.next, target |-> ask.target, levels |-> ask.levels,
                   from |-> Targets(so.at, ask.target), rate |-> rates]
           m == raises + (n + 1)
           new == Append(so.new, row)
           up == Lifted(so.at, row.from, ask.levels)
<1>0. raises \in Nat /\ rates \in Rates /\ MaxLevels \in Nat
  BY CareerAssumption DEF CareerInv
<1>1. so.at \in [Skills -> Nat] /\ so.next = raises + 1 + n
  BY DEF Offer
<1>2. ask.target \in Skills \cup Group /\ ask.levels \in 1 .. MaxLevels
  BY DEF Ask
<1>3. Targets(so.at, ask.target) \in Froms
  <2> DEFINE T == IF ask.target \in Group THEN Members(ask.target)
                  ELSE {s \in {ask.target} : Known(s)}
  <2>1. T \subseteq Skills
    BY <1>2 DEF Members
  <2>2. Targets(so.at, ask.target) = [s \in T |-> so.at[s]]
    BY DEF Targets
  <2> HIDE DEF T
  <2>3. [s \in T |-> so.at[s]] \in [T -> Nat]
    BY <1>1, <2>1
  <2> QED
    BY <2>1, <2>2, <2>3 DEF Froms
<1>4. so.next \in 1 .. m /\ m \in Nat /\ raises + n \in Nat /\ raises + n <= m
  BY <1>0, <1>1
<1>5. row \in Row(m)
  BY <1>0, <1>2, <1>3, <1>4 DEF Row
<1>6. up \in [Skills -> Nat]
  BY <1>0, <1>1, <1>2 DEF Lifted
<1>7. so.new \in Seq(Row(m)) /\ Len(so.new) = n
  <2>1. Row(raises + n) \subseteq Row(m)
    BY <1>4, MoreRows
  <2> HIDE DEF m
  <2> QED
    BY <2>1 DEF Offer
<1>8. Priced(so, ask) = [at |-> up, next |-> so.next + 1, new |-> new]
  BY DEF Priced
<1>9. row.id = so.next
  OBVIOUS
<1> HIDE DEF row, up, m
<1>10. /\ new \in Seq(Row(m)) /\ Len(new) = n + 1
       /\ \A i \in 1 .. n : new[i] = so.new[i]
       /\ new[n + 1] = row
  BY <1>5, <1>7, AppendProperties
<1> HIDE DEF new
<1>11. \A i \in 1 .. n + 1 : new[i].id = raises + i
  <2>1. \A i \in 1 .. n : new[i].id = raises + i
    BY <1>10 DEF Offer
  <2>2. new[n + 1].id = raises + (n + 1)
    BY <1>0, <1>1, <1>9, <1>10
  <2> QED
    BY <2>1, <2>2
<1>12. so.next + 1 = raises + 1 + (n + 1)
  BY <1>0, <1>1
<1> QED
  BY <1>6, <1>8, <1>10, <1>11, <1>12 DEF Offer, m

LEMMA AsksAreOffered ==
  ASSUME CareerInv, career, NEW asks \in Seq(Ask)
  PROVE  Offer(FoldLeft(Priced, FirstOffer, asks), Len(asks))
<1> DEFINE P(n) == PricedTo(asks, n)
           N == {n \in Nat : n <= Len(asks) => Offer(P(n), n)}
<1>1. 0 \in N
  <2>1. P(0) = FirstOffer
    BY PricingStepwise
  <2>2. Replay(rows).at \in [Skills -> Nat] /\ raises \in Nat
    BY CareerAccounts DEF CareerInv
  <2>3. << >> \in Seq(Row(raises + 0)) /\ Len(<< >>) = 0
    OBVIOUS
  <2>4. Offer(FirstOffer, 0)
    BY <2>2, <2>3 DEF Offer, FirstOffer
  <2> QED
    BY <2>1, <2>4
<1>2. ASSUME NEW n \in Nat, n \in N PROVE n + 1 \in N
  <2> SUFFICES ASSUME n + 1 <= Len(asks) PROVE Offer(P(n + 1), n + 1)
    OBVIOUS
  <2>1. Offer(P(n), n)
    BY <1>2
  <2>2. n + 1 \in 1 .. Len(asks) /\ (n + 1) - 1 = n /\ asks[n + 1] \in Ask
    OBVIOUS
  <2>3. P(n + 1) = Priced(P(n), asks[n + 1])
    <3>1. P(n + 1) = Priced(P((n + 1) - 1), asks[n + 1])
      BY <2>2, PricingStepwise
    <3> QED
      BY <2>2, <3>1
  <2> HIDE DEF P
  <2>4. Offer(Priced(P(n), asks[n + 1]), n + 1)
    BY <2>1, <2>2, OfferGoesOn
  <2> QED
    BY <2>3, <2>4
<1>3. Len(asks) \in Nat /\ FoldLeft(Priced, FirstOffer, asks) = P(Len(asks))
  <2>1. Len(asks) \in Nat
    OBVIOUS
  <2>2. FoldLeft(Priced, FirstOffer, asks) = PricedTo(asks, Len(asks))
    BY PricingStepwise
  <2> QED
    BY <2>1, <2>2
<1> HIDE DEF N
<1>4. Len(asks) \in N
  BY <1>1, <1>2, <1>3, NatSetInduction
<1> QED
  BY <1>3, <1>4 DEF N

-----------------------------------------------------------------------------
(* The steps.                                                               *)
LEMMA NumbersOfWorld ==
  ASSUME CareerInv, NEW s \in Skills
  PROVE  /\ given[s] \in 0 .. CreationCap /\ given[s] \in Nat
         /\ given \in [Skills -> 0 .. CreationCap]
         /\ bonus[s] \in Nat /\ CreationCap \in Nat
         /\ bought.skills[s] \in Nat /\ GroupBought(s) \in Nat
<1>1. CreationCap \in Nat
  BY CareerAssumption
<1>2. given \in [Skills -> 0 .. CreationCap] /\ bonus \in [Skills -> Nat]
  BY CareerAssumption DEF CareerInv
<1>3. bought.skills \in [Skills -> Nat] /\ bought.groups \in [Group -> Nat]
  BY DEF CareerInv
<1>4. given[s] \in 0 .. CreationCap /\ bonus[s] \in Nat
  BY ONLY <1>2, s \in Skills
<1>5. given[s] \in Nat
  BY ONLY <1>1, <1>4
<1>6. bought.skills[s] \in Nat /\ GroupBought(s) \in Nat
  BY <1>3 DEF GroupBought
<1> QED
  BY <1>1, <1>2, <1>4, <1>5, <1>6

(* What a skill comes to is at least what it has for nothing.               *)
LEMMA ReachedIsAbove ==
  ASSUME CareerInv, NEW s \in Skills
  PROVE  Reached(s) \in Nat /\ given[s] <= Reached(s)
<1> DEFINE b == Most(bought.skills[s], GroupBought(s))
<1>1. b \in Nat
  BY NumbersOfWorld DEF Most
<1> HIDE DEF b
<1>2. given[s] + b \in Nat /\ given[s] <= given[s] + b
  BY <1>1, NumbersOfWorld
<1>3. CreationCap + bonus[s] \in Nat /\ given[s] <= CreationCap + bonus[s]
  BY NumbersOfWorld
<1>4. Reached(s) = Least(given[s] + b, CreationCap + bonus[s])
  BY DEF Reached, Requested, b
<1> QED
  BY <1>2, <1>3, <1>4 DEF Least

LEMMA InitCareer == CareerInit => CareerInv
<1> SUFFICES ASSUME CareerInit PROVE CareerInv
  OBVIOUS
<1>1. << >> \o << >> = << >> /\ << >> \in Seq(Row(raises))
  OBVIOUS
<1>2. Rising(history \o rows)
  BY <1>1 DEF CareerInit, Rising
<1>3. raises \in 0 .. MaxRaises
  BY CareerAssumption DEF CareerInit
<1>4. bought \in [skills : [Skills -> Nat], groups : [Group -> Nat]]
  BY DEF CareerInit
<1> QED
  BY <1>1, <1>2, <1>3, <1>4 DEF CareerInit, CareerInv

LEMMA BuyKeeps == CareerInv /\ Buy => CareerInv'
BY CareerAssumption DEF CareerInv, Buy, world, Row

\* A step of the world leaves what is the character's own alone.
LEMMA WorldMoves ==
  ASSUME CareerInv, UNCHANGED << mine, raises >>, whole' \in BOOLEAN,
         given' \in Frees, catalog' \in Catalogs, bonus' \in Bonuses, rates' \in Rates, barred' \in Bars
  PROVE  CareerInv'
<1>1. UNCHANGED << career, bought, snapshot, rows, history, raises >>
  BY DEF mine
<1>2. (rows \in Seq(Row(raises)) /\ history \in Seq(Row(raises)))'
  BY <1>1 DEF CareerInv, Row
<1>3. Rising(history \o rows)'
  BY <1>1 DEF CareerInv, Rising
<1>4. (raises \in 0 .. MaxRaises)'
  BY <1>1 DEF CareerInv
<1>5. /\ career' \in BOOLEAN /\ (career <=> snapshot # NoSnapshot)'
      /\ (career => \A s \in Skills : snapshot.free[s] <= snapshot.creation[s])'
      /\ (bought \in [skills : [Skills -> Nat], groups : [Group -> Nat]])'
      /\ (snapshot \in [free : [Skills -> 0..CreationCap], creation : [Skills -> Nat]]
                         \cup {NoSnapshot})'
  BY <1>1 DEF CareerInv
<1> QED
  BY <1>2, <1>3, <1>4, <1>5 DEF CareerInv

LEMMA PickModulesKeeps == CareerInv /\ PickModules => CareerInv'
BY WorldMoves DEF CareerInv, PickModules

LEMMA EnterKeeps == CareerInv /\ EnterCareer => CareerInv'
<1> SUFFICES ASSUME CareerInv, EnterCareer PROVE CareerInv'
  OBVIOUS
<1>1. /\ career' = TRUE /\ rows' = << >> /\ history' = history \o rows
      /\ snapshot' = [free |-> given, creation |-> [s \in Skills |-> Reached(s)]]
      /\ UNCHANGED << bought, given, whole, catalog, bonus, rates, barred, raises >>
  BY DEF EnterCareer, Archived, world
<1>2. given \in [Skills -> 0 .. CreationCap]
  BY CareerAssumption DEF CareerInv
<1>3. /\ snapshot' \in [free : [Skills -> 0..CreationCap], creation : [Skills -> Nat]]
      /\ \A s \in Skills : snapshot'.free[s] <= snapshot'.creation[s]
  <2>1. \A s \in Skills : Reached(s) \in Nat /\ given[s] <= Reached(s)
    BY ReachedIsAbove
  <2> QED
    BY <1>1, <1>2, <2>1
<1>4. snapshot' # NoSnapshot
  <2>1. NoSnapshot \notin [free : [Skills -> Nat], creation : [Skills -> Nat]] /\ CreationCap \in Nat
    BY CareerAssumption
  <2>2. snapshot'.free \in [Skills -> Nat] /\ snapshot'.creation \in [Skills -> Nat]
        /\ snapshot' = [free |-> snapshot'.free, creation |-> snapshot'.creation]
    <3>1. snapshot'.free \in [Skills -> 0..CreationCap]
      BY <1>3
    <3>2. snapshot'.free \in [Skills -> Nat]
      BY ONLY <2>1, <3>1
    <3> QED
      BY <1>1, <1>3, <3>2
  <2>3. snapshot' \in [free : [Skills -> Nat], creation : [Skills -> Nat]]
    BY ONLY <2>2
  <2> QED
    BY <2>1, <2>3
<1>5. rows' \in Seq(Row(raises')) /\ history' \in Seq(Row(raises')) /\ history' \o rows' = history \o rows
  <2>1. Row(raises)' = Row(raises')
    BY <1>1 DEF Row
  <2>2. rows \in Seq(Row(raises)) /\ history \in Seq(Row(raises))
    BY DEF CareerInv
  <2>3. Row(raises') = Row(raises)
    BY <1>1
  <2>4. history \o rows \in Seq(Row(raises)) /\ (history \o rows) \o << >> = history \o rows
    BY <2>2
  <2> QED
    BY <1>1, <2>3, <2>4
<1>6. Rising(history' \o rows')
  BY <1>5 DEF CareerInv
<1>7. Rising(history \o rows)'
  BY <1>6 DEF Rising
<1>8. (rows \in Seq(Row(raises)) /\ history \in Seq(Row(raises)))'
  BY <1>5 DEF Row
<1> QED
  BY <1>1, <1>3, <1>4, <1>7, <1>8 DEF CareerInv

\* A step within a career that leaves the record's beginning and the world alone.
LEMMA RowsMove ==
  ASSUME CareerInv, raises' \in raises .. MaxRaises,
         UNCHANGED << career, bought, snapshot, history, world >>,
         rows' \in Seq(Row(raises')), Rising(history \o rows')
  PROVE  CareerInv'
<1>1. raises \in Nat /\ MaxRaises \in Nat
  BY CareerAssumption DEF CareerInv
<1>2. raises' \in 0 .. MaxRaises /\ raises' \in Nat /\ raises <= raises'
  BY <1>1
<1>3. history \in Seq(Row(raises))
  BY DEF CareerInv
<1>4. history \in Seq(Row(raises'))
  BY <1>1, <1>2, <1>3, MoreRows
<1>5. (rows \in Seq(Row(raises)) /\ history \in Seq(Row(raises)))'
  BY <1>4 DEF Row
<1>6. Rising(history \o rows)'
  BY DEF Rising
<1> QED
  BY <1>2, <1>5, <1>6 DEF CareerInv, world

LEMMA JoinedTwice ==
  ASSUME NEW S, NEW p \in Seq(S), NEW q \in Seq(S), NEW r \in Seq(S)
  PROVE  p \o (q \o r) = (p \o q) \o r
OBVIOUS

LEMMA GrowKeeps == CareerInv /\ Grow => CareerInv'
<1> SUFFICES ASSUME CareerInv, Grow PROVE CareerInv'
  OBVIOUS
<1>0. PICK n \in 1 .. 2 : \E asks \in [1 .. n -> Ask] :
        LET so == FoldLeft(Priced, FirstOffer, asks)
        IN  /\ career /\ raises + n <= MaxRaises
            /\ rows' = rows \o so.new
            /\ raises' = raises + n
            /\ UNCHANGED << career, bought, snapshot, history, world >>
  BY DEF Grow, FirstOffer
<1>1. PICK asks \in [1 .. n -> Ask] :
        LET so == FoldLeft(Priced, FirstOffer, asks)
        IN  /\ career /\ raises + n <= MaxRaises
            /\ rows' = rows \o so.new
            /\ raises' = raises + n
            /\ UNCHANGED << career, bought, snapshot, history, world >>
  BY <1>0
<1> DEFINE so == FoldLeft(Priced, FirstOffer, asks)
           m == raises + n
<1>2. asks \in Seq(Ask) /\ Len(asks) = n /\ n \in Nat
  OBVIOUS
<1>3. Offer(so, n)
  BY <1>1, <1>2, AsksAreOffered
<1> HIDE DEF so
<1>4. raises \in Nat /\ m \in Nat /\ raises <= m /\ raises' = m /\ m <= MaxRaises /\ MaxRaises \in Nat
  BY <1>1, CareerAssumption DEF CareerInv
<1>5. so.new \in Seq(Row(m)) /\ Len(so.new) = n /\ DOMAIN so.new = 1 .. n
      /\ \A i \in 1 .. n : so.new[i].id = raises + i
  BY <1>3 DEF Offer
<1>6. rows \in Seq(Row(raises)) /\ history \in Seq(Row(raises)) /\ Rising(history \o rows)
  BY DEF CareerInv
<1> HIDE DEF m
<1> DEFINE old == history \o rows
           R == Row(m)
<1>7. old \in Seq(Row(raises)) /\ history \o (rows \o so.new) = old \o so.new
  <2>1. rows \in Seq(Row(m)) /\ history \in Seq(Row(m))
    BY <1>4, <1>6, MoreRows
  <2>2. history \o (rows \o so.new) = (history \o rows) \o so.new
    <3> DEFINE new == so.new
    <3>1. rows \in Seq(R) /\ history \in Seq(R) /\ new \in Seq(R)
      BY <1>5, <2>1
    <3> HIDE DEF R, new, old
    <3>2. history \o (rows \o new) = (history \o rows) \o new
      BY ONLY <3>1, JoinedTwice
    <3> QED
      BY <3>2 DEF new
  <2> QED
    BY <1>6, <2>2
<1> HIDE DEF old
<1>8. \A i \in DOMAIN old : old[i].id \in 1 .. raises
  <2>1. \A i \in DOMAIN old : old[i] \in Row(raises)
    BY <1>7
  <2> QED
    BY <1>4, <2>1, RowFields
<1>9. Rising(so.new)
  BY <1>4, <1>5 DEF Rising
<1>10. \A i \in DOMAIN old, j \in DOMAIN so.new : old[i].id < so.new[j].id
  <2> SUFFICES ASSUME NEW i \in DOMAIN old, NEW j \in DOMAIN so.new PROVE old[i].id < so.new[j].id
    OBVIOUS
  <2>1. old[i].id \in 1 .. raises /\ j \in 1 .. n /\ so.new[j].id = raises + j
    BY <1>5, <1>8
  <2> QED
    BY <1>4, <2>1
<1>11. old \in Seq(Row(m)) /\ rows \in Seq(Row(m))
  BY <1>4, <1>6, <1>7, MoreRows
<1>12. Rising(old)
  BY <1>6 DEF old
<1>13. Rising(old \o so.new)
  BY <1>5, <1>9, <1>10, <1>11, <1>12, RisingTogether
<1>14. rows' = rows \o so.new
  BY <1>1 DEF so
<1>15. Rising(history \o rows')
  BY <1>7, <1>13, <1>14
<1>16. rows' \in Seq(Row(raises'))
  BY <1>4, <1>5, <1>11, <1>14
<1>17. raises' \in raises .. MaxRaises
  BY <1>4
<1> QED
  BY <1>1, <1>15, <1>16, <1>17, RowsMove

LEMMA UndoKeeps == CareerInv /\ Undo => CareerInv'
<1> SUFFICES ASSUME CareerInv, Undo PROVE CareerInv'
  OBVIOUS
<1>1. PICK n \in 0 .. Len(rows) - 1 :
        /\ rows' = SubSeq(rows, 1, n)
        /\ UNCHANGED << career, bought, snapshot, history, world, raises >>
  BY DEF Undo
<1>2. rows \in Seq(Row(raises)) /\ history \in Seq(Row(raises)) /\ Rising(history \o rows)
      /\ raises \in 0 .. MaxRaises
  BY DEF CareerInv
<1>3. /\ rows' \in Seq(Row(raises)) /\ DOMAIN rows' \subseteq DOMAIN rows
      /\ \A i \in DOMAIN rows' : rows'[i] = rows[i]
  BY <1>1, <1>2
<1>4. /\ Rising(history) /\ Rising(rows)
      /\ \A i \in DOMAIN history, j \in DOMAIN rows : history[i].id < rows[j].id
  BY <1>2, RisingParts
<1>5. Rising(rows')
  BY <1>3, <1>4 DEF Rising
<1>6. \A i \in DOMAIN history, j \in DOMAIN rows' : history[i].id < rows'[j].id
  BY <1>3, <1>4
<1>7. Rising(history \o rows')
  BY <1>2, <1>3, <1>4, <1>5, <1>6, RisingTogether
<1>8. raises' \in raises .. MaxRaises /\ rows' \in Seq(Row(raises'))
  <2>1. raises' = raises /\ MaxRaises \in Nat
    BY <1>1, CareerAssumption
  <2> QED
    BY <1>2, <1>3, <2>1
<1> QED
  BY <1>1, <1>7, <1>8, RowsMove

LEMMA LeaveKeeps == CareerInv /\ LeaveCareer => CareerInv'
<1> SUFFICES ASSUME CareerInv, LeaveCareer PROVE CareerInv'
  OBVIOUS
<1> DEFINE now == Replay(rows).at
<1>1. /\ career /\ career' = FALSE /\ snapshot' = NoSnapshot
      /\ bought' = [skills |-> [s \in Skills |-> now[s] - snapshot.free[s]],
                    groups |-> [g \in Group |-> 0]]
      /\ UNCHANGED << rows, history, given, whole, catalog, bonus, rates, barred, raises >>
  BY DEF LeaveCareer, BoughtBack, world
<1>2. /\ now \in [Skills -> Nat] /\ snapshot.free \in [Skills -> Nat]
      /\ \A s \in Skills : snapshot.free[s] <= now[s]
  BY <1>1, CareerAccounts, InCareer
<1> HIDE DEF now
<1>3. \A s \in Skills : now[s] - snapshot.free[s] \in Nat
  BY <1>2
<1>4. bought' \in [skills : [Skills -> Nat], groups : [Group -> Nat]]
  BY <1>1, <1>3
<1> QED
  BY <1>1, <1>4 DEF CareerInv, Row, Rising

LEMMA ChangeCatalogKeeps == CareerInv /\ ChangeCatalog => CareerInv'
BY WorldMoves DEF CareerInv, ChangeCatalog

LEMMA ChangeCharacterKeeps == CareerInv /\ ChangeCharacter => CareerInv'
BY WorldMoves DEF CareerInv, ChangeCharacter

LEMMA CareerStutters == CareerInv /\ UNCHANGED careerVars => CareerInv'
BY WorldMoves DEF CareerInv, careerVars, world

LEMMA NextCareer == CareerInv /\ [CareerNext]_careerVars => CareerInv'
BY BuyKeeps, PickModulesKeeps, EnterKeeps, GrowKeeps, UndoKeeps, LeaveKeeps,
   ChangeCatalogKeeps, ChangeCharacterKeeps, CareerStutters DEF CareerNext

LEMMA AlwaysCareerInv == CareerSpec => []CareerInv
BY InitCareer, NextCareer, PTL DEF CareerSpec

-----------------------------------------------------------------------------
(* The theorems.                                                            *)

(* For every catalog, price, raise and way in and out of the career: the    *)
(* snapshot is there as long as the career is, what a return hands back as  *)
(* bought is never negative, and no raise is recorded twice, in the rows or *)
(* in the history (life_module_mutations.py: finish_life_patch,             *)
(* _growth_patch, _return_to_creation).                                     *)
THEOREM CareerRowsOK == CareerSpec => []RowsOK
<1>1. CareerInv => RowsOK
  <2> SUFFICES ASSUME CareerInv PROVE RowsOK
    OBVIOUS
  <2>1. rows \in Seq(Row(raises)) /\ history \in Seq(Row(raises)) /\ raises \in Nat
    BY CareerAssumption DEF CareerInv
  <2>2. \A i \in DOMAIN rows : rows[i] \in Row(raises)
    BY <2>1
  <2>3. \A i \in DOMAIN history : history[i] \in Row(raises)
    BY <2>1
  <2>4. \A row \in Row(raises) : IsRow(row)
    BY <2>1, RowFields
  <2>5. CareerTypeOK
    BY <2>2, <2>3, <2>4 DEF CareerInv, CareerTypeOK
  <2>6. Rising(history) /\ Rising(history \o rows)
    BY <2>1, RisingParts DEF CareerInv
  <2>7. EachRaiseOnce
    BY <2>6 DEF EachRaiseOnce, Recorded, Rising
  <2> QED
    BY <2>5, <2>7 DEF RowsOK, CareerInv, CareerHasItsSnapshot
<1> QED
  BY <1>1, AlwaysCareerInv, PTL

(* replay_advancements, whatever catalog, caps and groups the rows are      *)
(* replayed over: no rating is below what was free, the levels above the    *)
(* snapshot are those of the rows that fit, and the karma is their price.   *)
THEOREM CareerLevelsAreEarned == CareerSpec => []LevelsAreEarned
<1>1. CareerInv => LevelsAreEarned
  <2> SUFFICES ASSUME CareerInv, career
               PROVE  /\ \A s \in Skills : /\ snapshot.free[s] <= snapshot.creation[s]
                                           /\ snapshot.free[s] <= Replay(rows).at[s]
                      /\ KarmaIsForTheLevels
    BY DEF LevelsAreEarned, FreeIsAFloor, KarmaIsForTheLevels
  <2> DEFINE so == Replay(rows)
             paid == {i \in DOMAIN rows : rows[i].id \in so.seen}
             lifts == [i \in paid |-> Total([s \in DOMAIN rows[i].from |-> rows[i].levels])]
             prices == [i \in paid |-> Cost(Low(rows[i].from), rows[i].levels, rows[i].rate)]
  <2>1. Accounts(so, rows, Len(rows)) /\ \A s \in Skills : snapshot.free[s] <= so.at[s]
    BY CareerAccounts
  <2>2. rows \in Seq(Row(raises)) /\ raises \in Nat
    BY CareerAssumption DEF CareerInv
  <2>3. DOMAIN rows = 1 .. Len(rows) /\ Len(rows) \in Nat
        /\ \A i \in DOMAIN rows : rows[i] \in Row(raises)
    BY <2>2
  <2> HIDE DEF so
  <2>4. paid = Paid(rows, Len(rows), so) /\ paid \subseteq DOMAIN rows /\ IsFiniteSet(paid)
    <3>1. paid = Paid(rows, Len(rows), so)
      BY <2>3 DEF Paid
    <3>2. IsFiniteSet(1 .. Len(rows))
      BY <2>3, FS_Interval
    <3>3. paid \subseteq 1 .. Len(rows)
      BY <2>3
    <3> QED
      BY <2>3, <3>1, <3>2, <3>3, FS_Subset
  <2>5. \A i \in DOMAIN rows : /\ Lifts(rows)[i] = Lift(rows[i]) /\ Lift(rows[i]) \in Int
                               /\ Prices(rows)[i] = Price(rows[i]) /\ Price(rows[i]) \in Int
    BY <2>2, <2>3, RowIsPriced DEF Lifts, Prices
  <2>6. \A i \in paid : lifts[i] = Lift(rows[i]) /\ prices[i] = Price(rows[i])
    BY DEF Lift, Price
  <2>7. DOMAIN lifts = paid /\ DOMAIN prices = paid
    OBVIOUS
  <2> HIDE DEF lifts, prices, paid
  <2>8. \A i \in paid : /\ lifts[i] \in Int /\ Lifts(rows)[i] = lifts[i]
                        /\ prices[i] \in Int /\ Prices(rows)[i] = prices[i]
    BY <2>4, <2>5, <2>6
  <2>9. Total(lifts) = SumOn(Lifts(rows), paid)
    BY ONLY <2>4, <2>7, <2>8, TotalIsSumOn
  <2>10. Total(prices) = SumOn(Prices(rows), paid)
    BY ONLY <2>4, <2>7, <2>8, TotalIsSumOn
  <2>11. Total([s \in Skills |-> so.at[s] - snapshot.creation[s]]) = Total(lifts)
    BY <2>1, <2>4, <2>9 DEF Accounts, Above
  <2>12. so.karma = Total(prices)
    BY <2>1, <2>4, <2>10 DEF Accounts
  <2>13. so.ok => paid = DOMAIN rows
    BY <2>1, <2>3, <2>4 DEF Accounts
  <2>14. KarmaIsForTheLevels
    BY <2>11, <2>12, <2>13 DEF KarmaIsForTheLevels, so, paid, lifts, prices
  <2> QED
    BY <2>1, <2>14, InCareer DEF so
<1> QED
  BY <1>1, AlwaysCareerInv, PTL

(* Under every change of the catalog, the prices and the caps: a raise      *)
(* keeps the ratings it started from and the price it was bought at, and a  *)
(* return to creation keeps every rating (_growth_patch,                    *)
(* _return_to_creation).                                                    *)
THEOREM CareerRatingsAreKept == CareerSpec => RatingsAreKept
<1> DEFINE Stays == (career /\ career') =>
              /\ snapshot' = snapshot /\ bought' = bought /\ history' = history
              /\ \A i \in DOMAIN rows \cap DOMAIN rows' : rows'[i] = rows[i]
           Returns == (career /\ ~career' /\ given = snapshot.free) =>
              \A s \in Skills : Requested(s)' = Replay(rows).at[s]
<1>1. CareerInv /\ CareerNext => Stays
  <2> SUFFICES ASSUME CareerInv, CareerNext, career, career'
               PROVE  /\ snapshot' = snapshot /\ bought' = bought /\ history' = history
                      /\ \A i \in DOMAIN rows \cap DOMAIN rows' : rows'[i] = rows[i]
    OBVIOUS
  <2>1. rows \in Seq(Row(raises))
    BY DEF CareerInv
  <2>2. CASE Grow
    <3>0. PICK n \in 1 .. 2 : \E asks \in [1 .. n -> Ask] :
            LET so == FoldLeft(Priced, FirstOffer, asks)
            IN  /\ rows' = rows \o so.new
                /\ UNCHANGED << career, bought, snapshot, history, world >>
      BY <2>2 DEF Grow, FirstOffer
    <3>1. PICK asks \in [1 .. n -> Ask] :
            LET so == FoldLeft(Priced, FirstOffer, asks)
            IN  /\ rows' = rows \o so.new
                /\ UNCHANGED << career, bought, snapshot, history, world >>
      BY <3>0
    <3> DEFINE so == FoldLeft(Priced, FirstOffer, asks)
    <3>2. asks \in Seq(Ask)
      OBVIOUS
    <3>3. Offer(so, Len(asks))
      BY <3>2, AsksAreOffered
    <3> HIDE DEF so
    <3>4. so.new \in Seq(Row(raises + Len(asks)))
      BY <3>3 DEF Offer
    <3>5. rows' = rows \o so.new
      BY <3>1 DEF so
    <3>6. \A i \in DOMAIN rows : rows'[i] = rows[i]
      BY <2>1, <3>4, <3>5
    <3> QED
      BY <3>1, <3>6
  <2>3. CASE Undo
    <3>1. PICK n \in 0 .. Len(rows) - 1 :
            /\ rows' = SubSeq(rows, 1, n)
            /\ UNCHANGED << career, bought, snapshot, history, world, raises >>
      BY <2>3 DEF Undo
    <3>2. \A i \in DOMAIN rows' : rows'[i] = rows[i]
      BY <2>1, <3>1
    <3> QED
      BY <3>1, <3>2
  <2>4. CASE ChangeCatalog \/ ChangeCharacter
    BY <2>4 DEF ChangeCatalog, ChangeCharacter, mine
  <2>5. ~Buy /\ ~PickModules /\ ~EnterCareer /\ ~LeaveCareer
    BY DEF Buy, PickModules, EnterCareer, LeaveCareer
  <2> QED
    BY <2>2, <2>3, <2>4, <2>5 DEF CareerNext
<1>2. CareerInv /\ CareerNext => Returns
  <2> SUFFICES ASSUME CareerInv, CareerNext, career, ~career', given = snapshot.free,
                      NEW s \in Skills
               PROVE  Requested(s)' = Replay(rows).at[s]
    OBVIOUS
  <2> DEFINE now == Replay(rows).at
  <2>1. LeaveCareer
    BY DEF CareerNext, Buy, PickModules, EnterCareer, Grow, Undo, ChangeCatalog, ChangeCharacter, mine
  <2>2. /\ bought' = [skills |-> [x \in Skills |-> now[x] - snapshot.free[x]],
                      groups |-> [g \in Group |-> 0]]
        /\ given' = given
    BY <2>1 DEF LeaveCareer, BoughtBack, world
  <2>3. /\ now[s] \in Nat /\ snapshot.free[s] \in Nat /\ snapshot.free[s] <= now[s]
    BY CareerAccounts, InCareer
  <2> HIDE DEF now
  <2>4. bought'.skills[s] = now[s] - snapshot.free[s] /\ \A g \in Group : bought'.groups[g] = 0
    BY <2>2
  <2>5. GroupBought(s)' = 0
    BY <2>4 DEF GroupBought
  <2>6. Requested(s)' = given'[s] + Most(bought'.skills[s], GroupBought(s)')
    BY DEF Requested
  <2>7. Requested(s)' = snapshot.free[s] + (now[s] - snapshot.free[s])
    BY <2>2, <2>3, <2>4, <2>5, <2>6 DEF Most
  <2> QED
    BY <2>3, <2>7 DEF now
<1>3. CareerInv /\ [CareerNext]_careerVars => [Stays]_careerVars /\ [Returns]_careerVars
  BY <1>1, <1>2
<1> QED
  BY <1>3, AlwaysCareerInv, PTL DEF CareerSpec, RatingsAreKept, PaidStaysPaid, ReturnKeepsRatings
=============================================================================
