--------------------------- MODULE LifeSkillGrants ---------------------------
(***************************************************************************)
(* The free skill levels of a Life Modules character: one computation of   *)
(* resolve_life_module_skills.  The modules are taken in stage order; what *)
(* a module gives raises its skills up to the cap; the levels beyond it    *)
(* are lost, or open a pool whose levels the player moves to other skills  *)
(* by transfers.  A pool is settled whole: one bad transfer refuses all.   *)
(***************************************************************************)
EXTENDS Aggregates

CONSTANTS
  Active,          \* active skills; an exotic one stands for a skill with its target
  Knowledge,       \* knowledge skills
  Order,           \* sorted(): every active skill, then every knowledge skill
  Exotic, Grouped, Unavailable,      \* subsets of Active
  AttrOf,          \* the attribute of an active skill
  KnownNative,     \* the languages the character speaks natively
  ActiveCap, KnowledgeCap,
  Module, StageOf, \* a module's stage; one outside Stages is unknown to the engine
  FamilyOf,        \* the parent whose versions a module is one of
  Gives,           \* levels of each skill from the fixed grants, groups spread out
  Options, OptionGives,  \* what the choice of a module may raise ({}: none), and by how much
  NativeOf,        \* the native languages a module gives
  Misnamed,        \* modules with a grant the catalog has no skill or group for
  Acquisitions,    \* the saved lists of modules: sequences of [entry, module, answer]
  TransferSets,    \* the saved lists of transfers: sets of rows
  Unanswered, NoSkill

Skill == Active \cup Knowledge
Stages == 1..5
RealLife == 5

ASSUME GrantsAssumption ==
  /\ Exotic \cup Grouped \cup Unavailable \subseteq Active
  /\ Active \cap Knowledge = {} /\ NoSkill \notin Skill
  /\ IsFiniteSet(Active) /\ IsFiniteSet(Knowledge)
  /\ Order \in Seq(Skill)
  /\ \A s \in Skill : \E n \in DOMAIN Order : Order[n] = s
  /\ \A m, n \in DOMAIN Order : Order[m] = Order[n] => m = n
  /\ ActiveCap \in Nat /\ KnowledgeCap \in Nat
  /\ StageOf \in [Module -> Nat]
  /\ Gives \in [Module -> [Skill -> Nat]]
  /\ Options \in [Module -> SUBSET (SUBSET Skill)]
  /\ OptionGives \in [Module -> Nat]
  /\ NativeOf \in [Module -> SUBSET Knowledge]
  /\ \A list \in Acquisitions :
       /\ list \in Seq([entry : Nat, module : Module, answer : (SUBSET Skill) \cup {Unanswered}])
       /\ \A i, j \in DOMAIN list : list[i].entry = list[j].entry => i = j
  /\ \A rows \in TransferSets :
       /\ IsFiniteSet(rows)
       /\ rows \subseteq [id : Nat, entry : Nat, source : Skill, dest : Skill \cup {NoSkill},
                          ranks : Nat \ {0}, print : [module : Module, amount : Nat]]

VARIABLES
  acquired, transfers,   \* the saved inputs
  taken,      \* positions of the modules already processed
  queue,      \* pools the module in hand has opened, in order
  free,       \* free_active and free_knowledge
  losses,     \* levels no skill keeps
  pools,      \* the settled pools
  errors,     \* kinds of errors so far
  finished

inputs == <<acquired, transfers>>
vars == <<acquired, transfers, taken, queue, free, losses, pools, errors, finished>>

Cap(s) == IF s \in Knowledge THEN KnowledgeCap ELSE ActiveCap
Room_Whole(s) == Cap(s)
Room(s) == IF free[s] < Cap(s) THEN Cap(s) - free[s] ELSE 0

-----------------------------------------------------------------------------
(* _chosen_modules: a family is taken once, and so is each stage of youth;  *)
(* a later duplicate is refused and takes no part in what follows.         *)
Clash(m, n) == FamilyOf[m] = FamilyOf[n] \/ (StageOf[m] = StageOf[n] /\ StageOf[m] <= 3)
Chosen ==
  LET pick[n \in 0..Len(acquired)] ==
        IF n = 0 THEN {}
        ELSE IF \E j \in pick[n - 1] : Clash(acquired[j].module, acquired[n].module)
             THEN pick[n - 1] ELSE pick[n - 1] \cup {n}
  IN DOMAIN acquired \cap pick[Len(acquired)]

(* A module's grants, with the choice answered, summed per skill.          *)
Amount(e, s) ==
  Gives[e.module][s] + (IF e.answer \in Options[e.module] /\ s \in e.answer
                        THEN OptionGives[e.module] ELSE 0)
Kept(e, s) == IF Amount(e, s) <= Room(s) THEN Amount(e, s) ELSE Room(s)
Excess(e, s) == Amount(e, s) - Kept(e, s)

ChoiceMissing == \E i \in Chosen :
  Options[acquired[i].module] # {} /\ acquired[i].answer \notin Options[acquired[i].module]

(* Excess opens a pool for knowledge, and in Real Life for an ungrouped    *)
(* skill; everywhere else it is lost.                                      *)
Transferable(e, s) ==
  s \in Knowledge \/ (StageOf[e.module] = RealLife /\ s \notin Grouped)
Opening(e) == {s \in Skill : Excess(e, s) > 0 /\ Transferable(e, s)}
OpenedBy_Gross(e) == LET sources == Picked(Order, Opening(e))
                     IN [k \in DOMAIN sources |->
                          [entry |-> e.entry, module |-> e.module, source |-> sources[k],
                           grant |-> Amount(e, sources[k]), total |-> Amount(e, sources[k])]]
OpenedBy(e) == LET sources == Picked(Order, Opening(e))
               IN [k \in DOMAIN sources |->
                    [entry |-> e.entry, module |-> e.module, source |-> sources[k],
                     grant |-> Amount(e, sources[k]), total |-> Excess(e, sources[k])]]
LostTo(e) == {[entry |-> e.entry, skill |-> s, levels |-> Excess(e, s)] :
               s \in {t \in Skill : Excess(e, t) > 0 /\ ~Transferable(e, t)}}

(* By stage, and within a stage in the order they were acquired.           *)
IsNext(i) ==
  /\ i \in Chosen \ taken
  /\ \A j \in Chosen \ taken :
       \/ StageOf[acquired[i].module] < StageOf[acquired[j].module]
       \/ StageOf[acquired[i].module] = StageOf[acquired[j].module] /\ i <= j

TakeModule == \E i \in DOMAIN acquired :
  LET e == acquired[i] IN
  /\ queue = <<>> /\ IsNext(i) /\ StageOf[e.module] \in Stages
  /\ taken' = taken \cup {i}
  /\ free' = [s \in Skill |-> free[s] + Kept(e, s)]
  /\ losses' = losses \cup LostTo(e)
  /\ queue' = OpenedBy(e)
  /\ errors' = IF e.module \in Misnamed THEN errors \cup {"grant"} ELSE errors
  /\ UNCHANGED <<inputs, pools, finished>>

SkipModule == \E i \in DOMAIN acquired :
  /\ queue = <<>> /\ IsNext(i) /\ StageOf[acquired[i].module] \notin Stages
  /\ taken' = taken \cup {i} /\ errors' = errors \cup {"grant"}
  /\ UNCHANGED <<inputs, queue, free, losses, pools, finished>>

-----------------------------------------------------------------------------
RowsOf(p) == {r \in transfers : r.entry = p.entry /\ r.source = p.source}
Ranks(rows) == Total([r \in rows |-> r.ranks])

Native == KnownNative \cup UNION {NativeOf[acquired[i].module] : i \in Chosen}
Candidates(p) ==
  IF p.source \in Knowledge THEN (Knowledge \ Native) \ {p.source}
  ELSE {s \in Active \ (Unavailable \cup {p.source}) : AttrOf[s] = AttrOf[p.source]}

BadRows(p) == {r \in RowsOf(p) :
  \/ r.print # [module |-> p.module, amount |-> p.grant]
  \/ r.dest \notin Candidates(p)
  \/ r.ranks > Room(r.dest)
  \/ \E other \in RowsOf(p) \ {r} : other.dest = r.dest
  \/ \E other \in transfers \ {r} : other.id = r.id}
Refused(p) == BadRows(p) # {} \/ Ranks(RowsOf(p)) > p.total

Settled(p, allocated, remaining, status) ==
  [entry |-> p.entry, source |-> p.source, total |-> p.total, allocated |-> allocated,
   remaining |-> remaining, unallocatable |-> p.total - allocated - remaining,
   status |-> status, provisional |-> errors # {}]

RefusePool ==
  /\ queue # <<>> /\ Refused(Head(queue))
  /\ queue' = Tail(queue)
  /\ pools' = Append(pools, Settled(Head(queue), 0, Head(queue).total, "invalid"))
  /\ errors' = errors \cup {"transfer"}
  /\ UNCHANGED <<inputs, taken, free, losses, finished>>

Received(p, s) == IF \E r \in RowsOf(p) : r.dest = s
                  THEN (CHOOSE r \in RowsOf(p) : r.dest = s).ranks ELSE 0
(* What of the levels left over could still be moved somewhere.            *)
StillMovable_AllOrNothing(p, left, free2) ==
  LET open == Total([s \in Candidates(p) |-> ActiveCap - free2[s]])
  IN IF p.source \in Knowledge \/ Candidates(p) \cap Exotic # {} \/ open >= left
     THEN left ELSE 0
StillMovable(p, left, free2) ==
  LET open == Total([s \in Candidates(p) |-> ActiveCap - free2[s]])
  IN IF p.source \in Knowledge \/ Candidates(p) \cap Exotic # {} \/ open >= left
     THEN left ELSE open

ApplyPool ==
  /\ queue # <<>> /\ ~Refused(Head(queue))
  /\ LET p == Head(queue)
         left == p.total - Ranks(RowsOf(p))
         remaining == StillMovable(p, left, free')
     IN /\ free' = [s \in Skill |-> free[s] + Received(p, s)]
        /\ queue' = Tail(queue)
        /\ pools' = Append(pools, Settled(p, p.total - left, remaining,
                             IF remaining > 0 THEN "pending"
                             ELSE IF left > 0 THEN "unallocatable" ELSE "complete"))
        /\ errors' = IF remaining > 0 THEN errors \cup {"pending"} ELSE errors
  /\ UNCHANGED <<inputs, taken, losses, finished>>

(* Transfers whose pool was never opened are reported at the end.          *)
Orphans == {r \in transfers : \A k \in DOMAIN pools :
              pools[k].entry # r.entry \/ pools[k].source # r.source}
Finish ==
  /\ queue = <<>> /\ taken = Chosen /\ ~finished
  /\ finished' = TRUE
  /\ errors' = IF Orphans # {} THEN errors \cup {"orphan"} ELSE errors
  /\ UNCHANGED <<inputs, taken, queue, free, losses, pools>>

Init ==
  /\ acquired \in Acquisitions /\ transfers \in TransferSets
  /\ taken = {} /\ queue = <<>> /\ free = [s \in Skill |-> 0]
  /\ losses = {} /\ pools = <<>> /\ errors = {} /\ finished = FALSE
Next == TakeModule \/ SkipModule \/ RefusePool \/ ApplyPool \/ Finish
Spec == Init /\ [][Next]_vars

(* Nothing is wrong and nothing is left to choose: a career may begin.     *)
Complete == finished /\ errors = {} /\ ~ChoiceMissing /\ Chosen = DOMAIN acquired

-----------------------------------------------------------------------------
TypeOK ==
  /\ taken \subseteq DOMAIN acquired /\ finished \in BOOLEAN
  /\ free \in [Skill -> Nat]
  /\ errors \subseteq {"grant", "transfer", "pending", "orphan"}

(* No skill is free beyond its cap, whatever modules, groups and transfers *)
(* raise it and in whatever order (min() of _apply_direct and              *)
(* _apply_knowledge, the capacity test of both _allocate functions): the   *)
(* career snapshot is refused by its validator otherwise.                  *)
CapHolds == \A s \in Skill : free[s] <= Cap(s)

(* Every level the modules gave is accounted for at every moment: it is    *)
(* free on a skill, lost, or still in a pool, and no level is there twice. *)
LevelsConserved ==
  LET Given == [i \in taken |-> IF StageOf[acquired[i].module] \in Stages
                                THEN Total([s \in Skill |-> Amount(acquired[i], s)]) ELSE 0]
  IN Total(Given) =
       Total(free)
     + Total([l \in losses |-> l.levels])
     + Total([k \in DOMAIN pools |-> pools[k].remaining + pools[k].unallocatable])
     + Total([k \in DOMAIN queue |-> queue[k].total])

(* When the levels are complete every saved transfer has been applied, by  *)
(* one pool and in full; a transfer the player saved is never passed over  *)
(* in silence.                                                             *)
CompleteMeansApplied == Complete =>
  /\ Total([k \in DOMAIN pools |-> pools[k].allocated]) = Ranks(transfers)
  /\ \A k \in DOMAIN pools : pools[k].remaining = 0 /\ ~pools[k].provisional

(* Levels are given up as unallocatable only when nothing could take them, *)
(* and that judgement, made when the pool was settled, is still right when *)
(* every later module has been taken.                                      *)
NothingGivenUpWithRoom == Complete => \A k \in DOMAIN pools :
  pools[k].unallocatable > 0 =>
    \A s \in Candidates(pools[k]) : s \notin Exotic /\ free[s] = Cap(s)

(* The free levels are levels: of a kind, and none beyond its cap.         *)
FreeLevelsOK == TypeOK /\ CapHolds

(* A career begins, for good, with every saved transfer applied and with   *)
(* nothing given up that could have gone somewhere.                        *)
CompleteIsFinal == CompleteMeansApplied /\ NothingGivenUpWithRoom
=============================================================================
