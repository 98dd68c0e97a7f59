------------------------ MODULE RulesetTalent_proofs ------------------------
(***************************************************************************)
(* Proofs about the rules a character is computed under.                   *)
(*                                                                         *)
(* Ruleset, for every number of picks at once, every set of files, presets *)
(* and folders.  CarriesItsMerge is not inductive: a hash travels in the   *)
(* body of a chain, through the editor, before the character has it, so    *)
(* the invariant says of every chain what it may still send.               *)
(*                                                                         *)
(* TalentPatch, for every pair of tables a patch and the computation after *)
(* it may read: what the first chooses, the second offers too.             *)
(***************************************************************************)
EXTENDS Ruleset, TalentPatch, Aggregates_proofs

\* The hash in r, if it has one, is of a merge in m.
Carried(r, m) == r.dataset # None /\ r.dirs # NoDirs => << r.dataset, r.dirs >> \in m

\* A body that is sent says nothing of custom data, or carries its own merge.
Sendable(body, m) ==
  \/ DOMAIN body \subseteq {"name", "knob"}
  \/ DOMAIN body = Fields /\ Carried(body, m)

\* What a chain holds is fit for what it will become.
ChainOK(t, m) ==
  /\ t.pc = "sent" => Sendable(t.body, m)
  /\ t.pc \in {"parsing", "recalling"} => t.body \in File
  /\ t.pc = "recalling" => t.hand = None
  /\ t.pc \in {"reading", "remembering"} => DOMAIN t.seen = Fields /\ t.pick \in Picks
  /\ t.pc = "style" => t.todo \in Seq(File) /\ t.todo # << >>
  /\ t.pc = "merging" => DOMAIN t.body = Fields /\ (t.plain = None \/ t.plain \in File)

IInv ==
  /\ DOMAIN ruleset = Fields
  /\ Carried(ruleset, merges)
  /\ DOMAIN task = Slot
  /\ \A s \in Slot : ChainOK(task[s], merges)

-----------------------------------------------------------------------------

\* What was merged stays merged.
LEMMA MoreMerges ==
  ASSUME NEW m, NEW n, m \subseteq n, NEW t, ChainOK(t, m)
  PROVE  ChainOK(t, n)
BY DEF ChainOK, Sendable, Carried

\* A chain that moves on to something sound leaves every chain sound.
LEMMA MoveKeeps ==
  ASSUME NEW s \in Slot, NEW t, DOMAIN task = Slot, Move(s, t),
         merges \subseteq merges', ChainOK(t, merges'),
         \A x \in Slot : ChainOK(task[x], merges)
  PROVE  DOMAIN task' = Slot /\ \A x \in Slot : ChainOK(task'[x], merges')
<1>1. task' = [task EXCEPT ![s] = t]
  BY DEF Move
<1>2. DOMAIN task' = Slot
  BY <1>1
<1>3. ASSUME NEW x \in Slot PROVE ChainOK(task'[x], merges')
  <2>1. CASE x = s
    BY <2>1, <1>1
  <2>2. CASE x # s
    <3>1. task'[x] = task[x]
      BY <2>2, <1>1
    <3>2. QED
      BY <3>1, MoreMerges
  <2>3. QED
    BY <2>1, <2>2
<1>4. QED
  BY <1>2, <1>3

\* A settings file that was parsed says nothing of a merge yet.
LEMMA FileIsSendable ==
  ASSUME NEW f \in File, NEW m
  PROVE  Sendable(f, m) /\ DOMAIN f = Fields
<1>1. f = [name |-> f.name, knob |-> f.knob, dirs |-> f.dirs, dataset |-> None]
  BY RulesetAssumption
<1>2. DOMAIN f = Fields /\ f.dataset = None
  BY <1>1 DEF Fields
<1> QED
  BY <1>2 DEF Sendable, Carried

LEMMA IdleIsSound ==
  ASSUME NEW m PROVE ChainOK(Idle, m)
BY DEF ChainOK, Idle

LEMMA SentIsSound ==
  ASSUME NEW m, NEW body, Sendable(body, m) PROVE ChainOK(Sent(body), m)
BY DEF ChainOK, Sent

LEMMA MergingIsSound ==
  ASSUME NEW m, NEW body, NEW have, NEW plain, DOMAIN body = Fields, plain = None \/ plain \in File
  PROVE  ChainOK(Merging(body, have, plain), m)
BY DEF ChainOK, Merging

\* apply, of a file or of a preset, leaves every chain sound.
LEMMA ApplyKeeps ==
  ASSUME IInv, merges' = merges, NEW s \in Slot, NEW have, NEW hand,
         NEW body \in File \cup {PresetSettings(p) : p \in Preset},
         have = None => hand = None, Apply(s, body, have, hand)
  PROVE  DOMAIN task' = Slot /\ \A x \in Slot : ChainOK(task'[x], merges')
<1>1. Sendable(body, merges')
  <2>1. CASE body \in File
    BY <2>1, FileIsSendable
  <2>2. CASE body \notin File
    <3>1. PICK p \in Preset : body = PresetSettings(p)
      BY <2>2
    <3>2. DOMAIN body \subseteq {"name", "knob"}
      BY <3>1 DEF PresetSettings
    <3>3. QED
      BY <3>2 DEF Sendable
  <2>3. QED
    BY <2>1, <2>2
<1>2. ASSUME Wanted(body) # NoDirs PROVE body \in File
  <2>1. "dirs" \in DOMAIN body
    BY <1>2 DEF Wanted
  <2>2. \A p \in Preset : "dirs" \notin DOMAIN PresetSettings(p)
    BY DEF PresetSettings
  <2>3. QED
    BY <2>1, <2>2
<1>3. CASE Wanted(body) = NoDirs
  <2>1. Move(s, Sent(body))
    BY <1>3 DEF Apply
  <2>2. QED
    BY <2>1, <1>1, SentIsSound, MoveKeeps DEF IInv
<1>4. CASE Wanted(body) # NoDirs /\ have # None
  <2>1. Move(s, Merging(body, have, body))
    BY <1>4 DEF Apply
  <2>2. ChainOK(Merging(body, have, body), merges')
    BY <1>4, <1>2, FileIsSendable, MergingIsSound
  <2>3. QED
    BY <2>1, <2>2, MoveKeeps DEF IInv
<1>5. CASE Wanted(body) # NoDirs /\ have = None
  <2>1. Move(s, [pc |-> "recalling", body |-> body, hand |-> hand])
    BY <1>5 DEF Apply
  <2>2. ChainOK([pc |-> "recalling", body |-> body, hand |-> hand], merges')
    BY <1>5, <1>2 DEF ChainOK
  <2>3. QED
    BY <2>1, <2>2, MoveKeeps DEF IInv
<1>6. QED
  BY <1>3, <1>4, <1>5

\* A body that may be sent leaves the character a ruleset that carries its merge.
LEMMA MergedCarries ==
  ASSUME NEW body, NEW m, DOMAIN ruleset = Fields, Carried(ruleset, m), Sendable(body, m)
  PROVE  DOMAIN Merged(body) = Fields /\ Carried(Merged(body), m)
<1>1. DOMAIN Merged(body) = Fields
  BY DEF Merged, Fields
<1>2. Merged(body).dirs = Laid(body, "dirs") /\ Merged(body).dataset = Laid(body, "dataset")
  BY DEF Merged
<1>3. CASE DOMAIN body \subseteq {"name", "knob"}
  BY <1>1, <1>2, <1>3 DEF Laid, Carried
<1>4. CASE DOMAIN body = Fields /\ Carried(body, m)
  BY <1>1, <1>2, <1>4 DEF Laid, Carried, Fields
<1>5. QED
  BY <1>3, <1>4 DEF Sendable

-----------------------------------------------------------------------------

LEMMA InitIInv == Init => IInv
<1> SUFFICES ASSUME Init PROVE IInv
  OBVIOUS
<1>1. DOMAIN ruleset = Fields /\ ruleset.dataset = None
  BY DEF Init, Unset, Fields
<1>2. DOMAIN task = Slot /\ \A s \in Slot : task[s] = Idle
  BY DEF Init, Idle
<1>3. QED
  BY <1>1, <1>2, IdleIsSound DEF IInv, Carried

\* A step of a chain that does not touch the character.
LEMMA ChainStep ==
  ASSUME IInv, NEW s \in Slot, NEW t, Move(s, t), ChainOK(t, merges'),
         UNCHANGED ruleset, merges \subseteq merges'
  PROVE  IInv'
<1>1. DOMAIN task' = Slot /\ \A x \in Slot : ChainOK(task'[x], merges')
  BY MoveKeeps DEF IInv
<1>2. Carried(ruleset', merges')
  BY DEF IInv, Carried
<1>3. QED
  BY <1>1, <1>2 DEF IInv

LEMMA NextIInv == IInv /\ [Next]_vars => IInv'
<1> SUFFICES ASSUME IInv, [Next]_vars PROVE IInv'
  OBVIOUS
<1>1. CASE UNCHANGED vars
  BY <1>1 DEF IInv, vars
<1>2. CASE Tick
  <2>1. Sendable([ruleset EXCEPT !.name = Unnamed], merges)
    BY DEF IInv, Sendable, Carried, Fields
  <2>2. DOMAIN ruleset' = Fields /\ Carried(ruleset', merges)
    BY <1>2, <2>1, MergedCarries DEF Tick, IInv
  <2>3. QED
    BY <1>2, <2>2 DEF Tick, IInv
<1>3. CASE Reload
  <2>1. DOMAIN task' = Slot /\ \A s \in Slot : task'[s] = Idle
    BY <1>3 DEF Reload
  <2>2. QED
    BY <1>3, <2>1, IdleIsSound DEF Reload, IInv
<1>4. ASSUME NEW s \in Slot, PickNothing(s) \/ Forget(s) PROVE IInv'
  <2>1. Sendable([name |-> Unnamed], merges')
    BY DEF Sendable
  <2>2. QED
    BY <1>4, <2>1, SentIsSound, ChainStep DEF PickNothing, Forget
<1>5. ASSUME NEW s \in Slot, NEW b \in File \cup {PresetSettings(p) : p \in Preset}, PickNamed(s, b)
      PROVE  IInv'
  BY <1>5, ApplyKeeps DEF PickNamed, IInv
<1>6. ASSUME NEW s \in Slot, NEW f \in File, LoadFile(s, f) PROVE IInv'
  <2>1. Move(s, [pc |-> "parsing", body |-> f, hand |-> folder])
    BY <1>6 DEF LoadFile
  <2>2. ChainOK([pc |-> "parsing", body |-> f, hand |-> folder], merges')
    BY DEF ChainOK
  <2>3. QED
    BY <1>6, <2>1, <2>2, ChainStep DEF LoadFile
<1>7. ASSUME NEW s \in Slot, NEW k \in Picks, LoadStyle(s, k) PROVE IInv'
  <2> DEFINE t == [pc |-> "reading", pick |-> k, hand |-> folder, seen |-> ruleset]
  <2>1. Move(s, t)
    BY <1>7 DEF LoadStyle
  <2>2. ChainOK(t, merges')
    BY DEF ChainOK, IInv
  <2>3. QED
    BY <1>7, <2>1, <2>2, ChainStep DEF LoadStyle
<1>8. ASSUME NEW s \in Slot, Recalled(s) PROVE IInv'
  <2>1. task[s].body \in File
    BY <1>8 DEF Recalled, IInv, ChainOK
  <2>2. CASE kept.folder = None
    BY <1>8, <2>1, <2>2, FileIsSendable, SentIsSound, ChainStep DEF Recalled
  <2>3. CASE kept.folder # None
    BY <1>8, <2>1, <2>3, FileIsSendable, MergingIsSound, ChainStep DEF Recalled
  <2>4. QED
    BY <2>2, <2>3
<1>9. ASSUME NEW s \in Slot, MergeAnswered(s) PROVE IInv'
  <2> DEFINE body == [task[s].body EXCEPT !.dataset = task[s].have]
  <2>1. DOMAIN task[s].body = Fields
    BY <1>9 DEF MergeAnswered, IInv, ChainOK
  <2>2. DOMAIN body = Fields /\ body.dataset = task[s].have /\ body.dirs = task[s].body.dirs
    BY <2>1 DEF Fields
  <2>3. << task[s].have, task[s].body.dirs >> \in merges' /\ merges \subseteq merges'
    BY <1>9 DEF MergeAnswered
  <2>4. Sendable(body, merges')
    BY <2>2, <2>3 DEF Sendable, Carried
  <2>5. Move(s, Sent(body)) /\ UNCHANGED ruleset
    BY <1>9 DEF MergeAnswered
  <2>6. QED
    BY <2>3, <2>4, <2>5, SentIsSound, ChainStep
<1>10. ASSUME NEW s \in Slot, MergeFails(s) PROVE IInv'
  <2>1. task[s].plain = None \/ task[s].plain \in File
    BY <1>10 DEF MergeFails, IInv, ChainOK
  <2>2. CASE task[s].plain = None
    BY <1>10, <2>2, IdleIsSound, ChainStep DEF MergeFails
  <2>3. CASE task[s].plain # None
    BY <1>10, <2>1, <2>3, FileIsSendable, SentIsSound, ChainStep DEF MergeFails
  <2>4. QED
    BY <2>2, <2>3
<1>11. ASSUME NEW s \in Slot, Landed(s) PROVE IInv'
  <2>1. Sendable(task[s].body, merges)
    BY <1>11 DEF Landed, IInv, ChainOK
  <2>2. DOMAIN ruleset' = Fields /\ Carried(ruleset', merges)
    BY <1>11, <2>1, MergedCarries DEF Landed, IInv
  <2>3. DOMAIN task' = Slot /\ \A x \in Slot : ChainOK(task'[x], merges')
    BY <1>11, IdleIsSound, MoveKeeps DEF Landed, IInv
  <2>4. QED
    BY <1>11, <2>2, <2>3 DEF Landed, IInv
<1>12. ASSUME NEW s \in Slot, Parsed(s) PROVE IInv'
  <2>1. task[s].body \in File
    BY <1>12 DEF Parsed, IInv, ChainOK
  <2>2. QED
    BY <1>12, <2>1, ApplyKeeps DEF Parsed, IInv
<1>13. ASSUME NEW s \in Slot, NEW t, t.pick \in Picks, DOMAIN t.seen = Fields, Onward(s, t),
              UNCHANGED << ruleset, merges >>
       PROVE  IInv'
  <2>1. CASE t.pick.settings = << >> /\ t.seen.dirs = NoDirs
    BY <1>13, <2>1, IdleIsSound, ChainStep DEF Onward, Bare
  <2>2. CASE t.pick.settings = << >> /\ t.seen.dirs # NoDirs
    BY <1>13, <2>2, MergingIsSound, ChainStep DEF Onward, Bare
  <2>3. CASE t.pick.settings # << >>
    <3> DEFINE u == [pc |-> "style", pick |-> t.pick, hand |-> t.hand, todo |-> t.pick.settings]
    <3>1. t.pick.settings \in Seq(File)
      BY <1>13, RulesetAssumption
    <3>2. ChainOK(u, merges')
      BY <2>3, <3>1 DEF ChainOK
    <3>3. Move(s, u)
      BY <1>13, <2>3 DEF Onward
    <3>4. QED
      BY <1>13, <3>2, <3>3, ChainStep
  <2>4. QED
    BY <2>1, <2>2, <2>3
<1>14. ASSUME NEW s \in Slot, StyleRead(s) PROVE IInv'
  <2>1. task[s].pick \in Picks /\ DOMAIN task[s].seen = Fields
    BY <1>14 DEF StyleRead, IInv, ChainOK
  <2>2. CASE task[s].pick.folder = None
    BY <1>14, <2>1, <2>2, <1>13 DEF StyleRead
  <2>3. CASE task[s].pick.folder # None
    <3> DEFINE u == [task[s] EXCEPT !.pc = "remembering"]
    <3>1. Move(s, u) /\ UNCHANGED << ruleset, merges >>
      BY <1>14, <2>3 DEF StyleRead
    <3>2. ChainOK(u, merges')
      BY <1>14, <2>1 DEF ChainOK, StyleRead, IInv
    <3>3. QED
      BY <3>1, <3>2, ChainStep
  <2>4. QED
    BY <2>2, <2>3
<1>15. ASSUME NEW s \in Slot, Remembered(s) PROVE IInv'
  <2>1. task[s].pick \in Picks /\ DOMAIN task[s].seen = Fields
    BY <1>15 DEF Remembered, IInv, ChainOK
  <2>2. QED
    BY <1>15, <2>1, <1>13 DEF Remembered
<1>16. ASSUME NEW s \in Slot, StyleParsed(s) PROVE IInv'
  <2> DEFINE t == task[s]
  <2>1. t.todo \in Seq(File) /\ t.todo # << >>
    BY <1>16 DEF StyleParsed, IInv, ChainOK
  <2>2. Head(t.todo) \in File /\ Tail(t.todo) \in Seq(File)
    BY <2>1
  <2>3. CASE Tail(t.todo) # << >>
    <3> DEFINE u == [t EXCEPT !.todo = Tail(t.todo)]
    <3>1. Move(s, u) /\ UNCHANGED << ruleset, merges >>
      BY <1>16, <2>3 DEF StyleParsed
    <3>2. ChainOK(u, merges')
      BY <1>16, <2>2, <2>3 DEF ChainOK, StyleParsed
    <3>3. QED
      BY <3>1, <3>2, ChainStep
  <2>4. CASE Tail(t.todo) = << >> /\ Len(t.pick.settings) = 1
    <3>1. Apply(s, Head(t.todo), InHand(t), t.hand) /\ UNCHANGED << ruleset, merges >>
      BY <1>16, <2>4 DEF StyleParsed
    <3>2. InHand(t) = None => t.hand = None
      BY DEF InHand
    <3>3. QED
      BY <3>1, <3>2, <2>2, ApplyKeeps DEF IInv
  <2>5. CASE Tail(t.todo) = << >> /\ Len(t.pick.settings) # 1
    BY <1>16, <2>5, IdleIsSound, ChainStep DEF StyleParsed
  <2>6. QED
    BY <2>3, <2>4, <2>5
<1>17. ASSUME NEW s \in Slot, PickFails(s) PROVE IInv'
  BY <1>17, IdleIsSound, ChainStep DEF PickFails
<1>18. QED
  BY <1>1, <1>2, <1>3, <1>4, <1>5, <1>6, <1>7, <1>8, <1>9, <1>10, <1>11, <1>12,
     <1>14, <1>15, <1>16, <1>17 DEF Next

\* However picks overlap and whichever of them fail, the hash a character
\* carries is of a folder merged with the directories it carries
\* (useRulesetLoader.ts, characters.py).
THEOREM RulesetCarriesItsMerge == Spec => []CarriesItsMerge
<1>1. IInv => CarriesItsMerge
  BY DEF IInv, Carried, CarriesItsMerge
<1>2. QED
  BY <1>1, InitIInv, NextIInv, PTL DEF Spec

-----------------------------------------------------------------------------
(* The folder at hand *)

\* One chain goes on; the others are as they were.
LEMMA OthersStay ==
  ASSUME NEW s \in Slot, NEW t, DOMAIN task = Slot, Move(s, t)
  PROVE  task'[s] = t /\ \A x \in Slot \ {s} : task'[x] = task[x]
BY DEF Move

\* What s sends for, without the folder it names, was looked for first.
AskedFor(s) ==
  task[s].pc # "sent" /\ task'[s].pc = "sent" /\ Wanted(task'[s].body) # NoDirs
      /\ task'[s].body.dataset = None =>
    \/ task[s].pc = "merging"
    \/ task[s].pc = "recalling" /\ task[s].hand = None /\ kept.folder = None

\* A step that moves s on to t, and answers for t, answers for every chain.
LEMMA MoveAsks ==
  ASSUME IInv, NEW s \in Slot, NEW t, Move(s, t),
         t.pc = "sent" /\ Wanted(t.body) # NoDirs =>
           \/ task[s].pc = "merging"
           \/ task[s].pc = "recalling" /\ task[s].hand = None /\ kept.folder = None
  PROVE  \A x \in Slot : AskedFor(x)
<1>1. task'[s] = t /\ \A x \in Slot \ {s} : task'[x] = task[x]
  BY OthersStay DEF IInv
<1> SUFFICES ASSUME NEW x \in Slot PROVE AskedFor(x)
  OBVIOUS
<1>2. CASE x = s
  BY <1>1, <1>2 DEF AskedFor
<1>3. CASE x # s
  BY <1>1, <1>3 DEF AskedFor
<1>4. QED
  BY <1>2, <1>3

\* apply sends at once only what names no custom data.
LEMMA ApplyAsks ==
  ASSUME IInv, NEW s \in Slot, NEW body, NEW have, NEW hand, Apply(s, body, have, hand)
  PROVE  \A x \in Slot : AskedFor(x)
<1>1. CASE Wanted(body) = NoDirs
  <2>1. Move(s, Sent(body))
    BY <1>1 DEF Apply
  <2>2. Sent(body).body = body
    BY DEF Sent
  <2>3. QED
    BY <1>1, <2>1, <2>2, MoveAsks
<1>2. CASE Wanted(body) # NoDirs /\ have # None
  <2>1. Move(s, Merging(body, have, body)) /\ Merging(body, have, body).pc # "sent"
    BY <1>2 DEF Apply, Merging
  <2>2. QED
    BY <2>1, MoveAsks
<1>3. CASE Wanted(body) # NoDirs /\ have = None
  <2> DEFINE t == [pc |-> "recalling", body |-> body, hand |-> hand]
  <2>1. Move(s, t) /\ t.pc # "sent"
    BY <1>3 DEF Apply
  <2>2. QED
    BY <2>1, MoveAsks
<1>4. QED
  BY <1>1, <1>2, <1>3

LEMMA OnwardAsks ==
  ASSUME IInv, NEW s \in Slot, NEW t, Onward(s, t)
  PROVE  \A x \in Slot : AskedFor(x)
<1>1. \E u : Move(s, u) /\ u.pc # "sent"
  BY DEF Onward, Bare, Idle, Merging
<1>2. QED
  BY <1>1, MoveAsks

LEMMA NextAsks == IInv /\ [Next]_vars => \A x \in Slot : AskedFor(x)
<1> SUFFICES ASSUME IInv, [Next]_vars PROVE \A x \in Slot : AskedFor(x)
  OBVIOUS
<1>1. CASE UNCHANGED task
  BY <1>1 DEF AskedFor
<1>2. CASE Reload
  <2>1. \A x \in Slot : task'[x].pc = "idle"
    BY <1>2 DEF Reload, Idle
  <2>2. QED
    BY <2>1 DEF AskedFor
<1>3. ASSUME NEW s \in Slot, PickNothing(s) \/ Forget(s) PROVE \A x \in Slot : AskedFor(x)
  <2> DEFINE b == [name |-> Unnamed]
  <2>1. Move(s, Sent(b))
    BY <1>3 DEF PickNothing, Forget
  <2>2. Sent(b).body = b /\ "dirs" \notin DOMAIN b
    BY DEF Sent
  <2>3. Wanted(Sent(b).body) = NoDirs
    BY <2>2 DEF Wanted
  <2>4. QED
    BY <2>1, <2>3, MoveAsks
<1>4. ASSUME NEW s \in Slot,
             \/ \E b \in File \cup {PresetSettings(p) : p \in Preset} : PickNamed(s, b)
             \/ Parsed(s)
      PROVE  \A x \in Slot : AskedFor(x)
  BY <1>4, ApplyAsks DEF PickNamed, Parsed
<1>5. ASSUME NEW s \in Slot, \E u : Move(s, u) /\ u.pc # "sent"
      PROVE  \A x \in Slot : AskedFor(x)
  BY <1>5, MoveAsks
<1>6. ASSUME NEW s \in Slot,
             \/ \E f \in File : LoadFile(s, f)
             \/ \E k \in Picks : LoadStyle(s, k)
             \/ PickFails(s)
      PROVE  \A x \in Slot : AskedFor(x)
  <2>1. CASE \E f \in File : LoadFile(s, f)
    <3>1. PICK f \in File : LoadFile(s, f)
      BY <2>1
    <3> DEFINE u == [pc |-> "parsing", body |-> f, hand |-> folder]
    <3>2. Move(s, u) /\ u.pc # "sent"
      BY <3>1 DEF LoadFile
    <3>3. QED
      BY <3>2, <1>5
  <2>2. CASE \E k \in Picks : LoadStyle(s, k)
    <3>1. PICK k \in Picks : LoadStyle(s, k)
      BY <2>2
    <3> DEFINE u == [pc |-> "reading", pick |-> k, hand |-> folder, seen |-> ruleset]
    <3>2. Move(s, u) /\ u.pc # "sent"
      BY <3>1 DEF LoadStyle
    <3>3. QED
      BY <3>2, <1>5
  <2>3. CASE PickFails(s)
    <3>1. Move(s, Idle) /\ Idle.pc # "sent"
      BY <2>3 DEF PickFails, Idle
    <3>2. QED
      BY <3>1, <1>5
  <2>4. QED
    BY <1>6, <2>1, <2>2, <2>3
<1>7. ASSUME NEW s \in Slot, Recalled(s) PROVE \A x \in Slot : AskedFor(x)
  <2>1. task[s].pc = "recalling" /\ task[s].hand = None
    BY <1>7 DEF Recalled, IInv, ChainOK
  <2>2. CASE kept.folder = None
    BY <1>7, <2>1, <2>2, MoveAsks DEF Recalled
  <2>3. CASE kept.folder # None
    <3>1. \E u : Move(s, u) /\ u.pc # "sent"
      BY <1>7, <2>3 DEF Recalled, Merging
    <3>2. QED
      BY <3>1, <1>5
  <2>4. QED
    BY <2>2, <2>3
<1>8. ASSUME NEW s \in Slot, MergeAnswered(s) \/ MergeFails(s) PROVE \A x \in Slot : AskedFor(x)
  <2>1. task[s].pc = "merging" /\ \E u : Move(s, u)
    BY <1>8 DEF MergeAnswered, MergeFails
  <2>2. QED
    BY <2>1, MoveAsks
<1>9. ASSUME NEW s \in Slot, Landed(s) PROVE \A x \in Slot : AskedFor(x)
  <2>1. Move(s, Idle) /\ Idle.pc # "sent"
    BY <1>9 DEF Landed, Idle
  <2>2. QED
    BY <2>1, <1>5
<1>10. ASSUME NEW s \in Slot, StyleRead(s) PROVE \A x \in Slot : AskedFor(x)
  <2>1. CASE task[s].pick.folder = None
    BY <1>10, <2>1, OnwardAsks DEF StyleRead
  <2>2. CASE task[s].pick.folder # None
    <3> DEFINE u == [task[s] EXCEPT !.pc = "remembering"]
    <3>1. Move(s, u) /\ task[s].pc = "reading"
      BY <1>10, <2>2 DEF StyleRead
    <3>2. u.pc # "sent"
      BY <3>1
    <3>3. QED
      BY <3>1, <3>2, <1>5
  <2>3. QED
    BY <2>1, <2>2
<1>11. ASSUME NEW s \in Slot, Remembered(s) PROVE \A x \in Slot : AskedFor(x)
  BY <1>11, OnwardAsks DEF Remembered
<1>12. ASSUME NEW s \in Slot, StyleParsed(s) PROVE \A x \in Slot : AskedFor(x)
  <2> DEFINE t == task[s]
  <2>1. CASE Tail(t.todo) # << >>
    <3> DEFINE u == [t EXCEPT !.todo = Tail(t.todo)]
    <3>1. Move(s, u) /\ t.pc = "style"
      BY <1>12, <2>1 DEF StyleParsed
    <3>2. u.pc # "sent"
      BY <3>1
    <3>3. QED
      BY <3>1, <3>2, <1>5
  <2>2. CASE Tail(t.todo) = << >> /\ Len(t.pick.settings) = 1
    BY <1>12, <2>2, ApplyAsks DEF StyleParsed
  <2>3. CASE Tail(t.todo) = << >> /\ Len(t.pick.settings) # 1
    <3>1. Move(s, Idle) /\ Idle.pc # "sent"
      BY <1>12, <2>3 DEF StyleParsed, Idle
    <3>2. QED
      BY <3>1, <1>5
  <2>4. QED
    BY <2>1, <2>2, <2>3
<1>13. QED
  BY <1>1, <1>2, <1>3, <1>4, <1>6, <1>7, <1>8, <1>9, <1>10, <1>11, <1>12 DEF Next, Tick, vars

\* However picks overlap, a ruleset that names custom data goes out bare only
\* when neither the page nor the browser had a folder, or the merge failed
\* (useRulesetLoader.ts: apply, recallFolder, applyStyle).
THEOREM RulesetFolderIsNotAskedTwice == Spec => FolderIsNotAskedTwice
<1>1. IInv /\ [Next]_vars =>
        \A s \in Slot :
          LET t == task'[s]
          IN  task[s].pc # "sent" /\ t.pc = "sent" /\ Wanted(t.body) # NoDirs /\ t.body.dataset = None =>
                \/ task[s].pc = "merging"
                \/ task[s].pc = "recalling" /\ task[s].hand = None /\ kept.folder = None
  BY NextAsks DEF AskedFor
<1>2. QED
  BY <1>1, InitIInv, NextIInv, PTL DEF Spec, FolderIsNotAskedTwice

-----------------------------------------------------------------------------
(* The pulldown, and whole rulesets                                        *)

FileNames == {f.name : f \in File}
Names     == {Unnamed} \cup {b.name : b \in File \cup Preset}
Knobs     == {Printed} \cup {b.knob : b \in File \cup Preset}

\* Numbers and directories of r are those of one of the files it is named after.
Whole(r) ==
  \A f \in File :
    r.name = f.name => \E g \in File : /\ g.name = f.name
                                       /\ r.knob = g.knob /\ r.dirs = g.dirs

\* What is sent is a whole ruleset, or a name that no file has and perhaps a number.
SoundBody(b) ==
  \/ b \in Settings /\ Whole(b)
  \/ /\ DOMAIN b \subseteq {"name", "knob"} /\ "name" \in DOMAIN b
     /\ b.name \in Names \ FileNames
     /\ "knob" \in DOMAIN b => b.knob \in Knobs

Folders == Folder \cup {None}

ChainSound(t) ==
  /\ t.pc \in {"idle", "parsing", "reading", "remembering", "style", "recalling", "merging", "sent"}
  /\ t.pc = "sent" => SoundBody(t.body)
  /\ t.pc \in {"parsing", "recalling"} => t.body \in File
  /\ t.pc \in {"parsing", "reading", "remembering", "style"} => t.hand \in Folders
  /\ t.pc \in {"reading", "remembering", "style"} => t.pick \in Picks
  /\ t.pc \in {"reading", "remembering"} => t.seen \in Settings /\ Whole(t.seen)
  /\ t.pc = "style" => t.todo \in Seq(File) /\ t.todo # << >>
  /\ t.pc = "merging" =>
       /\ t.body \in Settings /\ Whole(t.body)
       /\ t.have \in Folders
       /\ t.plain = None \/ t.plain \in File

RInv ==
  /\ ruleset \in Settings /\ Whole(ruleset)
  /\ Shelf(files)
  /\ folder \in Folders
  /\ kept \in [files : Seq(File), folder : Folders] /\ Shelf(kept.files)
  /\ acts \in 0 .. MaxActs
  /\ DOMAIN task = Slot
  /\ \A s \in Slot : ChainSound(task[s])

\* The pulldown knows a ruleset by its name alone: a file that is called like a
\* shipped preset, or like none, is not told apart from it.
NamesApart == (\A f \in File, p \in Preset : f.name # p.name) /\ Unnamed \notin FileNames

-----------------------------------------------------------------------------

\* What is left of a shelf without a name is a shelf without it.
LEMMA WithoutIsShelf ==
  ASSUME NEW list, Shelf(list), NEW name
  PROVE  /\ Shelf(Without(list, name))
         /\ \A i \in DOMAIN Without(list, name) : Without(list, name)[i].name # name
<1> DEFINE others == {f \in File : f.name # name}
           p == Picked(list, others)
<1>1. list \in Seq(File) /\ Len(list) <= MAX
  BY DEF Shelf
<1>2. Without(list, name) = p
  BY DEF Without
<1> HIDE DEF p
<1>3. p \in Seq(File) /\ Len(p) <= Len(list)
  BY <1>1, PickedProperties DEF p
<1>4. PICK e : Embedded(e, p, list, others, Len(list))
  BY <1>1, PickedProperties DEF p
<1>5. DOMAIN p = 1 .. Len(p) /\ DOMAIN list = 1 .. Len(list) /\ Len(p) \in Nat /\ Len(list) \in Nat
  BY <1>1, <1>3
<1>6. \A j \in DOMAIN p : e[j] \in DOMAIN list /\ p[j] = list[e[j]] /\ p[j].name # name
  BY <1>4, <1>5 DEF Embedded
<1>7. \A j, k \in DOMAIN p : j < k => e[j] < e[k]
  BY <1>4, <1>5 DEF Embedded
<1>8. ASSUME NEW j \in DOMAIN p, NEW k \in DOMAIN p, p[j].name = p[k].name PROVE j = k
  <2>1. e[j] = e[k]
    BY <1>6, <1>8 DEF Shelf
  <2>2. j \in Nat /\ k \in Nat /\ e[j] \in Nat
    BY <1>5, <1>6
  <2>3. ~(j < k) /\ ~(k < j)
    BY <1>7, <2>1, <2>2
  <2>4. QED
    BY <2>2, <2>3
<1>9. Len(p) <= MAX
  BY <1>1, <1>3, <1>5, RulesetAssumption
<1>10. QED
  BY <1>2, <1>3, <1>6, <1>8, <1>9 DEF Shelf

\* saveSettingsFile: the newest of its name, in front, and no more than fit.
LEMMA SavedIsShelf ==
  ASSUME NEW list, Shelf(list), NEW f \in File
  PROVE  Shelf(Saved(list, f))
<1> DEFINE w == Without(list, f.name)
           a == << f >>
           next == a \o w
           m == IF Len(next) < MAX THEN Len(next) ELSE MAX
           t == SubSeq(next, 1, m)
<1>1. Shelf(w) /\ \A i \in DOMAIN w : w[i].name # f.name
  BY WithoutIsShelf
<1>2. Saved(list, f) = t
  BY DEF Saved
<1> HIDE DEF w
<1>3. w \in Seq(File) /\ Len(w) \in Nat /\ DOMAIN w = 1 .. Len(w)
  BY <1>1 DEF Shelf
<1>4. a \in Seq(File) /\ Len(a) = 1 /\ a[1] = f
  OBVIOUS
<1> HIDE DEF a
<1>5. /\ next \in Seq(File) /\ Len(next) = 1 + Len(w)
      /\ \A j \in 1 .. 1 + Len(w) : next[j] = IF j <= 1 THEN a[j] ELSE w[j - 1]
  <2>1. /\ next \in Seq(File) /\ Len(next) = Len(a) + Len(w)
        /\ \A j \in 1 .. Len(a) + Len(w) :
             next[j] = IF j <= Len(a) THEN a[j] ELSE w[j - Len(a)]
    BY <1>3, <1>4, ConcatProperties
  <2> HIDE DEF next
  <2>2. QED
    BY <1>4, <2>1
<1>6. next[1] = f /\ \A j \in 2 .. 1 + Len(w) : next[j] = w[j - 1] /\ j - 1 \in DOMAIN w
  BY <1>3, <1>4, <1>5
<1> HIDE DEF next
<1>7. \A j, k \in 1 .. 1 + Len(w) : next[j].name = next[k].name => j = k
  <2> SUFFICES ASSUME NEW j \in 1 .. 1 + Len(w), NEW k \in 1 .. 1 + Len(w),
                      next[j].name = next[k].name
               PROVE  j = k
    OBVIOUS
  <2>1. \A i \in 1 .. 1 + Len(w) : i = 1 \/ i \in 2 .. 1 + Len(w)
    BY <1>3
  <2>2. CASE j = 1 \/ k = 1
    BY <1>1, <1>6, <2>1, <2>2
  <2>3. CASE j \in 2 .. 1 + Len(w) /\ k \in 2 .. 1 + Len(w)
    <3>1. j - 1 = k - 1
      BY <1>1, <1>6, <2>3 DEF Shelf
    <3>2. QED
      BY <3>1, <2>3, <1>3
  <2>4. QED
    BY <2>1, <2>2, <2>3
<1>8. MAX \in Nat \ {0}
  BY RulesetAssumption
<1>9. m \in 1 .. Len(next) /\ m <= MAX
  BY <1>3, <1>5, <1>8
<1> HIDE DEF m
<1>10. t \in Seq(File) /\ Len(t) = m /\ \A j \in 1 .. m : t[j] = next[j]
  <2>1. \A j \in 1 .. m : next[j] \in File
    BY <1>5, <1>9
  <2>2. 1 \in Int /\ m \in Int
    BY <1>9
  <2>3. /\ t \in Seq(File)
        /\ Len(t) = IF 1 <= m THEN m - 1 + 1 ELSE 0
        /\ \A j \in 1 .. (m - 1 + 1) : t[j] = next[1 + j - 1]
    BY <2>1, <2>2, SubSeqProperties
  <2>4. QED
    BY <1>9, <2>3
<1> HIDE DEF t
<1>11. DOMAIN t = 1 .. m /\ 1 .. m \subseteq 1 .. 1 + Len(w)
  BY <1>3, <1>5, <1>9, <1>10
<1>12. \A j, k \in DOMAIN t : t[j].name = t[k].name => j = k
  BY <1>7, <1>10, <1>11
<1>13. QED
  BY <1>2, <1>9, <1>10, <1>12 DEF Shelf

-----------------------------------------------------------------------------

LEMMA FileIsWhole ==
  ASSUME NEW f \in File
  PROVE  f \in Settings /\ Whole(f) /\ f.name \in FileNames
<1>1. f = [name |-> f.name, knob |-> f.knob, dirs |-> f.dirs, dataset |-> None]
  BY RulesetAssumption
<1>2. [name |-> f.name, knob |-> f.knob, dirs |-> f.dirs, dataset |-> None] \in Settings
  BY DEF Settings
<1>3. QED
  BY <1>1, <1>2 DEF Whole, FileNames

\* Mending the hash leaves the rest.
LEMMA HashIsApart ==
  ASSUME NEW r \in Settings, Whole(r), NEW d \in Folders
  PROVE  [r EXCEPT !.dataset = d] \in Settings /\ Whole([r EXCEPT !.dataset = d])
BY DEF Settings, Whole, Folders

\* Outside the files' names there is nothing to hold.
LEMMA OtherNameIsWhole ==
  ASSUME NEW r, r.name \notin FileNames PROVE Whole(r)
BY DEF Whole, FileNames

LEMMA PresetIsSound ==
  ASSUME NamesApart, NEW p \in Preset
  PROVE  SoundBody(PresetSettings(p))
<1> DEFINE b == PresetSettings(p)
<1>1. /\ DOMAIN b \subseteq {"name", "knob"} /\ "name" \in DOMAIN b
      /\ b.name = p.name
      /\ "knob" \in DOMAIN b => b.knob = p.knob
  BY DEF PresetSettings
<1>2. p.name \in Names /\ p.knob \in Knobs
  BY DEF Names, Knobs
<1>3. p.name \notin FileNames
  BY DEF NamesApart, FileNames
<1> HIDE DEF b
<1>4. SoundBody(b)
  BY <1>1, <1>2, <1>3 DEF SoundBody
<1>5. QED
  BY <1>4 DEF b

LEMMA UnnamedIsSound ==
  ASSUME NamesApart PROVE SoundBody([name |-> Unnamed])
<1> DEFINE b == [name |-> Unnamed]
<1>1. DOMAIN b \subseteq {"name", "knob"} /\ "name" \in DOMAIN b /\ "knob" \notin DOMAIN b
  OBVIOUS
<1>2. b.name = Unnamed /\ Unnamed \in Names /\ Unnamed \notin FileNames
  BY DEF NamesApart, Names
<1> HIDE DEF b
<1>3. SoundBody(b)
  BY <1>1, <1>2 DEF SoundBody
<1>4. QED
  BY <1>3 DEF b

\* merge_patch: a sound body leaves the character a whole ruleset.
LEMMA MergedIsWhole ==
  ASSUME NEW b, SoundBody(b), ruleset \in Settings, Whole(ruleset)
  PROVE  Merged(b) \in Settings /\ Whole(Merged(b))
<1> DEFINE r == Merged(b)
<1>1. r = [name |-> r.name, knob |-> r.knob, dirs |-> r.dirs, dataset |-> r.dataset]
  BY DEF Merged
<1>2. /\ r.name = Laid(b, "name") /\ r.knob = Laid(b, "knob")
      /\ r.dirs = Laid(b, "dirs") /\ r.dataset = Laid(b, "dataset")
  BY DEF Merged
<1> HIDE DEF r
<1>3. CASE b \in Settings /\ Whole(b)
  <2>1. DOMAIN b = {"name", "knob", "dirs", "dataset"}
    BY <1>3 DEF Settings
  <2>2. r.name = b.name /\ r.knob = b.knob /\ r.dirs = b.dirs /\ r.dataset = b.dataset
    BY <1>2, <2>1 DEF Laid
  <2>3. r \in Settings
    BY <1>1, <1>3, <2>2 DEF Settings
  <2>4. Whole(r)
    BY <1>3, <2>2 DEF Whole
  <2>5. QED
    BY <2>3, <2>4 DEF r
<1>4. CASE /\ DOMAIN b \subseteq {"name", "knob"} /\ "name" \in DOMAIN b
           /\ b.name \in Names \ FileNames
           /\ "knob" \in DOMAIN b => b.knob \in Knobs
  <2>1. r.name = b.name /\ r.dirs = ruleset.dirs /\ r.dataset = ruleset.dataset
    BY <1>2, <1>4 DEF Laid
  <2>2. r.knob \in Knobs
    BY <1>2, <1>4 DEF Laid, Settings, Knobs
  <2>3. r \in Settings
    BY <1>1, <1>4, <2>1, <2>2 DEF Settings, Names, Knobs
  <2>4. Whole(r)
    BY <1>4, <2>1, OtherNameIsWhole
  <2>5. QED
    BY <2>3, <2>4 DEF r
<1>5. QED
  BY <1>3, <1>4 DEF SoundBody

\* A chain that moves on to something sound leaves every chain sound.
LEMMA MoveStaysSound ==
  ASSUME RInv, NEW s \in Slot, NEW t, Move(s, t), ChainSound(t)
  PROVE  DOMAIN task' = Slot /\ \A x \in Slot : ChainSound(task'[x])
<1>1. DOMAIN task = Slot /\ \A x \in Slot : ChainSound(task[x])
  BY DEF RInv
<1>2. task'[s] = t /\ \A x \in Slot \ {s} : task'[x] = task[x]
  BY <1>1, OthersStay
<1>3. DOMAIN task' = Slot
  BY <1>1 DEF Move
<1>4. QED
  BY <1>1, <1>2, <1>3

LEMMA IdleStaysSound == ChainSound(Idle)
BY DEF ChainSound, Idle

LEMMA SentStaysSound ==
  ASSUME NEW b, SoundBody(b) PROVE ChainSound(Sent(b))
BY DEF ChainSound, Sent

LEMMA MergingStaysSound ==
  ASSUME NEW b \in Settings, Whole(b), NEW have \in Folders, NEW plain, plain = None \/ plain \in File
  PROVE  ChainSound(Merging(b, have, plain))
BY DEF ChainSound, Merging

\* apply: every chain stays sound, and the folder in hand is one.
LEMMA ApplyStaysSound ==
  ASSUME RInv, NamesApart, NEW s \in Slot, NEW have \in Folders, NEW hand \in Folders,
         NEW body \in File \cup {PresetSettings(p) : p \in Preset},
         Apply(s, body, have, hand)
  PROVE  DOMAIN task' = Slot /\ (\A x \in Slot : ChainSound(task'[x])) /\ folder' \in Folders
<1>0. folder \in Folders
  BY DEF RInv
<1>1. SoundBody(body)
  BY PresetIsSound, FileIsWhole DEF SoundBody
<1>2. ASSUME Wanted(body) # NoDirs PROVE body \in File
  <2>1. "dirs" \in DOMAIN body
    BY <1>2 DEF Wanted
  <2>2. \A p \in Preset : "dirs" \notin DOMAIN PresetSettings(p)
    BY DEF PresetSettings
  <2>3. QED
    BY <2>1, <2>2
<1>3. CASE Wanted(body) = NoDirs
  <2>1. Move(s, Sent(body)) /\ folder' = folder
    BY <1>3 DEF Apply
  <2>2. QED
    BY <2>1, <1>0, <1>1, SentStaysSound, MoveStaysSound
<1>4. CASE Wanted(body) # NoDirs /\ have # None
  <2>1. Move(s, Merging(body, have, body)) /\ folder' = have
    BY <1>4 DEF Apply
  <2>2. ChainSound(Merging(body, have, body))
    BY <1>4, <1>2, FileIsWhole, MergingStaysSound
  <2>3. QED
    BY <2>1, <2>2, MoveStaysSound
<1>5. CASE Wanted(body) # NoDirs /\ have = None
  <2> DEFINE t == [pc |-> "recalling", body |-> body, hand |-> hand]
  <2>1. Move(s, t) /\ folder' = folder
    BY <1>5 DEF Apply
  <2>2. ChainSound(t)
    BY <1>5, <1>2 DEF ChainSound
  <2>3. QED
    BY <2>1, <2>2, <1>0, MoveStaysSound
<1>6. QED
  BY <1>3, <1>4, <1>5

\* applyStyle, from the files to its halves.
LEMMA OnwardStaysSound ==
  ASSUME RInv, NEW s \in Slot, NEW t, Onward(s, t),
         t.pick \in Picks, t.hand \in Folders, t.seen \in Settings, Whole(t.seen)
  PROVE  DOMAIN task' = Slot /\ \A x \in Slot : ChainSound(task'[x])
<1>1. t.pick.settings \in Seq(File) /\ t.pick.folder \in Folders
  BY RulesetAssumption DEF Folders
<1>2. CASE t.pick.settings = << >> /\ t.seen.dirs = NoDirs
  <2>1. Move(s, Idle)
    BY <1>2 DEF Onward, Bare
  <2>2. QED
    BY <2>1, IdleStaysSound, MoveStaysSound
<1>3. CASE t.pick.settings = << >> /\ t.seen.dirs # NoDirs
  <2>1. Move(s, Merging(t.seen, t.pick.folder, None))
    BY <1>3 DEF Onward, Bare
  <2>2. ChainSound(Merging(t.seen, t.pick.folder, None))
    BY <1>1, MergingStaysSound
  <2>3. QED
    BY <2>1, <2>2, MoveStaysSound
<1>4. CASE t.pick.settings # << >>
  <2> DEFINE u == [pc |-> "style", pick |-> t.pick, hand |-> t.hand, todo |-> t.pick.settings]
  <2>1. Move(s, u)
    BY <1>4 DEF Onward
  <2>2. ChainSound(u)
    BY <1>1, <1>4 DEF ChainSound
  <2>3. QED
    BY <2>1, <2>2, MoveStaysSound
<1>5. QED
  BY <1>2, <1>3, <1>4

LEMMA InitRInv == NamesApart /\ Init => RInv
<1> SUFFICES ASSUME NamesApart, Init PROVE RInv
  OBVIOUS
<1>1. Unset \in Settings /\ \A p \in Preset : [Unset EXCEPT !.name = p.name] \in Settings
  BY DEF Unset, Settings
<1>2. ruleset \in Settings
  BY <1>1 DEF Init
<1>3. ruleset.name \notin FileNames
  BY DEF Init, Unset, NamesApart, FileNames
<1>4. Shelf(<< >>)
  <2>1. << >> \in Seq(File) /\ Len(<< >>) = 0 /\ DOMAIN << >> = {}
    OBVIOUS
  <2>2. 0 <= MAX
    BY RulesetAssumption
  <2>3. QED
    BY <2>1, <2>2 DEF Shelf
<1>5. /\ kept \in [files : Seq(File), folder : Folders] /\ kept.files = << >>
      /\ files = << >> /\ folder \in Folders
  <2>1. PICK g \in Folders : kept = [files |-> << >>, folder |-> g]
    BY DEF Init, Folders
  <2>2. << >> \in Seq(File)
    OBVIOUS
  <2>3. kept \in [files : Seq(File), folder : Folders] /\ kept.files = << >>
    BY <2>1, <2>2
  <2>4. files = << >> /\ folder \in Folders
    BY DEF Init, Folders
  <2>5. QED
    BY <2>3, <2>4
<1>6. acts \in 0 .. MaxActs
  BY RulesetAssumption DEF Init
<1>7. DOMAIN task = Slot /\ \A s \in Slot : ChainSound(task[s])
  BY IdleStaysSound DEF Init, Idle
<1>8. QED
  BY <1>2, <1>3, <1>4, <1>5, <1>6, <1>7, OtherNameIsWhole DEF RInv

\* What the store keeps of a chain of files is a shelf, written or not.
LEMMA KeptStaysSound ==
  ASSUME RInv, NEW list, Shelf(list),
         kept' \in {kept, [kept EXCEPT !.files = list]}
  PROVE  kept' \in [files : Seq(File), folder : Folders] /\ Shelf(kept'.files)
BY DEF RInv, Shelf

\* A step of the user counts, and nothing else does.
LEMMA ActsStay ==
  ASSUME RInv, Act \/ UNCHANGED acts
  PROVE  acts' \in 0 .. MaxActs
BY RulesetAssumption DEF RInv, Act

LEMMA NextRInv == NamesApart /\ RInv /\ [Next]_vars => RInv'
<1> SUFFICES ASSUME NamesApart, RInv, [Next]_vars PROVE RInv'
  OBVIOUS
<1> DEFINE Rules   == ruleset' \in Settings /\ Whole(ruleset')
           Shelves == /\ Shelf(files') /\ Shelf(kept'.files)
                      /\ kept' \in [files : Seq(File), folder : Folders]
           Chains  == DOMAIN task' = Slot /\ \A x \in Slot : ChainSound(task'[x])
           Hand    == folder' \in Folders
<1>0. /\ ruleset \in Settings /\ Whole(ruleset) /\ Shelf(files) /\ Shelf(kept.files)
      /\ kept \in [files : Seq(File), folder : Folders] /\ folder \in Folders
      /\ DOMAIN task = Slot /\ \A x \in Slot : ChainSound(task[x])
  BY DEF RInv
<1>1. UNCHANGED ruleset => Rules
  BY <1>0
<1>2. UNCHANGED << files, kept >> => Shelves
  BY <1>0
<1>3. UNCHANGED task => Chains
  BY <1>0
<1>4. UNCHANGED folder => Hand
  BY <1>0
<1>5. ASSUME Rules, Shelves, Chains, Hand, Act \/ UNCHANGED acts PROVE RInv'
  <2>1. acts' \in 0 .. MaxActs
    BY <1>5, ActsStay
  <2> HIDE DEF RInv
  <2>2. (ruleset \in Settings /\ Whole(ruleset))'
    BY <1>5 DEF Whole, Settings
  <2>3. Shelf(files)' /\ Shelf(kept.files)' /\ (kept \in [files : Seq(File), folder : Folders])'
    BY <1>5 DEF Shelf, Folders
  <2>4. (\A s \in Slot : ChainSound(task[s]))'
    BY <1>5 DEF ChainSound
  <2>5. QED
    BY <1>5, <2>1, <2>2, <2>3, <2>4 DEF RInv, Folders
<1> HIDE DEF Rules, Shelves, Chains, Hand
<1>6. ASSUME NEW s \in Slot, NEW t, Move(s, t), ChainSound(t) PROVE Chains
  BY <1>6, MoveStaysSound DEF Chains
<1>7. CASE UNCHANGED vars
  BY <1>7, <1>1, <1>2, <1>3, <1>4, <1>5 DEF vars
<1>8. CASE Tick
  <2> DEFINE b == [ruleset EXCEPT !.name = Unnamed]
  <2>1. b \in Settings /\ b.name = Unnamed
    BY <1>0 DEF Settings
  <2>2. Whole(b)
    BY <2>1, OtherNameIsWhole DEF NamesApart
  <2> HIDE DEF b
  <2>3. SoundBody(b)
    BY <2>1, <2>2 DEF SoundBody
  <2>4. Rules
    BY <1>0, <1>8, <2>3, MergedIsWhole DEF Rules, Tick, b
  <2>5. QED
    BY <1>8, <2>4, <1>2, <1>3, <1>4, <1>5 DEF Tick
<1>9. CASE Reload
  <2>1. Shelves
    BY <1>0, <1>9 DEF Shelves, Reload
  <2>2. Chains
    BY <1>9, IdleStaysSound DEF Chains, Reload
  <2>3. Hand
    BY <1>9 DEF Hand, Reload, Folders
  <2>4. QED
    BY <1>9, <2>1, <2>2, <2>3, <1>1, <1>5 DEF Reload
<1>10. ASSUME NEW s \in Slot, PickNothing(s) PROVE RInv'
  <2>1. Chains
    BY <1>10, <1>6, UnnamedIsSound, SentStaysSound DEF PickNothing
  <2>2. QED
    BY <1>10, <2>1, <1>1, <1>2, <1>4, <1>5 DEF PickNothing
<1>11. ASSUME NEW s \in Slot, NEW b \in File \cup {PresetSettings(p) : p \in Preset},
              PickNamed(s, b)
       PROVE  RInv'
  <2>1. Apply(s, b, folder, folder)
    BY <1>11 DEF PickNamed
  <2>2. Chains /\ Hand
    BY <2>1, <1>0, ApplyStaysSound DEF Chains, Hand
  <2>3. QED
    BY <1>11, <2>2, <1>1, <1>2, <1>5 DEF PickNamed
<1>12. ASSUME NEW s \in Slot, NEW f \in File, LoadFile(s, f) PROVE RInv'
  <2> DEFINE t == [pc |-> "parsing", body |-> f, hand |-> folder]
  <2>1. ChainSound(t)
    BY <1>0 DEF ChainSound
  <2>2. Chains
    BY <1>12, <2>1, <1>6 DEF LoadFile
  <2>3. QED
    BY <1>12, <2>2, <1>1, <1>2, <1>4, <1>5 DEF LoadFile
<1>13. ASSUME NEW s \in Slot, NEW k \in Picks, LoadStyle(s, k) PROVE RInv'
  <2> DEFINE t == [pc |-> "reading", pick |-> k, hand |-> folder, seen |-> ruleset]
  <2>1. ChainSound(t)
    BY <1>0 DEF ChainSound
  <2>2. Chains
    BY <1>13, <2>1, <1>6 DEF LoadStyle
  <2>3. QED
    BY <1>13, <2>2, <1>1, <1>2, <1>4, <1>5 DEF LoadStyle
<1>14. ASSUME NEW s \in Slot, Recalled(s) PROVE RInv'
  <2>1. task[s].body \in File /\ kept.folder \in Folders
    BY <1>0, <1>14 DEF Recalled, ChainSound
  <2>2. SoundBody(task[s].body) /\ task[s].body \in Settings /\ Whole(task[s].body)
    BY <2>1, FileIsWhole DEF SoundBody
  <2>3. ChainSound(Sent(task[s].body)) /\ ChainSound(Merging(task[s].body, kept.folder, task[s].body))
    BY <2>1, <2>2, SentStaysSound, MergingStaysSound
  <2>4. CASE kept.folder = None
    BY <1>14, <2>3, <2>4, <1>1, <1>2, <1>4, <1>5, <1>6 DEF Recalled
  <2>5. CASE kept.folder # None
    <3>1. Chains
      BY <1>14, <2>3, <2>5, <1>6 DEF Recalled
    <3>2. Hand
      BY <1>14, <2>1, <2>5 DEF Recalled, Hand
    <3>3. QED
      BY <1>14, <3>1, <3>2, <1>1, <1>2, <1>5 DEF Recalled
  <2>6. QED
    BY <2>4, <2>5
<1>15. ASSUME NEW s \in Slot, MergeAnswered(s) PROVE RInv'
  <2>1. task[s].body \in Settings /\ Whole(task[s].body) /\ task[s].have \in Folders
    BY <1>0, <1>15 DEF MergeAnswered, ChainSound
  <2> DEFINE b == [task[s].body EXCEPT !.dataset = task[s].have]
  <2>2. SoundBody(b)
    BY <2>1, HashIsApart DEF SoundBody
  <2> HIDE DEF b
  <2>3. Move(s, Sent(b))
    BY <1>15 DEF MergeAnswered, b
  <2>4. Chains
    BY <2>2, <2>3, <1>6, SentStaysSound
  <2>5. QED
    BY <1>15, <2>4, <1>1, <1>2, <1>4, <1>5 DEF MergeAnswered
<1>16. ASSUME NEW s \in Slot, MergeFails(s) PROVE RInv'
  <2>1. task[s].plain = None \/ task[s].plain \in File
    BY <1>0, <1>16 DEF MergeFails, ChainSound
  <2>2. CASE task[s].plain = None
    BY <1>16, <2>2, <1>1, <1>2, <1>4, <1>5, <1>6, IdleStaysSound DEF MergeFails
  <2>3. CASE task[s].plain # None
    <3>1. SoundBody(task[s].plain)
      BY <2>1, <2>3, FileIsWhole DEF SoundBody
    <3>2. QED
      BY <1>16, <2>3, <3>1, <1>1, <1>2, <1>4, <1>5, <1>6, SentStaysSound DEF MergeFails
  <2>4. QED
    BY <2>2, <2>3
<1>17. ASSUME NEW s \in Slot, Landed(s) PROVE RInv'
  <2>1. SoundBody(task[s].body)
    BY <1>0, <1>17 DEF Landed, ChainSound
  <2>2. Rules
    BY <1>0, <1>17, <2>1, MergedIsWhole DEF Landed, Rules
  <2>3. QED
    BY <1>17, <2>2, <1>2, <1>4, <1>5, <1>6, IdleStaysSound DEF Landed
<1>18. ASSUME NEW s \in Slot, Parsed(s) PROVE RInv'
  <2>1. task[s].body \in File /\ task[s].hand \in Folders
    BY <1>0, <1>18 DEF Parsed, ChainSound
  <2>2. Shelf(files') /\ kept' \in {kept, [kept EXCEPT !.files = files']}
    BY <1>0, <1>18, <2>1, SavedIsShelf DEF Parsed
  <2>3. Shelves
    BY <2>2, KeptStaysSound DEF Shelves
  <2>4. Apply(s, task[s].body, task[s].hand, task[s].hand)
    BY <1>18 DEF Parsed
  <2>5. Chains /\ Hand
    BY <2>1, <2>4, ApplyStaysSound DEF Chains, Hand
  <2>6. QED
    BY <1>18, <2>3, <2>5, <1>1, <1>5 DEF Parsed
<1>19. ASSUME NEW s \in Slot, StyleRead(s) PROVE RInv'
  <2> DEFINE t == task[s]
             u == [t EXCEPT !.pc = "remembering"]
  <2>1. ChainSound(t) /\ t.pc = "reading"
    BY <1>0, <1>19 DEF StyleRead
  <2>2. t.pick \in Picks /\ t.hand \in Folders /\ t.seen \in Settings /\ Whole(t.seen)
    BY <2>1 DEF ChainSound
  <2>3. CASE t.pick.folder = None
    <3>1. Onward(s, t) /\ UNCHANGED folder
      BY <1>19, <2>3 DEF StyleRead
    <3>2. Chains
      BY <2>2, <3>1, OnwardStaysSound DEF Chains
    <3>3. QED
      BY <1>19, <3>1, <3>2, <1>1, <1>2, <1>4, <1>5 DEF StyleRead
  <2>4. CASE t.pick.folder # None
    <3>1. Move(s, u) /\ folder' = t.pick.folder
      BY <1>19, <2>4 DEF StyleRead
    <3>2. /\ u.pc = "remembering" /\ u.pick = t.pick /\ u.hand = t.hand /\ u.seen = t.seen
      BY <2>1
    <3> HIDE DEF u
    <3>3. ChainSound(u)
      BY <2>2, <3>2 DEF ChainSound
    <3>4. Hand
      BY <3>1, <2>2, RulesetAssumption DEF Hand, Folders
    <3>5. QED
      BY <1>19, <3>1, <3>3, <3>4, <1>1, <1>2, <1>5, <1>6 DEF StyleRead
  <2>5. QED
    BY <2>3, <2>4
<1>20. ASSUME NEW s \in Slot, Remembered(s) PROVE RInv'
  <2> DEFINE t == task[s]
  <2>1. ChainSound(t) /\ t.pc = "remembering" /\ Onward(s, t)
    BY <1>0, <1>20 DEF Remembered
  <2>2. t.pick \in Picks /\ t.hand \in Folders /\ t.seen \in Settings /\ Whole(t.seen)
    BY <2>1 DEF ChainSound
  <2>3. Chains
    BY <2>1, <2>2, OnwardStaysSound DEF Chains
  <2>4. t.pick.folder \in Folders
    BY <2>2, RulesetAssumption DEF Folders
  <2>5. kept' \in {kept, [kept EXCEPT !.folder = t.pick.folder]} /\ UNCHANGED files
    BY <1>20 DEF Remembered
  <2>6. Shelves
    BY <1>0, <2>4, <2>5 DEF Shelves
  <2>7. QED
    BY <1>20, <2>3, <2>6, <1>1, <1>4, <1>5 DEF Remembered
<1>21. ASSUME NEW s \in Slot, StyleParsed(s) PROVE RInv'
  <2> DEFINE t == task[s]
             next == Saved(kept.files, Head(t.todo))
             u == [t EXCEPT !.todo = Tail(t.todo)]
  <2>1. ChainSound(t) /\ t.pc = "style"
    BY <1>0, <1>21 DEF StyleParsed
  <2>2. t.pick \in Picks /\ t.hand \in Folders /\ t.todo \in Seq(File) /\ t.todo # << >>
    BY <2>1 DEF ChainSound
  <2>3. Head(t.todo) \in File /\ Tail(t.todo) \in Seq(File)
    BY <2>2
  <2>4. Shelf(next)
    BY <1>0, <2>3, SavedIsShelf
  <2> HIDE DEF next
  <2>5. kept' \in {kept, [kept EXCEPT !.files = next]} /\ UNCHANGED << ruleset, merges, acts >>
    BY <1>21 DEF StyleParsed, next
  <2>6. kept' \in [files : Seq(File), folder : Folders] /\ Shelf(kept'.files)
    BY <2>4, <2>5, KeptStaysSound
  <2>7. CASE Tail(t.todo) # << >>
    <3>1. Move(s, u) /\ UNCHANGED << files, folder >>
      BY <1>21, <2>7 DEF StyleParsed
    <3>2. u.pc = "style" /\ u.pick = t.pick /\ u.hand = t.hand /\ u.todo = Tail(t.todo)
      BY <2>1
    <3> HIDE DEF u
    <3>3. ChainSound(u)
      BY <2>2, <2>3, <2>7, <3>2 DEF ChainSound
    <3>4. Shelves
      BY <1>0, <2>6, <3>1 DEF Shelves
    <3>5. QED
      BY <2>5, <3>1, <3>3, <3>4, <1>1, <1>4, <1>5, <1>6
  <2>8. CASE Tail(t.todo) = << >>
    <3>1. files' = next
      BY <1>21, <2>8 DEF StyleParsed, next
    <3>2. Shelves
      BY <2>4, <2>6, <3>1 DEF Shelves
    <3>3. CASE Len(t.pick.settings) = 1
      <4>1. Apply(s, Head(t.todo), InHand(t), t.hand)
        BY <1>21, <2>8, <3>3 DEF StyleParsed
      <4>2. InHand(t) \in Folders
        BY <2>2, RulesetAssumption DEF InHand, Folders
      <4>3. Chains /\ Hand
        BY <2>2, <2>3, <4>1, <4>2, ApplyStaysSound DEF Chains, Hand
      <4>4. QED
        BY <2>5, <3>2, <4>3, <1>1, <1>5
    <3>4. CASE Len(t.pick.settings) # 1
      <4>1. Move(s, Idle) /\ UNCHANGED folder
        BY <1>21, <2>8, <3>4 DEF StyleParsed
      <4>2. QED
        BY <2>5, <3>2, <4>1, <1>1, <1>4, <1>5, <1>6, IdleStaysSound
    <3>5. QED
      BY <3>3, <3>4
  <2>9. QED
    BY <2>7, <2>8
<1>22. ASSUME NEW s \in Slot, PickFails(s) PROVE RInv'
  BY <1>22, <1>1, <1>2, <1>4, <1>5, <1>6, IdleStaysSound DEF PickFails
<1>23. ASSUME NEW s \in Slot, Forget(s) PROVE RInv'
  <2>1. Shelf(files') /\ kept' \in {kept, [kept EXCEPT !.files = files']}
    BY <1>0, <1>23, WithoutIsShelf DEF Forget
  <2>2. Shelves
    BY <2>1, KeptStaysSound DEF Shelves
  <2>3. Chains
    BY <1>23, <1>6, UnnamedIsSound, SentStaysSound DEF Forget
  <2>4. QED
    BY <1>23, <2>2, <2>3, <1>1, <1>4, <1>5 DEF Forget
<1>24. QED
  BY <1>7, <1>8, <1>9, <1>10, <1>11, <1>12, <1>13, <1>14, <1>15, <1>16, <1>17, <1>18,
     <1>19, <1>20, <1>21, <1>22, <1>23 DEF Next

LEMMA RInvIsRulesOK == RInv => RulesOK
<1> SUFFICES ASSUME RInv PROVE RulesOK
  OBVIOUS
<1>1. TypeOK
  BY DEF RInv, TypeOK, Folders, ChainSound
<1>2. FileRulesAreWhole
  BY DEF RInv, FileRulesAreWhole, Whole
<1>3. QED
  BY <1>1, <1>2 DEF RulesOK

\* Where no file is called like a shipped preset, or like none: a character
\* that says it is under a settings file has all its rules and none of the
\* ruleset before, and the pulldown and the browser hold at most MAX files,
\* each name once (useRulesetLoader.ts: apply, keepFile, onForget;
\* settings-store.ts: saveSettingsFile; characters.py: merge_patch).
THEOREM RulesetRulesAreWhole == ASSUME NamesApart PROVE Spec => []RulesOK
<1>1. Init => RInv
  BY InitRInv
<1>2. RInv /\ [Next]_vars => RInv'
  BY NextRInv
<1>3. QED
  BY <1>1, <1>2, RInvIsRulesOK, PTL DEF Spec

-----------------------------------------------------------------------------
(* The first of a list that is in a set is in both.                         *)
LEMMA FirstIsThere ==
  ASSUME NEW X, NEW list \in Seq(X), NEW set, set # {}, set \subseteq NamesIn(list)
  PROVE  First(list, set) \in set
<1> DEFINE I == {i \in 1 .. Len(list) : list[i] \in set}
<1>1. I # {} /\ I \subseteq Nat
  BY DEF NamesIn
<1>2. PICK n \in I : \A k \in I : n <= k
  BY <1>1, LeastNatural
<1>3. Min(I) \in I
  <2>1. Min(I) = CHOOSE x \in I : \A y \in I : x <= y
    BY DEF Min
  <2> HIDE DEF I
  <2> QED
    BY <1>2, <2>1
<1>4. First(list, set) = list[Min(I)]
  BY <1>1 DEF First, SelectInSeq
<1> QED
  BY <1>3, <1>4

LEMMA MundaneIsATalent == "Mundane" \in Talents
BY TalentAssumption

LEMMA RowsOfTalents ==
  ASSUME NEW w \in World, NEW l \in Letter
  PROVE  OptionsAt(w, l) \in Seq(Talents)
<1>1. TalentsAt[w][l] \in Seq(Talents)
  BY TalentAssumption
<1>2. <<"Mundane">> \in Seq(Talents)
  BY MundaneIsATalent
<1> QED
  BY <1>1, <1>2 DEF OptionsAt

LEMMA NamesOfTalents ==
  ASSUME NEW list \in Seq(Talents)
  PROVE  NamesIn(list) \subseteq Talents
BY DEF NamesIn

LEMMA OfferedAreTalents ==
  ASSUME NEW w \in World, NEW c \in Character
  PROVE  /\ Offered(w, c) \subseteq Talents
         /\ Offered(w, c) \subseteq NamesIn(InOrder(w, c))
         /\ InOrder(w, c) \in Seq(STRING) \/ InOrder(w, c) \in Seq(Talents)
<1>1. \A l \in Letter : NamesIn(OptionsAt(w, l)) \subseteq Talents
  BY RowsOfTalents, NamesOfTalents
<1>2. AllOptions(w) \subseteq Talents
  BY <1>1, MundaneIsATalent DEF AllOptions
<1>3. c.letter \in Letter
  BY DEF Character
<1>4. NamesIn(NameOrder) = Talents
  BY DEF NamesIn, Talents
<1>5. NameOrder \in Seq(STRING)
  BY TalentAssumption
<1>6. OptionsAt(w, c.letter) \in Seq(Talents)
  BY <1>3, RowsOfTalents
<1>7. CASE ByKarma(c.method)
  BY <1>2, <1>4, <1>5, <1>7 DEF Offered, InOrder
<1>8. CASE ~ByKarma(c.method)
  BY <1>1, <1>3, <1>6, <1>8 DEF Offered, InOrder
<1> QED
  BY <1>7, <1>8

(* A list with one more at its head.                                        *)
LEMMA LedNames ==
  ASSUME NEW X, NEW list \in Seq(X), NEW x
  PROVE  NamesIn(<<x>> \o list) = NamesIn(list) \cup {x}
<1> DEFINE l == <<x>> \o list
<1>1. DOMAIN l = 1 .. Len(list) + 1 /\ l[1] = x /\ \A i \in 1 .. Len(list) : l[i + 1] = list[i]
  OBVIOUS
<1>2. \A i \in 1 .. Len(list) + 1 : i = 1 \/ i - 1 \in 1 .. Len(list)
  OBVIOUS
<1>3. \A i \in 1 .. Len(list) + 1 : i # 1 => l[i] = list[i - 1]
  OBVIOUS
<1>4. DOMAIN list = 1 .. Len(list)
  OBVIOUS
<1> HIDE DEF l
<1>5. NamesIn(l) \subseteq NamesIn(list) \cup {x}
  BY <1>1, <1>2, <1>3, <1>4 DEF NamesIn
<1>6. x \in NamesIn(l)
  BY <1>1 DEF NamesIn
<1>7. ASSUME NEW i \in 1 .. Len(list) PROVE list[i] \in NamesIn(l)
  <2>1. i + 1 \in DOMAIN l /\ l[i + 1] = list[i]
    BY <1>1
  <2> QED
    BY <2>1 DEF NamesIn
<1>8. NamesIn(list) \subseteq NamesIn(l)
  BY <1>4, <1>7 DEF NamesIn
<1> QED
  BY <1>5, <1>6, <1>8 DEF l

(* A resolved talent is offered, or it is Mundane where nothing is.         *)
LEMMA DefaultIsATalent ==
  ASSUME NEW w \in World, NEW c \in Character, NEW who
  PROVE  /\ Default(w, c, who) \in Talents
         /\ Default(w, c, who) \in Offered(w, c) \/ Offered(w, c) = {}
         /\ Offered(w, c) = {} => Default(w, c, who) = "Mundane"
<1> DEFINE all == Offered(w, c)
           may == all \cap OpenTo(w, who)
           real == (IF may = {} THEN all ELSE may) \ {"Mundane"}
           plain == ByKarma(c.method) /\ (may = {} \/ "Mundane" \in may)
<1>1. Default(w, c, who) = IF real = {} \/ plain THEN "Mundane" ELSE First(InOrder(w, c), real)
  BY DEF Default
<1>2. all \subseteq Talents
  BY OfferedAreTalents
<1>5. real \subseteq all /\ (real = {} => all = {} \/ "Mundane" \in all)
  <2>1. may \subseteq all
    OBVIOUS
  <2> HIDE DEF all, may
  <2> QED
    BY <2>1
<1>3. plain => "Mundane" \in all
  BY DEF Offered, AllOptions
<1>4. real # {} => First(InOrder(w, c), real) \in real
  <2>1. all \subseteq NamesIn(InOrder(w, c))
    BY OfferedAreTalents
  <2>2. InOrder(w, c) \in Seq(STRING) \/ InOrder(w, c) \in Seq(Talents)
    BY OfferedAreTalents
  <2> HIDE DEF real, all
  <2> QED
    BY <1>5, <2>1, <2>2, FirstIsThere
<1> HIDE DEF real, may, plain
<1> QED
  BY <1>1, <1>2, <1>3, <1>4, <1>5, MundaneIsATalent

(* A default is one the species may take, where one of those is offered.    *)
LEMMA DefaultIsOpen ==
  ASSUME NEW w \in World, NEW c \in Character, NEW who
  PROVE  /\ Offered(w, c) \cap OpenTo(w, who) # {} => Default(w, c, who) \in OpenTo(w, who)
         /\ (ByKarma(c.method) /\ Offered(w, c) \cap OpenTo(w, who) = {})
              => Default(w, c, who) = "Mundane"
<1> DEFINE all == Offered(w, c)
           may == all \cap OpenTo(w, who)
           real == (IF may = {} THEN all ELSE may) \ {"Mundane"}
<1>1. Default(w, c, who) =
        IF real = {} \/ (ByKarma(c.method) /\ (may = {} \/ "Mundane" \in may))
        THEN "Mundane" ELSE First(InOrder(w, c), real)
  BY DEF Default
<1>2. all \subseteq NamesIn(InOrder(w, c))
  BY OfferedAreTalents
<1>3. InOrder(w, c) \in Seq(STRING) \/ InOrder(w, c) \in Seq(Talents)
  BY OfferedAreTalents
<1>4. may \subseteq all /\ may \subseteq OpenTo(w, who)
  OBVIOUS
<1> HIDE DEF all, may
<1>5. real \subseteq all /\ (may # {} => real \subseteq may /\ (real = {} => "Mundane" \in may))
  BY <1>4
<1> HIDE DEF real
<1>6. real # {} => First(InOrder(w, c), real) \in real
  BY <1>2, <1>3, <1>5, FirstIsThere
<1>7. may # {} => Default(w, c, who) \in may
  BY <1>1, <1>5, <1>6
<1>8. ByKarma(c.method) /\ may = {} => Default(w, c, who) = "Mundane"
  BY <1>1
<1> QED
  BY <1>4, <1>7, <1>8 DEF may, all

LEMMA ResolvedIsATalent ==
  ASSUME NEW w \in World, NEW c \in Character, NEW current, NEW who
  PROVE  /\ Resolve(w, c, current, who) \in Talents
         /\ Resolve(w, c, current, who) \in Offered(w, c) \/ Offered(w, c) = {}
         /\ Offered(w, c) = {} => Resolve(w, c, current, who) = "Mundane"
         /\ current \in Offered(w, c) => Resolve(w, c, current, who) = current
BY DefaultIsATalent, OfferedAreTalents DEF Resolve

(* What is offered, and so the default, depends on method and letter only.  *)
LEMMA SameOffer ==
  ASSUME NEW w, NEW c, NEW d, c.method = d.method, c.letter = d.letter
  PROVE  /\ Offered(w, c) = Offered(w, d)
         /\ \A current, who : Resolve(w, c, current, who) = Resolve(w, d, current, who)
<1>1. Offered(w, c) = Offered(w, d) /\ InOrder(w, c) = InOrder(w, d)
  BY DEF Offered, InOrder
<1>2. \A who : Default(w, c, who) = Default(w, d, who)
  BY <1>1 DEF Default
<1> QED
  BY <1>1, <1>2 DEF Resolve

(* Resolved again, under the same data, it is the same.                     *)
LEMMA ResolvedTwice ==
  ASSUME NEW w, NEW c, NEW d, NEW current, NEW who, c.method = d.method, c.letter = d.letter
  PROVE  Resolve(w, c, current, who) = Resolve(w, d, Resolve(w, c, current, who), who)
<1>1. Resolve(w, d, Resolve(w, c, current, who), who)
        = Resolve(w, c, Resolve(w, c, current, who), who)
  BY SameOffer
<1>2. Resolve(w, c, Resolve(w, c, current, who), who) = Resolve(w, c, current, who)
  BY DEF Resolve
<1> QED
  BY <1>1, <1>2

LEMMA MundaneUsesNothing == Uses("Mundane") = {}
BY DEF Uses, AdeptTalents, MagTalents, ResTalents, SpiritTalents, SpellTalents

-----------------------------------------------------------------------------
(* The stages of a patch.                                                   *)

LEMMA SpeciesData ==
  /\ \A w \in World, m \in Metatypes :
       \A f \in FormsOf[w][m] \cup {NoForm} : SpeciesFloor[w][<<m, f>>] \in [Keys -> Nat]
  /\ \A m \in Metatypes :
       \A f \in FormsOf[Vendored][m] \cup {NoForm} : Least[<<m, f>>] \in [Keys -> Nat]
BY TalentAssumption

LEMMA FormsOfSpecies ==
  /\ NoForm \in Forms /\ Metatypes \subseteq Forms
  /\ \A w \in World, m \in Metatypes : FormsOf[w][m] \subseteq Forms
<1> DEFINE all == {FormsOf[w][m] : w \in World, m \in Metatypes}
           U == UNION all
<1>1. Forms = {NoForm} \cup Metatypes \cup U
  BY DEF Forms
<1>2. \A w \in World, m \in Metatypes : FormsOf[w][m] \in all
  OBVIOUS
<1> HIDE DEF all
<1>3. \A S \in all : S \subseteq U
  OBVIOUS
<1> HIDE DEF U
<1>4. \A w \in World, m \in Metatypes : FormsOf[w][m] \subseteq U
  BY ONLY <1>2, <1>3, Zenon
<1> QED
  BY ONLY <1>1, <1>4

LEMMA FloorsAreRatings ==
  ASSUME NEW w \in World, NEW c \in Character
  PROVE  Floors(w, c) \in [Keys -> Nat]
<1>1. FormOf(w, c) \in FormsOf[w][c.metatype] \cup {NoForm}
  BY DEF FormOf
<1>2. c.metatype \in Metatypes /\ c.letter \in Letter /\ c.talent \in Talents
  BY DEF Character
<1>3. SpeciesFloor[w][<<c.metatype, FormOf(w, c)>>] \in [Keys -> Nat]
  BY ONLY <1>1, <1>2, SpeciesData, Zenon
<1>4. StartAt[w][c.letter][c.talent] \in Nat
  BY <1>2, TalentAssumption
<1> DEFINE F == SpeciesFloor[w][<<c.metatype, FormOf(w, c)>>]
           S == StartAt[w][c.letter][c.talent]
<1>5. Floors(w, c) = [k \in Keys |-> IF k # KeyOf[c.talent] THEN F[k]
                                     ELSE IF ByKarma(c.method) \/ S = 0 THEN 1 ELSE S]
  BY DEF Floors
<1>6. F \in [Keys -> Nat] /\ S \in Nat
  BY <1>3, <1>4
<1> HIDE DEF F, S
<1> QED
  BY <1>5, <1>6

(* What a species or a form changes at once: the ratings, and nothing else. *)
LEMMA ResetIs ==
  ASSUME NEW m \in Character, NEW p
  PROVE  \E n \in [Keys -> Nat] : Reset(m, p) = [m EXCEPT !.special = n]
<1> DEFINE n == Least[<<m.metatype, FormOf(Vendored, m)>>]
<1>1. m.metatype \in Metatypes /\ m.special \in [Keys -> Nat]
  BY DEF Character
<1>2. FormOf(Vendored, m) \in FormsOf[Vendored][m.metatype] \cup {NoForm}
  BY DEF FormOf
<1>3. n \in [Keys -> Nat]
  BY ONLY <1>1, <1>2, SpeciesData, Zenon
<1>4. m = [m EXCEPT !.special = m.special]
  BY DEF Character
<1>5. Reset(m, p) = [m EXCEPT !.special = n] \/ Reset(m, p) = m
  BY DEF Reset
<1> HIDE DEF n
<1> QED
  BY <1>1, <1>3, <1>4, <1>5

(* The character a patch leaves before it is computed.                      *)
Follows(c, m, p, e) ==
  /\ e \in Character
  /\ e.world = m.world /\ e.method = m.method /\ e.letter = m.letter
  /\ e.metatype = m.metatype /\ e.form = m.form
  /\ e.talent = Resolve(Vendored, m, Current(m, p), m.metatype)
  /\ \/ /\ Changed(c, e, p) /\ e.holds = m.holds \cap Uses(e.talent)
        /\ e.special = Floors(Vendored, e)
     \/ ~Changed(c, e, p) /\ e.holds = m.holds

LEMMA PatchFollows ==
  ASSUME NEW c \in Character, NEW p, LaidOver(c, p) \in Character
  PROVE  /\ Follows(c, LaidOver(c, p), p, Applied(c, p))
         /\ NamesSpecies(p) \/ Changed(c, Applied(c, p), p) => LooksUp(c, p)
<1> DEFINE m == LaidOver(c, p)
           r == Reset(m, p)
           new == WithTalent(r, p)
           t == Resolve(Vendored, m, Current(m, p), m.metatype)
<1> HIDE DEF m
<1>m. m \in Character
  BY DEF m
<1>1. PICK n \in [Keys -> Nat] : r = [m EXCEPT !.special = n]
  BY <1>m, ResetIs
<1>2. /\ r \in Character /\ r.world = m.world /\ r.method = m.method /\ r.letter = m.letter
      /\ r.metatype = m.metatype /\ r.form = m.form /\ r.talent = m.talent
      /\ r.holds = m.holds
  BY <1>m, <1>1 DEF Character
<1> HIDE DEF r
<1>3. /\ \A w, current, who : Resolve(w, r, current, who) = Resolve(w, m, current, who)
      /\ Current(r, p) = Current(m, p)
  <2>1. \A w, current, who : Resolve(w, r, current, who) = Resolve(w, m, current, who)
    BY <1>2, SameOffer
  <2> QED
    BY <1>2, <2>1 DEF Current
<1>4. new = [r EXCEPT !.talent = t]
  BY <1>2, <1>3 DEF WithTalent
<1>5. t \in Talents
  BY <1>m, TalentAssumption, ResolvedIsATalent
<1> HIDE DEF t
<1>6. /\ new \in Character /\ new.world = m.world /\ new.method = m.method
      /\ new.letter = m.letter /\ new.metatype = m.metatype /\ new.form = m.form
      /\ new.talent = t /\ new.holds = m.holds
  BY <1>2, <1>4, <1>5 DEF Character
<1>7. Applied(c, p) = IF Changed(c, new, p) THEN Dropped(Rated(new)) ELSE new
  BY DEF Applied, m, r
<1>8. NamesSpecies(p) \/ Changed(c, new, p) => LooksUp(c, p)
  BY DEF LooksUp, m, r
<1> HIDE DEF new
<1>9. CASE ~Changed(c, new, p)
  <2>1. Applied(c, p) = new
    BY <1>7, <1>9
  <2> QED
    BY <1>6, <1>8, <1>9, <2>1 DEF Follows, m, t
<1>10. CASE Changed(c, new, p)
  <2> DEFINE x == Rated(new)
             e == Dropped(x)
  <2>1. Applied(c, p) = e
    BY <1>7, <1>10
  <2>2. Floors(Vendored, new) \in [Keys -> Nat]
    BY <1>6, FloorsAreRatings, TalentAssumption
  <2>3. x = [new EXCEPT !.special = Floors(Vendored, new)]
    BY DEF Rated
  <2>4. /\ x \in Character /\ x.special = Floors(Vendored, new) /\ x.world = m.world
        /\ x.method = m.method /\ x.letter = m.letter /\ x.metatype = m.metatype
        /\ x.form = m.form /\ x.talent = t /\ x.holds = m.holds
    BY <1>6, <2>2, <2>3 DEF Character
  <2> HIDE DEF x
  <2>5. e = [x EXCEPT !.holds = x.holds \cap Uses(x.talent)]
    BY DEF Dropped
  <2>6. /\ e \in Character /\ e.special = Floors(Vendored, new) /\ e.world = m.world
        /\ e.method = m.method /\ e.letter = m.letter /\ e.metatype = m.metatype
        /\ e.form = m.form /\ e.talent = t /\ e.holds = m.holds \cap Uses(t)
    BY <2>4, <2>5 DEF Character
  <2> HIDE DEF e
  <2>7. Floors(Vendored, e) = Floors(Vendored, new)
    BY <1>6, <2>6 DEF Floors, FormOf
  <2>8. Changed(c, e, p)
    BY <1>6, <1>10, <2>6 DEF Changed
  <2>9. Follows(c, m, p, e)
    BY <2>6, <2>7, <2>8 DEF Follows, t
  <2> QED
    BY <1>8, <1>10, <2>1, <2>8, <2>9 DEF m
<1> QED
  BY <1>9, <1>10

(* The form a compute is asked for, and the one it leaves.                  *)
FormAsked(c) == IF c.metatype \in Shapeshifters /\ c.form = NoForm THEN "Human" ELSE c.form
FormLeft(c) ==
  IF FormAsked(c) \in FormsOf[c.world][c.metatype] \cup {c.metatype} THEN FormAsked(c) ELSE NoForm
Formable(c) == c.form \in FormsOf[c.world][c.metatype] \cup {NoForm, c.metatype}

LEMMA ComputedIs ==
  ASSUME NEW e \in Character
  PROVE  /\ Computed(e) \in Character
         /\ Computed(e).world = e.world /\ Computed(e).method = e.method
         /\ Computed(e).letter = e.letter /\ Computed(e).metatype = e.metatype
         /\ Computed(e).special = e.special
         /\ Computed(e).talent = Resolve(e.world, e, e.talent, e.metatype)
         /\ Computed(e).holds = e.holds \cap Kept(Computed(e).talent)
         /\ Computed(e).form = FormLeft(e) /\ Formable(Computed(e))
<1> DEFINE f == FormLeft(e)
           d == Formed(e)
           t == Resolve(e.world, e, e.talent, e.metatype)
           y == Talented(d)
           x == Computed(e)
<1>1. e.metatype \in Metatypes /\ e.world \in World
  BY DEF Character
<1>2. f \in FormsOf[e.world][e.metatype] \cup {NoForm, e.metatype}
  BY DEF FormLeft
<1>3. f \in Forms
  <2>1. FormsOf[e.world][e.metatype] \subseteq Forms /\ NoForm \in Forms /\ e.metatype \in Forms
    BY <1>1, FormsOfSpecies
  <2> HIDE DEF f
  <2> QED
    BY ONLY <1>2, <2>1
<1>5. d = [e EXCEPT !.form = f]
  BY DEF Formed, FormLeft, FormAsked
<1> HIDE DEF f, d
<1>6. /\ d \in Character /\ d.world = e.world /\ d.method = e.method /\ d.letter = e.letter
      /\ d.metatype = e.metatype /\ d.special = e.special /\ d.holds = e.holds
      /\ d.talent = e.talent /\ d.form = f
  BY <1>3, <1>5 DEF Character
<1>7. Resolve(d.world, d, d.talent, d.metatype) = t
  BY <1>6, SameOffer
<1>8. t \in Talents
  BY <1>1, ResolvedIsATalent
<1>9. y = [d EXCEPT !.talent = t]
  BY <1>7 DEF Talented
<1> HIDE DEF t, y
<1>10. /\ y \in Character /\ y.world = e.world /\ y.method = e.method /\ y.letter = e.letter
       /\ y.metatype = e.metatype /\ y.special = e.special /\ y.holds = e.holds
       /\ y.talent = t /\ y.form = f
  BY <1>6, <1>8, <1>9 DEF Character
<1>11. x = [y EXCEPT !.holds = y.holds \cap Kept(y.talent)]
  BY DEF Computed, Swept, y, d
<1> HIDE DEF x
<1>12. /\ x \in Character /\ x.world = e.world /\ x.method = e.method /\ x.letter = e.letter
       /\ x.metatype = e.metatype /\ x.special = e.special /\ x.holds = e.holds \cap Kept(t)
       /\ x.talent = t /\ x.form = f
  BY <1>10, <1>11 DEF Character
<1>13. Formable(x)
  BY <1>2, <1>12 DEF Formable
<1> QED
  BY <1>12, <1>13 DEF t, x, f

-----------------------------------------------------------------------------
(* The invariant: a typed character whose talent is settled under its own   *)
(* data, in a form its species has there, holding what a compute leaves it. *)
Sound(c) ==
  /\ c \in Character /\ c.metatype \in Species[c.world] /\ Formable(c)
  /\ c.talent = Resolve(c.world, c, c.talent, c.metatype)
  /\ c.holds \subseteq Kept(c.talent)
TalentInv == Sound(ch)

LEMMA ComputedIsSound ==
  ASSUME NEW e \in Character, e.metatype \in Species[e.world]
  PROVE  Sound(Computed(e))
<1> DEFINE x == Computed(e)
<1>1. /\ x \in Character /\ x.world = e.world /\ x.method = e.method
      /\ x.letter = e.letter /\ x.metatype = e.metatype /\ Formable(x)
      /\ x.talent = Resolve(e.world, e, e.talent, e.metatype)
      /\ x.holds = e.holds \cap Kept(x.talent)
  BY ComputedIs
<1> HIDE DEF x
<1>2. x.talent = Resolve(x.world, x, x.talent, x.metatype)
  BY <1>1, ResolvedTwice
<1> QED
  BY <1>1, <1>2 DEF Sound, x

(* What a patch is laid over it is a character again, in a form its species *)
(* has where its world stayed, and holds nothing new that the talent before *)
(* the patch could not use.                                                 *)
FitsOn(c, p) ==
  LET m == LaidOver(c, p) IN
  /\ m \in Character /\ (m.world = c.world => Formable(m))
  /\ m.holds \ Uses(c.talent) \subseteq c.holds \ Uses(c.talent)
  /\ NamesSpecies(p) \/ m.metatype = c.metatype

LEMMA OfferGrows ==
  ASSUME FoldersOnlyAdd, NEW w \in World, NEW c \in Character
  PROVE  Offered(Vendored, c) \subseteq Offered(w, c)
<1>1. ASSUME NEW l \in Letter
      PROVE  NamesIn(OptionsAt(Vendored, l)) \subseteq NamesIn(OptionsAt(w, l))
  <2>1. NamesIn(TalentsAt[Vendored][l]) \subseteq NamesIn(TalentsAt[w][l])
    BY DEF FoldersOnlyAdd
  <2>2. ASSUME NEW x \in World
        PROVE  NamesIn(OptionsAt(x, l)) = NamesIn(TalentsAt[x][l]) \cup
                                          (IF l = "E" THEN {"Mundane"} ELSE {})
    <3> DEFINE list == TalentsAt[x][l]
    <3>1. list \in Seq(Talents)
      BY TalentAssumption
    <3> HIDE DEF list
    <3>2. NamesIn(<<"Mundane">> \o list) = NamesIn(list) \cup {"Mundane"}
      BY <3>1, LedNames
    <3> QED
      BY <3>2 DEF OptionsAt, list
  <2> QED
    BY <2>1, <2>2, TalentAssumption
<1>2. AllOptions(Vendored) \subseteq AllOptions(w)
  BY <1>1 DEF AllOptions
<1> QED
  BY <1>1, <1>2 DEF Offered, Character

(* Every action is a patch of one of those.                                 *)
LEMMA ActionIsAPatch ==
  ASSUME TalentInv, TalentNext
  PROVE  Reopen \/ \E p : Patch(p) /\ FitsOn(ch, p)
<1>0. ch \in Character
  BY DEF TalentInv, Sound
<1>c. /\ ch \in Character /\ Formable(ch)
      /\ ch.talent \in Talents /\ ch.metatype \in Metatypes /\ ch.world \in World
      /\ ch.form \in Forms /\ ch.special \in [Keys -> Nat] /\ ch.holds \subseteq Holdings
  BY DEF TalentInv, Sound, Character
<1>f. NoForm \in Forms /\ FormChoices \subseteq FormsOf[ch.world][ch.metatype] \cup {NoForm}
      /\ FormsOf[ch.world][ch.metatype] \subseteq Forms
  BY <1>c, FormsOfSpecies DEF FormChoices
<1>1. ASSUME NEW l \in Letter, PickLetter(l)
      PROVE  \E t \in Talents : Patch([letter |-> l, talent |-> t])
  <2> DEFINE may == NamesIn(OptionsAt(ch.world, l)) \cap OpenTo(ch.world, ch.metatype)
             real == may \ {"Mundane"}
             talent == IF ch.talent \in real THEN ch.talent
                       ELSE IF real = {} THEN "Mundane"
                       ELSE First(OptionsAt(ch.world, l), real)
  <2>1. Patch([letter |-> l, talent |-> talent])
    BY <1>1 DEF PickLetter
  <2>2. OptionsAt(ch.world, l) \in Seq(Talents) /\ real \subseteq NamesIn(OptionsAt(ch.world, l))
    BY <1>c, RowsOfTalents
  <2>3. real \subseteq Talents
    BY <2>2, NamesOfTalents
  <2> HIDE DEF real, may
  <2>4. real # {} => First(OptionsAt(ch.world, l), real) \in real
    BY <2>2, FirstIsThere
  <2>5. talent \in Talents
    BY <1>c, <2>3, <2>4, MundaneIsATalent
  <2> QED
    BY <2>1, <2>5
<1>2. ASSUME NEW l \in Letter, NEW t \in Talents
      PROVE  FitsOn(ch, [letter |-> l, talent |-> t])
  <2>1. LaidOver(ch, [letter |-> l, talent |-> t]) = [ch EXCEPT !.letter = l, !.talent = t]
    <3> DEFINE p == [letter |-> l, talent |-> t]
    <3>1. DOMAIN p = {"letter", "talent"} /\ p["letter"] = l /\ p["talent"] = t
      OBVIOUS
    <3> HIDE DEF p
    <3>2. LaidOver(ch, p) = [ch EXCEPT !.letter = l, !.talent = t]
      BY <1>0, <3>1 DEF LaidOver, Character
    <3> QED
      BY <3>2 DEF p
  <2> QED
    BY <1>c, <2>1 DEF FitsOn, Formable, Character
<1>3. ASSUME NEW l \in Letter PROVE FitsOn(ch, [letter |-> l])
  <2>1. LaidOver(ch, [letter |-> l]) = [ch EXCEPT !.letter = l]
    BY <1>c DEF LaidOver, Character
  <2> QED
    BY <1>c, <2>1 DEF FitsOn, Formable, Character
<1>4. ASSUME NEW t \in Talents PROVE FitsOn(ch, [talent |-> t])
  <2>1. LaidOver(ch, [talent |-> t]) = [ch EXCEPT !.talent = t]
    BY <1>c DEF LaidOver, Character
  <2> QED
    BY <1>c, <2>1 DEF FitsOn, Formable, Character
<1>5. ASSUME NEW m \in Metatypes PROVE FitsOn(ch, [metatype |-> m, form |-> NoForm])
  <2>1. LaidOver(ch, [metatype |-> m, form |-> NoForm]) = [ch EXCEPT !.metatype = m, !.form = NoForm]
    <3> DEFINE p == [metatype |-> m, form |-> NoForm]
    <3>1. DOMAIN p = {"metatype", "form"} /\ p["metatype"] = m /\ p["form"] = NoForm
      OBVIOUS
    <3> HIDE DEF p
    <3>2. LaidOver(ch, p) = [ch EXCEPT !.metatype = m, !.form = NoForm]
      BY <1>0, <3>1 DEF LaidOver, Character
    <3> QED
      BY <3>2 DEF p
  <2>2. NamesSpecies([metatype |-> m, form |-> NoForm])
    BY DEF NamesSpecies
  <2> QED
    BY <1>c, <1>f, <2>1, <2>2 DEF FitsOn, Formable, Character
<1>6. ASSUME NEW f \in FormChoices PROVE FitsOn(ch, [form |-> f])
  <2>1. LaidOver(ch, [form |-> f]) = [ch EXCEPT !.form = f]
    BY <1>c DEF LaidOver, Character
  <2>2. f \in Forms /\ f \in FormsOf[ch.world][ch.metatype] \cup {NoForm}
    BY <1>f, <1>6
  <2> QED
    BY <1>c, <2>1, <2>2 DEF FitsOn, Formable, Character
<1>7. ASSUME NEW m \in Method PROVE FitsOn(ch, [method |-> m])
  <2>1. LaidOver(ch, [method |-> m]) = [ch EXCEPT !.method = m]
    BY <1>c DEF LaidOver, Character
  <2> QED
    BY <1>c, <2>1 DEF FitsOn, Formable, Character
<1>8. ASSUME NEW w \in World PROVE FitsOn(ch, [world |-> w])
  <2>1. LaidOver(ch, [world |-> w]) = [ch EXCEPT !.world = w]
    BY <1>c DEF LaidOver, Character
  <2> QED
    BY <1>c, <2>1 DEF FitsOn, Formable, Character
<1>9. ASSUME NEW s \in [Keys -> Nat] PROVE FitsOn(ch, [special |-> s])
  <2>1. LaidOver(ch, [special |-> s]) = [ch EXCEPT !.special = s]
    BY <1>c DEF LaidOver, Character
  <2> QED
    BY <1>c, <2>1 DEF FitsOn, Formable, Character
<1>10. ASSUME NEW H, H \ Uses(ch.talent) \subseteq ch.holds \ Uses(ch.talent), H \subseteq Holdings
       PROVE  FitsOn(ch, [holds |-> H])
  <2>1. LaidOver(ch, [holds |-> H]) = [ch EXCEPT !.holds = H]
    BY <1>c DEF LaidOver, Character
  <2> QED
    BY <1>c, <1>10, <2>1 DEF FitsOn, Formable, Character
<1>11. ASSUME NEW k \in Keys, NEW n \in 1 .. Cap
       PROVE  [ch.special EXCEPT ![k] = n] \in [Keys -> Nat]
  BY <1>c
<1>12. CASE \E l \in Letter : PickLetter(l)
  BY <1>1, <1>2, <1>12
<1>13. CASE \E l \in Letter : SwapLetter(l)
  BY <1>3, <1>13 DEF SwapLetter
<1>14. CASE \E t \in Talents : PickTalent(t)
  BY <1>4, <1>14 DEF PickTalent
<1>15. CASE \E m \in Metatypes : PickSpecies(m)
  BY <1>5, <1>15 DEF PickSpecies
<1>16. CASE \E f \in FormChoices : PickForm(f)
  BY <1>6, <1>16 DEF PickForm
<1>17. CASE \E m \in Method : PickMethod(m)
  BY <1>7, <1>17 DEF PickMethod
<1>18. CASE \E w \in World : PickWorld(w)
  BY <1>8, <1>18 DEF PickWorld
<1>19. CASE \E k \in Keys, n \in 1 .. Cap : Raise(k, n)
  BY <1>9, <1>11, <1>19 DEF Raise
<1>20. CASE \E h \in Holdings : Hold(h)
  <2>1. PICK h \in Holdings : Hold(h)
    BY <1>20
  <2>2. /\ (ch.holds \cup {h}) \ Uses(ch.talent) \subseteq ch.holds \ Uses(ch.talent)
        /\ ch.holds \cup {h} \subseteq Holdings
    BY <1>c, <2>1 DEF Hold
  <2> QED
    BY <1>10, <2>1, <2>2 DEF Hold
<1>21. CASE \E h \in Holdings : Release(h)
  <2>1. PICK h \in Holdings : Release(h)
    BY <1>21
  <2>2. /\ (ch.holds \ {h}) \ Uses(ch.talent) \subseteq ch.holds \ Uses(ch.talent)
        /\ ch.holds \ {h} \subseteq Holdings
    BY <1>c
  <2> QED
    BY <1>10, <2>1, <2>2 DEF Release
<1> QED
  BY <1>12, <1>13, <1>14, <1>15, <1>16, <1>17, <1>18, <1>19, <1>20, <1>21 DEF TalentNext

(* What the vendored data chooses, the character's own offers too: the      *)
(* engine does not choose again, but for Mundane, which uses nothing.       *)
LEMMA ChosenStays ==
  ASSUME FoldersOnlyAdd, NEW m \in Character, NEW w \in World, NEW current, NEW who,
         NEW t, t = Resolve(Vendored, m, current, who)
  PROVE  /\ t \in Offered(Vendored, m) => Resolve(w, m, t, who) = t
         /\ t \notin Offered(Vendored, m) => t = "Mundane"
<1>1. Offered(Vendored, m) \subseteq Offered(w, m)
  BY OfferGrows
<1>2. /\ t \in Offered(Vendored, m) \/ Offered(Vendored, m) = {}
      /\ Offered(Vendored, m) = {} => t = "Mundane"
  BY TalentAssumption, ResolvedIsATalent
<1>3. t \in Offered(w, m) => Resolve(w, m, t, who) = t
  BY ResolvedIsATalent
<1> QED
  BY <1>1, <1>2, <1>3

(* What a patch answers with, stage by stage.                               *)
Answered(p, m, e) ==
  /\ m \in Character /\ m = LaidOver(ch, p) /\ Follows(ch, m, p, e)
  /\ ch' = Computed(e) /\ ch' \in Character
  /\ ch'.world = m.world /\ ch'.method = m.method /\ ch'.letter = m.letter
  /\ ch'.metatype = m.metatype /\ ch'.special = e.special
  /\ ch'.talent = Resolve(m.world, m, e.talent, m.metatype)
  /\ ch'.holds = e.holds \cap Kept(ch'.talent) /\ ch'.form = FormLeft(m)
  /\ m.metatype \in Species[m.world]
  /\ NamesSpecies(p) \/ Changed(ch, e, p) => m.metatype \in Species[Vendored]

LEMMA PatchAnswers ==
  ASSUME ch \in Character, NEW p, Patch(p), FitsOn(ch, p)
  PROVE  Answered(p, LaidOver(ch, p), Applied(ch, p))
<1> DEFINE m == LaidOver(ch, p)
           e == Applied(ch, p)
<1>0. ch \in Character
  OBVIOUS
<1>1. m \in Character
  BY DEF FitsOn
<1>2. Follows(ch, m, p, e) /\ (NamesSpecies(p) \/ Changed(ch, e, p) => LooksUp(ch, p))
  BY ONLY <1>0, <1>1, PatchFollows, Zenon
<1>3. /\ ch' = Computed(e) /\ m.metatype \in Species[m.world]
      /\ LooksUp(ch, p) => m.metatype \in Species[Vendored]
  BY DEF Patch
<1> HIDE DEF m, e
<1>4. /\ e \in Character /\ e.world = m.world /\ e.method = m.method /\ e.letter = m.letter
      /\ e.metatype = m.metatype /\ e.form = m.form
  BY <1>2 DEF Follows
<1>5. FormLeft(e) = FormLeft(m)
  BY <1>4 DEF FormLeft, FormAsked
<1>6. /\ Computed(e) \in Character
      /\ Computed(e).world = e.world /\ Computed(e).method = e.method
      /\ Computed(e).letter = e.letter /\ Computed(e).metatype = e.metatype
      /\ Computed(e).special = e.special
      /\ Computed(e).talent = Resolve(e.world, e, e.talent, e.metatype)
      /\ Computed(e).holds = e.holds \cap Kept(Computed(e).talent)
      /\ Computed(e).form = FormLeft(e)
  BY ONLY <1>4, ComputedIs
<1>7. Resolve(e.world, e, e.talent, e.metatype) = Resolve(m.world, m, e.talent, m.metatype)
  BY <1>4, SameOffer
<1>8. NamesSpecies(p) \/ Changed(ch, e, p) => m.metatype \in Species[Vendored]
  BY <1>2, <1>3
<1>9. Answered(p, m, e)
  BY <1>1, <1>2, <1>3, <1>4, <1>5, <1>6, <1>7, <1>8 DEF Answered, m
<1> QED
  BY <1>9 DEF m, e

LEMMA InitTalent == TalentInit => TalentInv
<1> SUFFICES ASSUME NEW c \in Starting, c.metatype \in Species[c.world], ch = Computed(c)
             PROVE  TalentInv
  BY DEF TalentInit
<1>1. c \in Character
  BY TalentAssumption
<1> QED
  BY <1>1, ComputedIsSound DEF TalentInv

LEMMA StepTalent ==
  ASSUME TalentInv, TalentNext
  PROVE  TalentInv'
<1>1. CASE Reopen
  <2>1. ch \in Character /\ ch.metatype \in Species[ch.world] /\ ch' = Computed(ch)
    BY <1>1 DEF TalentInv, Sound, Reopen
  <2>2. Sound(ch')
    BY <2>1, ComputedIsSound
  <2> QED
    BY <2>2 DEF TalentInv, Sound, Formable
<1>2. CASE \E p : Patch(p) /\ FitsOn(ch, p)
  <2>1. PICK p : Patch(p) /\ FitsOn(ch, p)
    BY <1>2
  <2> DEFINE m == LaidOver(ch, p)
             e == Applied(ch, p)
  <2>2. Answered(p, m, e)
    BY <2>1, PatchAnswers DEF TalentInv, Sound
  <2> HIDE DEF m, e
  <2>3. e \in Character /\ e.metatype \in Species[e.world] /\ ch' = Computed(e)
    BY <2>2 DEF Answered, Follows
  <2>4. Sound(ch')
    BY <2>3, ComputedIsSound
  <2> QED
    BY <2>4 DEF TalentInv, Sound, Formable
<1> QED
  BY <1>1, <1>2, ActionIsAPatch

LEMMA AlwaysTalentInv == TalentSpec => []TalentInv
<1>1. TalentInv /\ UNCHANGED ch => TalentInv'
  BY DEF TalentInv, Sound, Formable
<1>2. TalentInv /\ [TalentNext]_ch => TalentInv'
  BY <1>1, StepTalent
<1> QED
  BY <1>2, InitTalent, PTL DEF TalentSpec

(* A bare recompute of an answer changes nothing but a form it has not.     *)
LEMMA ReopenedIs ==
  ASSUME TalentInv
  PROVE  /\ Computed(ch).talent = ch.talent /\ Computed(ch).holds = ch.holds
         /\ Computed(ch) = [ch EXCEPT !.form = FormLeft(ch)]
<1> DEFINE x == Computed(ch)
<1>1. ch \in Character /\ ch.talent = Resolve(ch.world, ch, ch.talent, ch.metatype)
      /\ ch.holds \subseteq Kept(ch.talent)
  BY DEF TalentInv, Sound
<1>2. /\ x \in Character /\ x.world = ch.world /\ x.method = ch.method
      /\ x.letter = ch.letter /\ x.metatype = ch.metatype /\ x.special = ch.special
      /\ x.talent = Resolve(ch.world, ch, ch.talent, ch.metatype)
      /\ x.holds = ch.holds \cap Kept(x.talent) /\ x.form = FormLeft(ch)
  BY <1>1, ComputedIs
<1> HIDE DEF x
<1>3. x.talent = ch.talent /\ x.holds = ch.holds
  BY <1>1, <1>2
<1>4. x = [ch EXCEPT !.form = FormLeft(ch)]
  BY <1>1, <1>2, <1>3 DEF Character
<1> QED
  BY <1>3, <1>4 DEF x

(* An answer settles with one compute more, if not at once.                 *)
LEMMA AnswersSettle ==
  ASSUME TalentInv
  PROVE  Settles
<1>1. ch \in Character /\ Formable(ch) /\ ch.metatype \in Species[ch.world]
  BY DEF TalentInv, Sound
<1>2. Computed(ch) = [ch EXCEPT !.form = FormLeft(ch)]
  BY ReopenedIs
<1>3. FormLeft(ch) = ch.form => Computed(ch) = ch
  BY <1>1, <1>2 DEF Character
<1>4. CASE FormLeft(ch) = ch.form
  BY <1>3, <1>4 DEF Settles
<1>5. CASE FormLeft(ch) # ch.form
  <2>1. ch.metatype \in Shapeshifters /\ ch.form = NoForm /\ FormAsked(ch) = "Human"
        /\ FormLeft(ch) = "Human" /\ FormLeft(ch) # NoForm
        /\ "Human" \in FormsOf[ch.world][ch.metatype] \cup {ch.metatype}
    BY <1>1, <1>5 DEF FormLeft, FormAsked, Formable
  <2> DEFINE x == Computed(ch)
             y == Computed(x)
  <2>2. /\ x \in Character /\ x.world = ch.world /\ x.method = ch.method
        /\ x.letter = ch.letter /\ x.metatype = ch.metatype /\ x.form = "Human"
    BY <1>1, <2>1, ComputedIs
  <2>3. Sound(x)
    BY <1>1, ComputedIsSound
  <2> HIDE DEF x
  <2>4. /\ y \in Character /\ y.world = x.world /\ y.method = x.method
        /\ y.letter = x.letter /\ y.metatype = x.metatype /\ y.special = x.special
        /\ y.talent = Resolve(x.world, x, x.talent, x.metatype)
        /\ y.holds = x.holds \cap Kept(y.talent) /\ y.form = FormLeft(x)
    BY <2>2, ComputedIs
  <2> HIDE DEF y
  <2>5. FormLeft(x) = "Human"
    BY <2>1, <2>2 DEF FormLeft, FormAsked
  <2>6. y.talent = x.talent /\ y.holds = x.holds
    BY <2>3, <2>4 DEF Sound
  <2>7. y = x
    BY <2>2, <2>4, <2>5, <2>6 DEF Character
  <2>8. Computed(ch) = [ch EXCEPT !.form = "Human"]
    BY <1>2, <2>1
  <2> QED
    BY <2>1, <2>7, <2>8 DEF Settles, x, y
<1> QED
  BY <1>4, <1>5

(* No step strands a row under a talent that cannot use it.                 *)
LEMMA StepStrandsNothing ==
  ASSUME FoldersOnlyAdd, TalentInv, TalentNext
  PROVE  ch'.holds \ Uses(ch'.talent) \subseteq ch.holds \ Uses(ch.talent)
<1>1. CASE Reopen
  BY <1>1, ReopenedIs DEF Reopen
<1>2. CASE \E p : Patch(p) /\ FitsOn(ch, p)
  <2>1. PICK p : Patch(p) /\ FitsOn(ch, p)
    BY <1>2
  <2> DEFINE m == LaidOver(ch, p)
             e == Applied(ch, p)
  <2>2. Answered(p, m, e)
    BY <2>1, PatchAnswers DEF TalentInv, Sound
  <2>3. m.holds \ Uses(ch.talent) \subseteq ch.holds \ Uses(ch.talent)
    BY <2>1 DEF FitsOn
  <2> HIDE DEF m, e
  <2>4. m \in Character /\ m.world \in World
    BY <2>2 DEF Answered, Character
  <2>5. /\ e.talent = Resolve(Vendored, m, Current(m, p), m.metatype)
        /\ ch'.talent = Resolve(m.world, m, e.talent, m.metatype)
        /\ ch'.holds \subseteq e.holds
    BY <2>2 DEF Answered, Follows
  <2>6. ch'.talent = e.talent \/ e.talent = "Mundane"
    BY <2>4, <2>5, ChosenStays
  <2>7. e.talent = "Mundane" => Uses(e.talent) = {}
    BY MundaneUsesNothing
  <2>8. CASE Changed(ch, e, p)
    <3>1. e.holds \subseteq Uses(e.talent)
      BY <2>2, <2>8 DEF Answered, Follows
    <3> QED
      BY <2>5, <2>6, <2>7, <3>1
  <2>9. CASE ~Changed(ch, e, p)
    <3>1. e.holds = m.holds /\ e.talent = ch.talent
      BY <2>2, <2>9 DEF Answered, Follows, Changed
    <3> QED
      BY <2>3, <2>5, <2>6, <2>7, <3>1
  <2> QED
    BY <2>8, <2>9
<1> QED
  BY <1>1, <1>2, ActionIsAPatch

-----------------------------------------------------------------------------
(* The theorems.                                                            *)

(* For every set of tables, species and forms of either data, and from any  *)
(* file: whatever is edited in whatever order, an answer is typed and one   *)
(* more compute settles it; and where folders only add talents, nothing     *)
(* comes to be held that its talent cannot use (characters.py: apply_patch, *)
(* _drop_what_the_talent_cannot_use; compute).                              *)
THEOREM TalentAnswersAreSound ==
  ASSUME FoldersOnlyAdd
  PROVE  TalentSpec => AnswersAreSound
<1> DEFINE Strands == ch'.holds \ Uses(ch'.talent) \subseteq ch.holds \ Uses(ch.talent)
<1>1. TalentInv => TalentTypeOK /\ Settles
  <2>1. TalentInv => TalentTypeOK
    BY DEF TalentInv, Sound, TalentTypeOK, Formable, Character
  <2> QED
    BY <2>1, AnswersSettle
<1>2. TalentInv /\ TalentNext => Strands
  BY StepStrandsNothing
<1> HIDE DEF Strands
<1>3. TalentInv /\ [TalentNext]_ch => [Strands]_ch
  BY <1>2
<1> QED
  BY <1>1, <1>3, AlwaysTalentInv, PTL DEF TalentSpec, AnswersAreSound, NothingIsStranded, Strands

(* Where every row offers one, the engine keeps the talent of the patch.    *)
LEMMA EngineKeepsTalent ==
  ASSUME FoldersOnlyAdd, RowsOffer, NEW p, NEW m, NEW e, Answered(p, m, e)
  PROVE  ch'.talent = e.talent
<1>1. m \in Character /\ m.world \in World /\ m.letter \in Letter
  BY DEF Answered, Character
<1>2. Offered(Vendored, m) # {}
  <2> DEFINE row == OptionsAt(Vendored, m.letter)
  <2>1. row \in Seq(Talents) /\ row # <<>>
    BY <1>1, RowsOfTalents, TalentAssumption DEF RowsOffer
  <2> HIDE DEF row
  <2>2. 1 \in DOMAIN row
    BY <2>1
  <2>3. NamesIn(row) # {}
    BY <2>2 DEF NamesIn
  <2> QED
    BY <2>3 DEF Offered, AllOptions, row
<1>3. e.talent = Resolve(Vendored, m, Current(m, p), m.metatype)
  BY DEF Answered, Follows
<1>4. e.talent \in Offered(Vendored, m)
  BY <1>1, <1>2, <1>3, ResolvedIsATalent, TalentAssumption
<1>5. Resolve(m.world, m, e.talent, m.metatype) = e.talent
  BY <1>1, <1>3, <1>4, ChosenStays
<1> QED
  BY <1>5 DEF Answered

LEMMA FloorsGrow ==
  ASSUME StartsOnlyGrow, NEW e \in Character, NEW x \in Character, NEW k \in Keys,
         x.method = e.method, x.letter = e.letter, x.talent = e.talent, x.world = e.world,
         x.metatype = e.metatype, e.metatype \in Species[Vendored],
         Formable(e), x.form = FormLeft(e)
  PROVE  Floors(Vendored, e)[k] <= Floors(x.world, x)[k]
<1> DEFINE w == x.world
           sp == e.metatype
           E == SpeciesFloor[Vendored][<<sp, FormOf(Vendored, e)>>]
           X == SpeciesFloor[w][<<sp, FormOf(w, x)>>]
           S == StartAt[Vendored][e.letter][e.talent]
           T == StartAt[w][e.letter][e.talent]
<1>1. /\ sp \in Metatypes /\ e.letter \in Letter /\ e.talent \in Talents
      /\ w \in World /\ Vendored \in World
  BY TalentAssumption DEF Character
<1>2. S \in Nat /\ T \in Nat /\ S <= T
  BY <1>1, TalentAssumption DEF StartsOnlyGrow
<1>3. FormOf(Vendored, e) = FormHad(Vendored, sp, e.form)
  BY DEF FormOf, FormHad
<1>4. FormOf(w, x) = FormHad(w, sp, FormAsked(e))
  BY DEF FormOf, FormHad, FormLeft
<1>5. E \in [Keys -> Nat] /\ X \in [Keys -> Nat]
  <2>1. /\ FormOf(Vendored, e) \in FormsOf[Vendored][sp] \cup {NoForm}
        /\ FormOf(w, x) \in FormsOf[w][sp] \cup {NoForm}
    BY DEF FormOf
  <2> QED
    BY ONLY <1>1, <2>1, SpeciesData, Zenon
<1>6. E[k] <= X[k]
  <2>1. e.form \in FormsOf[w][sp] \cup {NoForm, sp} /\ sp \in Species[Vendored]
    BY DEF Formable
  <2>2. FormAsked(e) = IF sp \in Shapeshifters /\ e.form = NoForm THEN "Human" ELSE e.form
    BY DEF FormAsked
  <2> HIDE DEF sp, w
  <2>3. SpeciesFloor[Vendored][<<sp, FormHad(Vendored, sp, e.form)>>][k]
          <= SpeciesFloor[w][<<sp, FormHad(w, sp, IF sp \in Shapeshifters /\ e.form = NoForm
                                                THEN "Human" ELSE e.form)>>][k]
    BY <1>1, <2>1 DEF StartsOnlyGrow
  <2> QED
    BY <1>3, <1>4, <2>2, <2>3
<1>7. Floors(Vendored, e)[k] = IF k # KeyOf[e.talent] THEN E[k]
                              ELSE IF ByKarma(e.method) \/ S = 0 THEN 1 ELSE S
  BY DEF Floors
<1>8. Floors(w, x)[k] = IF k # KeyOf[e.talent] THEN X[k]
                       ELSE IF ByKarma(e.method) \/ T = 0 THEN 1 ELSE T
  BY DEF Floors
<1> HIDE DEF E, X, S, T, w
<1> QED
  BY <1>2, <1>5, <1>6, <1>7, <1>8 DEF w

(* Where folders also start no talent and no form lower, a change of        *)
(* letter, talent, method or species leaves no special points spent         *)
(* (_apply_talent_ratings writes the start the character's own table gives  *)
(* for free).                                                               *)
THEOREM TalentStartIsFree ==
  ASSUME FoldersOnlyAdd, RowsOffer, StartsOnlyGrow
  PROVE  TalentSpec => StartIsFree
<1> DEFINE moved == <<ch.letter, ch.talent, ch.method, ch.metatype>>
                      # <<ch'.letter, ch'.talent, ch'.method, ch'.metatype>>
           Unspent == moved /\ ch'.world = ch.world => \A k \in Keys : Paid(ch')[k] = 0
<1>1. ASSUME TalentInv, TalentNext, ch'.world = ch.world
      PROVE  moved => \A k \in Keys : Paid(ch')[k] = 0
  <2>0. CASE Reopen
    <3>1. ch' = [ch EXCEPT !.form = FormLeft(ch)] /\ ch \in Character
      BY <1>1, <2>0, ReopenedIs DEF Reopen, TalentInv, Sound
    <3>2. ~moved
      BY <3>1 DEF Character
    <3> QED
      BY <3>2
  <2>a. SUFFICES ASSUME ~Reopen PROVE moved => \A k \in Keys : Paid(ch')[k] = 0
    BY <2>0
  <2>1. PICK p : Patch(p) /\ FitsOn(ch, p)
    BY <1>1, <2>a, ActionIsAPatch
  <2> DEFINE m == LaidOver(ch, p)
             e == Applied(ch, p)
  <2>2. Answered(p, m, e)
    BY <1>1, <2>1, PatchAnswers DEF TalentInv, Sound
  <2>3. /\ NamesSpecies(p) \/ m.metatype = ch.metatype
        /\ m.world = ch.world => Formable(m)
    BY <2>1 DEF FitsOn
  <2> HIDE DEF m, e
  <2>4. ch'.talent = e.talent
    BY <2>2, EngineKeepsTalent
  <2>5. /\ e \in Character /\ ch' \in Character /\ e.form = m.form /\ e.metatype = m.metatype
        /\ e.letter = m.letter /\ e.method = m.method
        /\ ch'.method = e.method /\ ch'.letter = e.letter
        /\ ch'.metatype = e.metatype /\ ch'.special = e.special
        /\ ch'.world = m.world /\ e.world = m.world /\ m.world = ch.world
    BY <1>1, <2>2 DEF Answered, Follows
  <2>6. CASE ~Changed(ch, e, p)
    BY <2>3, <2>4, <2>5, <2>6 DEF Changed
  <2>7. CASE Changed(ch, e, p)
    <3>1. e.special = Floors(Vendored, e)
      BY <2>2, <2>7 DEF Answered, Follows
    <3>2. Formable(e) /\ FormLeft(e) = FormLeft(m)
      BY <2>3, <2>5 DEF Formable, FormLeft, FormAsked
    <3>a. ch'.form = FormLeft(e) /\ e.metatype \in Species[Vendored]
      BY <2>2, <2>5, <2>7, <3>2 DEF Answered
    <3>3. ASSUME NEW k \in Keys PROVE Floors(Vendored, e)[k] <= Floors(ch'.world, ch')[k]
      BY <2>4, <2>5, <3>2, <3>a, FloorsGrow
    <3>4. Floors(Vendored, e) \in [Keys -> Nat] /\ Floors(ch'.world, ch') \in [Keys -> Nat]
      <4>1. ch'.world \in World /\ Vendored \in World
        BY <2>5, TalentAssumption DEF Character
      <4> QED
        BY <2>5, <4>1, FloorsAreRatings
    <3>5. ASSUME NEW k \in Keys PROVE Paid(ch')[k] = 0
      <4> DEFINE F == Floors(ch'.world, ch')
                 V == Floors(Vendored, e)
      <4>1. ch'.special[k] = V[k]
        BY <2>5, <3>1
      <4>2. Paid(ch')[k] = (IF F[k] = 0 THEN 0
                            ELSE IF ch'.special[k] > F[k] THEN ch'.special[k] ELSE F[k]) - F[k]
        BY DEF Paid, Rating
      <4>3. V[k] \in Nat /\ F[k] \in Nat /\ V[k] <= F[k]
        BY <3>3, <3>4
      <4> HIDE DEF F, V
      <4> QED
        BY <4>1, <4>2, <4>3
    <3> QED
      BY <3>5
  <2> QED
    BY <2>6, <2>7
<1>2. TalentInv /\ TalentNext => Unspent
  BY <1>1
<1> HIDE DEF Unspent
<1>3. TalentInv /\ [TalentNext]_ch => [Unspent]_ch
  BY <1>2
<1> QED
  BY <1>3, AlwaysTalentInv, PTL DEF TalentSpec, StartIsFree, Unspent

(* A new species and its talent.                                            *)
LEMMA SpeciesFits ==
  ASSUME FoldersOnlyAdd, RowsOffer, EveryoneIsServed, TalentInv, TalentNext,
         ch'.metatype # ch.metatype
  PROVE  \/ ch'.metatype \in AllowedTo[ch'.world][ch'.talent]
         \/ ByKarma(ch'.method) /\ ch'.talent = "Mundane"
         \/ \A t \in Offered(ch'.world, ch') : ch'.metatype \notin AllowedTo[ch'.world][t]
<1>0. ~Reopen
  <2>1. ch \in Character /\ Computed(ch).metatype = ch.metatype
    BY ComputedIs DEF TalentInv, Sound
  <2> QED
    BY <2>1 DEF Reopen
<1>1. PICK p : Patch(p) /\ FitsOn(ch, p)
  BY <1>0, ActionIsAPatch
<1> DEFINE m == LaidOver(ch, p)
           e == Applied(ch, p)
           who == m.metatype
           t == e.talent
<1>2. Answered(p, m, e)
  BY <1>1, PatchAnswers DEF TalentInv, Sound
<1>3. NamesSpecies(p) \/ m.metatype = ch.metatype
  BY <1>1 DEF FitsOn
<1> HIDE DEF m, e
<1>4. /\ m \in Character /\ ch'.world = m.world /\ ch'.method = m.method
      /\ ch'.letter = m.letter /\ ch'.metatype = who /\ m.world \in World
      /\ m.letter \in Letter /\ t = Resolve(Vendored, m, Current(m, p), who)
  BY <1>2 DEF Answered, Follows, Character
<1>5. ch'.talent = t
  BY <1>2, EngineKeepsTalent
<1>6. NamesSpecies(p) /\ who \in Species[Vendored]
  BY <1>2, <1>3, <1>4 DEF Answered
<1> DEFINE may == Offered(Vendored, m) \cap OpenTo(Vendored, who)
<1>t. OpenTo(Vendored, who) \subseteq OpenTo(m.world, who)
  BY <1>4, <1>6 DEF EveryoneIsServed
<1>7. t = Default(Vendored, m, who) \/ who \in AllowedTo[Vendored][t]
  <2>1. CASE who \in AllowedTo[Vendored][Resolve(Vendored, m, m.talent, who)]
    BY <1>4, <1>6, <2>1 DEF Current
  <2>2. CASE who \notin AllowedTo[Vendored][Resolve(Vendored, m, m.talent, who)]
    <3>1. Current(m, p) = NoTalent
      BY <1>6, <2>2 DEF Current
    <3>2. NoTalent \notin Offered(Vendored, m)
      BY <1>4, OfferedAreTalents, TalentAssumption
    <3> QED
      BY <1>4, <3>1, <3>2 DEF Resolve
  <2> QED
    BY <2>1, <2>2
<1>8. CASE may # {} /\ t = Default(Vendored, m, who)
  <2>1. t \in OpenTo(Vendored, who)
    BY <1>4, <1>8, DefaultIsOpen, TalentAssumption
  <2> QED
    BY <1>4, <1>5, <1>t, <2>1 DEF OpenTo
<1>9. CASE may = {} /\ t = Default(Vendored, m, who)
  <2>1. CASE ByKarma(m.method)
    BY <1>4, <1>5, <1>9, <2>1, DefaultIsOpen, TalentAssumption
  <2>2. CASE ~ByKarma(m.method)
    <3>1. NamesIn(OptionsAt(Vendored, m.letter)) \cap OpenTo(Vendored, who) = {}
      BY <1>9, <2>2 DEF Offered
    <3>2. NamesIn(OptionsAt(m.world, m.letter)) \cap OpenTo(m.world, who) = {}
      BY <1>4, <1>6, <3>1 DEF EveryoneIsServed
    <3>3. Offered(ch'.world, ch') = NamesIn(OptionsAt(m.world, m.letter))
      BY <1>4, <2>2 DEF Offered
    <3>4. Offered(ch'.world, ch') \subseteq Talents
      BY <1>4, <3>3, RowsOfTalents, NamesOfTalents
    <3> QED
      BY <1>4, <3>2, <3>3, <3>4 DEF OpenTo
  <2> QED
    BY <2>1, <2>2
<1>10. CASE who \in AllowedTo[Vendored][t]
  <2>1. t \in Talents
    BY <1>4, ResolvedIsATalent, TalentAssumption
  <2> QED
    BY <1>4, <1>5, <1>t, <1>10, <2>1 DEF OpenTo
<1> QED
  BY <1>7, <1>8, <1>9, <1>10

(* A talent that is picked, where both readings offer it.                   *)
LEMMA PickedIsTaken ==
  ASSUME TalentInv, NEW t \in Talents, PickTalent(t), InBoth(ch', t)
  PROVE  ch'.talent = t
<1> DEFINE p == [talent |-> t]
           m == LaidOver(ch, p)
           e == Applied(ch, p)
<1>1. m = [ch EXCEPT !.talent = t]
  BY DEF TalentInv, Sound, LaidOver, Character
<1>2. FitsOn(ch, p)
  BY <1>1 DEF FitsOn, TalentInv, Sound, Formable, Character
<1>3. Answered(p, m, e)
  BY <1>2, PatchAnswers DEF TalentInv, Sound, PickTalent
<1>4. m.talent = t /\ ~NamesSpecies(p)
  BY <1>1 DEF TalentInv, Sound, Character, NamesSpecies
<1> HIDE DEF p, m, e
<1>5. /\ e.talent = Resolve(Vendored, m, t, m.metatype)
      /\ ch'.talent = Resolve(m.world, m, e.talent, m.metatype)
      /\ ch'.world = m.world /\ ch'.method = m.method /\ ch'.letter = m.letter
  BY <1>3, <1>4 DEF Answered, Follows, Current
<1>6. t \in Offered(Vendored, ch') /\ t \in Offered(ch'.world, ch')
  BY DEF InBoth
<1>7. t \in Offered(Vendored, m) /\ t \in Offered(m.world, m)
  BY <1>5, <1>6, SameOffer
<1> QED
  BY <1>5, <1>7 DEF Resolve

(* A talent that both readings offer stays through edits of anything else.  *)
LEMMA OwnedIsKept ==
  ASSUME TalentInv, InBoth(ch, ch.talent), NEW p, Patch(p), FitsOn(ch, p),
         DOMAIN p \subseteq {"special", "form", "holds"}, ch.holds \subseteq LaidOver(ch, p).holds
  PROVE  ch'.talent = ch.talent /\ ch.holds \subseteq ch'.holds
<1> DEFINE m == LaidOver(ch, p)
           e == Applied(ch, p)
<1>1. Answered(p, m, e)
  BY PatchAnswers DEF TalentInv, Sound
<1>2. /\ m.world = ch.world /\ m.method = ch.method /\ m.letter = ch.letter
      /\ m.metatype = ch.metatype /\ m.talent = ch.talent /\ ~NamesSpecies(p)
  BY DEF LaidOver, TalentInv, Sound, Character, NamesSpecies
<1> HIDE DEF m, e
<1>3. ch.talent \in Offered(Vendored, ch) /\ ch.talent \in Offered(ch.world, ch)
  BY DEF InBoth
<1>4. ch.talent \in Offered(Vendored, m) /\ ch.talent \in Offered(m.world, m)
  BY <1>2, <1>3, SameOffer
<1>5. /\ e.talent = Resolve(Vendored, m, ch.talent, m.metatype)
      /\ ch'.talent = Resolve(m.world, m, e.talent, m.metatype)
  BY <1>1, <1>2 DEF Answered, Follows, Current
<1>6. e.talent = ch.talent /\ ch'.talent = ch.talent
  BY <1>4, <1>5 DEF Resolve
<1>7. e.letter = ch.letter /\ e.method = ch.method
  BY <1>1, <1>2 DEF Answered, Follows
<1>8. ~Changed(ch, e, p)
  BY <1>2, <1>6, <1>7 DEF Changed
<1>9. ch'.holds = m.holds \cap Kept(ch.talent)
  BY <1>1, <1>6, <1>8 DEF Answered, Follows
<1>10. ch.holds \subseteq Kept(ch.talent)
  BY DEF TalentInv, Sound
<1> QED
  BY <1>6, <1>9, <1>10 DEF m

(* Where folders only add, close no talent to a species and add no first    *)
(* one for it: a new species comes with a talent it may take, and a talent  *)
(* both tables offer is taken when picked and kept through edits of         *)
(* anything else (engine/priority.py: resolve_talent_for_method).           *)
THEOREM TalentsAreKept ==
  ASSUME FoldersOnlyAdd, RowsOffer, EveryoneIsServed
  PROVE  TalentSpec => TalentIsKept
<1> DEFINE Fitting == ch'.metatype # ch.metatype =>
             \/ ch'.metatype \in AllowedTo[ch'.world][ch'.talent]
             \/ ByKarma(ch'.method) /\ ch'.talent = "Mundane"
             \/ \A t \in Offered(ch'.world, ch') : ch'.metatype \notin AllowedTo[ch'.world][t]
           Stays ==
                   /\ \A t \in Talents : PickTalent(t) /\ InBoth(ch', t) => ch'.talent = t
                   /\ InBoth(ch, ch.talent) =>
                        ((\E k \in Keys, n \in 1 .. Cap : Raise(k, n))
                           \/ (\E f \in FormChoices : PickForm(f))
                           \/ (\E h \in Holdings : Hold(h))
                         => ch'.talent = ch.talent /\ ch.holds \subseteq ch'.holds)
<1>1. TalentInv /\ TalentNext => Fitting
  BY SpeciesFits
<1>2. TalentInv => Stays
  <2> SUFFICES ASSUME TalentInv PROVE Stays
    OBVIOUS
  <2>0. /\ ch \in Character /\ Formable(ch) /\ ch.form \in Forms /\ ch.world \in World
        /\ ch.special \in [Keys -> Nat] /\ ch.metatype \in Metatypes /\ ch.holds \subseteq Holdings
    BY DEF TalentInv, Sound, Character
  <2>1. \A t \in Talents : PickTalent(t) /\ InBoth(ch', t) => ch'.talent = t
    BY PickedIsTaken
  <2>2. ASSUME InBoth(ch, ch.talent), NEW k \in Keys, NEW n \in 1 .. Cap, Raise(k, n)
        PROVE  ch'.talent = ch.talent /\ ch.holds \subseteq ch'.holds
    <3> DEFINE s == [ch.special EXCEPT ![k] = n]
               p == [special |-> s]
    <3>1. s \in [Keys -> Nat]
      BY <2>0
    <3> HIDE DEF s
    <3>2. LaidOver(ch, p) = [ch EXCEPT !.special = s]
      BY <2>0 DEF LaidOver, Character
    <3>3. FitsOn(ch, p)
      BY <2>0, <3>1, <3>2 DEF FitsOn, Formable, Character
    <3>4. Patch(p) /\ DOMAIN p = {"special"}
      BY <2>2 DEF Raise, s
    <3>5. ch.holds \subseteq LaidOver(ch, p).holds
      BY <2>0, <3>2 DEF Character
    <3> HIDE DEF p
    <3> QED
      BY <2>2, <3>3, <3>4, <3>5, OwnedIsKept
  <2>3. ASSUME InBoth(ch, ch.talent), NEW f \in FormChoices, PickForm(f)
        PROVE  ch'.talent = ch.talent /\ ch.holds \subseteq ch'.holds
    <3> DEFINE p == [form |-> f]
    <3>1. f \in FormsOf[ch.world][ch.metatype] \cup {NoForm} /\ f \in Forms
      BY <2>0, FormsOfSpecies DEF FormChoices
    <3>2. LaidOver(ch, p) = [ch EXCEPT !.form = f]
      BY <2>0 DEF LaidOver, Character
    <3>3. FitsOn(ch, p)
      BY <2>0, <3>1, <3>2 DEF FitsOn, Formable, Character
    <3>4. Patch(p) /\ DOMAIN p = {"form"}
      BY <2>3 DEF PickForm
    <3>5. ch.holds \subseteq LaidOver(ch, p).holds
      BY <2>0, <3>2 DEF Character
    <3> HIDE DEF p
    <3> QED
      BY <2>3, <3>3, <3>4, <3>5, OwnedIsKept
  <2>4. ASSUME InBoth(ch, ch.talent), NEW h \in Holdings, Hold(h)
        PROVE  ch'.talent = ch.talent /\ ch.holds \subseteq ch'.holds
    <3> DEFINE H == ch.holds \cup {h}
               p == [holds |-> H]
    <3>1. /\ H \subseteq Holdings /\ H \ Uses(ch.talent) \subseteq ch.holds \ Uses(ch.talent)
          /\ ch.holds \subseteq H
      BY <2>0, <2>4 DEF Hold
    <3>a. Patch(p)
      BY <2>4 DEF Hold
    <3> HIDE DEF H
    <3>2. LaidOver(ch, p) = [ch EXCEPT !.holds = H]
      BY <2>0 DEF LaidOver, Character
    <3>3. FitsOn(ch, p)
      BY <2>0, <3>1, <3>2 DEF FitsOn, Formable, Character
    <3>4. DOMAIN p = {"holds"}
      OBVIOUS
    <3>5. ch.holds \subseteq LaidOver(ch, p).holds
      BY <2>0, <3>1, <3>2 DEF Character
    <3> HIDE DEF p
    <3> QED
      BY <2>4, <3>a, <3>3, <3>4, <3>5, OwnedIsKept
  <2> QED
    BY <2>1, <2>2, <2>3, <2>4
<1> HIDE DEF Fitting, Stays
<1>3. TalentInv /\ [TalentNext]_ch => [Fitting]_ch /\ [Stays]_ch
  BY <1>1, <1>2
<1> QED
  BY <1>3, AlwaysTalentInv, PTL DEF TalentSpec, TalentIsKept, TalentFitsSpecies,
     TalentIsNotSwapped, Fitting, Stays
=============================================================================
