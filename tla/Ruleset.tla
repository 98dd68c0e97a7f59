------------------------------- MODULE Ruleset -------------------------------
(***************************************************************************)
(* The ruleset of a character: how useRulesetLoader.ts gets one into it    *)
(* from the pulldown, a settings file or a whole folder, and how           *)
(* characters.py lays what is sent over what the character has.            *)
(*                                                                         *)
(* Each pick is a chain of awaits: parse a file, remember the folder,      *)
(* recall it, merge it, patch.  A chain keeps the `ch' and the `folder' of *)
(* the render it was started from, and chains overlap.  A body handed to   *)
(* the editor's patch lands whole, now or after the ones in front of it,   *)
(* or, when it fails or overlaps them, never.                              *)
(*                                                                         *)
(* Of a ruleset only the name, one number (`knob') and the custom data are *)
(* told apart.  A settings file is parsed into all of its fields, with the *)
(* knobs it does not change unset; a preset names only what it moves.  An  *)
(* unset knob means the printed number.  A folder is its own content hash. *)
(***************************************************************************)
EXTENDS Aggregates

CONSTANTS
  File,       \* what a settings file is parsed into
  Preset,     \* the shipped ones: [name, knob]
  Folder,     \* custom-data folders
  Picks,      \* what can be picked: [settings : Seq(File), folder]
  Printed,    \* a knob that is unset (None in the code): the printed number
  Unnamed,    \* the name of a ruleset that is not one of the pulldown
  NoDirs,     \* a ruleset that names no custom data
  None,       \* no folder; no dataset
  MAX,        \* settings files the browser keeps (50 in the code)
  Slot,       \* places for picks in flight (a bound)
  MaxActs     \* bound on what the user does

Fields == {"name", "knob", "dirs", "dataset"}

ASSUME RulesetAssumption ==
  /\ MAX \in Nat \ {0} /\ MaxActs \in Nat
  /\ None \notin Folder
  /\ \A f \in File : f = [name |-> f.name, knob |-> f.knob, dirs |-> f.dirs, dataset |-> None]
  /\ \A p \in Preset : p = [name |-> p.name, knob |-> p.knob]
  /\ \A k \in Picks : k.settings \in Seq(File) /\ k.folder \in Folder \cup {None}

VARIABLES
  ruleset,    \* settings of the character, as saved
  files,      \* React: the files in the pulldown, newest first
  folder,     \* React: the folder picked or recalled last
  kept,       \* this browser: settingsFiles, and the folder under folder:last
  task,       \* [Slot -> a pick in flight]
  merges,     \* auxiliary: the pairs of folder and directories ever merged
  acts

vars == << ruleset, files, folder, kept, task, merges, acts >>

\* What a preset sends: its name, and the knobs it moves off the printed values.
PresetSettings(p) ==
  [f \in {"name"} \cup (IF p.knob = Printed THEN {} ELSE {"knob"}) |-> p[f]]

Unset == [name |-> Unnamed, knob |-> Printed, dirs |-> NoDirs, dataset |-> None]

Init ==
  /\ ruleset \in {Unset} \cup {[Unset EXCEPT !.name = p.name] : p \in {q \in Preset : q.knob = Printed}}
  /\ files = << >>
  /\ folder = None
  /\ kept \in {[files |-> << >>, folder |-> g] : g \in Folder \cup {None}}
  /\ task = [s \in Slot |-> [pc |-> "idle"]]
  /\ merges = {}
  /\ acts = 0

-----------------------------------------------------------------------------
(* characters.py and settings-store.ts                                     *)

Laid(body, f) == IF f \in DOMAIN body THEN body[f] ELSE ruleset[f]

\* Mutant of Merged: a field of the printed value is left out of the answer
\* of /api/settings/parse, as exclude_defaults would.
MergedSparsely(body) ==
  LET said == [f \in {g \in DOMAIN body : body[g] \notin {Printed, None}} |-> body[f]]
  IN  [name |-> Laid(said, "name"), knob |-> Laid(said, "knob"),
       dirs |-> Laid(said, "dirs"), dataset |-> Laid(said, "dataset")]

\* Fields that are sent replace, fields that are not stay.
Merged(body) ==
  [name |-> Laid(body, "name"), knob |-> Laid(body, "knob"),
   dirs |-> Laid(body, "dirs"), dataset |-> Laid(body, "dataset")]

Without(list, name) == Picked(list, {f \in File : f.name # name})

\* Newest first; of the same name only the newest; at most MAX.
Saved(list, f) ==
  LET next == << f >> \o Without(list, f.name)
  IN  SubSeq(next, 1, IF Len(next) < MAX THEN Len(next) ELSE MAX)

-----------------------------------------------------------------------------
(* One chain                                                               *)

Idle == [pc |-> "idle"]

\* The body is in the editor's hands.
Sent(body) == [pc |-> "sent", body |-> body]

Move(s, t) == task' = [task EXCEPT ![s] = t]

Wanted(body) == IF "dirs" \in DOMAIN body THEN body.dirs ELSE NoDirs

\* merged: the upload of what is in hand is on its way.  `plain' is what is
\* patched when it fails, or None when nothing is.
Merging(body, have, plain) ==
  [pc |-> "merging", body |-> body, have |-> have, plain |-> plain]

\* apply, up to its first await: nothing to merge, a folder in hand, or one to
\* be recalled.  `hand' is the folder of the render, kept for the property.
Apply(s, body, have, hand) ==
  \/ /\ Wanted(body) = NoDirs
     /\ Move(s, Sent(body)) /\ UNCHANGED folder
  \/ /\ Wanted(body) # NoDirs /\ have # None
     /\ Move(s, Merging(body, have, body)) /\ folder' = have
  \/ /\ Wanted(body) # NoDirs /\ have = None
     /\ Move(s, [pc |-> "recalling", body |-> body, hand |-> hand]) /\ UNCHANGED folder

Act == acts < MaxActs /\ acts' = acts + 1

Free(s) == task[s] = Idle

InPulldown == {files[i] : i \in DOMAIN files}

\* What the pulldown says: the name, or the empty entry for one it does not know.
Shown ==
  IF ruleset.name \in {b.name : b \in InPulldown \cup Preset} THEN ruleset.name ELSE Unnamed

\* onPick: the pulldown's empty entry.
PickNothing(s) ==
  /\ Act
  /\ Free(s)
  /\ Shown # Unnamed
  /\ Move(s, Sent([name |-> Unnamed]))
  /\ UNCHANGED << ruleset, files, folder, kept, merges >>

\* onPick: a file of the pulldown, or else a shipped preset.
PickNamed(s, body) ==
  /\ Act
  /\ Free(s)
  /\ body.name # Shown
  /\ \/ body \in InPulldown
     \/ /\ body \in {PresetSettings(p) : p \in Preset}
        /\ body.name \notin {f.name : f \in InPulldown}
  /\ Apply(s, body, folder, folder)
  /\ UNCHANGED << ruleset, files, kept, merges >>

Recalled(s) ==
  /\ task[s].pc = "recalling"
  /\ LET t == task[s]
     IN  IF kept.folder = None
         THEN Move(s, Sent(t.body)) /\ UNCHANGED folder
         ELSE Move(s, Merging(t.body, kept.folder, t.body)) /\ folder' = kept.folder
  /\ UNCHANGED << ruleset, files, kept, merges, acts >>

\* Mutant of MergeAnswered: the hash is patched alone, onto whatever ruleset the
\* character has by then.
MergeAnsweredAlone(s) ==
  /\ task[s].pc = "merging" /\ task[s].have # None
  /\ merges' = merges \cup {<< task[s].have, task[s].body.dirs >>}
  /\ Move(s, Sent([dataset |-> task[s].have]))
  /\ UNCHANGED << ruleset, files, folder, kept, acts >>

\* uploadCustomData answers with the hash.
MergeAnswered(s) ==
  /\ task[s].pc = "merging" /\ task[s].have # None
  /\ LET t == task[s]
     IN  /\ merges' = merges \cup {<< t.have, t.body.dirs >>}
         /\ Move(s, Sent([t.body EXCEPT !.dataset = t.have]))
  /\ UNCHANGED << ruleset, files, folder, kept, acts >>

\* The ruleset still applies, where there is one; an empty folder is refused.
MergeFails(s) ==
  /\ task[s].pc = "merging"
  /\ Move(s, IF task[s].plain = None THEN Idle ELSE Sent(task[s].plain))
  /\ UNCHANGED << ruleset, files, folder, kept, merges, acts >>

\* The server lays the body over what the character has by then, or the patch
\* failed, or was dropped by the rules of patch-queue.ts.
Landed(s) ==
  /\ task[s].pc = "sent"
  /\ ruleset' \in {ruleset, Merged(task[s].body)}
  /\ Move(s, Idle)
  /\ UNCHANGED << files, folder, kept, merges, acts >>

-----------------------------------------------------------------------------
(* Files and folders                                                       *)

\* onFile: a settings file is sent to be parsed.
LoadFile(s, f) ==
  /\ Act
  /\ Free(s)
  /\ Move(s, [pc |-> "parsing", body |-> f, hand |-> folder])
  /\ UNCHANGED << ruleset, files, folder, kept, merges >>

\* A store that is full costs the next visit, not this one.
Parsed(s) ==
  /\ task[s].pc = "parsing"
  /\ files' = Saved(kept.files, task[s].body)
  /\ kept' \in {kept, [kept EXCEPT !.files = files']}
  /\ Apply(s, task[s].body, task[s].hand, task[s].hand)
  /\ UNCHANGED << ruleset, merges, acts >>

\* onFolder and onZip: the files of the pick are read.
LoadStyle(s, k) ==
  /\ Act
  /\ Free(s)
  /\ Move(s, [pc |-> "reading", pick |-> k, hand |-> folder, seen |-> ruleset])
  /\ UNCHANGED << ruleset, files, folder, kept, merges >>

\* applyStyle without a settings half: custom data for the ruleset the
\* character had in the render of the pick.
Bare(s, t) ==
  IF t.seen.dirs = NoDirs THEN Move(s, Idle)
  ELSE Move(s, Merging(t.seen, t.pick.folder, None))

Onward(s, t) ==
  IF t.pick.settings = << >> THEN Bare(s, t)
  ELSE Move(s, [pc |-> "style", pick |-> t.pick, hand |-> t.hand, todo |-> t.pick.settings])

StyleRead(s) ==
  /\ task[s].pc = "reading"
  /\ LET t == task[s]
     IN  IF t.pick.folder = None
         THEN Onward(s, t) /\ UNCHANGED folder
         ELSE folder' = t.pick.folder /\ Move(s, [t EXCEPT !.pc = "remembering"])
  /\ UNCHANGED << ruleset, files, kept, merges, acts >>

\* rememberFolder, which swallows a full store.
Remembered(s) ==
  /\ task[s].pc = "remembering"
  /\ kept' \in {kept, [kept EXCEPT !.folder = task[s].pick.folder]}
  /\ Onward(s, task[s])
  /\ UNCHANGED << ruleset, files, folder, merges, acts >>

\* Mutant of InHand: a pick without custom data shadows the folder of the
\* pick before it.
InHandShadowed(t) == t.pick.folder

\* apply's `have': the folder of the pick, or the one of the render.
InHand(t) == IF t.pick.folder # None THEN t.pick.folder ELSE t.hand

\* One settings file of a folder; when it is the last, the pulldown has them
\* all, and the only one applies itself.
StyleParsed(s) ==
  /\ task[s].pc = "style"
  /\ LET t    == task[s]
         next == Saved(kept.files, Head(t.todo))
     IN  /\ kept' \in {kept, [kept EXCEPT !.files = next]}
         /\ IF Tail(t.todo) # << >>
            THEN /\ Move(s, [t EXCEPT !.todo = Tail(t.todo)])
                 /\ UNCHANGED << files, folder >>
            ELSE /\ files' = next
                 /\ IF Len(t.pick.settings) = 1
                    THEN Apply(s, Head(t.todo), InHand(t), t.hand)
                    ELSE Move(s, Idle) /\ UNCHANGED folder
  /\ UNCHANGED << ruleset, merges, acts >>

\* A file that cannot be read or parsed ends the pick with a message.
PickFails(s) ==
  /\ task[s].pc \in {"parsing", "reading", "style"}
  /\ Move(s, Idle)
  /\ UNCHANGED << ruleset, files, folder, kept, merges, acts >>

\* onForget, offered for the file the character is under.
Forget(s) ==
  /\ Act
  /\ Free(s)
  /\ ruleset.name \in {f.name : f \in InPulldown}
  /\ files' = Without(kept.files, ruleset.name)
  /\ kept' \in {kept, [kept EXCEPT !.files = files']}
  /\ Move(s, Sent([name |-> Unnamed]))
  /\ UNCHANGED << ruleset, folder, merges >>

\* setBooks: a book ticked by hand makes the ruleset the character's own.  It
\* is an updater: composed from the saved ruleset when its turn comes.
Tick ==
  /\ Act
  /\ ruleset' = Merged([ruleset EXCEPT !.name = Unnamed])
  /\ UNCHANGED << files, folder, kept, task, merges >>

\* The page is opened again.
Reload ==
  /\ Act
  /\ files' = kept.files
  /\ folder' = None
  /\ task' = [s \in Slot |-> Idle]
  /\ UNCHANGED << ruleset, kept, merges >>

Next ==
  \/ Tick
  \/ Reload
  \/ \E s \in Slot :
       \/ PickNothing(s)
       \/ Forget(s)
       \/ \E b \in File \cup {PresetSettings(p) : p \in Preset} : PickNamed(s, b)
       \/ \E f \in File : LoadFile(s, f)
       \/ \E k \in Picks : LoadStyle(s, k)
       \/ Recalled(s)
       \/ MergeAnswered(s)
       \/ MergeFails(s)
       \/ Landed(s)
       \/ Parsed(s)
       \/ StyleRead(s)
       \/ Remembered(s)
       \/ StyleParsed(s)
       \/ PickFails(s)

Spec == Init /\ [][Next]_vars

-----------------------------------------------------------------------------
(* Properties *)

Settings ==
  [name    : {Unnamed} \cup {b.name : b \in File \cup Preset},
   knob    : {Printed} \cup {b.knob : b \in File \cup Preset},
   dirs    : {NoDirs} \cup {f.dirs : f \in File},
   dataset : Folder \cup {None}]

\* At most MAX files, each name once: saveSettingsFile.
Shelf(list) ==
  /\ list \in Seq(File)
  /\ Len(list) <= MAX
  /\ \A i, j \in DOMAIN list : list[i].name = list[j].name => i = j

\* Types, and what the pulldown offers and the browser keeps are shelves.
TypeOK ==
  /\ ruleset \in Settings
  /\ Shelf(files)
  /\ folder \in Folder \cup {None}
  /\ Shelf(kept.files)
  /\ kept.folder \in Folder \cup {None}
  /\ \A s \in Slot :
       task[s].pc \in {"idle", "parsing", "reading", "remembering", "style", "recalling", "merging", "sent"}
  /\ acts \in 0 .. MaxActs

\* The hash a character carries is of a folder that was merged with the very
\* directories it carries, whichever picks overlapped and whichever failed:
\* otherwise the service was never asked for that merge when it was picked, and
\* nobody was shown its report.
CarriesItsMerge ==
  ruleset.dataset # None /\ ruleset.dirs # NoDirs => << ruleset.dataset, ruleset.dirs >> \in merges

\* A character that says it is under a settings file is under all of it: no
\* number of the ruleset before survives the pick of a file.
FileRulesAreWhole ==
  \A f \in File :
    ruleset.name = f.name =>
      \E g \in File : /\ g.name = f.name
                      /\ ruleset.knob = g.knob /\ ruleset.dirs = g.dirs

\* Types and shelves, and the rules of a file are held whole or not at all.
RulesOK == TypeOK /\ FileRulesAreWhole

\* A ruleset that names custom data is sent without any only when there was
\* none to be found, in the page that picked it or in this browser, or when its
\* merge failed (recallFolder: "switching rulesets does not ask for it again";
\* applyStyle: an empty pick must not "shadow the folder from the previous pick").
FolderIsNotAskedTwice ==
  [][\A s \in Slot :
       LET t == task'[s]
       IN  task[s].pc # "sent" /\ t.pc = "sent" /\ Wanted(t.body) # NoDirs /\ t.body.dataset = None =>
             \/ task[s].pc = "merging"
             \/ task[s].pc = "recalling" /\ task[s].hand = None /\ kept.folder = None]_vars

\* "a bare `{name, books}` leaves every knob unset, which is what unset means":
\* the pulldown's empty entry, landing, brings back the printed numbers.
UnsetIsPrinted ==
  [][\A s \in Slot :
       task[s] = Sent([name |-> Unnamed]) /\ task'[s] = Idle /\ ruleset' # ruleset =>
         ruleset'.knob = Printed]_vars
=============================================================================
