# Chummer web: specifications, model checks and proofs

This directory holds TLA+ specifications of the parts of Chummer web where an
ordinary test reaches least: what happens between two awaits of the browser, a
server that forgets while it is being asked, and a character whose price must
come to the same sum along every path of edits. TLC checks each specification on
a small instance; TLAPS proves the main results for every value of the
constants. `PROJECT.json` is the index: which definition stands for which lines,
which run checks what, which change of the code each property would notice, and
where the code is exposed (`hazards`).

To repeat a check: `tlc -config Ledger.cfg MCLedger.tla`; to repeat a proof:
`tlapm CareerLedger_proofs.tla`.

Paths below are relative to the repository: `F/` is `src/frontend/lib/`, `B/` is
`src/backend/app/`.

## 1. The system

A Next.js page edits Shadowrun characters and a FastAPI service computes them.
The service keeps **no character**: every request carries the whole character,
the answer is the whole character again with everything derived, and the browser
keeps it in IndexedDB. What the service does keep is a cache of rulesets
("datasets") merged from a table's custom-data files, and it may lose that at any
time.

| Component | State | Operations | Talks to | Where it is hard | What makes it correct |
|---|---|---|---|---|---|
| Character editor `F/character/useCharacterEditor.ts`, `patch-queue.ts` | character on screen, `lastCommitted`, `busy`, body in flight, queued body, updaters, idle waiters, transition counter, roster | patch, patch with an updater, undo, redo, portrait file, open, new, duplicate, import, delete, bootstrap | `api.ts`, history, ruleset loader, screens | edits composed from a character that is about to be replaced; switches that wait for a commit; closures of an older render | what lands is what was meant; what is held is sent; nobody waits for ever; a late answer never replaces a newer request |
| Undo/redo `F/character/history.ts` | two stacks | record, stepBack, stepForward, reset | editor | the snapshot popped comes back after a round trip that may fail | bounded; a line of versions with a cursor |
| Browser store `F/character/local-store.ts` | IndexedDB records, last id | put, get, remove, list | `api.ts` | quota, reload between two writes, two tabs | what is committed is what a reload finds |
| API client `F/api.ts` | `lastCustomData` | send with one retry, compute with a time limit, patch, get, create | service, stores | 409 and re-upload, overlapping requests, silence | a compute ends; the retry uploads the right set |
| Dataset cache `B/dataset_store.py` | 8 merged sets, least recently used first | lookup, put | routes | eviction between two looks, restart | bounded; keeps what is used; never another set |
| Catalog route `B/api/catalog.py` | 4 serialised catalogs, ETag, rebuild quota | get | dataset cache | built outside the lock | bytes of the set that was asked for |
| Custom data `B/customdata.py`, `B/api/import_routes.py`, `F/character/customdata-store.ts` | files kept in the browser | upload, merge, keep | dataset cache, ruleset loader | hash equal, directories different | as above |
| Character routes `B/characters.py`, `B/api/characters.py` | none | patch, compute | engine | a patch is checked under one ruleset and computed under another | career record made and forgotten exactly with career |
| Compute engine `B/engine/` | none: phases over one context | compute | catalog | the order of phases: a record read before it is made | the same price for the same character, along every path |
| Career record `B/engine/compute/_career*.py`, `B/models/career.py` | `career_baseline` inside the character | snapshot, hold floors, record, price | every karma phase | recorded rows deleted, used up, renamed, re-bought | nothing recorded is refunded or charged again |
| Ruleset loader `F/character/useRulesetLoader.ts`, `settings-store.ts` | known settings files, last merge, folder | pick, load a file, apply, forget | editor's patch, custom data | a chain of awaits around a stale render | the hash carried is of the directories carried; a file's rules come whole |
| Import `F/character/useCharacterImport.ts`, `B/*_import/` | import report, unmatched gear | import a file, a sheet URL, add a row | editor, `pending-gear-store.ts` | a row crossed off though its patch failed | each unmatched row is on the sheet or on the list |
| Export `F/character/useCharacterExport.ts`, `B/*_export/`, `B/export_check.py` | review | check, confirm, save | API | the character changes during the check | what is saved is what was checked |
| Catalog reload `F/character/useCatalogReload.ts` | loaded key | reload | API | a superseded answer | the catalog on screen is that of the key |
| Sheet fetch `B/sheets_url.py` | none | redirects, bounded read | network | deadline between reads | ends in bounded time |
| Middleware `B/api/middleware.py` | per request | body limit, request id | everything | the limit is met after the answer began | one response to one request |
| Deployment `src/deploy/` | cached identity token | proxy, keep-alive | service | several refreshes at once | a token sent is valid |
| Life Modules: free levels `B/engine/life_module_skills.py` | none between calls: the saved modules and transfers go in | apply a module's grants, settle a pool of excess levels, report | compute, screens | modules in stage order; a pool settled whole; a judgement made before the last module | every level accounted for; complete means nothing saved was passed over |
| Life Modules: skills bought and raised `B/life_module_mutations.py`, `B/engine/life_module_career.py`, `..._skill_purchases.py` | snapshot, priced raises, history of raises | buy, enter career, raise, undo, leave career | compute, catalog | raises are replayed on a catalog that has changed | what was paid stays paid; no rating is lost on the way back |
| Priorities and talents `B/characters.py`, `B/engine/priority.py`, tabs `MetaTab`, `PriorityTab` | letter, method, species, form, talent and what is held by it | one patch, then compute | reference data, custom folder | settled twice, by two readings of one table | what is held fits the talent; starts are free; a talent is not swapped |
| Electronic construction `B/electronic_construction.py`, `B/engine/gear/electronic_modifications.py`, parts panel and record editor | purchases and supplies of parts, rows, records | buy, register, add, move, remove, arrange, reserve, complete, correct | editor's queue of bodies | whole lists replaced from an older screen | parts are promised once; what was built stays paid |
| Pure parts: data loader, improvements, gear, ware, importers, exporters, wording | none | functions of their input | - | size | compared with fixtures by the test suite |

How an edit travels: a control composes a body from the character it sees and
calls `patch`. If nothing is in flight the editor takes `busy`, `api.patch` reads
the stored record, sends it with the body, waits for the computed character
(30 s at most), writes it to IndexedDB, and the editor records the previous one
in its history and shows the new one. If the service answers 409 it has forgotten
the custom data; `send` uploads the kept files and repeats the request once. A
body that arrives meanwhile is merged into one held body, kept as an updater, or
dropped, by the rules of `patch-queue.ts`. An open, a new character or a delete
waits until `busy` is let go.

## 2. The modules

| Module | Stands for | Uses |
|---|---|---|
| `EditHistory` | the operators on the two stacks | - |
| `History` | `history.ts` as the editor drives it | `EditHistory` |
| `Timeline` | abstract: versions and a cursor | - |
| `CharacterEditor` | the editor, `api.ts`, `local-store.ts`, several characters | `EditHistory`, instance of `History` |
| `LruCache` | the bounded, ordered cache that both caches of the server are | - |
| `DatasetHandshake` | server caches, 409, re-upload, time limit, restarts, other visitors | `LruCache` |
| `Aggregates` | a sum over a set, the items of a list that pass | - |
| `CareerLedger` | patches of one character, the career record and the karma bill | `Aggregates` |
| `Ruleset` | the ruleset loader, the settings store, the merge of settings on the server | - |
| `LifeSkillGrants` | the free skill levels of a Life Modules character, one computation | `Aggregates` |
| `LifeCareer` | the same character's skills through creation and career | `Aggregates` |
| `TalentPatch` | one patch on priorities, species and talent, and the compute behind it | - |
| `Construction` | parts, modifications and construction records under whole-list bodies | `Aggregates` |
| `History_proofs`, `Aggregates_proofs`, `CharacterEditor_proofs`, `DatasetHandshake_proofs`, `CareerLedger_proofs`, `RulesetTalent_proofs` (of `Ruleset` and `TalentPatch`), `LifeModules_proofs` (of `LifeSkillGrants` and `LifeCareer`), `Construction_proofs` | theorems | their module |
| `MC*` | instances for TLC | their module |

### History, Timeline

State: `hist` (both stacks), `current` (`lastCommitted`), `restoring` (the
snapshot on its way through `api.compute`). `Undo` and `Redo` pop at once, as
`stepBack` does; `Restored` shows the snapshot, `RestoreFailed` leaves the stacks
where they are, as the catch of `restoreSnapshot` does. `Edit` records the
previous state and caps the stack, `Remember` is a switch of character.
`Timeline` is what a user would say an undo history is: a tape of versions, a
cursor, an edit cuts the tape after the cursor. `IsTimeline` is the refinement
`tape <- Line(undo, present, redo)`, `at <- Len(undo) + 1`.

### CharacterEditor

One step is what runs between two awaits. `job` is whoever holds `busy`: a run of
patches or a restore. `PatchReads` reads the stored record and sends; `Computed`
is the answer, on its way into IndexedDB; `Stored` the commit; `PatchShown`
records, shows, and takes the next held body or updater. On the way the service
may ask for custom data (`DataForgotten`), which is uploaded (`DataUploaded`)
before the request is repeated once; `TimedOut` is `COMPUTE_TIMEOUT_MS`, which an
upload does not have; `Refused` drops what waits. So a reload, a delete or an edit
may come between the answer and the commit, and between the commit and the screen.
`task[s]` is a switch of character in one of the `Slot`s: its program counter
walks through confirm, removal, waiting for idle, reading, asking, uploading and
showing; its answer is written in the same step. `waiters` are the promises of
`waitForIdle` that are not resolved, `ready` the ones that are: those are
microtasks, and `Resume` runs before anything else may. `slow` is `onPortraitFile`
(or the ruleset loader) between its await and its call of the `patch` of an older
render; `typing` is a control with a draft. `Reload` leaves only what IndexedDB
and localStorage hold.

A character is a function of leaves, leaves belong to fields, and a body replaces
whole fields as the control that composed it saw them (`Compose`). The history
variable `means` says which leaves a body was made to change; `LandingIsAsMeant`
compares it with what landed. `DisjointKeys` and `AdvancesOneLeaf` are the two
rules of `patch-queue.ts` on such bodies.

### LruCache, DatasetHandshake

`LruCache` is an `OrderedDict` under a lock: `Used` is `move_to_end`, `Stored` is
insert, move and drop from the front. `DatasetHandshake` has two of them: merged
sets (`_Store`) and serialised catalogs (`_custom_catalogs`). `req[s]` is a
request: a compute (checked, then computed - two looks at the cache, as in
`require_dataset` and `overlay_for`), a settings patch (checked under the old
ruleset, computed under the new), an export, a catalog (built outside the lock)
or the loading of a folder. `Reupload`, `Upload`, `UploadRefused` and
`UploadUnanswered` are the body of the retry; `TimedOut` is `COMPUTE_TIMEOUT_MS`;
`FetchFails` any rejection. `lastCustomData` is one variable for all requests, as
in `api.ts`. `OtherUpload` is another visitor, `Restart` the process going away.
A ruleset is a pair of hash and directory list, since the same files merge into
something else with other directories enabled. A name of a directory is a sequence
of parts, the bars in it left out between them, and `OverlayKey` joins the list as
`overlay_key` does, so that `["a|b"]` and `["a", "b"]` have one key; a catalog is
asked for by a list that was joined by bars and split again (`Respelled`,
`useCatalogReload.ts:36,55`). A set that is gone between the check and the computing
leaves the vendored data (`Vendored`), as `overlay_for` does.

### CareerLedger

State: `ch` (everything that is sent and sent back: ratings, levels bought with
karma, spirits, foci, spells, contacts, grade, qualities, essence loss, the
baseline), `bill` (the karma the last pass asked for, by part), `entry` (auxiliary:
how career was entered and what the bill was then) and `patches`.

Each action is one patch followed by the whole pass, `Compute`: floors of the
career record are held, ratings are clamped by essence loss, foci and spirits by
Magic, levels by the rating (`Settled`); the kinds that are priced early record
themselves (`Record`: foci, spells, spirits); a missing baseline is made
(`WithBaseline`), completed (`WithDrop`, `WithRaiseDrops`), and the kinds priced
late record themselves (contacts, initiation). That order is the code's. The
five initial characters are a mage, one with karma levels, an initiate, what an
importer hands over (career without a record) and a save from before the records.
`EnterCareer` takes its snapshot before the rest of the patch is applied, as
`apply_patch` does; `Reopen` computes the same character again.

### Ruleset

State: `ruleset` (the settings inside the character), `files` and `folder` (React
state of the loader), `kept` (localStorage and the `folder:last` record), and
`task[s]`, a pick between two awaits: `parsing`, `reading`, `remembering`,
`style` (one settings file of a folder after the other), `recalling`, `merging`,
and `sent`, when its body is in the hands of the editor. `Apply` is `apply` up to
its first await; `hand` and `seen` are the folder and the ruleset of the render
the pick was made in, which later renders do not change. `Landed` is the server's
`_merge_patch`: fields that are sent replace, fields that are not stay. The
auxiliary variable `merges` remembers which folder was ever merged with which
directories. A settings file and a preset differ as in the code: the first is
parsed into all of its fields (`model_dump`), the second names only the knobs it
moves (`PresetSettings`).

It meets the other two modules at its edges: what it sends is an `EditLater` of
`CharacterEditor`, its upload is a `Load` of `DatasetHandshake`.

### LifeSkillGrants

One call of `resolve_life_module_skills`, step by step. The state is what the
function carries along: `free` (levels on skills), `queue` (pools the module in
hand has opened), `pools` (settled ones), `losses`, `errors`. `TakeModule` gives a
module's levels up to the cap of each skill and opens a pool for the excess of
knowledge, and of ungrouped skills in Real Life; any other excess is lost.
`RefusePool` and `ApplyPool` settle the pool at the head of the queue whole: one
bad row refuses all. `Finish` reports rows whose pool never opened. `Complete` is
what lets a career begin. The inputs are the initial states: lists of up to three
modules with their choices answered or not, and up to two saved rows, some made
for an older version of a module.

Abstractions: fixed grants are summed per skill with groups spread out, an exotic
skill stands for itself with its target, categories of knowledge are folded into
targets that are not allowed, and the fingerprint of a row is the module and the
amount it was saved for.

### LifeCareer

`bought` are levels paid for in creation, over the free levels `given` by the
modules. `EnterCareer` freezes both in `snapshot`; `Grow` appends one or two
raises, each given the ratings it starts from and the price of the day, all or
none; `Undo` cuts the tail; `LeaveCareer` turns what was raised into purchases and
leaves the rows, which the next `EnterCareer` moves to `history`. `Replay` is the
fold of `replay_advancements`: after the first row that does not fit, none does.
`ChangeCatalog` and `ChangeCharacter` change the skills known, their groups, the
free levels, caps, prices and the skills that can be learned (`barred`) underneath
at any time, as another ruleset or a quality does. The price of a first level and
the flat rules are one rate per level; patches of frozen fields are refused and
are no action.

### TalentPatch

`ch` is what a patch of these fields reads and writes. `Patch` is the whole of
`apply_patch` for them (`LaidOver`, `Reset`, `WithTalent`, `Rated`, `Dropped`)
followed by `Computed`, in which the engine settles the form (`Formed`), then the
talent (`Talented`), and keeps what rows it keeps (`Swept`). Species, their forms,
what enables an attribute and whom a talent admits are the data's of each `world`,
so a form may come or go with a folder. `Formed` is the code's order: a shapeshifter
without a form gets Human, and a form the data does not have is cleared after that.
A character may come from a file with any species, form, talent and rows
(`Starting`); its first compute is `TalentInit`, and `Reopen` computes it again. The
two stages read different tables, because `apply_patch` runs outside
`using_rules` and `using_customdata` (`characters.py:80`,
`engine/compute/__init__.py:67`): the first the vendored one, the second the one
of the character's `world`. The actions are the controls: a letter with the
talent the browser picks for it, a letter swapped under another row, a talent, a
species, a form, a method, a folder, a rating, and rows held or released. Method
`Priority` stands for Sum-to-Ten too, `Karma` for Life Modules.

### Construction

`ch` holds purchases and registered supplies of parts (in quarter-packs), devices
(each known by the one Matrix attribute its modifications touch), where each
modification row is, and the records. `Patch` is the whole handler on one body:
drafts for new rows, the history and the sources kept, records settled, drafts
brought up to date, and everything judged together; a refused body changes
nothing. A record freezes the rating and the attribute of its device (`snap`).
`shown` is what the record editor had on screen while the last body was in flight,
`sent` the lists that body brought. A list of records may be composed from `shown`
in two ways: alone behind a body without records (`Screens`), or beside another list
that waits already, whatever is in flight (`Waited`, `Send`), because the editor
compares a body with the queued one, if there is one, and with nothing else. A list
other than records waits alone only when the body in flight names another list, and
is then the one the next screen makes. A row is added once under a fresh id;
`MoveMod` is a body the API takes and no screen sends. `Crowded` is the limit on
modifications, with the code's order of reasons.

## 3. What the runs check

Twelve runs, each a question; eleven pass, one is a disagreement that TLC is
expected to find (section 6). States are distinct states found by TLC.

| Run | Instance | Shows | States |
|---|---|---|---|
| `history` | 3 snapshots, depth 3 | the stacks keep `MAX_DEPTH` together and are a `Timeline` | 975 |
| `editor_queue` | one character, two leaves of one field, 5 acts, failures, lost custom data | what lands is what was meant; held edits are sent; updaters wait their turn; the editor comes free unless an upload hangs | 187 737 |
| `editor_undo` | one character, two fields, drafts, files, undo, reload, failures, lost custom data, 5 acts | bodies merged while held land as meant; undo stays with committed versions; what is committed is stored at every moment | 361 759 |
| `editor_switch` | three characters, two switches at once, updaters, failures, lost custom data, a refused write, 4 acts | every switch ends unless a request without a time limit hangs, no older request on top of a newer, types and the history of one character, no edit on a deleted character | 691 301 |
| `handshake` | 3 rulesets of one folder, two of them spelled alike, cache of 2 sets and 1 catalog, 2 requests at once, 3 in all, one visitor, one restart | never another set, an undisturbed request is served, the caches are bounded and recent, a compute ends unless its upload hangs | 676 063 |
| `ledger` | two attributes, one spirit, one focus, two spells, two qualities, 5 patches | nothing recorded is refunded or charged again; a raise recorded is billed once, at the drop of its day; floors hold; entering and reopening are free | 106 868 |
| `ruleset` | a file in two versions, a plain one, two presets, two folders, four folder picks, a shelf of 2, two picks at once, 3 acts | overlapping picks carry their own merge; a file's rules come whole; a kept folder is used | 800 154 |
| `life_grants` | nine skills, five modules, lists of up to three, pairs of saved transfers | caps, conservation of levels, what a complete character may have lost | 129 862 |
| `life_career` | a group of two skills and one alone, two catalogs, two rates, a skill that may not be learned, two raises | what was paid stays paid, and what was raised is kept on the way back | 2 186 944 |
| `talent` | six talents, three letters, five species, forms of either data, two methods, with and without a folder, six imports | answers settle, no row is stranded, starts are free, no talent is swapped | 16 342 |
| `construction` | a deck and a commlink, an Add and an Increase, a purchase and a shop's parts, two records, lists of an older screen | parts are never promised twice; what is built stays as it was paid for | 212 115 |
| `construction_stale` | the same | section 6 | - |

Properties, and the mistake each would notice (every one has a mutant of the code
that breaks it, listed under `mutants`):

- `LandingIsAsMeant`, `HeldEditsAreSent`, `UpdatersWaitTheirTurn`: merging,
  replacing and queueing edits loses none that was accepted and brings back no
  old value, however edits, answers and failures interleave.
- `EditorComesFreeUnlessUploading`, `SwitchesEndUnlessUnanswered`: progress, under
  a service that need not answer anything. `busy` is let go because a compute is
  given up, and whoever waited for it is told. The exceptions are the requests the
  code gives no time limit: an upload, and a create or an import.
- `ShownNeverOlder`, `LandsOnTheLiving`, `OneCharacterAtATime` (types, and
  `HistoryOfOneCharacter`): the answers that come late.
- `CommittedIsStored`: at every moment what the editor holds as committed is what a
  reload opens, or the answer that is about to be shown is.
- `MovesHistory`: the editor drives its history only as `History` allows - the
  composition of the two modules. With `IsTimeline` and `DepthBound` it follows
  that undo in the running editor is a cursor on a bounded line of versions.
- `StoreIsRecent`: the cache holds what was used last. `NeverAnotherSet`: what is
  answered was merged from the same files under a list of directories spelled like
  the one asked for, and the vendored data answer only for a set that went between
  its two lookups or that a patch laid over the character. `CalmIsServed`: what is
  served. `ComputeEndsUnlessUploading`: progress.
- `LedgerBalances`, `QualitiesBalance`: the bill today is the bill on entering
  career plus what was bought since and is still held.
- `ReopeningIsFree`: the pass is idempotent on the bill, in particular with
  records half made. `EnteringIsFree`, `RecordIsKept`, `FloorsHold`, and
  `RaisesArePriced`: what a raise in play adds to the bill (`bill.raises`) is added
  by its own patch, at the drop of its day, and by no other. It says nothing of the
  levels bought at creation, which a raise does bill again (section 6, 5).
- `CarriesItsMerge`: the hash and the directories of a character belong together,
  whichever of two picks is answered last. `RulesOK` (types, and
  `FileRulesAreWhole`): nothing of the ruleset before survives the pick of a file.
  `FolderIsNotAskedTwice`: custom data is left behind only when there is none to
  be found.
- `FreeLevelsOK`: no skill is free beyond its cap, or the career snapshot would
  be refused. `LevelsConserved`: every level given is free, lost, pooled or
  waiting, once. `CompleteIsFinal`: a career begins with every saved transfer
  applied and nothing given up that a skill could still take, although that was
  judged before the last module.
- `RowsOK`: the snapshot is there in career only, and a raise is in the rows or in
  the history, once. `LevelsAreEarned`: every level above the free ones was bought
  or raised and paid, also when a row no longer fits. `RatingsAreKept`: neither a
  change underneath nor the way back to creation takes from a rating or its price.
- `AnswersAreSound`: an answer computed again is itself, but for a shapeshifter left
  without a form, which is Human one compute later; and no row comes to be held that
  its talent cannot use. `StartIsFree`: a change leaves no special points spent.
  `TalentIsKept`: a talent follows the species and nothing else.
- `RecordsAreTrue`: a completed record is paid in full out of parts there are, a
  draft asks for what its row needs now. `PartsAreConserved`: no source gives more
  than it was acquired with, a closed record changes by its correction only, and
  parts used come back by it only.
- `TypeOK`, once in each module; the one of `DatasetHandshake` also says that a
  request is uploaded for once only, the one of `CareerLedger` that ratings,
  levels and bonded foci stay within what the code clamps them to, the one of
  `Ruleset` that the pulldown has each name once and at most `MAX` of them.

### Bounds, and why they are enough

- History: depth 3 with 3 snapshots fills both stacks, drops from the bottom, and
  makes undo push a full redo. The theorems hold for every depth.
- Editor: `MaxActs` user actions; 4 or 5 give one edit in flight, a held one, an
  updater and a switch or an undo on top. `MAX_DEPTH = 2` lets the cap bite. Two
  slots are the least in which two switches overtake each other; two leaves of one
  field and two fields of one leaf are the two cases `patch-queue.ts` tells apart;
  both at once are a disagreement (section 6).
  `MaxUpdaters` bounds the queue of updaters, which in the code has no bound.
  The switch run offers neither undo nor files, and the undo run no switches,
  because of the disagreements of section 6; the conditions of the theorems are
  the same ones.
- Handshake: a cache of two sets against three rulesets and a foreign set forces
  evictions; a catalog cache of one forces its own. Two of the rulesets are of one
  folder and spelled alike, so their keys collide; the third was never loaded.
  `MaxAsks`, `MaxOthers` and
  `MaxRestarts` bound a behaviour, not the order of its steps.
- Ledger: maximum 3 for a rating, grade 1, essence loss 1, force 2: each clamp
  meets its edge in both directions. Five patches are enough to enter, buy, lose,
  regain and undo. Prices are the rule book's.

- Ruleset: two slots are the least in which picks overlap. Three acts are a
  ruleset, a pick that remembers it, and one that overtakes that pick; four acts
  (6.4 million states of a coarser model) showed nothing more. A shelf of two
  against two names and an edited version fills it; `MAX` is 50 in the code.
- Life Modules: caps of 3 and 2 against grants of up to 5 fill skills, overfill
  them, and leave excess of each kind; three modules are one before, one that
  opens a pool, and one after it that takes the room a pool was judged by. Two
  raises of up to two levels are one that fits and one that no longer does, and
  fill the career cap of 3. Two catalogs differ by a lost skill and a smaller
  group; one skill may come to be barred and allowed again.
- Talents: three letters that offer a talent, another one, and none; a species
  with a form, a shapeshifter, one with a talent of its own, one only in the
  folder; the folder has other forms for both that have any. Six imports need not
  fit: a form of another species or of the other data, a species the data do not
  have, a talent its letter does not offer, rows no talent of theirs can use. The
  folder's starts are not lower than the vendored ones, and it removes no talent;
  otherwise two of the properties fail (section 6).
- Construction: an Increase takes two packs of 8 or more out of 0, 8 or 16 bought
  and 8 in a shop, so parts run short, are shared, and are reserved against each
  other; one correction and a second record per Increase. `Beside` bounds beside
  which waiting lists one of records may be put: supplies, whose parts the records
  take. Both modifications can be in the
  deck, which allows one.

`CHECK_DEADLOCK FALSE` is set where a behaviour ends because the bounds are used
up or the computation is over (editor, handshake, ruleset, `life_grants`,
`life_career`, construction). The history, the ledger and the talents always have
a step.

### Fairness

- Editor: weak fairness of what the browser owes: the continuation of a resolved
  promise (`Resume`, `Shown`), an IndexedDB transaction, which settles
  (`PatchReads`, `Stored`, `Removed`, `SwitchReads`), and the timer of a compute
  (`TimedOut`; an open that is given up shows what it read, `OpenAnswered`). None of
  the service: no answer, refusal or upload is promised, nor is the list of
  characters or the first one (`ListAnswered`, `Boot`), nor a file being read. The
  user owes nothing. So without the timer an editor may stay busy for good, and a
  create, a preview or an import, which `api.ts:315-319` and `344-350` give no time
  limit, may never end; the two properties say exactly that.
- Handshake: the client's own continuation, its timer and IndexedDB are fair. No
  step of the server is. An upload is answered, refused, or known to hang
  (`UploadUnanswered`), since it has no time limit.
- The others: none; they promise no progress. A file that is read and an upload
  may both stay unanswered.

## 4. What is proved

TLAPS, for every value of the constants under the named assumptions of each
module (`MaxDepthAssumption`, `NoneAssumption`, `CapacityAssumption`,
`RulesetAssumption`, `LedgerAssumption`, `SheetsAssumption`, `EditorAssumption`,
`GrantsAssumption`, `CareerAssumption`, `TalentAssumption`,
`ConstructionAssumption`, `StartingAssumption`: what `MAX_DEPTH`, cache sizes,
rulesets, prices, ids, grants, catalogs and, for construction, starting characters
may be). TLC evaluates each of them on its instance. A theorem that needs more
states it as a hypothesis of its own, and the text here says what of the code it is.

- `Aggregates_proofs` has what the others need of sums and of filtered lists. The
  library's operators for both are folds, defined by CHOOSE over recursive
  functions, so nothing is known of them until such a function is shown to exist
  and to be the only one (`SumExists`, `SumIsUnique`, `PickerExists`). The
  inductions run over sets of numbers (`NatSetInduction`, from the least number
  principle), which the provers can instantiate. What is cited elsewhere:
  `TotalOfOneMore`, `SumOfParts`, `SumOfFibres`, `SumsCompare`, `TotalOfTail`, and
  `PickedProperties` (what passed is the list with items left out, in its order).
- `History_proofs`: `HistoryTypeCorrect`, `HistoryDepthBound` and
  `HistoryIsTimeline`. The bound is inductive only on the sum of both stacks:
  `stepForward` pushes without looking at the cap, and is safe because whatever
  is pushed has just left the other stack. The refinement rests on lemmas about
  `Line` (stepping back and forth leaves the line as it is, recording cuts it,
  restoring replaces one version).
- `CharacterEditor_proofs`, for any number of characters, leaves, fields, slots
  and user actions:
  - `TypesAreKept`, `PatchesLandOnTheLiving`, `EditorMovesHistory` and
    `HeldIsNotLost` hold whatever the user does and whatever fails. The inductive
    invariant `IInv` is the types by group, with what each task must hold at its
    place (`FitTask`), and `Linked`: `busy` is whoever holds it, a microtask only
    runs in a free editor, and a patch that is computing has its record in the
    store under a living id. Without the last, a delete between reading and
    answering would let an edit bring the character back; with it, the delete
    waits. It is proved of the write and of the screen, which are two steps.
    `HeldIsNotLost` is about a run that goes on: nothing the user does takes a held
    edit from it, and it is what the run sends next; a failure or a reload ends the
    run, and what it held with it. It adds `Holding`: only a run of patches has a
    body in flight or held, so a restore can lose none.
  - `HistoryStaysWithItsCharacter`, where no file is read before a patch or no
    character is switched (`OneAtATime`): `Single` says that the job, the file's
    reader and every snapshot are of the character on screen.
  - `UpdatersWait`, where in addition there is no undo: `Turn`.
  - `ReloadFindsCommitted`, where IndexedDB refuses no write and no character is
    switched: `CommittedKept`. It holds at every moment, so it says
    what a reload between the commit and the screen finds: the answer that was about
    to be shown.
  - `RequestsShowInOrder` and `NobodyIsStranded`, where there is no undo: `Lined`
    says that the switches that wait for the editor, and the ones let go, stand in
    the order of their requests, none older than what is shown. `Superseded` is
    asked before the wait and never after it, so the order of the line is all that
    keeps an older character off the screen.
  - That what lands is what was meant is proved on both sides of the disagreement
    about it (section 6, 1), and each side has its own reason.
    `FlatLandingIsAsMeant`: where a field is one leaf, a body carries what it means
    and nothing else (`Plainly`), merged or not; it needs that patches read what is
    committed (`ReadsCommitted`), so no switches and no refused writes.
    `OneFieldLandingIsAsMeant`: where all leaves are of one field, every body
    carries a whole character, and `Chained` says that the one in flight changes
    one leaf of what is committed and the one held behind it another value of that
    same leaf; so nothing older comes back, under switches and refused writes too,
    as long as no control patches from a draft or a file. Several fields, one of
    them with several leaves, is the case where it fails.

  Each condition is a disagreement of section 6, or a fault the code does not
  answer; none is needed by the proof alone.
- `DatasetHandshake_proofs`, for any number of requests at once, rulesets,
  visitors and restarts. `StoredKeepsTheCache` and `UsedKeepsTheCache`: a write or
  a lookup keeps the bound and one entry to a key and invents nothing.
  `HandshakeTypeCorrect`, `HandshakeStoreBounded`, `HandshakeNeverAnotherSet`.
  `OverlayKey` joins as the code does and is not injective:
  `HandshakeKeysAreApart` says that two rulesets share a key only if they are of
  the same files and their lists are spelled alike (`MergedAlike`), and that they
  are one ruleset if no directory has a bar in its name; it rests on a lemma that
  says what a join is (`JoinedOfPlain`). The inductive invariant `IInv` says that
  every entry of both caches was made from its own key, and for every request at
  any stage that what it has in hand belongs to what it was asked under, as far as
  keys tell rulesets apart, and that no catalog is of the vendored data where it
  needed a set. `HandshakeStoreIsRecent`: the keys of the cache are the last ones
  of the list of keys by use (`Tailed`), all of them or as many as fit.
  `HandshakeCalmIsServed`: `Served` says of every undisturbed request at each
  stage why it can still be answered: it is on its first try, or uploads exactly
  its own set, or is retried with that set in the cache (`OnItsWay`).
- `CareerLedger_proofs`: the type invariant, the floors, the three balances and the
  four action properties, for every metatype, price, starting character and
  sequence of patches. A pass first settles ratings and rows and then only writes
  the record, so what it bills is a function of the character it hands back
  (`BillIsOfCharacter`), and each property becomes an equation about two
  characters. `LInv` says that the character is settled, has its record as long as
  it is in career (`Whole`), was billed for exactly that (`bill = BillOf(ch)`), and
  that the record still says what career was entered with (`Carries`). One lemma
  per stage of the pass; `StepIsAPass` says that every action is some patched
  character put through the pass, so the invariant is proved for the pass once and
  not for each action. `LedgerReopeningIsFree` is that settling twice changes
  nothing; `LedgerRaisesArePriced` needs that a drop recorded for a raise is not
  recorded again.
- `RulesetTalent_proofs`, on the rules a character is computed under:
  - `Ruleset`, for any number of picks at once, any files, presets and folders.
    `RulesetCarriesItsMerge`: the hash reaches the character only after it
    travelled in the body of a chain and through the editor, so `IInv` says of
    every chain what it may still send (`ChainOK`, `Sendable`).
    `RulesetFolderIsNotAskedTwice` follows the folder a chain has at hand.
    `RulesetRulesAreWhole`: `RInv` says of each chain which whole ruleset it has
    read so far (`ChainSound`), and of the shelf in memory and the one kept that
    each name is there once. Its hypothesis `NamesApart` (no file is called like a
    shipped preset) is the code's own limit: `apply` tells them apart by name alone.
  - `TalentPatch`, for every pair of tables, every species and order of edits:
    `TalentAnswersAreSound`, `TalentStartIsFree`, `TalentsAreKept`. Every action is
    one patch (`ActionIsAPatch`), and a patch is followed stage by stage
    (`PatchFollows`, `PatchAnswers`). The talent the vendored table chooses, the
    character's own offers too, so the engine does not choose again
    (`ChosenStays`), unless the row is empty and the choice was Mundane, which
    uses nothing. Nothing is assumed of the
    starting characters: a file may name any species, form, talent and rows, and
    its first compute is the first answer. Forms are each folder's own, so an answer
    is settled or one compute from it (`AnswersSettle`): a shapeshifter left without
    a form becomes Human, and stays so. The hypotheses are about folders, each as
    weak as its theorem allows: they add talents and remove none
    (`FoldersOnlyAdd`, all three); they start no talent and no form lower, and a
    shapeshifter's human form enables what the animal does (`StartsOnlyGrow`, for
    the starts); they close no talent to a vendored species and add no first one for
    it (`EveryoneIsServed`, for the fit to the species); and no vendored row is
    empty (`RowsOffer`, for the last two theorems). `MCTalent`
    assumes all four, so TLC has evaluated them on its tables. Section 6 says what
    becomes of a start that a folder lowers, and of a talent only a folder offers,
    which no theorem promises to keep.
- `LifeModules_proofs`, on the two modules of Life Modules:
  - for every catalog, list of modules and set of transfers,
    `FreeLevelsStayWithinCaps`: a module gives no more than a skill has room for,
    and of two rows to one skill both are refused, so no two share a room.
    `GrantsLevelsConserved` and `GrantsCompleteIsFinal` rest on `Flow`: every pool
    and loss is of a module that was taken and is there once (`PoolsKnown`,
    `LossesKnown`), a pool gives levels up only where no target had room and none
    can have room later (`Judged`), and rows no pool took are reported at the end
    (`Ended`).
  - for every catalog, price and sequence of raises, undos and returns,
    `CareerRowsOK`, `CareerLevelsAreEarned` and `CareerRatingsAreKept`. The replay
    is a fold, so it is unfolded one row at a time first (`ReplayStepwise`,
    `PricingStepwise`, both from `WalkerExists`); `Accounts` then says at each row
    what the replay has counted so far: which rows are in effect, the levels
    they lifted, the karma they cost. The invariant `CareerInv` is the types, the
    snapshot exactly in career with no free level above the rating it froze,
    and ids that rise along `history \o rows` even out of career, stronger than
    what the run checks: a return to creation leaves rows that the next career
    files behind the history.
- `Construction_proofs`: `PartsStayConserved`, `RecordsStayTrue` and
  `ClosedRecordsStay`, for any bodies and screens, from characters without records
  (`StartingAssumption`). The check of everything together comes after the last
  change a patch makes to records, so what it found is what is answered; the lemmas
  say what settling keeps. `Covered` is about the sums: what records take of a
  source is no more than it has, and an older screen names no closed record that
  the character does not have (`ClosedNames`). Bodies of several lists, and lists of
  the screen before that wait beside another, are among the bodies.

Only model-checked: liveness (`EditorComesFreeUnlessUploading`,
`SwitchesEndUnlessUnanswered`, `ComputeEndsUnlessUploading`), which the prover
does not do under fairness. Every other property that a passing run checks is a
theorem above, so what TLC shows on its instance holds for every value of the
constants.

## 5. What is left out of the modelled parts

- Editor: the roster refresh after a renamed field is left, the clamping of a
  typed number by `RangeInput`, trees deeper than a field and its leaves (a
  difference deeper down is a leaf of its own in `patch-queue.ts`), the wording of
  errors, the portrait's scaling, `window.confirm` answered with no.
- Handshake: rate limits, the ETag, the merge itself, export kinds apart from one
  another. Loading a folder that the server refuses is `FetchFails`.
- Ledger: skills, skill groups, specialisations, exotic rows, power points,
  nuyen, the reward log (earned karma is no part of what is spent), the Karma and
  Life Module builds (they never get a baseline); attribute
  cost rules and discounts; essence loss lowers the minimum (the default rule);
  spirits are unbound; a quality is taken once.
- Ruleset: books, the build method and its patch, messages, the report of a merge,
  the shape of a folder and of a zip. The character does not change under a pick;
  that is `EditLater`, and `PickFile` in `CharacterEditor`. Which of two bodies
  the editor drops is left open here and decided in `CharacterEditor`.
- Life Modules: attributes and qualities a module gives, the wording of errors.
- Talents: points of Sum-to-Ten, karma spent on special attributes
  (`attribute_karma`), the resources and skill letters, qualities that let a
  talent take spells it otherwise may not (`allow_spell_ranges`). What attribute a
  talent goes with is told by its name, the same in every folder.
- Construction: the rules that rearrange an attribute array or a persona, what a
  purchase contains and its multiplier, prices, the quantity of a shop, notes,
  Cyberdeck Modules beyond what they need. The rating of a device is the catalog's
  and does not change; a record still freezes it. One list of records waits beside
  one waiting list (`Beside`); a list other than records that was composed on an
  older screen is not put beside another; and a list of records one leaf further
  than the queued one is what the next screen makes.
- Two tabs on one store; the code promises nothing of them.

## 6. Where the code and its documentation disagree

One is a run that TLC is expected to refute, and `findings` quotes the line:

- `construction_stale`: a list of records composed while the body that adds a
  modification was in flight replaces the list without the draft the server just
  made; the row then counts as one from before records were kept and works without
  parts, against `electronic_construction.py:60` ("A new PATCH without materials is
  a draft, never a legacy install."). Without bodies from an older screen
  `NothingBecomesOld` holds.

The others are shown by a property of the modules and a change of one line of a
configuration:

1. A body is compared with the queued one or the one in flight, never both, so a
   third edit can put the first one's old value back: `LandingIsAsMeant` in the
   instance of `editor_queue` with a third leaf in a field of its own.
2. `restoreSnapshot` lets go of `busy` without telling `idleWaiters`; a switch asked
   for during an undo waits until some later patch: `NobodyWaitsWhenIdle` in the
   instance of `editor_switch` with "undo" among `Ops`. It is why
   `SwitchesEndUnlessUnanswered` is for an editor without undo.
3. A portrait read while another character was opened is patched into the old one,
   which comes back with the new one's history: `OneCharacterAtATime` in the
   instance of `editor_switch` with "file" among `Ops`.
4. A write refused for quota is reported and forgotten; the next patch starts from
   the older record and reverts the edit on screen, against `local-store.ts:12`
   ("the in-memory copy in the editor is still good and the session should carry
   on"): `LandingIsAsMeant` in the instance of `editor_undo` with
   `PutMayFail = TRUE`.
5. Levels bought with karma at creation are priced at the rating of today, so a
   career raise bills them again: `RaiseIsBilledOnce` under `Ledger.cfg`.
6. The empty entry of the pulldown is said to bring back the printed numbers, but
   settings are merged, so the knobs of the ruleset before it stay; so do its
   directories and its hash, and the same holds after Standard: `UnsetIsPrinted`
   under `Ruleset.cfg`.
7. `engine/compute/__init__.py:76-79` says of a set the cache has lost that "the API
   layer answers 409 before it gets here"; its lookup and this one are two, so a set
   may go between them and the character is computed without it: `NeverVendored`
   under `Handshake.cfg`.
8. `engine/compute/bootstrap.py:73` says that a shapeshifter always has a metahuman
   form; the engine clears a form the data does not have after that default was
   picked, so the answer has none and the next compute makes it Human:
   `ShapeshiftersHaveForms` under `Talent.cfg`. `Settles` allows for it.

Seen while modelling, with no run of their own:

- An undo leaves the updaters that arrived during it behind; an undo answered
  after a delete writes the record back; a delete that cannot open the next
  character leaves the editor on the deleted one.
- `api.get` writes back what it read before an await, superseded or not
  (`api.ts:309`): two opens at once can overwrite an edit committed between. It is
  why `ReloadFindsCommitted` is for an editor without switches.
- An answer replaces a character while a control is typed in; leaving the control
  sends the old value.
- `lastCustomData` is overwritten by a concurrent request (`api.ts:153`).
- A settings patch is checked under the old ruleset and computed under the new
  (`engine/compute/__init__.py:73-85`).
- The upload inside the retry of `api.ts` has no time limit of its own
  (`api.ts:142`), so a compute that waits for it may never end, and an editor that
  waits for the compute never comes free. `ComputeEndsUnlessUploading` and
  `EditorComesFreeUnlessUploading` make that exception, and
  `SwitchesEndUnlessUnanswered` makes it for create, preview and import too.
- A name of a directory with a bar in it spells like two names
  (`dataset_store.py:67`, `useCatalogReload.ts:36,55`), so two rulesets of one
  folder can share a merged set and a catalog. `NeverAnotherSet` is about spellings.
- A career character that is imported without a record gets it after foci, spells
  and spirits were priced in the same pass (`_econ_karma.py:189`): the first edit
  can refund what it deletes. `LedgerBalances` speaks of characters that entered
  career in the app.
- A folder whose second settings file cannot be parsed has stored the first one
  but does not offer it until the page is opened again
  (`useRulesetLoader.ts:206-211`).
- Of two overlapping ruleset picks the one answered last decides, not the one
  picked last.
- `apply_patch` reads the vendored tables (`TalentPatch` above). So a talent that
  only a custom folder offers, and the catalog shows, is replaced by the default at
  the next edit and what was held by it is dropped; a species of a folder is refused
  as unknown; and a start that a folder lowers is charged for. The folders of the
  run only add, and only such talents are promised to be kept.
- A completed modification moved onto a device that already has another is accepted
  with its record unmatched, because the reason of the limit overwrites that of the
  record; `docs/cyberdeck-construction.md` and
  `test_completed_snapshot_is_frozen_and_reparenting_is_rejected` say it is refused.
- A raise of a group in career does not look at unavailable skills
  (`life_module_mutations.py:93`); raises above the creation cap come back as
  purchases over it; career cannot be left while a raised skill is missing from the
  catalog.
- `GearReview` crosses a row off by its name whether its patch landed or not, and a
  list that is skipped while its character is deleted is written again.
- Ware installed in career refunds part of the karma chargen paid for levels of
  MAG or RES; a bonded focus that a lowered Magic weakens is a new row to the
  record and is billed; `{career: true, ...}` in one patch with other edits
  takes half of its record from before them and half from after.

## 7. Plan

Done, in this order: history and its refinement; the editor; the handshake over
`LruCache`; the ledger; the ruleset loader; Life Modules in creation and career;
talents; construction; the proofs of every safety and action property of the runs.

Next, most important first:

1. `SkillLedger`: skills, groups and specialisations of the career record, and the
   reward log, over `CareerLedger`.
2. `PendingGear`: the list of unmatched gear over the editor's patch and its store
   of ten characters; every row on the sheet or on the list. Two of the hazards
   without a property are its own (`GearReview.tsx:48`, `pending-gear-store.ts:71`).
3. `PatchQueue`: `leafDiffs`, `advancesOneLeaf` and `disjointKeys` on trees of
   bounded depth against a reference definition (two edits commute).
4. `CatalogReload` and `ExportReview`: the two effects that hold an answer of an
   older render.
5. `BodyLimit`, `SheetFetch`, `IdentityToken`: small modules of one request each.

The browser pages of 2 to 4 were put behind the rules of characters because a
mistake there loses a list or shows a stale one, and a mistake in a rule is saved
into the character. Most of what the map does not reach is formatting, parsing and
arithmetic over catalogs: importers, exporters, sheets, wording, data loading and
the pure phases of the engine. They keep nothing between two calls, and the test
suite compares them with fixtures.
