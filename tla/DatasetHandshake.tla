------------------------- MODULE DatasetHandshake --------------------------
(***************************************************************************)
(* How a character's custom data reaches the stateless server: the         *)
(* server's cache of merged sets (dataset_store.py), the routes that ask   *)
(* for one (api/characters.py, api/catalog.py, engine/compute), the upload *)
(* (api/import_routes.py), and the retry inside api.ts that answers a 409  *)
(* by uploading the files this browser keeps (customdata-store.ts).        *)
(*                                                                         *)
(* A ruleset is the pair of the two fields of SettingsState that matter    *)
(* here: << dataset, customdata >>, the hash of the files and the list of  *)
(* enabled directories.  Merging is a function of both, so what a merge    *)
(* gives is written as the pair it was merged from.  Both sides spell a    *)
(* list as one string, its names joined by bars; a name is the sequence of *)
(* the parts that bars in it keep apart, and mostly has one.               *)
(*                                                                         *)
(* A request goes through the server's threadpool one lookup at a time;    *)
(* other visitors of the same server upload sets of their own meanwhile,   *)
(* and the process may be restarted, which empties both caches.            *)
(***************************************************************************)
EXTENDS LruCache, FiniteSets

CONSTANTS
  Slot,          \* requests that can be in flight at once
  Part,          \* what the names of directories are made of, between bars
  Ruleset,       \* the rulesets the characters of this browser are built under
  Foreign,       \* the sets that other visitors upload
  NoHash,        \* dataset = "": the folder was never loaded
  Vendored,      \* no overlay: the data as shipped
  MAX_SETS,                    \* dataset_store.MAX_SETS
  MAX_CACHED_CUSTOM_CATALOGS,  \* api/catalog.py
  Kinds,         \* the requests this instance makes, of those listed below
  MaxAsks,       \* bound on the requests
  MaxOthers,     \* bound on the uploads of other visitors
  MaxRestarts    \* bound on the restarts of the server

ASSUME CapacityAssumption ==
  /\ MAX_SETS \in Nat \ {0}
  /\ MAX_CACHED_CUSTOM_CATALOGS \in Nat \ {0}

\* customdata = []
NoDirs == << >>

\* names.join("|")
Joined(dirs) == FlattenSeq(dirs)

\* The list that splitting it again gives.
Respelled(set) ==
  LET parts == Joined(set[2])
  IN  << set[1], [i \in DOMAIN parts |-> << parts[i] >>] >>

Hashes == {r[1] : r \in Ruleset}

DirLists == {r[2] : r \in Ruleset} \cup {NoDirs}

\* Everything a merge can be made from.
Mergeable == (Hashes \X DirLists) \cup Foreign

ASSUME RulesetAssumption ==
  /\ Ruleset # {}
  /\ \A r \in Ruleset \cup Foreign : r = << r[1], r[2] >> /\ r[2] \in Seq(Seq(Part))
  /\ \A r \in Ruleset : Respelled(r) \in Ruleset
  /\ Vendored \notin Mergeable

VARIABLES
  sets,             \* server: merged sets, by overlay key
  cats,             \* server: serialised catalogs, by overlay key
  kept,             \* browser: the hashes whose files IndexedDB has
  lastCustomData,   \* browser: api.ts's one variable of that name
  req,              \* the request of each slot
  recent,           \* auxiliary: every key used since the start, oldest first
  asks, others, restarts

vars == << sets, cats, kept, lastCustomData, req, recent, asks, others, restarts >>

\* compute: api.patch with a plain edit, api.get, api.compute.
\* settings: a patch that lays another ruleset over the character's own.
\* export: postState, which has no time limit.  catalog: api.catalog, for the
\* list that useCatalogReload joins into a key and splits again.
\* load: api.uploadCustomData, a ruleset's folder being merged.
AllKinds == {"compute", "settings", "export", "catalog", "load"}

ASSUME KindsAssumption == Kinds \subseteq AllKinds

\* on the wire or in the server
AtServer == {"sent", "checked", "building", "loading"}

Waiting == AtServer \cup {"refused", "upload", "silent", "merged"}

Ended == {"idle", "answered", "missing"}

Requests == [kind : AllKinds, set : Ruleset, under : Ruleset, stage : Waiting \cup Ended,
             retried : BOOLEAN, up : (Hashes \X DirLists) \cup {Vendored},
             got : Mergeable \cup {Vendored}, calm : BOOLEAN]

\* Types, and the retry of api.ts's send happens once: nothing is uploaded for
\* a request that was sent again.
TypeOK ==
  /\ req \in [Slot -> Requests]
  /\ kept \in SUBSET (Hashes \ {NoHash})
  /\ lastCustomData \in DirLists
  /\ \A s \in Slot : req[s].stage \in {"upload", "silent"} => ~req[s].retried

Asked(kind, set, under) ==
  [kind |-> kind, set |-> set, under |-> under,
   stage |-> IF kind = "load" THEN "loading" ELSE "sent",
   retried |-> FALSE, up |-> Vendored, got |-> Vendored, calm |-> TRUE]

\* A slot with nothing to say: no request yet, or one that ended in an error.
Idle ==
  LET r == CHOOSE r \in Ruleset : TRUE
  IN  [Asked("compute", r, r) EXCEPT !.stage = "idle", !.calm = FALSE]

Init ==
  /\ sets = << >>
  /\ cats = << >>
  /\ kept \in SUBSET (Hashes \ {NoHash})
  /\ lastCustomData = NoDirs
  /\ req = [s \in Slot |-> Idle]
  /\ recent = << >>
  /\ asks = 0 /\ others = 0 /\ restarts = 0

-----------------------------------------------------------------------------
(* dataset_store.py                                                        *)

\* Mutant of OverlayKey: the hash alone.
OverlayKeyOfHash(set) == << set[1], << >> >>

\* Both halves matter: the same files with other directories enabled merge
\* into something else.  Lists that are spelled alike share a key.
OverlayKey(set) == << set[1], Joined(set[2]) >>

\* The settings name a set that was loaded once: only then is it looked up.
Needs(set) == set[1] # NoHash /\ set[2] # NoDirs

Known(set) == Needs(set) /\ Has(sets, OverlayKey(set))

Found(set) == IF Known(set) THEN Value(sets, OverlayKey(set)) ELSE Vendored

\* The key was used just now.
UsedLast(key) == Append(RemoveFirst(recent, key), key)

\* lookup: a hit makes the set the one used last.
Lookup(set) ==
  /\ sets' = IF Needs(set) THEN Used(sets, OverlayKey(set)) ELSE sets
  /\ recent' = IF Known(set) THEN UsedLast(OverlayKey(set)) ELSE recent

\* remember: build_overlay runs before the lock is taken, and gives the same
\* trees to everyone who uploads the same files and directories.
Remember(set) ==
  /\ sets' = Stored(sets, OverlayKey(set), set, MAX_SETS)
  /\ recent' = UsedLast(OverlayKey(set))

-----------------------------------------------------------------------------
(* api.ts                                                                  *)

\* What others do disturbs what a request expects of server and browser.
Disturbed(r) == [r EXCEPT !.calm = FALSE]

\* Over, answered or given up as missing; what the attempt went through is forgotten.
Over(r, stage) == [r EXCEPT !.stage = stage, !.retried = FALSE, !.up = Vendored]

Move(s, r) == req' = [req EXCEPT ![s] = r]

MoveAlone(s, r) == req' = [t \in Slot |-> IF t = s THEN r ELSE Disturbed(req[t])]

\* The ruleset a settings patch lays over the character: the one the loader
\* has just merged, or one whose folder was not at hand.
Laid(s) == {r \in Ruleset : r[1] = NoHash}
             \cup IF req[s].kind = "load" /\ req[s].stage = "answered" THEN {req[s].set} ELSE {}

\* Mutant of Noted: the catalog's directories are not noted first.
NotedForCharacters(kind, set) == IF kind = "catalog" THEN lastCustomData ELSE set[2]

\* noteCustomData, and what api.catalog does in its place.
Noted(kind, set) ==
  IF kind = "load" \/ (kind = "catalog" /\ ~Needs(set)) THEN lastCustomData ELSE set[2]

Ask(s) ==
  /\ asks < MaxAsks
  /\ req[s].stage \in Ended
  /\ \E kind \in Kinds, chosen \in Ruleset :
       LET set == IF kind = "catalog" THEN Respelled(chosen) ELSE chosen
       IN
       \E under \in IF kind = "settings" THEN Laid(s) ELSE {set} :
         /\ kind = "load" => Needs(set)
         /\ lastCustomData' = Noted(kind, set)
         /\ MoveAlone(s, Asked(kind, set, under))
  /\ asks' = asks + 1
  /\ UNCHANGED << sets, cats, kept, recent, others, restarts >>

\* require_dataset: 409 for a set that is named, was loaded and is not here.
CheckCharacter(s) ==
  /\ req[s].kind \in {"compute", "settings", "export"} /\ req[s].stage = "sent"
  /\ Lookup(req[s].set)
  /\ Move(s, [req[s] EXCEPT !.stage =
               IF Needs(req[s].set) /\ ~Known(req[s].set) THEN "refused" ELSE "checked"])
  /\ UNCHANGED << cats, kept, lastCustomData, asks, others, restarts >>

\* overlay_for, a second lookup, under the settings the character has by then;
\* a miss is the vendored data.
Compute(s) ==
  /\ req[s].stage = "checked"
  /\ Lookup(req[s].under)
  /\ Move(s, [Over(req[s], "answered") EXCEPT !.got = Found(req[s].under)])
  /\ UNCHANGED << cats, kept, lastCustomData, asks, others, restarts >>

\* catalog_endpoint looks the set up once and keeps what it found.
CheckCatalog(s) ==
  /\ req[s].kind = "catalog" /\ req[s].stage = "sent"
  /\ Lookup(req[s].set)
  /\ LET set == req[s].set
         hit == Has(cats, OverlayKey(set))
     IN  IF ~Needs(set)
           THEN /\ Move(s, Over(req[s], "answered"))
                /\ UNCHANGED cats
           ELSE IF ~Known(set)
             THEN /\ Move(s, [req[s] EXCEPT !.stage = "refused"])
                  /\ UNCHANGED cats
             ELSE /\ cats' = Used(cats, OverlayKey(set))
                  /\ Move(s, IF hit THEN [Over(req[s], "answered") EXCEPT !.got = Value(cats, OverlayKey(set))]
                                    ELSE [req[s] EXCEPT !.stage = "building", !.got = Found(set)])
  /\ UNCHANGED << kept, lastCustomData, asks, others, restarts >>

\* Built outside the lock, under the overlay that was found.
Build(s) ==
  /\ req[s].stage = "building"
  /\ cats' = Stored(cats, OverlayKey(req[s].set), req[s].got, MAX_CACHED_CUSTOM_CATALOGS)
  /\ Move(s, Over(req[s], "answered"))
  /\ UNCHANGED << sets, kept, lastCustomData, recent, asks, others, restarts >>

\* Mutant of Reupload: the answer to the retry is treated like the first.
ReuploadAgain(s) ==
  /\ req[s].stage = "refused"
  /\ Move(s, IF req[s].set[1] \notin kept
               THEN Over(req[s], "missing")
               ELSE [req[s] EXCEPT !.stage = "upload", !.up = << req[s].set[1], lastCustomData >>])
  /\ UNCHANGED << sets, cats, kept, lastCustomData, recent, asks, others, restarts >>

\* The client's answer to a 409: once, if the files are here, under whatever
\* directories were noted last.
Reupload(s) ==
  /\ req[s].stage = "refused"
  /\ Move(s, IF req[s].retried \/ req[s].set[1] \notin kept
               THEN Over(req[s], "missing")
               ELSE [req[s] EXCEPT !.stage = "upload", !.up = << req[s].set[1], lastCustomData >>])
  /\ UNCHANGED << sets, cats, kept, lastCustomData, recent, asks, others, restarts >>

\* upload_customdata, and the same request sent once more.
Upload(s) ==
  /\ req[s].stage = "upload"
  /\ Remember(req[s].up)
  /\ MoveAlone(s, [req[s] EXCEPT !.stage = "sent", !.up = Vendored, !.retried = TRUE])
  /\ UNCHANGED << cats, kept, lastCustomData, asks, others, restarts >>

\* A refused upload (rate limit) is not looked at: the request is repeated.
UploadRefused(s) ==
  /\ req[s].stage = "upload"
  /\ Move(s, [req[s] EXCEPT !.stage = "sent", !.up = Vendored, !.retried = TRUE, !.calm = FALSE])
  /\ UNCHANGED << sets, cats, kept, lastCustomData, recent, asks, others, restarts >>

\* An upload that gets no answer at all: this fetch is the one with no signal.
UploadUnanswered(s) ==
  /\ req[s].stage = "upload"
  /\ Move(s, [req[s] EXCEPT !.stage = "silent"])
  /\ UNCHANGED << sets, cats, kept, lastCustomData, recent, asks, others, restarts >>

\* Mutant of TimedOut: only the first attempt carries the signal.
TimedOutAtFirst(s) ==
  /\ req[s].kind \in {"compute", "settings"}
  /\ req[s].stage \in {"sent", "checked"}
  /\ ~req[s].retried
  /\ Move(s, Idle)
  /\ UNCHANGED << sets, cats, kept, lastCustomData, recent, asks, others, restarts >>

\* COMPUTE_TIMEOUT_MS after the first attempt, whatever the server is doing.
\* The retry carries the same signal.
TimedOut(s) ==
  /\ req[s].kind \in {"compute", "settings"}
  /\ req[s].stage \in {"sent", "checked"}
  /\ Move(s, Idle)
  /\ UNCHANGED << sets, cats, kept, lastCustomData, recent, asks, others, restarts >>

\* A fetch that rejects, or an error of the server's own.
FetchFails(s) ==
  /\ req[s].stage \in AtServer \cup {"upload"}
  /\ Move(s, Idle)
  /\ UNCHANGED << sets, cats, kept, lastCustomData, recent, asks, others, restarts >>

\* uploadCustomData: the server merges, then the files are kept here; a store
\* that is full or disabled is not reported.
Load(s) ==
  /\ req[s].stage = "loading"
  /\ Remember(req[s].set)
  /\ MoveAlone(s, [req[s] EXCEPT !.stage = "merged"])
  /\ UNCHANGED << cats, kept, lastCustomData, asks, others, restarts >>

PutCustomData(s) ==
  /\ req[s].stage = "merged"
  /\ kept' \in {kept, kept \cup {req[s].set[1]}}
  /\ MoveAlone(s, Over(req[s], "answered"))
  /\ UNCHANGED << sets, cats, lastCustomData, recent, asks, others, restarts >>

-----------------------------------------------------------------------------
(* The rest of the world                                                   *)

OtherUpload ==
  /\ others < MaxOthers
  /\ \E k \in Foreign : Remember(k)
  /\ req' = [t \in Slot |-> Disturbed(req[t])]
  /\ others' = others + 1
  /\ UNCHANGED << cats, kept, lastCustomData, asks, restarts >>

\* The process goes, its caches and the requests it was working on with it.
Restart ==
  /\ restarts < MaxRestarts
  /\ sets' = << >> /\ cats' = << >> /\ recent' = << >>
  /\ req' = [t \in Slot |-> IF req[t].stage \in {"checked", "building"}
                              THEN Idle
                              ELSE Disturbed(req[t])]
  /\ restarts' = restarts + 1
  /\ UNCHANGED << kept, lastCustomData, asks, others >>

Next ==
  \/ OtherUpload
  \/ Restart
  \/ \E s \in Slot :
       \/ Ask(s)
       \/ CheckCharacter(s)
       \/ Compute(s)
       \/ CheckCatalog(s)
       \/ Build(s)
       \/ Reupload(s)
       \/ Upload(s)
       \/ UploadRefused(s)
       \/ UploadUnanswered(s)
       \/ TimedOut(s)
       \/ FetchFails(s)
       \/ Load(s)
       \/ PutCustomData(s)

\* The client's own steps happen, its timer fires, and IndexedDB settles.
\* Nothing says that the server answers; an upload is answered, refused or
\* known to be unanswered.
Fairness ==
  \A s \in Slot :
    /\ WF_vars(Reupload(s))
    /\ WF_vars(TimedOut(s))
    /\ WF_vars(PutCustomData(s))
    /\ WF_vars(Upload(s) \/ UploadRefused(s) \/ UploadUnanswered(s))

Spec == Init /\ [][Next]_vars /\ Fairness

-----------------------------------------------------------------------------

\* Both caches stay within their bounds and hold a key once, whatever uploads,
\* rebuilds and restarts overlap (_Store.put, _cached_catalog_for).
StoreBounded ==
  /\ WellFormed(sets, MAX_SETS)
  /\ WellFormed(cats, MAX_CACHED_CUSTOM_CATALOGS)

\* The cache holds the sets used last, in that order (_Store.get and put): a
\* table that keeps playing keeps its set while others come and go.
StoreIsRecent ==
  /\ IsSuffix(KeysOf(sets), recent)
  /\ Len(sets) = MAX_SETS \/ Len(sets) = Len(recent)

\* Merged from the same files under lists that are spelled alike, which are
\* one list unless a name of theirs holds a bar.
MergedAlike(a, b) ==
  /\ a[1] = b[1] /\ Joined(a[2]) = Joined(b[2])
  /\ (\A d \in {a[2], b[2]} : \A i \in DOMAIN d : Len(d[i]) = 1) => a = b

\* A character or a catalog was answered.
Answered(s) == req[s].stage = "answered" /\ req[s].kind # "load"

\* What is answered was made under the ruleset it is for, as far as the
\* spelling of its directories tells rulesets apart, and never under the same
\* files with other directories enabled (overlay_key, using_customdata).  A
\* catalog is never the vendored one where a set was asked for; a character is
\* computed without its set only when the set went between the check and the
\* computing, or a patch laid another ruleset over it (overlay_for).
NeverAnotherSet ==
  \A s \in Slot : Answered(s) =>
    /\ req[s].got # Vendored => MergedAlike(req[s].got, req[s].under)
    /\ req[s].got = Vendored /\ Needs(req[s].under) =>
         req[s].kind # "catalog" /\ (req[s].calm => req[s].under # req[s].set)

\* Not a property of this code.  overlay_for says of a set the cache has lost
\* that the API layer answers 409 before it gets there, and a miss means an
\* internal caller; but require_dataset's lookup and this one are two.
NeverVendored ==
  \A s \in Slot : Answered(s) /\ Needs(req[s].under) => req[s].got # Vendored

\* With nobody else at work on the server since it was asked, a request whose
\* files this browser keeps is served under a set, whatever the server had
\* forgotten before, and none is given up as missing (api.ts's send).
CalmIsServed ==
  \A s \in Slot : req[s].calm /\ req[s].kind # "load" /\ req[s].set[1] \in kept =>
    /\ req[s].stage # "missing"
    /\ req[s].stage = "answered" /\ req[s].under = req[s].set /\ Needs(req[s].set)
         => req[s].got # Vendored

Computing(s) == req[s].kind \in {"compute", "settings"} /\ req[s].stage \in Waiting

\* A compute ends, in an answer or in a message, unless the upload of its
\* retry is the thing that gets no answer (COMPUTE_TIMEOUT_MS, the one retry).
ComputeEndsUnlessUploading ==
  \A s \in Slot : Computing(s) ~> (req[s].stage \in Ended \cup {"silent"})
=============================================================================
