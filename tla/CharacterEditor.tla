--------------------------- MODULE CharacterEditor ---------------------------
(***************************************************************************)
(* The character editor of the browser client: useCharacterEditor.ts over  *)
(* api.ts and local-store.ts, with the stacks of history.ts.               *)
(*                                                                         *)
(* JavaScript runs one piece of code at a time, so a step here is what     *)
(* happens between two awaits.  One job holds `busy': a run of patches     *)
(* (`patch') or an undo/redo (`restoreSnapshot').  The character switches  *)
(* (open, new, duplicate, import, delete) are tasks that run beside it and *)
(* wait for idle where the code does.  A promise that was resolved is a    *)
(* microtask: it runs before anything the user or the network does.        *)
(*                                                                         *)
(* A character is an id and the values of its leaves.  Leaves belong to    *)
(* fields, and a patch body replaces whole fields: a control builds the    *)
(* field it edits from the character it sees (Compose).  `means' is a      *)
(* history variable: the leaves a body was made to change, and to what.    *)
(***************************************************************************)
EXTENDS EditHistory, FiniteSets

CONSTANTS
  Id,               \* character ids, issued by the server and never again
  Stored0,          \* the ones in IndexedDB when the page is first opened
  Leaf, Val,        \* the leaves of a character and what they can hold
  FieldOf,          \* [Leaf -> field]: a body replaces fields as a whole
  Zero,             \* the value of every leaf of a new character
  None,             \* null
  Unused, Missing, Deleted, \* no record: id not issued, not kept, deleted
  Slot,             \* places for character switches in flight (a bound)
  Ops,              \* what the user does in this instance
  MaxActs,          \* bound: user actions in a behaviour
  MaxUpdaters,      \* bound: updaters waiting
  CustomData,       \* the characters use custom data, which the service forgets
  PutMayFail        \* IndexedDB may refuse a write (quota)

Content == [Leaf -> Val]

Character == [id : Id, f : Content]

NoRecord == {Unused, Missing, Deleted}

Setting == UNION {[D -> Val] : D \in SUBSET Leaf}

Body == [set : Setting, means : Setting]

ASSUME EditorAssumption ==
  /\ Stored0 \subseteq Id
  /\ Zero \in Val
  /\ FieldOf \in [Leaf -> {FieldOf[l] : l \in Leaf}]
  /\ CustomData \in BOOLEAN /\ PutMayFail \in BOOLEAN
  /\ MaxActs \in Nat /\ MaxUpdaters \in Nat
  /\ Content \cap NoRecord = {} /\ Missing # Deleted
  /\ None \notin Id \cup Character \cup Body

VARIABLES
  store,       \* IndexedDB: what is kept under each id
  last,        \* localStorage lastCharacterId
  ch,          \* the character on screen (React state), None while booting
  lastCommitted,
  hist,        \* history.ts
  roster,      \* the ids in the character list, as last read
  listing,     \* refreshRoster is reading the list
  busy,
  job,         \* what holds busy
  inFlight, queued, updaters,
  waiters,     \* idleWaiters: tasks whose waitForIdle has not resolved
  ready,       \* microtasks: tasks whose waitForIdle has resolved
  task,        \* [Slot -> a character switch in flight]
  transition,  \* how many opens and news were asked for
  shownBy,     \* history: the request of the last open or new shown
  slow,        \* a caller of patch that is still reading a file, or None
  typing,      \* the leaf whose control has focus and a draft, or None
  acts         \* user actions so far

storage == << store, last >>
screen == << ch, lastCommitted, hist >>
list == << roster, listing >>
work == << busy, job, inFlight, queued, updaters >>
switching == << waiters, ready, task, transition, shownBy >>
hands == << slow, typing >>
vars == << storage, screen, list, work, switching, hands, acts >>

NoJob == [kind |-> "none"]

NoTask == [op |-> "none", pc |-> "none"]

(* Where computeRemote and putCharacter can be: waiting for the service, for *)
(* the upload of the custom data it asked for, for the request sent again,   *)
(* for IndexedDB, and with the answer written and not yet shown.             *)
Requested == {"compute", "upload", "retry", "put", "show"}

Busies == {NoJob}
  \cup [kind : {"patch"}, pc : {"read"}, id : Id, send : Body]
  \cup [kind : {"patch"}, pc : Requested, id : Id, send : Body, val : Character]
  \cup [kind : {"restore"}, pc : Requested, val : Character]

Tasks == {NoTask}
  \cup [op : {"open", "new", "dup", "import", "delete"},
        pc : {"confirm", "removing", "wait", "read", "ask", "upload", "retry", "remember"},
        of : Character \cup {None},      \* closure: the ch it was called with
        others : SUBSET Id,              \* closure: the roster without it
        target : Id \cup {None},         \* the id to open, None to make one
        val : Character \cup {None},     \* what was read or made
        request : Nat]                   \* its place among opens and news

TypeOK ==
  /\ store \in [Id -> Content \cup NoRecord]
  /\ last \in Id \cup {None}
  /\ ch \in Character \cup {None}
  /\ lastCommitted \in Character \cup {None}
  /\ hist \in [undo : Seq(Character), redo : Seq(Character)]
  /\ roster \subseteq Id
  /\ listing \in BOOLEAN
  /\ busy \in BOOLEAN
  /\ job \in Busies
  /\ inFlight \in Body \cup {None}
  /\ queued \in Body \cup {None}
  /\ updaters \in Seq([leaf : Leaf, v : Val, for : Id])
  /\ waiters \in Seq(Slot)
  /\ ready \in Seq(Slot)
  /\ task \in [Slot -> Tasks]
  /\ transition \in Nat
  /\ shownBy \in Nat
  /\ slow \in Character \cup {None}
  /\ typing \in Leaf \cup {None}
  /\ acts \in 0 .. MaxActs

(* Before the bootstrap effect has opened anything. *)
Fresh ==
  /\ ch = None
  /\ lastCommitted = None
  /\ hist = NoHistory
  /\ roster = {}
  /\ listing = FALSE
  /\ busy = FALSE
  /\ job = NoJob
  /\ inFlight = None
  /\ queued = None
  /\ updaters = << >>
  /\ waiters = << >>
  /\ ready = << >>
  /\ task = [s \in Slot |-> NoTask]
  /\ transition = 0
  /\ shownBy = 0
  /\ slow = None
  /\ typing = None

Init ==
  /\ store = [i \in Id |-> IF i \in Stored0 THEN [l \in Leaf |-> Zero] ELSE Unused]
  /\ last \in Stored0 \cup {None}
  /\ Fresh
  /\ acts = 0

-----------------------------------------------------------------------------
(* Patch bodies (patch-queue.ts) *)

Fields(body) == {FieldOf[l] : l \in DOMAIN body.set}

(* What a control sends to set leaf l, seeing the character c. *)
Compose(c, l, v) ==
  [set |-> [m \in {m \in Leaf : FieldOf[m] = FieldOf[l]} |-> IF m = l THEN v ELSE c.f[m]],
   means |-> [m \in {l} |-> v]]

Applied(c, body) ==
  [c EXCEPT !.f = [l \in Leaf |-> IF l \in DOMAIN body.set THEN body.set[l] ELSE @[l]]]

(* leafDiffs on flat leaves: the two bodies have the same ones, and differ  *)
(* in one at most.                                                          *)
AdvancesOneLeaf(sent, next) ==
  /\ DOMAIN sent.set = DOMAIN next.set
  /\ Cardinality({l \in DOMAIN next.set : sent.set[l] # next.set[l]}) < 2

DisjointKeys(sent, next) == Fields(sent) \cap Fields(next) = {}

(* { ...under, ...over } *)
Spread(over, under) ==
  [l \in DOMAIN over \cup DOMAIN under |-> IF l \in DOMAIN over THEN over[l] ELSE under[l]]

(* { ...(queued.current ?? {}), ...body } *)
Merged(waiting, body) ==
  IF waiting = None THEN body
  ELSE [set |-> Spread(body.set, waiting.set), means |-> Spread(body.means, waiting.means)]

\* Mutant of Held: a body that arrives while busy is held whatever it is.
HeldBlindly(body) == body

(* What queued becomes when body arrives while busy: held, or unchanged. *)
Held(body) ==
  LET previous == IF queued # None THEN queued ELSE inFlight
  IN  IF previous = None THEN queued
      ELSE IF AdvancesOneLeaf(previous, body)
        THEN [body EXCEPT !.means = Spread(@, previous.means)]
      ELSE IF DisjointKeys(previous, body) THEN Merged(queued, body)
      ELSE queued

Pending(u, saved) == Compose(saved, u.leaf, u.v)

(* Nothing the user, the network or IndexedDB does overtakes a microtask. *)
Quiet == ready = << >>

-----------------------------------------------------------------------------
(* patch(body): the run of patches that holds busy *)

StartPatch(id, send) ==
  /\ busy' = TRUE
  /\ job' = [kind |-> "patch", pc |-> "read", id |-> id, send |-> send]
  /\ inFlight' = send
  /\ queued' = None

(* patch called by a control that sees the character c. *)
PatchBody(c, body) ==
  IF busy
  THEN queued' = Held(body) /\ UNCHANGED << busy, job, inFlight, updaters >>
  ELSE StartPatch(c.id, body) /\ UNCHANGED updaters

PatchUpdater(c, u) ==
  IF busy
  THEN updaters' = Append(updaters, u) /\ UNCHANGED << busy, job, inFlight, queued >>
  ELSE StartPatch(c.id, Pending(u, lastCommitted)) /\ UNCHANGED updaters

\* Mutant of EndPatch: the updaters that waited are kept after a failure.
EndPatchKeepsUpdaters ==
  /\ busy' = FALSE
  /\ job' = NoJob
  /\ inFlight' = None
  /\ queued' = None
  /\ UNCHANGED updaters
  /\ ready' = ready \o waiters
  /\ waiters' = << >>

\* Mutant of EndPatch: nobody is told that the editor is idle.
EndPatchForgetsWaiters ==
  /\ busy' = FALSE
  /\ job' = NoJob
  /\ inFlight' = None
  /\ queued' = None
  /\ updaters' = << >>
  /\ UNCHANGED << ready, waiters >>

(* The finally of patch: what waited is dropped and every waiter let go. *)
EndPatch ==
  /\ busy' = FALSE
  /\ job' = NoJob
  /\ inFlight' = None
  /\ queued' = None
  /\ updaters' = << >>
  /\ ready' = ready \o waiters
  /\ waiters' = << >>

(* api.patch reads the character as stored. *)
PatchReads ==
  /\ Quiet /\ job.kind = "patch" /\ job.pc = "read"
  /\ IF store[job.id] \in NoRecord
     THEN EndPatch
     ELSE /\ job' = [kind |-> "patch", pc |-> "compute", id |-> job.id,
                     send |-> job.send, val |-> [id |-> job.id, f |-> store[job.id]]]
          /\ UNCHANGED << busy, inFlight, queued, updaters, waiters, ready >>
  /\ UNCHANGED << storage, screen, list, task, transition, shownBy, hands, acts >>

\* Mutant of NextBody: updaters go before the body that was held first.
NextBodyUpdatersFirst(saved) ==
  IF updaters # << >> THEN Pending(Head(updaters), saved) ELSE queued

(* The next body of the loop, or None: queued ?? updaters.shift()?.(next). *)
NextBody(saved) ==
  IF queued # None THEN queued
  ELSE IF updaters # << >> THEN Pending(Head(updaters), saved)
  ELSE None

(* putCharacter: the write may be refused, and api.ts does not look. *)
Put(c) ==
  \/ store' = [store EXCEPT ![c.id] = c.f]
  \/ PutMayFail /\ store' = [store EXCEPT ![c.id] = IF @ = Unused THEN Missing ELSE @]

At(places) == Quiet /\ job.kind # "none" /\ job.pc \in places

Goes(place) ==
  /\ job' = [job EXCEPT !.pc = place]
  /\ UNCHANGED << busy, inFlight, queued, updaters, waiters, ready >>

(* The finally of restoreSnapshot clears busy and nothing else. *)
EndRestore ==
  /\ busy' = FALSE
  /\ job' = NoJob
  /\ UNCHANGED << inFlight, queued, updaters, waiters, ready >>

Ends == IF job.kind = "patch" THEN EndPatch ELSE EndRestore

(* What the service answers: the record with the body laid over it, or the  *)
(* snapshot as it is.                                                       *)
Answer == IF job.kind = "patch" THEN Applied(job.val, job.send) ELSE job.val

(* 409: the service has lost the custom data, and the files are uploaded.   *)
DataForgotten ==
  /\ CustomData /\ At({"compute"})
  /\ Goes("upload")
  /\ UNCHANGED << storage, screen, list, task, transition, shownBy, hands, acts >>

(* The upload is answered, whatever it says, and the request sent again.    *)
DataUploaded ==
  /\ At({"upload"})
  /\ Goes("retry")
  /\ UNCHANGED << storage, screen, list, task, transition, shownBy, hands, acts >>

\* Mutant of Computed: the answer is shown before it is written.
ComputedShows ==
  /\ At({"compute", "retry"})
  /\ Goes("put")
  /\ ch' = Answer /\ lastCommitted' = Answer
  /\ UNCHANGED << storage, hist, list, task, transition, shownBy, hands, acts >>

Computed ==
  /\ At({"compute", "retry"})
  /\ Goes("put")
  /\ UNCHANGED << storage, screen, list, task, transition, shownBy, hands, acts >>

\* Mutant of TimedOut: the request carries no signal.
NeverTimedOut == FALSE

(* COMPUTE_TIMEOUT_MS after the first request.  The upload has no limit.    *)
TimedOut ==
  /\ At({"compute", "retry"})
  /\ Ends
  /\ UNCHANGED << storage, screen, list, task, transition, shownBy, hands, acts >>

(* An error of the service, or a fetch that rejects. *)
Refused ==
  /\ At({"compute", "upload", "retry"})
  /\ Ends
  /\ UNCHANGED << storage, screen, list, task, transition, shownBy, hands, acts >>

(* IndexedDB has committed, or refused. *)
Stored ==
  /\ At({"put"})
  /\ Put(Answer)
  /\ Goes("show")
  /\ UNCHANGED << last, screen, list, task, transition, shownBy, hands, acts >>

\* Mutant of PatchShown: the snapshot taken is what the screen shows.
ShownRecordsScreen ==
  /\ At({"show"}) /\ job.kind = "patch"
  /\ hist' = Record(hist, ch)
  /\ ch' = Answer
  /\ lastCommitted' = Answer
  /\ EndPatch
  /\ UNCHANGED << storage, list, task, transition, shownBy, hands, acts >>

\* Mutant of PatchShown: the record is read once for the whole run.
ShownReadsOnce ==
  /\ At({"show"}) /\ job.kind = "patch"
  /\ hist' = Record(hist, lastCommitted)
  /\ ch' = Answer
  /\ lastCommitted' = Answer
  /\ IF queued # None
     THEN /\ job' = [job EXCEPT !.pc = "compute", !.send = queued]
          /\ inFlight' = queued
          /\ queued' = None
          /\ UNCHANGED << busy, updaters, waiters, ready >>
     ELSE EndPatch
  /\ UNCHANGED << storage, list, task, transition, shownBy, hands, acts >>

(* patch goes on behind its await: the answer is shown, and the loop sends  *)
(* what waited behind it.                                                   *)
PatchShown ==
  /\ At({"show"}) /\ job.kind = "patch"
  /\ hist' = Record(hist, lastCommitted)
  /\ ch' = Answer
  /\ lastCommitted' = Answer
  /\ IF NextBody(Answer) # None
     THEN /\ StartPatch(job.id, NextBody(Answer))
          /\ updaters' = IF queued # None THEN updaters ELSE Tail(updaters)
          /\ UNCHANGED << waiters, ready >>
     ELSE EndPatch
  /\ UNCHANGED << storage, list, task, transition, shownBy, hands, acts >>

-----------------------------------------------------------------------------
(* undo, redo and restoreSnapshot *)

StartRestore(snap) ==
  /\ busy' = TRUE
  /\ job' = [kind |-> "restore", pc |-> "compute", val |-> snap]
  /\ UNCHANGED << inFlight, queued, updaters >>

(* restoreSnapshot goes on behind its await of api.compute, which wrote the *)
(* snapshot back without reading what was stored.                           *)
RestoreShown ==
  /\ At({"show"}) /\ job.kind = "restore"
  /\ ch' = Answer
  /\ lastCommitted' = Answer
  /\ EndRestore
  /\ UNCHANGED << storage, hist, list, task, transition, shownBy, hands, acts >>

-----------------------------------------------------------------------------
(* Character switches *)

FreshId == {i \in Id : store[i] = Unused}

NewCharacter(i) == [id |-> i, f |-> [l \in Leaf |-> Zero]]

StoredIds == {i \in Id : store[i] \notin NoRecord}

Opens(t) == t.target # None

(* A switch is over; deleteCurrent refreshes the roster however it ended. *)
Done(s) ==
  /\ task' = [task EXCEPT ![s] = NoTask]
  /\ listing' = (listing \/ task[s].op = "delete")

\* Mutant of Show: the history of the last character is kept.
ShowKeepsHistory(s, c) ==
  /\ ch' = c
  /\ lastCommitted' = c
  /\ UNCHANGED hist
  /\ last' = c.id
  /\ task' = [task EXCEPT ![s] = NoTask]
  /\ listing' = (listing \/ task[s].op # "open")
  /\ shownBy' = IF task[s].request = 0 THEN shownBy ELSE task[s].request

(* The part of remember(c) behind its waitForIdle, and what follows it. *)
Show(s, c) ==
  /\ ch' = c
  /\ lastCommitted' = c
  /\ hist' = NoHistory
  /\ last' = c.id
  /\ task' = [task EXCEPT ![s] = NoTask]
  /\ listing' = (listing \/ task[s].op # "open")
  /\ shownBy' = IF task[s].request = 0 THEN shownBy ELSE task[s].request

Remember(s, c) ==
  IF busy
  THEN /\ task' = [task EXCEPT ![s].pc = "remember", ![s].val = c]
       /\ waiters' = Append(waiters, s)
       /\ UNCHANGED << last, screen, listing, shownBy >>
  ELSE Show(s, c) /\ UNCHANGED waiters

(* The head of openCharacter and newCharacter: ++transition, waitForIdle. *)
Ask(s, t) ==
  /\ transition' = transition + 1
  /\ task' = [task EXCEPT ![s] =
       [t EXCEPT !.request = transition + 1,
                 !.pc = IF busy THEN "wait" ELSE IF Opens(t) THEN "read" ELSE "ask"]]
  /\ waiters' = IF busy THEN Append(waiters, s) ELSE waiters

Call(op, target) ==
  [op |-> op, pc |-> "wait", of |-> None, others |-> {}, target |-> target,
   val |-> None, request |-> 0]

(* deleteCurrent, confirmed: the record goes as soon as the editor is idle. *)
Remove(s, t) ==
  /\ store' = [store EXCEPT ![t.of.id] = Deleted]
  /\ task' = [task EXCEPT ![s] = [t EXCEPT !.pc = "removing"]]

(* api.remove is answered: open another of the roster, or make a new one. *)
Removed(s) ==
  /\ Quiet /\ task[s].op = "delete" /\ task[s].pc = "removing"
  /\ \/ \E i \in task[s].others : Ask(s, [task[s] EXCEPT !.target = i])
     \/ task[s].others = {} /\ Ask(s, task[s])
  /\ UNCHANGED << storage, screen, list, work, ready, shownBy, hands, acts >>

(* api.get reads the record; one that is not there is an error. *)
SwitchReads(s) ==
  /\ Quiet /\ task[s].op # "none" /\ task[s].pc = "read"
  /\ LET i == task[s].target
     IN  IF store[i] \in NoRecord
         THEN Done(s)
         ELSE /\ task' = [task EXCEPT ![s].pc = "ask", ![s].val = [id |-> i, f |-> store[i]]]
              /\ UNCHANGED listing
  /\ UNCHANGED << storage, screen, roster, work, waiters, ready, transition,
                  shownBy, hands, acts >>

(* The characters the answer to a switch can be.  An open that the service  *)
(* does not answer keeps what was read.                                     *)
Answers(t) ==
  IF Opens(t) THEN {t.val}
  ELSE {IF t.op = "dup" THEN [t.of EXCEPT !.id = i] ELSE NewCharacter(i) : i \in FreshId}

\* Mutant of Superseded: nobody asks whether a later switch was made since.
NeverSuperseded(t) == FALSE

(* Only opens and news ask whether a later one was made since. *)
Superseded(t) == t.request # 0 /\ t.request # transition

(* api.get is told that its custom data is lost; the time limit of its      *)
(* request is not one of the upload.                                        *)
SwitchForgotten(s) ==
  /\ CustomData
  /\ Quiet /\ task[s].op # "none" /\ task[s].pc = "ask" /\ Opens(task[s])
  /\ task' = [task EXCEPT ![s].pc = "upload"]
  /\ UNCHANGED << storage, screen, list, work, waiters, ready, transition,
                  shownBy, hands, acts >>

SwitchUploaded(s) ==
  /\ Quiet /\ task[s].op # "none" /\ task[s].pc = "upload"
  /\ task' = [task EXCEPT ![s].pc = "retry"]
  /\ UNCHANGED << storage, screen, list, work, waiters, ready, transition,
                  shownBy, hands, acts >>

(* The answer is written to IndexedDB before anything else is looked at.    *)
(* One step: what comes between answer and commit sees neither.             *)
SwitchAnswered(s) ==
  /\ Quiet /\ task[s].op # "none" /\ task[s].pc \in {"ask", "retry"}
  /\ \E c \in Answers(task[s]) :
       /\ Put(c)
       /\ IF Superseded(task[s])
          THEN Done(s) /\ UNCHANGED << last, screen, waiters, shownBy >>
          ELSE Remember(s, c)
  /\ UNCHANGED << roster, work, ready, transition, hands, acts >>

(* api.create and api.import have no fallback, and no time limit. *)
SwitchFails(s) ==
  /\ Quiet /\ task[s].op # "none" /\ task[s].pc = "ask" /\ ~Opens(task[s])
  /\ Done(s)
  /\ UNCHANGED << storage, screen, roster, work, waiters, ready, transition,
                  shownBy, hands, acts >>

(* A switch whose waitForIdle has resolved goes on. *)
Resume ==
  /\ ready # << >>
  /\ ready' = Tail(ready)
  /\ LET s == Head(ready)
         t == task[s]
     IN  \/ /\ t.pc = "wait"
            /\ task' = [task EXCEPT ![s].pc = IF Opens(t) THEN "read" ELSE "ask"]
            /\ UNCHANGED << storage, screen, listing, shownBy >>
         \/ /\ t.pc = "confirm" /\ t.op = "dup"
            /\ task' = [task EXCEPT ![s].pc = "ask"]
            /\ UNCHANGED << storage, screen, listing, shownBy >>
         \/ /\ t.pc = "confirm" /\ t.op = "delete"
            /\ Remove(s, t)
            /\ UNCHANGED << last, screen, listing, shownBy >>
         \/ /\ t.pc = "remember"
            /\ Show(s, t.val)
            /\ UNCHANGED store
  /\ UNCHANGED << roster, work, waiters, transition, hands, acts >>

(* refreshRoster *)
ListAnswered ==
  /\ Quiet /\ listing
  /\ roster' = StoredIds
  /\ listing' = FALSE
  /\ UNCHANGED << storage, screen, work, switching, hands, acts >>

(* openInitial, behind the loading page: nobody can act until it is done. *)
Boot ==
  /\ ch = None
  /\ roster' = StoredIds
  /\ IF last \in StoredIds
     THEN ch' = [id |-> last, f |-> store[last]] /\ Put(ch') /\ UNCHANGED listing
     ELSE \E i \in FreshId : ch' = NewCharacter(i) /\ Put(ch') /\ listing' = TRUE
  /\ lastCommitted' = ch'
  /\ hist' = NoHistory
  /\ last' = ch'.id
  /\ UNCHANGED << work, switching, hands, acts >>

-----------------------------------------------------------------------------
(* What the user does.  The page has no controls before a character is up,  *)
(* and a control that is typed in is left, which commits it, before another *)
(* is used (the shortcuts of undo and redo are dead in an input).           *)

Acts(op) ==
  /\ Quiet
  /\ op \in Ops
  /\ op = "draft" \/ typing = None
  /\ ch # None
  /\ acts < MaxActs
  /\ acts' = acts + 1

(* A control sets leaf l; the body is composed from the character it shows. *)
Edit(l, v) ==
  /\ Acts("edit")
  /\ ch.f[l] # v
  /\ PatchBody(ch, Compose(ch, l, v))
  /\ UNCHANGED << storage, screen, list, switching, hands >>

(* Typing in a field or dragging a slider changes the screen alone.         *)
Draft(l, v) ==
  /\ Acts("draft")
  /\ typing \in {None, l} /\ ch.f[l] # v
  /\ ch' = [ch EXCEPT !.f[l] = v]
  /\ typing' = l
  /\ UNCHANGED << storage, lastCommitted, hist, list, work, switching, slow >>

(* Leaving the control sends what it shows by then. *)
Commit ==
  /\ Quiet /\ typing # None
  /\ PatchBody(ch, Compose(ch, typing, ch.f[typing]))
  /\ typing' = None
  /\ UNCHANGED << storage, screen, list, switching, slow, acts >>

(* A control sends an updater, to be composed when its turn comes. *)
EditLater(l, v) ==
  /\ Acts("updater")
  /\ Len(updaters) < MaxUpdaters
  /\ PatchUpdater(ch, [leaf |-> l, v |-> v, for |-> ch.id])
  /\ UNCHANGED << storage, screen, list, switching, hands >>

(* onPortraitFile and the ruleset loader read a file first, and then call   *)
(* the patch of the render they were started from.                          *)
PickFile ==
  /\ Acts("file")
  /\ slow = None
  /\ slow' = ch
  /\ UNCHANGED << storage, screen, list, work, switching, typing >>

FileRead(l, v) ==
  /\ Quiet /\ slow # None
  /\ PatchBody(slow, Compose(slow, l, v))
  /\ slow' = None
  /\ UNCHANGED << storage, screen, list, switching, typing, acts >>

Undo ==
  /\ Acts("undo")
  /\ ~busy /\ CanStepBack(hist)
  /\ hist' = StepBack(hist, lastCommitted)
  /\ StartRestore(Top(hist.undo))
  /\ UNCHANGED << storage, ch, lastCommitted, list, switching, hands >>

Redo ==
  /\ Acts("undo")
  /\ ~busy /\ CanStepForward(hist)
  /\ hist' = StepForward(hist, lastCommitted)
  /\ StartRestore(Top(hist.redo))
  /\ UNCHANGED << storage, ch, lastCommitted, list, switching, hands >>

Free(s) == task[s] = NoTask

(* The ids left suffice for the switches that make a character (a bound). *)
SpareId == Cardinality(FreshId) > Cardinality({s \in Slot : ~Free(s) /\ ~Opens(task[s])})

OpenCharacter(s, i) ==
  /\ Acts("open")
  /\ Free(s) /\ i \in roster \ {ch.id}
  /\ Ask(s, Call("open", i))
  /\ UNCHANGED << storage, screen, list, work, ready, shownBy, hands >>

NewCharacterAsked(s) ==
  /\ Acts("new")
  /\ Free(s) /\ SpareId
  /\ Ask(s, Call("new", None))
  /\ UNCHANGED << storage, screen, list, work, ready, shownBy, hands >>

(* duplicateCurrent copies the character it was called with. *)
DuplicateCurrent(s) ==
  /\ Acts("dup")
  /\ Free(s) /\ SpareId
  /\ task' = [task EXCEPT ![s] = [Call("dup", None) EXCEPT
                !.of = ch, !.pc = IF busy THEN "confirm" ELSE "ask"]]
  /\ waiters' = IF busy THEN Append(waiters, s) ELSE waiters
  /\ UNCHANGED << storage, screen, list, work, ready, transition, shownBy, hands >>

(* onImport and importSheetUrl read a file and ask the server at once. *)
ImportFile(s) ==
  /\ Acts("import")
  /\ Free(s) /\ SpareId
  /\ task' = [task EXCEPT ![s] = [Call("import", None) EXCEPT !.pc = "ask"]]
  /\ UNCHANGED << storage, screen, list, work, waiters, ready, transition,
                  shownBy, hands >>

\* Mutant of DeleteCurrent: it does not wait for idle before it removes.
DeleteAtOnce(s) ==
  /\ Acts("delete")
  /\ Free(s) /\ SpareId
  /\ Remove(s, [Call("delete", None) EXCEPT !.of = ch, !.others = roster \ {ch.id}])
  /\ UNCHANGED << last, screen, list, work, waiters, ready, transition, shownBy, hands >>

DeleteCurrent(s) ==
  /\ Acts("delete")
  /\ Free(s) /\ SpareId
  /\ LET t == [Call("delete", None) EXCEPT
                 !.of = ch, !.others = roster \ {ch.id}, !.pc = "confirm"]
     IN  IF busy
         THEN /\ task' = [task EXCEPT ![s] = t]
              /\ waiters' = Append(waiters, s)
              /\ UNCHANGED store
         ELSE Remove(s, t) /\ UNCHANGED waiters
  /\ UNCHANGED << last, screen, list, work, ready, transition, shownBy, hands >>

(* The page is closed or reloaded: only what was written is left. *)
Reload ==
  /\ Acts("reload")
  /\ FreshId # {}
  /\ ch' = None
  /\ lastCommitted' = None
  /\ hist' = NoHistory
  /\ roster' = {}
  /\ listing' = FALSE
  /\ busy' = FALSE
  /\ job' = NoJob
  /\ inFlight' = None
  /\ queued' = None
  /\ updaters' = << >>
  /\ waiters' = << >>
  /\ ready' = << >>
  /\ task' = [s \in Slot |-> NoTask]
  /\ transition' = 0
  /\ shownBy' = 0
  /\ slow' = None
  /\ typing' = None
  /\ UNCHANGED storage

-----------------------------------------------------------------------------

UserActs ==
  \/ \E l \in Leaf, v \in Val : Edit(l, v) \/ EditLater(l, v) \/ Draft(l, v)
  \/ PickFile
  \/ Undo \/ Redo
  \/ \E s \in Slot :
       \/ \E i \in Id : OpenCharacter(s, i)
       \/ NewCharacterAsked(s)
       \/ DuplicateCurrent(s)
       \/ ImportFile(s)
       \/ DeleteCurrent(s)
  \/ Reload

RequestStep == DataForgotten \/ DataUploaded \/ Computed \/ TimedOut \/ Refused \/ Stored

Shown == PatchShown \/ RestoreShown

SwitchStep(s) ==
  \/ Removed(s) \/ SwitchReads(s) \/ SwitchAnswered(s) \/ SwitchFails(s)
  \/ SwitchForgotten(s) \/ SwitchUploaded(s)

FileStep == \E l \in Leaf, v \in Val : FileRead(l, v)

Next ==
  \/ Resume
  \/ UserActs
  \/ Commit
  \/ FileStep
  \/ PatchReads
  \/ RequestStep
  \/ Shown
  \/ \E s \in Slot : SwitchStep(s)
  \/ ListAnswered
  \/ Boot

OpenAnswered(s) == task[s].op # "none" /\ Opens(task[s]) /\ SwitchAnswered(s)

(* Microtasks run, IndexedDB settles, and the timer of a compute fires: the *)
(* one of a job, and the one of an open, which then shows what was read.    *)
(* Nothing says that the service answers anything, that an upload ends, or  *)
(* that the user does anything.                                             *)
Fairness ==
  /\ WF_vars(Resume)
  /\ WF_vars(PatchReads)
  /\ WF_vars(TimedOut)
  /\ WF_vars(Stored)
  /\ WF_vars(Shown)
  /\ \A s \in Slot :
       WF_vars(Removed(s) \/ SwitchReads(s) \/ OpenAnswered(s))

Spec == Init /\ [][Next]_vars /\ Fairness

-----------------------------------------------------------------------------
(* Properties *)

(* A patch is shown. *)
Landing == job.kind = "patch" /\ job.pc = "show" /\ job' # job /\ ch' # None

(* A patch is written. *)
Writing == job.kind = "patch" /\ job.pc = "put" /\ job'.kind = "patch" /\ job'.pc = "show"

(* A patch that lands does what the edits in it were made to do, the latest *)
(* for each leaf, and nothing else: every other leaf is as it was committed *)
(* or drafted.  A body carries whole fields as its control saw them, so one *)
(* that was composed too early would put old values back (patch-queue.ts).  *)
LandingIsAsMeant ==
  [][Landing => \A l \in Leaf :
       IF l \in DOMAIN job.send.means THEN ch'.f[l] = job.send.means[l]
       ELSE ch'.f[l] \in {lastCommitted.f[l], ch.f[l]}]_vars

(* What was accepted while busy is sent: a held body only gives way to one  *)
(* that covers what it was made to do, a run that ends well leaves nothing  *)
(* behind it, and one that goes on sends the held body first.               *)
HeldEditsAreSent ==
  [][/\ queued # None /\ busy' /\ ~Landing
        => queued' # None /\ DOMAIN queued.means \subseteq DOMAIN queued'.means
     /\ Landing => IF busy' THEN queued # None => job'.send = queued
                   ELSE queued = None /\ updaters = << >>]_vars

(* An updater always waits its turn: none is left when nothing is in        *)
(* flight, and it is sent to the character it was made for.                 *)
UpdatersWaitTheirTurn ==
  updaters # << >> => busy /\ \A k \in 1 .. Len(updaters) :
    updaters[k].for = IF job.kind = "patch" THEN job.id ELSE ch.id

(* Undo and redo stay with the character on screen: a switch drops all      *)
(* history, and every snapshot is of the character shown.                   *)
HistoryOfOneCharacter ==
  \A k \in 1 .. Len(hist.undo) + Len(hist.redo) :
    (hist.undo \o hist.redo)[k].id = ch.id

(* Types, and one character at a time: what undo and redo could bring back   *)
(* is the character on screen.                                               *)
OneCharacterAtATime == TypeOK /\ HistoryOfOneCharacter

(* A switch waits for the commit in progress and no longer: nobody waits    *)
(* for idle in an idle editor.  True without undo; restoreSnapshot lets     *)
(* nobody go (README, disagreements).                                       *)
NobodyWaitsWhenIdle == ~busy => waiters = << >>

Uploading == job.kind # "none" /\ job.pc = "upload"

(* Requests without a time limit: api.create, api.import, and every upload. *)
Unlimited(t) == t.op # "none" /\ (t.pc = "upload" \/ (t.pc = "ask" /\ ~Opens(t)))

(* Every switch comes to its end: whoever it waits for lets it go, and an   *)
(* open is answered or given up.  Only a request that has no time limit may *)
(* keep it, its own or the upload of the patch it waits for.                *)
SwitchesEndUnlessUnanswered == \A s \in Slot :
  \/ []<>(task[s] = NoTask)
  \/ <>[](Unlimited(task[s]))
  \/ <>[]Uploading

(* The editor becomes free again and again, whatever the service answers or *)
(* does not: a compute is given up in the end.  Only an upload that is      *)
(* never answered holds it (api.ts:142).                                    *)
EditorComesFreeUnlessUploading == []<>~busy \/ <>[]Uploading

(* An open or a new that was asked for earlier never replaces on screen     *)
(* the one asked for later, however late its answer comes.                  *)
ShownNeverOlder == [][ch' = None \/ shownBy' >= shownBy]_vars

(* What the editor holds as committed is what a reload would find, at every *)
(* moment: an answer is written first and shown after, and between the two  *)
(* a reload finds the newer one.                                            *)
CommittedIsStored ==
  ch # None /\ store[ch.id] # Deleted =>
    store[ch.id] = IF job.kind # "none" /\ job.pc = "show" THEN Answer.f ELSE lastCommitted.f

(* A patch never lands on a deleted character, on the screen or in the      *)
(* store: a delete waits for the one in progress, and one that comes later  *)
(* finds no record.                                                         *)
LandsOnTheLiving == [][Landing \/ Writing => store[job.id] # Deleted]_vars

(* The stacks and the restores in flight are a History.                     *)
H == INSTANCE History WITH
       Snapshot <- Character, current <- lastCommitted,
       restoring <- IF job.kind = "restore" THEN job.val ELSE None

(* Whatever runs, the editor moves its history only as History allows:      *)
(* nothing is recorded or reset under a restore, and a restore shows the    *)
(* snapshot that was popped for it.                                         *)
MovesHistory == [][ch' = None \/ H!Next]_(H!vars)

=============================================================================
