----------------------- MODULE CharacterEditor_proofs -----------------------
(***************************************************************************)
(* Proofs about CharacterEditor for any characters, leaves, values, number *)
(* of switches at once, actions of the user and failures.                  *)
(***************************************************************************)
EXTENDS CharacterEditor, FiniteSetTheorems, TLAPS

USE MaxDepthAssumption

Updater == [leaf : Leaf, v : Val, for : Id]

Stacks(C) == [undo : Seq(C), redo : Seq(C)]

-----------------------------------------------------------------------------
(* The undo and redo stacks hold snapshots of C whatever is recorded or     *)
(* popped, and what is popped is one of C.                                  *)
LEMMA RecordStays ==
  ASSUME NEW C, NEW h \in Stacks(C), NEW c \in C
  PROVE  Record(h, c) \in Stacks(C)
<1>1. Append(h.undo, c) \in Seq(C) /\ Append(h.undo, c) # << >>
  BY DEF Stacks
<1>2. Tail(Append(h.undo, c)) \in Seq(C)
  BY <1>1
<1> QED
  BY <1>1, <1>2 DEF Record, Stacks

LEMMA StepStays ==
  ASSUME NEW C, NEW h \in Stacks(C), NEW c \in C
  PROVE  /\ CanStepBack(h) => StepBack(h, c) \in Stacks(C) /\ Top(h.undo) \in C
         /\ CanStepForward(h) => StepForward(h, c) \in Stacks(C) /\ Top(h.redo) \in C
<1>1. \A s \in Seq(C) : s # << >> => Pop(s) \in Seq(C) /\ Top(s) \in C
  <2> SUFFICES ASSUME NEW s \in Seq(C), s # << >> PROVE Pop(s) \in Seq(C) /\ Top(s) \in C
    OBVIOUS
  <2>1. Len(s) \in Nat \ {0}
    OBVIOUS
  <2>2. Top(s) \in C
    BY <2>1 DEF Top
  <2>3. Pop(s) \in Seq(C)
    BY <2>1 DEF Pop
  <2> QED
    BY <2>2, <2>3
<1>2. \A s \in Seq(C) : Append(s, c) \in Seq(C)
  OBVIOUS
<1>3. h.undo \in Seq(C) /\ h.redo \in Seq(C)
  BY DEF Stacks
<1> HIDE DEF Top, Pop
<1> QED
  BY <1>1, <1>2, <1>3 DEF StepBack, StepForward, CanStepBack, CanStepForward, Stacks

LEMMA TogetherStays ==
  ASSUME NEW C, NEW s \in Seq(C), NEW t \in Seq(C)
  PROVE  \A k \in 1 .. Len(s) + Len(t) : (s \o t)[k] \in C
<1>1. s \o t \in Seq(C) /\ Len(s \o t) = Len(s) + Len(t)
  OBVIOUS
<1> QED
  BY <1>1

(* What is left of a sequence behind its head. *)
LEMMA TailStays ==
  ASSUME NEW C, NEW s \in Seq(C), s # << >>
  PROVE  Tail(s) \in Seq(C)
OBVIOUS

LEMMA NoHistoryStays ==
  ASSUME NEW C
  PROVE  NoHistory \in Stacks(C)
BY DEF NoHistory, Stacks

-----------------------------------------------------------------------------
(* Bodies are made of bodies: what a control sends, what is held, merged    *)
(* or composed late is a body, and it makes a character of a character.     *)
LEMMA SettingProperties ==
  ASSUME NEW D \in SUBSET Leaf, NEW f \in [D -> Val]
  PROVE  f \in Setting
BY DEF Setting

(* One body over another, and what is composed, merged, applied or held. *)
LEMMA SpreadIsSetting ==
  ASSUME NEW f \in Setting, NEW g \in Setting
  PROVE  Spread(f, g) \in Setting
<1>1. PICK D \in SUBSET Leaf : f \in [D -> Val]
  BY DEF Setting
<1>2. PICK E \in SUBSET Leaf : g \in [E -> Val]
  BY DEF Setting
<1>3. Spread(f, g) \in [D \cup E -> Val]
  BY <1>1, <1>2 DEF Spread
<1> QED
  BY <1>3, SettingProperties

LEMMA ComposeIsBody ==
  ASSUME NEW c \in Character, NEW l \in Leaf, NEW v \in Val
  PROVE  Compose(c, l, v) \in Body
<1> DEFINE D == {m \in Leaf : FieldOf[m] = FieldOf[l]}
           set == [m \in D |-> IF m = l THEN v ELSE c.f[m]]
           means == [m \in {l} |-> v]
<1>1. set \in [D -> Val]
  BY DEF Character, Content
<1>2. means \in [{l} -> Val]
  OBVIOUS
<1>3. Compose(c, l, v) = [set |-> set, means |-> means]
  BY DEF Compose
<1> HIDE DEF set, means
<1> QED
  BY <1>1, <1>2, <1>3, SettingProperties DEF Body

LEMMA PendingIsBody ==
  ASSUME NEW u \in Updater, NEW c \in Character
  PROVE  Pending(u, c) \in Body
BY ComposeIsBody DEF Pending, Updater

LEMMA MergedIsBody ==
  ASSUME NEW waiting \in Body \cup {None}, NEW body \in Body
  PROVE  Merged(waiting, body) \in Body
BY SpreadIsSetting DEF Merged, Body

LEMMA AppliedIsCharacter ==
  ASSUME NEW c \in Character, NEW body \in Body
  PROVE  Applied(c, body) \in Character /\ Applied(c, body).id = c.id
<1> DEFINE g == [l \in Leaf |-> IF l \in DOMAIN body.set THEN body.set[l] ELSE c.f[l]]
<1>1. PICK D \in SUBSET Leaf : body.set \in [D -> Val]
  BY DEF Body, Setting
<1>2. g \in Content
  BY <1>1 DEF Character, Content
<1>3. Applied(c, body) = [c EXCEPT !.f = g]
  BY DEF Applied, Character
<1> HIDE DEF g
<1> QED
  BY <1>2, <1>3 DEF Character

LEMMA HeldIsBody ==
  ASSUME TypeOK, NEW body \in Body
  PROVE  Held(body) \in Body \cup {None}
<1> DEFINE previous == IF queued # None THEN queued ELSE inFlight
<1>1. previous \in Body \cup {None} /\ queued \in Body \cup {None}
  BY DEF TypeOK
<1> HIDE DEF previous
<1>2. previous # None => [body EXCEPT !.means = Spread(@, previous.means)] \in Body
  <2> SUFFICES ASSUME previous # None PROVE [body EXCEPT !.means = Spread(@, previous.means)] \in Body
    OBVIOUS
  <2>1. Spread(body.means, previous.means) \in Setting
    BY <1>1, SpreadIsSetting DEF Body
  <2> QED
    BY <2>1 DEF Body
<1>3. Merged(queued, body) \in Body
  BY <1>1, MergedIsBody
<1> QED
  BY <1>1, <1>2, <1>3 DEF Held, previous

-----------------------------------------------------------------------------
(* The invariant: the types, by the group of variables they speak of, and   *)
(* what links the groups.  The types alone are not inductive: what an edit  *)
(* records, an answer shows and a switch puts on screen is a character only *)
(* because of where the program stands.                                     *)
StorageOK == store \in [Id -> Content \cup NoRecord] /\ last \in Id \cup {None}

ScreenOK ==
  /\ ch \in Character \cup {None}
  /\ lastCommitted \in Character \cup {None}
  /\ hist \in Stacks(Character)

ListOK == roster \subseteq Id /\ listing \in BOOLEAN

WorkOK ==
  /\ busy \in BOOLEAN
  /\ job \in Busies
  /\ inFlight \in Body \cup {None}
  /\ queued \in Body \cup {None}
  /\ updaters \in Seq(Updater)

Going == [op : {"open", "new", "dup", "import", "delete"},
          pc : {"confirm", "removing", "wait", "read", "ask", "upload", "retry", "remember"},
          of : Character \cup {None}, others : SUBSET Id,
          target : Id \cup {None}, val : Character \cup {None}, request : Nat]

(* A switch has what its next step needs. *)
Fit(t) ==
  /\ t.op \in {"dup", "delete"} => t.of # None
  /\ t.op = "dup" => t.target = None
  /\ t.pc = "read" => t.target # None
  /\ t.pc \in {"ask", "upload", "retry"} /\ t.target # None => t.val # None
  /\ t.pc = "remember" => t.val # None

FitTask == {t \in Going : Fit(t)}

TasksOK == task \in [Slot -> {NoTask} \cup FitTask]

SwitchOK ==
  /\ waiters \in Seq(Slot) /\ ready \in Seq(Slot)
  /\ TasksOK
  /\ transition \in Nat /\ shownBy \in Nat

HandsOK == slow \in Character \cup {None} /\ typing \in Leaf \cup {None}

(* `busy' is what a job holds; a microtask of waitForIdle runs before       *)
(* anything can take it again; nothing is under way without a character; a  *)
(* patch that has read a record works on it, and nobody deleted it since.   *)
Linked ==
  /\ busy <=> job.kind # "none"
  /\ ready # << >> => ~busy
  /\ ch = None <=> lastCommitted = None
  /\ ch = None => job = NoJob /\ typing = None /\ slow = None
  /\ job.kind = "patch" /\ job.pc # "read"
       => job.val.id = job.id /\ store[job.id] # Deleted

IInv ==
  /\ StorageOK /\ ScreenOK /\ ListOK /\ WorkOK /\ SwitchOK /\ HandsOK
  /\ acts \in 0 .. MaxActs
  /\ Linked

(* The groups are the type invariant of the module. *)
LEMMA GroupsAreTypes ==
  IInv => TypeOK
<1> Tasks = {NoTask} \cup Going
  BY DEF Tasks, Going
<1> FitTask \subseteq Going
  BY DEF FitTask
<1> QED
  BY DEF IInv, TypeOK, StorageOK, ScreenOK, ListOK, WorkOK, SwitchOK, TasksOK, HandsOK,
     Stacks, Updater

(* The program starts in the invariant. *)
LEMMA InitInv ==
  Init => IInv
<1> SUFFICES ASSUME Init PROVE IInv
  OBVIOUS
<1> USE EditorAssumption DEF Init, Fresh
<1>1. StorageOK
  BY DEF StorageOK, Content, NoRecord
<1>2. ScreenOK
  BY NoHistoryStays DEF ScreenOK
<1>3. ListOK /\ HandsOK
  BY DEF ListOK, HandsOK
<1>4. WorkOK
  <2>1. updaters = << >> /\ << >> \in Seq(Updater)
    OBVIOUS
  <2>2. job \in Busies
    BY DEF Busies
  <2>3. busy \in BOOLEAN /\ inFlight = None /\ queued = None
    OBVIOUS
  <2> QED
    BY ONLY <2>1, <2>2, <2>3 DEF WorkOK
<1>5. SwitchOK
  BY DEF SwitchOK, TasksOK
<1>6. Linked
  BY DEF Linked, NoJob
<1> QED
  BY <1>1, <1>2, <1>3, <1>4, <1>5, <1>6 DEF IInv

-----------------------------------------------------------------------------
(* The helpers of the actions, one lemma each.                              *)

(* A write leaves a store of records and never makes a deleted one. *)
LEMMA PutStays ==
  ASSUME store \in [Id -> Content \cup NoRecord], NEW c \in Character, Put(c)
  PROVE  /\ store' \in [Id -> Content \cup NoRecord]
         /\ \A i \in Id : store[i] # Deleted => store'[i] # Deleted
<1>1. c.id \in Id /\ c.f \in Content
  BY DEF Character
<1>2. Deleted \notin Content /\ Missing # Deleted /\ Missing \in NoRecord
  BY EditorAssumption DEF NoRecord
<1>3. CASE store' = [store EXCEPT ![c.id] = c.f]
  BY <1>1, <1>2, <1>3
<1>4. CASE store' = [store EXCEPT ![c.id] = IF @ = Unused THEN Missing ELSE @]
  BY <1>1, <1>2, <1>4
<1> QED
  BY <1>3, <1>4 DEF Put

(* The switch in a place moves on, or the place becomes free. *)
LEMMA TaskMoves ==
  ASSUME TasksOK, NEW s \in Slot, NEW t \in {NoTask} \cup FitTask,
         task' = [task EXCEPT ![s] = t]
  PROVE  TasksOK'
BY DEF TasksOK

(* The head of an open or a new keeps the invariant of the switches. *)
LEMMA AskStays ==
  ASSUME SwitchOK, UNCHANGED << ready, shownBy >>,
         NEW s \in Slot, NEW t \in Going, Ask(s, t),
         t.op \in {"dup", "delete"} => t.of # None, t.op # "dup"
  PROVE  SwitchOK'
<1> DEFINE pc == IF busy THEN "wait" ELSE IF Opens(t) THEN "read" ELSE "ask"
           u == [t EXCEPT !.request = transition + 1, !.pc = pc]
<1>1. transition + 1 \in Nat
  BY DEF SwitchOK
<1>2. u \in Going
  BY <1>1 DEF Going
<1>3. /\ u.op = t.op /\ u.of = t.of /\ u.target = t.target /\ u.pc = pc /\ u.val = t.val
  BY DEF Going
<1>4. u \in FitTask
  <2>1. pc \in {"wait", "read", "ask"}
    OBVIOUS
  <2>2. (pc = "read" => t.target # None) /\ (pc = "ask" => t.target = None)
    BY DEF Opens
  <2> HIDE DEF u, pc
  <2>3. Fit(u)
    BY <1>3, <2>1, <2>2 DEF Fit
  <2> QED
    BY <1>2, <2>3 DEF FitTask
<1>5. task' = [task EXCEPT ![s] = u] /\ transition' = transition + 1
  BY DEF Ask
<1> HIDE DEF u, pc
<1>6. TasksOK'
  BY <1>4, <1>5, TaskMoves DEF SwitchOK
<1>7. waiters' \in Seq(Slot)
  BY DEF Ask, SwitchOK
<1> QED
  BY <1>1, <1>5, <1>6, <1>7 DEF SwitchOK

(* A call as it is made, before it is given what it works on. *)
LEMMA CallIsGoing ==
  ASSUME NEW op \in {"open", "new", "dup", "import", "delete"}, NEW i \in Id \cup {None}
  PROVE  Call(op, i) \in Going
BY DEF Call, Going

(* The end of a patch. *)
LEMMA EndPatchStays ==
  ASSUME WorkOK, waiters \in Seq(Slot), ready \in Seq(Slot), EndPatch
  PROVE  WorkOK' /\ waiters' \in Seq(Slot) /\ ready' \in Seq(Slot)
<1>1. job' \in Busies
  BY DEF EndPatch, Busies
<1>2. updaters' \in Seq(Updater) /\ waiters' \in Seq(Slot)
  <2>1. updaters' = << >> /\ waiters' = << >>
    BY DEF EndPatch
  <2> QED
    BY <2>1
<1>3. ready' \in Seq(Slot)
  <2>1. ready' = ready \o waiters
    BY DEF EndPatch
  <2> QED
    BY <2>1
<1>4. busy' = FALSE /\ inFlight' = None /\ queued' = None
  BY DEF EndPatch
<1> QED
  BY <1>1, <1>2, <1>3, <1>4 DEF WorkOK

(* A patch of a body starts or is held, from a control that sees c. *)
LEMMA PatchBodyStays ==
  ASSUME TypeOK, WorkOK, NEW c \in Character, NEW body \in Body, PatchBody(c, body)
  PROVE  WorkOK'
<1>1. CASE busy
  BY <1>1, HeldIsBody DEF PatchBody, WorkOK
<1>2. CASE ~busy
  <2>1. job' = [kind |-> "patch", pc |-> "read", id |-> c.id, send |-> body]
    BY <1>2 DEF PatchBody, StartPatch
  <2>2. job' \in Busies
    BY <2>1 DEF Busies, Character
  <2> QED
    BY <1>2, <2>2 DEF PatchBody, StartPatch, WorkOK
<1> QED
  BY <1>1, <1>2

(* An updater is composed from what is committed, or waits. *)
LEMMA PatchUpdaterStays ==
  ASSUME TypeOK, WorkOK, NEW c \in Character, NEW u \in Updater,
         lastCommitted \in Character, PatchUpdater(c, u)
  PROVE  WorkOK'
<1>1. CASE busy
  <2>1. updaters' = Append(updaters, u)
    BY <1>1 DEF PatchUpdater
  <2>2. updaters' \in Seq(Updater)
    BY <2>1 DEF WorkOK
  <2> QED
    BY <1>1, <2>2 DEF PatchUpdater, WorkOK
<1>2. CASE ~busy
  <2> DEFINE body == Pending(u, lastCommitted)
  <2>1. body \in Body
    BY PendingIsBody
  <2> HIDE DEF body
  <2>2. job' = [kind |-> "patch", pc |-> "read", id |-> c.id, send |-> body]
    BY <1>2 DEF PatchUpdater, StartPatch, body
  <2>3. job' \in Busies
    BY <2>1, <2>2 DEF Busies, Character
  <2>4. /\ busy' = TRUE /\ inFlight' = body /\ queued' = None
        /\ UNCHANGED updaters
    BY <1>2 DEF PatchUpdater, StartPatch, body
  <2> QED
    BY <2>1, <2>3, <2>4 DEF WorkOK
<1> QED
  BY <1>1, <1>2

(* What a call of patch does to the links: the job that starts has read     *)
(* nothing yet, and a body that is held leaves the job alone.               *)
LEMMA PatchLinks ==
  ASSUME Linked, NEW c \in Character, NEW body, ready = << >>, ch # None,
         \/ PatchBody(c, body)
         \/ \E u \in Updater : PatchUpdater(c, u),
         UNCHANGED << store, ch, lastCommitted, ready >>
  PROVE  Linked'
<1>1. CASE busy
  <2>1. UNCHANGED << busy, job >>
    BY <1>1 DEF PatchBody, PatchUpdater
  <2> QED
    BY <2>1 DEF Linked
<1>2. CASE ~busy
  <2>1. busy' = TRUE /\ job'.kind = "patch" /\ job'.pc = "read"
    BY <1>2 DEF PatchBody, PatchUpdater, StartPatch
  <2> QED
    BY <2>1 DEF Linked
<1> QED
  BY <1>1, <1>2

(* A switch that is over, and a character put on screen by one. *)
LEMMA DoneStays ==
  ASSUME TasksOK, listing \in BOOLEAN, NEW s \in Slot, Done(s)
  PROVE  TasksOK' /\ listing' \in BOOLEAN
BY TaskMoves DEF Done

(* A character is shown: types, the empty history and the task that is done. *)
LEMMA ShowStays ==
  ASSUME TasksOK, ListOK, shownBy \in Nat, last \in Id \cup {None},
         NEW s \in Slot, task[s] # NoTask, NEW c \in Character, Show(s, c)
  PROVE  /\ ScreenOK' /\ ch' = c /\ lastCommitted' = c
         /\ TasksOK' /\ listing' \in BOOLEAN /\ shownBy' \in Nat
         /\ last' \in Id \cup {None}
<1>1. hist' \in Stacks(Character)
  BY NoHistoryStays DEF Show
<1>2. TasksOK'
  BY TaskMoves DEF Show
<1>3. task[s] \in Going
  BY DEF TasksOK, FitTask
<1>4. shownBy' \in Nat
  BY <1>3 DEF Show, Going
<1>5. listing' \in BOOLEAN
  BY DEF Show, ListOK
<1>6. ch' = c /\ lastCommitted' = c /\ last' = c.id
  BY DEF Show
<1>7. c.id \in Id
  BY DEF Character
<1> QED
  BY <1>1, <1>2, <1>4, <1>5, <1>6, <1>7 DEF ScreenOK

(* A group of variables that does not change keeps its part. *)
LEMMA Kept ==
  /\ StorageOK /\ UNCHANGED storage => StorageOK'
  /\ ScreenOK /\ UNCHANGED screen => ScreenOK'
  /\ ListOK /\ UNCHANGED list => ListOK'
  /\ WorkOK /\ UNCHANGED work => WorkOK'
  /\ SwitchOK /\ UNCHANGED switching => SwitchOK'
  /\ HandsOK /\ UNCHANGED hands => HandsOK'
<1>1. StorageOK /\ UNCHANGED storage => StorageOK'
  BY DEF StorageOK, storage
<1>2. ScreenOK /\ UNCHANGED screen => ScreenOK'
  BY DEF ScreenOK, screen
<1>3. ListOK /\ UNCHANGED list => ListOK'
  BY DEF ListOK, list
<1>4. WorkOK /\ UNCHANGED work => WorkOK'
  BY DEF WorkOK, work
<1>5. SwitchOK /\ UNCHANGED switching => SwitchOK'
  BY DEF SwitchOK, TasksOK, switching
<1>6. HandsOK /\ UNCHANGED hands => HandsOK'
  BY DEF HandsOK, hands
<1> QED
  BY <1>1, <1>2, <1>3, <1>4, <1>5, <1>6

(* What the user did is counted; nothing else is. *)
LEMMA ActsAreCounted ==
  ASSUME acts \in 0 .. MaxActs
  PROVE  /\ \A op : Acts(op) => acts' \in 0 .. MaxActs /\ ready = << >> /\ ch # None
         /\ UNCHANGED acts => acts' \in 0 .. MaxActs
BY EditorAssumption DEF Acts, Quiet

-----------------------------------------------------------------------------
(* A run of patches.                                                        *)

(* Its job is of the kind that was found in it. *)
LEMMA PatchJob ==
  ASSUME WorkOK, job.kind = "patch"
  PROVE  /\ job.id \in Id /\ job.send \in Body
         /\ job.pc # "read" => job.val \in Character /\ job.pc \in Requested
<1>1. job # NoJob /\ job \notin [kind : {"restore"}, pc : Requested, val : Character]
  BY DEF NoJob
<1> QED
  BY <1>1 DEF WorkOK, Busies

LEMMA RestoreJob ==
  ASSUME WorkOK, job.kind = "restore"
  PROVE  job.val \in Character /\ job.pc \in Requested
<1>1. job # NoJob
  BY DEF NoJob
<1> QED
  BY <1>1 DEF WorkOK, Busies

(* What is written and shown is a character, the one that was read.         *)
LEMMA AnswerIsCharacter ==
  ASSUME WorkOK, job.kind \in {"patch", "restore"}, job.pc # "read"
  PROVE  Answer \in Character /\ Answer.id = job.val.id
<1>1. CASE job.kind = "patch"
  BY <1>1, PatchJob, AppliedIsCharacter DEF Answer
<1>2. CASE job.kind = "restore"
  BY <1>2, RestoreJob DEF Answer
<1> QED
  BY <1>1, <1>2

(* What a request does: it ends with nothing written, goes to its next      *)
(* place, or is written.                                                    *)
LEMMA RequestMoves ==
  ASSUME WorkOK, RequestStep
  PROVE  /\ ready = << >> /\ job.kind \in {"patch", "restore"}
         /\ job.pc \in Requested \ {"show"}
         /\ UNCHANGED << last, screen, list, task, transition, shownBy, hands, acts >>
         /\ \/ Ends /\ UNCHANGED store
            \/ \E place \in Requested \ {"show"} : Goes(place) /\ UNCHANGED store
            \/ Goes("show") /\ Put(Answer)
<1>1. job # NoJob => job.kind \in {"patch", "restore"}
  BY DEF WorkOK, Busies
<1>2. /\ ready = << >> /\ job.kind # "none" /\ job.pc \in Requested \ {"show"}
      /\ UNCHANGED << last, screen, list, task, transition, shownBy, hands, acts >>
  BY DEF RequestStep, DataForgotten, DataUploaded, Computed, TimedOut, Refused, Stored, At, Quiet,
     Requested, storage
<1>3. \/ Ends /\ UNCHANGED store
      \/ Goes("upload") /\ UNCHANGED store
      \/ Goes("retry") /\ UNCHANGED store
      \/ Goes("put") /\ UNCHANGED store
      \/ Goes("show") /\ Put(Answer)
  BY DEF RequestStep, DataForgotten, DataUploaded, Computed, TimedOut, Refused, Stored, storage
<1>4. \/ Ends /\ UNCHANGED store
      \/ \E place \in Requested \ {"show"} : Goes(place) /\ UNCHANGED store
      \/ Goes("show") /\ Put(Answer)
  BY <1>3 DEF Requested
<1> QED
  BY <1>1, <1>2, <1>4 DEF NoJob

(* A request that goes on is the same one in another place. *)
LEMMA GoesOn ==
  ASSUME WorkOK, job.kind \in {"patch", "restore"}, job.pc # "read",
         NEW place \in Requested, Goes(place)
  PROVE  /\ WorkOK' /\ UNCHANGED << busy, inFlight, queued, updaters, waiters, ready >>
         /\ job'.kind = job.kind /\ job'.pc = place /\ job'.val = job.val
         /\ job.kind = "patch" => job'.id = job.id /\ job'.send = job.send
         /\ Answer' = Answer
<1>1. /\ job' = [job EXCEPT !.pc = place]
      /\ UNCHANGED << busy, inFlight, queued, updaters, waiters, ready >>
  BY DEF Goes
<1> DEFINE P == [kind : {"patch"}, pc : Requested, id : Id, send : Body, val : Character]
           R == [kind : {"restore"}, pc : Requested, val : Character]
<1>2. job \in P \cup R
  BY DEF WorkOK, Busies, NoJob
<1>3. /\ job' \in P \cup R
      /\ job'.kind = job.kind /\ job'.pc = place /\ job'.val = job.val
      /\ job.kind = "patch" => job'.id = job.id /\ job'.send = job.send
  <2>1. CASE job \in P
    BY <1>1, <2>1
  <2>2. CASE job \in R
    BY <1>1, <2>2
  <2> QED
    BY <1>2, <2>1, <2>2
<1>4. job' \in Busies
  BY <1>3 DEF Busies
<1>5. WorkOK'
  BY <1>1, <1>4 DEF WorkOK
<1>6. Answer' = Answer
  BY <1>3 DEF Answer, Applied
<1> QED
  BY <1>1, <1>3, <1>5, <1>6

(* The run of patches, step by step. *)
LEMMA PatchReadsStays ==
  ASSUME IInv, PatchReads
  PROVE  IInv'
<1> USE DEF IInv
<1>0. job.kind = "patch" /\ Quiet
  BY DEF PatchReads
<1>1. /\ UNCHANGED << storage, screen, list, task, transition, shownBy, hands, acts >>
  BY DEF PatchReads
<1>2. StorageOK' /\ ScreenOK' /\ ListOK' /\ HandsOK' /\ acts' \in 0 .. MaxActs
  BY <1>1, Kept, ActsAreCounted
<1>3. TasksOK' /\ transition' \in Nat /\ shownBy' \in Nat
  BY <1>1 DEF SwitchOK, TasksOK
<1>4. CASE store[job.id] \in NoRecord
  <2>1. EndPatch
    BY <1>4 DEF PatchReads
  <2>2. WorkOK' /\ waiters' \in Seq(Slot) /\ ready' \in Seq(Slot)
    BY <2>1, EndPatchStays DEF SwitchOK
  <2>3. Linked'
    BY <1>1, <2>1 DEF Linked, EndPatch, NoJob, screen, hands
  <2> QED
    BY <1>2, <1>3, <2>2, <2>3 DEF SwitchOK
<1>5. CASE store[job.id] \notin NoRecord
  <2> DEFINE c == [id |-> job.id, f |-> store[job.id]]
  <2>1. c \in Character /\ c.id = job.id
    BY <1>0, <1>5, PatchJob DEF StorageOK, Character
  <2> HIDE DEF c
  <2>2. /\ job' = [kind |-> "patch", pc |-> "compute", id |-> job.id,
                    send |-> job.send, val |-> c]
        /\ UNCHANGED << busy, inFlight, queued, updaters, waiters, ready >>
    BY <1>5 DEF PatchReads, c
  <2>3. job' \in Busies
    BY <1>0, <2>1, <2>2, PatchJob DEF Busies, Requested
  <2>4. WorkOK' /\ SwitchOK'
    BY <1>3, <2>2, <2>3 DEF WorkOK, SwitchOK
  <2>5. Linked'
    BY <1>0, <1>1, <1>5, <2>1, <2>2 DEF Linked, NoJob, NoRecord, Quiet, storage, screen, hands
  <2> QED
    BY <1>2, <2>4, <2>5
<1> QED
  BY <1>4, <1>5

(* The end of a run of patches or of a restore. *)
LEMMA EndRestoreStays ==
  ASSUME WorkOK, EndRestore
  PROVE  WorkOK'
<1>1. job' \in Busies
  BY DEF EndRestore, Busies
<1> QED
  BY <1>1 DEF EndRestore, WorkOK

LEMMA EndsStays ==
  ASSUME WorkOK, waiters \in Seq(Slot), ready \in Seq(Slot), Ends
  PROVE  /\ WorkOK' /\ waiters' \in Seq(Slot) /\ ready' \in Seq(Slot)
         /\ busy' = FALSE /\ job' = NoJob
<1>1. CASE EndPatch
  BY <1>1, EndPatchStays DEF EndPatch
<1>2. CASE EndRestore
  BY <1>2, EndRestoreStays DEF EndRestore
<1> QED
  BY <1>1, <1>2 DEF Ends

(* A request, step by step: only one that is written touches the store.     *)
LEMMA RequestStays ==
  ASSUME IInv, RequestStep
  PROVE  IInv'
<1> USE DEF IInv
<1>1. /\ ready = << >> /\ job.kind \in {"patch", "restore"}
      /\ job.pc \in Requested \ {"show"}
      /\ UNCHANGED << last, screen, list, task, transition, shownBy, hands, acts >>
      /\ \/ Ends /\ UNCHANGED store
         \/ \E place \in Requested \ {"show"} : Goes(place) /\ UNCHANGED store
         \/ Goes("show") /\ Put(Answer)
  BY RequestMoves
<1>2. ScreenOK' /\ ListOK' /\ HandsOK' /\ acts' \in 0 .. MaxActs
  BY <1>1, Kept, ActsAreCounted
<1>3. TasksOK' /\ transition' \in Nat /\ shownBy' \in Nat
  BY <1>1 DEF SwitchOK, TasksOK
<1>4. job.pc # "read"
  BY <1>1 DEF Requested
<1>5. UNCHANGED << ch, lastCommitted, typing, slow >>
  BY <1>1 DEF screen, hands
<1>6. CASE Ends /\ UNCHANGED store
  <2>1. /\ WorkOK' /\ waiters' \in Seq(Slot) /\ ready' \in Seq(Slot)
        /\ busy' = FALSE /\ job' = NoJob
    BY <1>6, EndsStays DEF SwitchOK
  <2>2. StorageOK'
    BY <1>1, <1>6, Kept DEF storage
  <2>3. Linked'
    BY <1>5, <2>1 DEF Linked, NoJob
  <2> QED
    BY <1>2, <1>3, <2>1, <2>2, <2>3 DEF SwitchOK
<1>7. CASE \E place \in Requested : Goes(place) /\ (UNCHANGED store \/ Put(Answer))
  <2>1. PICK place \in Requested : Goes(place) /\ (UNCHANGED store \/ Put(Answer))
    BY <1>7
  <2>2. /\ WorkOK' /\ UNCHANGED << busy, inFlight, queued, updaters, waiters, ready >>
        /\ job'.kind = job.kind /\ job'.pc = place /\ job'.val = job.val
        /\ job.kind = "patch" => job'.id = job.id /\ job'.send = job.send
    BY <1>1, <1>4, <2>1, GoesOn
  <2>3. /\ store' \in [Id -> Content \cup NoRecord]
        /\ \A i \in Id : store[i] # Deleted => store'[i] # Deleted
    <3>1. Answer \in Character
      BY <1>1, <1>4, AnswerIsCharacter
    <3> QED
      BY <2>1, <3>1, PutStays DEF StorageOK
  <2>4. StorageOK'
    BY <1>1, <2>3 DEF StorageOK
  <2>5. SwitchOK'
    BY <1>3, <2>2 DEF SwitchOK
  <2>6. Linked'
    <3>1. job.kind = "patch" => job'.val.id = job'.id /\ store'[job'.id] # Deleted
      BY <1>4, <2>2, <2>3, PatchJob DEF Linked
    <3>2. ch # None
      BY <1>1 DEF Linked, NoJob
    <3> QED
      BY <1>1, <1>5, <2>2, <3>1, <3>2 DEF Linked
  <2> QED
    BY <1>2, <2>2, <2>4, <2>5, <2>6
<1>8. "show" \in Requested
  BY DEF Requested
<1> QED
  BY <1>1, <1>6, <1>7, <1>8

LEMMA PatchShownStays ==
  ASSUME IInv, PatchShown
  PROVE  IInv'
<1> USE DEF IInv
<1> DEFINE next == Answer
           body == NextBody(next)
<1>1. job.kind = "patch" /\ job.pc = "show" /\ Quiet
  BY DEF PatchShown, At
<1>2. next \in Character
  BY <1>1, AnswerIsCharacter
<1>3. lastCommitted \in Character
  BY <1>1 DEF Linked, ScreenOK, NoJob
<1>4. body \in Body \cup {None}
  <2>1. queued \in Body \cup {None} /\ updaters \in Seq(Updater)
    BY DEF WorkOK
  <2>2. updaters # << >> => Head(updaters) \in Updater
    BY <2>1
  <2> QED
    BY <1>2, <2>1, <2>2, PendingIsBody DEF NextBody
<1>5. /\ hist' = Record(hist, lastCommitted)
      /\ ch' = next /\ lastCommitted' = next
      /\ UNCHANGED << storage, list, task, transition, shownBy, hands, acts >>
  BY DEF PatchShown
<1>6. /\ body # None => /\ StartPatch(job.id, body)
                        /\ updaters' = IF queued # None THEN updaters ELSE Tail(updaters)
                        /\ UNCHANGED << waiters, ready >>
      /\ body = None => EndPatch
  BY DEF PatchShown
<1>7. body # None /\ queued = None => updaters # << >>
  BY DEF NextBody
<1> HIDE DEF next, body
<1>8. StorageOK'
  BY <1>5, Kept
<1>9. ScreenOK'
  BY <1>2, <1>3, <1>5, RecordStays DEF ScreenOK
<1>10. ListOK' /\ HandsOK' /\ acts' \in 0 .. MaxActs
  BY <1>5, Kept, ActsAreCounted
<1>11. TasksOK' /\ transition' \in Nat /\ shownBy' \in Nat
  BY <1>5 DEF SwitchOK, TasksOK
<1>12. ch' # None /\ lastCommitted' # None
  BY <1>2, <1>5, EditorAssumption
<1>13. CASE body # None
  <2>1. job' = [kind |-> "patch", pc |-> "read", id |-> job.id, send |-> body]
    BY <1>6, <1>13 DEF StartPatch
  <2>2. job' \in Busies
    BY <1>1, <1>4, <1>13, <2>1, PatchJob DEF Busies
  <2>3. updaters' \in Seq(Updater)
    BY <1>6, <1>7, <1>13 DEF WorkOK
  <2>4. busy' = TRUE /\ inFlight' = body /\ queued' = None /\ UNCHANGED << waiters, ready >>
    BY <1>6, <1>13 DEF StartPatch
  <2>5. WorkOK' /\ SwitchOK'
    BY <1>4, <1>11, <2>2, <2>3, <2>4 DEF WorkOK, SwitchOK
  <2>6. Linked'
    BY <1>1, <1>12, <2>1, <2>4 DEF Linked, Quiet
  <2> QED
    BY <1>8, <1>9, <1>10, <2>5, <2>6
<1>14. CASE body = None
  <2>1. EndPatch
    BY <1>6, <1>14
  <2>2. WorkOK' /\ waiters' \in Seq(Slot) /\ ready' \in Seq(Slot)
    BY <2>1, EndPatchStays DEF SwitchOK
  <2>3. Linked'
    BY <1>12, <2>1 DEF Linked, EndPatch, NoJob
  <2> QED
    BY <1>8, <1>9, <1>10, <1>11, <2>2, <2>3 DEF SwitchOK
<1> QED
  BY <1>13, <1>14

-----------------------------------------------------------------------------
(* Undo, redo and the restore they start.                                   *)
(* The snapshot is shown. *)
LEMMA RestoreShownStays ==
  ASSUME IInv, RestoreShown
  PROVE  IInv'
<1> USE DEF IInv
<1>1. /\ EndRestore
      /\ UNCHANGED << storage, hist, list, task, transition, shownBy, hands, acts >>
      /\ job.kind = "restore" /\ job.pc = "show"
      /\ ch' = Answer /\ lastCommitted' = Answer
  BY DEF RestoreShown, At
<1>2. Answer \in Character
  BY <1>1, AnswerIsCharacter
<1>3. ScreenOK'
  BY <1>1, <1>2 DEF ScreenOK
<1>4. StorageOK' /\ ListOK' /\ HandsOK' /\ WorkOK' /\ acts' \in 0 .. MaxActs
  BY <1>1, Kept, EndRestoreStays, ActsAreCounted
<1>5. SwitchOK'
  BY <1>1, Kept DEF EndRestore, switching
<1>6. Linked'
  BY <1>1, <1>2, EditorAssumption DEF Linked, EndRestore, NoJob, hands
<1> QED
  BY <1>3, <1>4, <1>5, <1>6

(* A restore starts from the top of a stack, which is a character.          *)
LEMMA UndoStays ==
  ASSUME IInv, Undo \/ Redo
  PROVE  IInv'
<1> USE DEF IInv
<1>1. \/ /\ CanStepBack(hist) /\ hist' = StepBack(hist, lastCommitted)
         /\ StartRestore(Top(hist.undo))
      \/ /\ CanStepForward(hist) /\ hist' = StepForward(hist, lastCommitted)
         /\ StartRestore(Top(hist.redo))
  BY DEF Undo, Redo
<1>2. /\ Acts("undo") /\ ~busy
      /\ UNCHANGED << storage, ch, lastCommitted, list, switching, hands >>
  BY DEF Undo, Redo
<1>3. acts' \in 0 .. MaxActs /\ ready = << >> /\ ch # None
  BY <1>2, ActsAreCounted
<1>4. lastCommitted \in Character /\ hist \in Stacks(Character)
  BY <1>3 DEF Linked, ScreenOK
<1>5. PICK c \in Character : StartRestore(c) /\ hist' \in Stacks(Character)
  BY <1>1, <1>4, StepStays
<1>6. job' = [kind |-> "restore", pc |-> "compute", val |-> c]
  BY <1>5 DEF StartRestore
<1>7. job' \in Busies
  BY <1>6 DEF Busies, Requested
<1>8. WorkOK'
  BY <1>5, <1>7 DEF StartRestore, WorkOK
<1>9. ScreenOK'
  BY <1>2, <1>5 DEF ScreenOK
<1>10. Linked'
  BY <1>2, <1>3, <1>5, <1>6 DEF Linked, StartRestore, switching, storage, hands
<1> QED
  BY <1>2, <1>3, <1>8, <1>9, <1>10, Kept

-----------------------------------------------------------------------------
(* Character switches.                                                      *)

(* A switch that is under way, and the same one a step further.             *)
LEMMA UnderWay ==
  ASSUME TasksOK, NEW s \in Slot, task[s].op # "none" \/ task[s].pc # "none"
  PROVE  task[s] \in Going /\ Fit(task[s]) /\ task[s] # NoTask
<1>1. task[s] # NoTask
  BY DEF NoTask
<1> QED
  BY <1>1 DEF TasksOK, FitTask

(* A task goes on to a place where it holds no character. *)
LEMMA Advances ==
  ASSUME NEW t \in Going, Fit(t),
         NEW pc \in {"confirm", "removing", "wait", "read", "ask", "remember"},
         pc = "read" => t.target # None,
         pc = "ask" => t.target = None,
         pc # "remember"
  PROVE  [t EXCEPT !.pc = pc] \in FitTask
<1> DEFINE u == [t EXCEPT !.pc = pc]
<1>1. u \in Going
  BY DEF Going
<1>2. /\ u.op = t.op /\ u.of = t.of /\ u.target = t.target /\ u.pc = pc /\ u.val = t.val
  BY DEF Going
<1> HIDE DEF u
<1>3. Fit(u)
  BY <1>2 DEF Fit
<1> QED
  BY <1>1, <1>3 DEF FitTask, u

(* A task goes on with the character it read or made. *)
LEMMA Holds ==
  ASSUME NEW t \in Going, Fit(t), NEW c \in Character, NEW pc \in {"ask", "remember"}
  PROVE  [t EXCEPT !.pc = pc, !.val = c] \in FitTask
<1> DEFINE u == [t EXCEPT !.pc = pc, !.val = c]
<1>1. u \in Going
  BY DEF Going
<1>2. /\ u.op = t.op /\ u.of = t.of /\ u.target = t.target /\ u.pc = pc /\ u.val = c
  BY DEF Going
<1>3. c # None
  BY EditorAssumption
<1> HIDE DEF u
<1>4. Fit(u)
  BY <1>2, <1>3 DEF Fit
<1> QED
  BY <1>1, <1>4 DEF FitTask, u

(* The same task, while its custom data is uploaded and asked for again.    *)
LEMMA Uploads ==
  ASSUME NEW t \in Going, Fit(t), t.pc \in {"ask", "upload"}, NEW pc \in {"upload", "retry"}
  PROVE  [t EXCEPT !.pc = pc] \in FitTask
<1> DEFINE u == [t EXCEPT !.pc = pc]
<1>1. u \in Going
  BY DEF Going
<1>2. /\ u.op = t.op /\ u.of = t.of /\ u.target = t.target /\ u.pc = pc /\ u.val = t.val
  BY DEF Going
<1> HIDE DEF u
<1>3. Fit(u)
  BY <1>2 DEF Fit
<1> QED
  BY <1>1, <1>3 DEF FitTask, u

(* A switch in flight, step by step. *)
LEMMA RemovedStays ==
  ASSUME IInv, NEW s \in Slot, Removed(s)
  PROVE  IInv'
<1> USE DEF IInv
<1>1. UNCHANGED << storage, screen, list, work, ready, shownBy, hands, acts >>
  BY DEF Removed
<1>2. task[s] \in Going /\ Fit(task[s]) /\ task[s].op = "delete"
  BY UnderWay DEF Removed, SwitchOK
<1>3. \/ \E i \in task[s].others : Ask(s, [task[s] EXCEPT !.target = i])
      \/ Ask(s, task[s])
  BY DEF Removed
<1>4. \A i \in task[s].others : /\ [task[s] EXCEPT !.target = i] \in Going
                                /\ [task[s] EXCEPT !.target = i].op = "delete"
                                /\ [task[s] EXCEPT !.target = i].of = task[s].of
  BY <1>2 DEF Going
<1>5. task[s].of # None
  BY <1>2 DEF Fit
<1>6. PICK t \in Going : Ask(s, t) /\ t.op = "delete" /\ t.of # None
  BY <1>2, <1>3, <1>4, <1>5
<1>7. SwitchOK'
  BY <1>1, <1>6, AskStays
<1>8. Linked'
  BY <1>1 DEF Linked, storage, screen, work, hands
<1> QED
  BY <1>1, <1>7, <1>8, Kept, ActsAreCounted

LEMMA SwitchReadsStays ==
  ASSUME IInv, NEW s \in Slot, SwitchReads(s)
  PROVE  IInv'
<1> USE DEF IInv
<1>1. UNCHANGED << storage, screen, roster, work, waiters, ready, transition,
                   shownBy, hands, acts >>
  BY DEF SwitchReads
<1>2. task[s] \in Going /\ Fit(task[s]) /\ task[s].pc = "read"
  BY UnderWay DEF SwitchReads, SwitchOK
<1>3. TasksOK' /\ listing' \in BOOLEAN
  <2>1. CASE store[task[s].target] \in NoRecord
    BY <2>1, DoneStays DEF SwitchReads, SwitchOK, ListOK
  <2>2. CASE store[task[s].target] \notin NoRecord
    <3> DEFINE c == [id |-> task[s].target, f |-> store[task[s].target]]
               t == [task[s] EXCEPT !.pc = "ask", !.val = c]
    <3>1. task[s].target \in Id
      BY <1>2 DEF Fit, Going
    <3>2. c \in Character
      BY <2>2, <3>1 DEF Character, StorageOK
    <3>3. t \in FitTask
      BY <1>2, <3>2, Holds
    <3>4. task' = [task EXCEPT ![s].pc = "ask", ![s].val = c] /\ UNCHANGED listing
      BY <2>2 DEF SwitchReads
    <3>5. task' = [task EXCEPT ![s] = t]
      BY <3>4 DEF SwitchOK, TasksOK
    <3> HIDE DEF t
    <3> QED
      BY <3>3, <3>4, <3>5, TaskMoves DEF SwitchOK, ListOK
  <2> QED
    BY <2>1, <2>2
<1>4. SwitchOK' /\ ListOK'
  BY <1>1, <1>3 DEF SwitchOK, ListOK
<1>5. Linked'
  BY <1>1 DEF Linked, storage, screen, work, hands
<1> QED
  BY <1>1, <1>4, <1>5, Kept, ActsAreCounted

LEMMA SwitchFailsStays ==
  ASSUME IInv, NEW s \in Slot, SwitchFails(s)
  PROVE  IInv'
<1> USE DEF IInv
<1>1. /\ Done(s)
      /\ UNCHANGED << storage, screen, roster, work, waiters, ready, transition,
                      shownBy, hands, acts >>
  BY DEF SwitchFails
<1>2. SwitchOK' /\ ListOK'
  BY <1>1, DoneStays DEF SwitchOK, ListOK
<1>3. Linked'
  BY <1>1 DEF Linked, storage, screen, work, hands
<1> QED
  BY <1>1, <1>2, <1>3, Kept, ActsAreCounted

LEMMA SwitchUploadsStays ==
  ASSUME IInv, NEW s \in Slot, SwitchForgotten(s) \/ SwitchUploaded(s)
  PROVE  IInv'
<1> USE DEF IInv
<1>1. UNCHANGED << storage, screen, list, work, waiters, ready, transition, shownBy, hands, acts >>
  BY DEF SwitchForgotten, SwitchUploaded
<1>2. task[s] \in Going /\ Fit(task[s]) /\ task[s].pc \in {"ask", "upload"}
  BY UnderWay DEF SwitchForgotten, SwitchUploaded, SwitchOK
<1>3. PICK pc \in {"upload", "retry"} : task' = [task EXCEPT ![s].pc = pc]
  BY DEF SwitchForgotten, SwitchUploaded
<1> DEFINE t == [task[s] EXCEPT !.pc = pc]
<1>4. task' = [task EXCEPT ![s] = t]
  BY <1>3
<1>5. t \in FitTask
  BY <1>2, Uploads
<1> HIDE DEF t
<1>6. SwitchOK'
  BY <1>1, <1>4, <1>5, TaskMoves DEF SwitchOK
<1>7. Linked'
  BY <1>1 DEF Linked, storage, screen, work, hands
<1> QED
  BY <1>1, <1>6, <1>7, Kept, ActsAreCounted

(* What a switch is answered is a character. *)
LEMMA AnswersAreCharacters ==
  ASSUME NEW t \in Going, Fit(t), t.pc \in {"ask", "retry"}
  PROVE  Answers(t) \subseteq Character
<1>1. CASE Opens(t)
  BY <1>1 DEF Answers, Opens, Fit, Going
<1>2. CASE ~Opens(t)
  <2>1. \A i \in FreshId : NewCharacter(i) \in Character
    BY EditorAssumption DEF FreshId, NewCharacter, Character, Content
  <2>2. t.op = "dup" => \A i \in FreshId : [t.of EXCEPT !.id = i] \in Character
    BY DEF Fit, Going, FreshId, Character
  <2> QED
    BY <1>2, <2>1, <2>2 DEF Answers
<1> QED
  BY <1>1, <1>2

LEMMA SwitchAnsweredStays ==
  ASSUME IInv, NEW s \in Slot, SwitchAnswered(s)
  PROVE  IInv'
<1> USE DEF IInv
<1>1. /\ UNCHANGED << roster, work, ready, transition, hands, acts >>
      /\ Quiet
  BY DEF SwitchAnswered
<1>2. /\ task[s] \in Going /\ Fit(task[s]) /\ task[s] # NoTask
      /\ task[s].pc \in {"ask", "retry"}
  BY UnderWay DEF SwitchAnswered, SwitchOK
<1>3. PICK c \in Answers(task[s]) :
        /\ Put(c)
        /\ IF Superseded(task[s])
           THEN Done(s) /\ UNCHANGED << last, screen, waiters, shownBy >>
           ELSE Remember(s, c)
  BY DEF SwitchAnswered
<1>4. c \in Character
  BY <1>2, AnswersAreCharacters
<1>5. /\ store' \in [Id -> Content \cup NoRecord]
      /\ \A i \in Id : store[i] # Deleted => store'[i] # Deleted
  BY <1>3, <1>4, PutStays DEF StorageOK
<1>6. job.kind = "patch" => job.id \in Id
  BY PatchJob
<1>7. CASE Superseded(task[s])
  <2>1. Done(s) /\ UNCHANGED << last, screen, waiters, shownBy >>
    BY <1>3, <1>7
  <2>2. SwitchOK' /\ ListOK'
    BY <1>1, <2>1, DoneStays DEF SwitchOK, ListOK
  <2>3. StorageOK' /\ ScreenOK'
    BY <1>5, <2>1, Kept DEF StorageOK
  <2>4. Linked'
    BY <1>1, <1>5, <1>6, <2>1 DEF Linked, screen, work, hands
  <2> QED
    BY <1>1, <2>2, <2>3, <2>4, Kept, ActsAreCounted
<1>8. CASE ~Superseded(task[s]) /\ busy
  <2> DEFINE t == [task[s] EXCEPT !.pc = "remember", !.val = c]
  <2>1. /\ task' = [task EXCEPT ![s].pc = "remember", ![s].val = c]
        /\ waiters' = Append(waiters, s)
        /\ UNCHANGED << last, screen, listing, shownBy >>
    BY <1>3, <1>8 DEF Remember
  <2>2. task' = [task EXCEPT ![s] = t]
    BY <2>1 DEF SwitchOK, TasksOK
  <2>3. t \in FitTask
    BY <1>2, <1>4, Holds
  <2> HIDE DEF t
  <2>4. TasksOK'
    BY <2>2, <2>3, TaskMoves DEF SwitchOK
  <2>5. waiters' \in Seq(Slot)
    BY <2>1 DEF SwitchOK
  <2>6. SwitchOK' /\ ListOK' /\ StorageOK' /\ ScreenOK'
    BY <1>1, <1>5, <2>1, <2>4, <2>5, Kept DEF SwitchOK, ListOK, StorageOK
  <2>7. Linked'
    BY <1>1, <1>5, <1>6, <2>1 DEF Linked, screen, work, hands
  <2> QED
    BY <1>1, <2>6, <2>7, Kept, ActsAreCounted
<1>9. CASE ~Superseded(task[s]) /\ ~busy
  <2>1. Show(s, c) /\ UNCHANGED waiters
    BY <1>3, <1>9 DEF Remember
  <2>2. /\ ScreenOK' /\ ch' = c /\ lastCommitted' = c
        /\ TasksOK' /\ listing' \in BOOLEAN /\ shownBy' \in Nat
        /\ last' \in Id \cup {None}
    BY <1>2, <1>4, <2>1, ShowStays DEF SwitchOK, StorageOK
  <2>3. SwitchOK' /\ ListOK' /\ StorageOK'
    BY <1>1, <1>5, <2>1, <2>2 DEF SwitchOK, ListOK, StorageOK
  <2>4. c # None
    BY <1>4, EditorAssumption
  <2>5. Linked'
    BY <1>1, <1>9, <2>2, <2>4 DEF Linked, work
  <2> QED
    BY <1>1, <2>2, <2>3, <2>5, Kept, ActsAreCounted
<1> QED
  BY <1>7, <1>8, <1>9

(* A waiter that is let go runs in an idle editor. *)
LEMMA ResumeStays ==
  ASSUME IInv, Resume
  PROVE  IInv'
<1> USE DEF IInv
<1> DEFINE s == Head(ready)
<1>1. /\ ready # << >> /\ ready' = Tail(ready)
      /\ UNCHANGED << roster, work, waiters, transition, hands, acts >>
  BY DEF Resume
<1>2. s \in Slot /\ ready' \in Seq(Slot)
  BY <1>1 DEF SwitchOK
<1>3. ~busy /\ job.kind # "patch"
  BY <1>1 DEF Linked
<1>4. \/ /\ task[s].pc = "wait"
         /\ task' = [task EXCEPT ![s].pc = IF Opens(task[s]) THEN "read" ELSE "ask"]
         /\ UNCHANGED << storage, screen, listing, shownBy >>
      \/ /\ task[s].pc = "confirm" /\ task[s].op = "dup"
         /\ task' = [task EXCEPT ![s].pc = "ask"]
         /\ UNCHANGED << storage, screen, listing, shownBy >>
      \/ /\ task[s].pc = "confirm" /\ task[s].op = "delete"
         /\ Remove(s, task[s])
         /\ UNCHANGED << last, screen, listing, shownBy >>
      \/ /\ task[s].pc = "remember"
         /\ Show(s, task[s].val)
         /\ UNCHANGED store
  BY DEF Resume
<1> HIDE DEF s
<1>5. task[s] \in Going /\ Fit(task[s]) /\ task[s] # NoTask
  BY <1>2, <1>4, UnderWay DEF SwitchOK
<1>6. CASE task[s].pc = "remember" /\ Show(s, task[s].val) /\ UNCHANGED store
  <2> DEFINE c == task[s].val
  <2>1. c \in Character /\ c # None
    BY <1>5, <1>6 DEF Fit, Going
  <2> HIDE DEF c
  <2>2. /\ ScreenOK' /\ ch' = c /\ lastCommitted' = c
        /\ TasksOK' /\ listing' \in BOOLEAN /\ shownBy' \in Nat
        /\ last' \in Id \cup {None}
    BY <1>2, <1>5, <1>6, <2>1, ShowStays DEF SwitchOK, StorageOK, c
  <2>3. SwitchOK' /\ ListOK' /\ StorageOK'
    BY <1>1, <1>2, <1>6, <2>2 DEF SwitchOK, ListOK, StorageOK
  <2>4. Linked'
    BY <1>1, <1>3, <2>1, <2>2 DEF Linked, work
  <2> QED
    BY <1>1, <2>2, <2>3, <2>4, Kept, ActsAreCounted
<1>7. CASE /\ task[s].pc # "remember"
           /\ UNCHANGED << last, screen, listing, shownBy >>
           /\ \/ UNCHANGED store
              \/ task[s].of # None /\ store' = [store EXCEPT ![task[s].of.id] = Deleted]
           /\ \E pc \in {"removing", "read", "ask"} :
                /\ task' = [task EXCEPT ![s] = [task[s] EXCEPT !.pc = pc]]
                /\ pc = "read" => task[s].target # None
                /\ pc = "ask" => task[s].target = None
  <2>1. PICK pc \in {"removing", "read", "ask"} :
          /\ task' = [task EXCEPT ![s] = [task[s] EXCEPT !.pc = pc]]
          /\ pc = "read" => task[s].target # None
          /\ pc = "ask" => task[s].target = None
    BY <1>7
  <2>2. TasksOK'
    BY <1>2, <1>5, <2>1, Advances, TaskMoves DEF SwitchOK
  <2>3. StorageOK'
    BY <1>5, <1>7 DEF StorageOK, NoRecord, Going, Character
  <2>4. SwitchOK' /\ ListOK' /\ ScreenOK'
    BY <1>1, <1>2, <1>7, <2>2, Kept DEF SwitchOK, ListOK
  <2>5. Linked'
    BY <1>1, <1>3, <1>7 DEF Linked, work, screen, hands
  <2> QED
    BY <1>1, <2>3, <2>4, <2>5, Kept, ActsAreCounted
<1>8. CASE task[s].pc = "wait"
  <2> DEFINE pc == IF Opens(task[s]) THEN "read" ELSE "ask"
  <2>1. /\ task' = [task EXCEPT ![s].pc = pc]
        /\ UNCHANGED << storage, screen, listing, shownBy >>
    BY <1>4, <1>8
  <2>2. pc \in {"removing", "read", "ask"}
        /\ (pc = "read" => task[s].target # None) /\ (pc = "ask" => task[s].target = None)
    BY DEF Opens
  <2> HIDE DEF pc
  <2>3. task' = [task EXCEPT ![s] = [task[s] EXCEPT !.pc = pc]]
    BY <2>1
  <2> QED
    BY <1>7, <1>8, <2>1, <2>2, <2>3 DEF storage
<1>9. CASE task[s].pc = "confirm"
  <2>1. CASE task[s].op = "dup"
    <3>1. /\ task' = [task EXCEPT ![s].pc = "ask"]
          /\ UNCHANGED << storage, screen, listing, shownBy >>
      BY <1>4, <1>9, <2>1
    <3>2. task' = [task EXCEPT ![s] = [task[s] EXCEPT !.pc = "ask"]]
      BY <3>1
    <3>3. task[s].target = None
      BY <1>5, <2>1 DEF Fit
    <3> QED
      BY <1>7, <1>9, <3>1, <3>2, <3>3 DEF storage
  <2>2. CASE task[s].op # "dup"
    <3>1. /\ task[s].op = "delete"
          /\ Remove(s, task[s])
          /\ UNCHANGED << last, screen, listing, shownBy >>
      BY <1>4, <1>9, <2>2
    <3>2. task[s].of # None
      BY <1>5, <3>1 DEF Fit
    <3> QED
      BY <1>7, <1>9, <3>1, <3>2 DEF Remove
  <2> QED
    BY <2>1, <2>2
<1> QED
  BY <1>4, <1>6, <1>8, <1>9

-----------------------------------------------------------------------------
(* What the user does.                                                      *)

(* Any control that calls patch: one on the screen, one that is left, one   *)
(* that waited for a file.                                                  *)
LEMMA ControlsStay ==
  ASSUME IInv, Quiet, ch # None, NEW c \in Character,
         \/ \E body \in Body : PatchBody(c, body)
         \/ \E u \in Updater : PatchUpdater(c, u),
         UNCHANGED << storage, screen, list, switching >>,
         HandsOK', acts' \in 0 .. MaxActs
  PROVE  IInv'
<1> USE DEF IInv
<1>1. TypeOK
  BY GroupsAreTypes
<1>2. lastCommitted \in Character
  BY DEF Linked, ScreenOK
<1>3. WorkOK'
  BY <1>1, <1>2, PatchBodyStays, PatchUpdaterStays
<1>4. Linked'
  BY PatchLinks DEF Quiet, storage, screen, switching
<1> QED
  BY <1>3, <1>4, Kept

(* The user, and the reader of files, that call patch. *)
LEMMA EditsStay ==
  ASSUME IInv, NEW l \in Leaf, NEW v \in Val,
         Edit(l, v) \/ EditLater(l, v) \/ FileRead(l, v)
  PROVE  IInv'
<1> USE DEF IInv
<1>1. CASE Edit(l, v)
  <2>1. ch \in Character /\ acts' \in 0 .. MaxActs /\ Quiet /\ ch # None
    BY <1>1, ActsAreCounted DEF Edit, ScreenOK, Quiet
  <2>2. PatchBody(ch, Compose(ch, l, v)) /\ Compose(ch, l, v) \in Body
    BY <1>1, <2>1, ComposeIsBody DEF Edit
  <2>3. UNCHANGED << storage, screen, list, switching, hands >>
    BY <1>1 DEF Edit
  <2> QED
    BY <2>1, <2>2, <2>3, ControlsStay, Kept
<1>2. CASE EditLater(l, v)
  <2> DEFINE u == [leaf |-> l, v |-> v, for |-> ch.id]
  <2>1. ch \in Character /\ acts' \in 0 .. MaxActs /\ Quiet /\ ch # None
    BY <1>2, ActsAreCounted DEF EditLater, ScreenOK, Quiet
  <2>2. u \in Updater /\ PatchUpdater(ch, u)
    BY <1>2, <2>1 DEF EditLater, Updater, Character
  <2>3. UNCHANGED << storage, screen, list, switching, hands >>
    BY <1>2 DEF EditLater
  <2> HIDE DEF u
  <2> QED
    BY <2>1, <2>2, <2>3, ControlsStay, Kept
<1>3. CASE FileRead(l, v)
  <2>1. slow \in Character /\ Quiet /\ ch # None
    BY <1>3 DEF FileRead, HandsOK, Linked
  <2>2. PatchBody(slow, Compose(slow, l, v)) /\ Compose(slow, l, v) \in Body
    BY <1>3, <2>1, ComposeIsBody DEF FileRead
  <2>3. slow' = None /\ UNCHANGED << storage, screen, list, switching, typing, acts >>
    BY <1>3 DEF FileRead
  <2>4. HandsOK' /\ acts' \in 0 .. MaxActs
    BY <2>3 DEF HandsOK
  <2> QED
    BY <2>1, <2>2, <2>3, <2>4, ControlsStay
<1> QED
  BY <1>1, <1>2, <1>3

(* A control that is left sends what it shows. *)
LEMMA CommitStays ==
  ASSUME IInv, Commit
  PROVE  IInv'
<1> USE DEF IInv
<1>1. ch \in Character /\ typing \in Leaf /\ Quiet /\ ch # None
  BY DEF Commit, HandsOK, ScreenOK, Linked
<1>2. ch.f[typing] \in Val
  BY <1>1 DEF Character, Content
<1>3. PatchBody(ch, Compose(ch, typing, ch.f[typing]))
      /\ Compose(ch, typing, ch.f[typing]) \in Body
  BY <1>1, <1>2, ComposeIsBody DEF Commit
<1>4. typing' = None /\ UNCHANGED << storage, screen, list, switching, slow, acts >>
  BY DEF Commit
<1>5. HandsOK' /\ acts' \in 0 .. MaxActs
  BY <1>4 DEF HandsOK
<1> QED
  BY <1>1, <1>3, <1>4, <1>5, ControlsStay

(* Typing changes the screen alone, picking a file keeps what was shown. *)
LEMMA HandsStay ==
  ASSUME IInv, PickFile \/ \E l \in Leaf, v \in Val : Draft(l, v)
  PROVE  IInv'
<1> USE DEF IInv
<1>1. CASE \E l \in Leaf, v \in Val : Draft(l, v)
  <2> PICK l \in Leaf, v \in Val : Draft(l, v)
    BY <1>1
  <2> DEFINE f == [ch.f EXCEPT ![l] = v]
  <2>1. ch \in Character /\ acts' \in 0 .. MaxActs /\ ch # None
    BY ActsAreCounted DEF Draft, ScreenOK
  <2>2. f \in Content
    BY <2>1 DEF Character, Content
  <2>3. ch' = [ch EXCEPT !.f = f] /\ typing' = l
        /\ UNCHANGED << storage, lastCommitted, hist, list, work, switching, slow >>
    BY DEF Draft
  <2> HIDE DEF f
  <2>4. ch' \in Character
    BY <2>1, <2>2, <2>3 DEF Character
  <2>5. ScreenOK' /\ HandsOK'
    BY <2>3, <2>4 DEF ScreenOK, HandsOK
  <2>6. Linked'
    BY <2>1, <2>3, <2>4, EditorAssumption DEF Linked, storage, work, switching
  <2> QED
    BY <2>1, <2>3, <2>5, <2>6, Kept
<1>2. CASE PickFile
  <2>1. ch \in Character /\ acts' \in 0 .. MaxActs /\ ch # None
    BY <1>2, ActsAreCounted DEF PickFile, ScreenOK
  <2>2. slow' = ch /\ UNCHANGED << storage, screen, list, work, switching, typing >>
    BY <1>2 DEF PickFile
  <2>3. HandsOK'
    BY <2>1, <2>2 DEF HandsOK
  <2>4. Linked'
    BY <2>1, <2>2 DEF Linked, storage, screen, work, switching
  <2> QED
    BY <2>1, <2>2, <2>3, <2>4, Kept
<1> QED
  BY <1>1, <1>2

(* A switch that is asked for has what it needs. *)
LEMMA AsksStay ==
  ASSUME IInv, NEW s \in Slot, NEW i \in Id,
         \/ OpenCharacter(s, i) \/ NewCharacterAsked(s) \/ DuplicateCurrent(s)
         \/ ImportFile(s) \/ DeleteCurrent(s)
  PROVE  IInv'
<1> USE DEF IInv
<1>1. acts' \in 0 .. MaxActs /\ ch \in Character /\ ch # None /\ ready = << >>
  BY ActsAreCounted
     DEF OpenCharacter, NewCharacterAsked, DuplicateCurrent, ImportFile, DeleteCurrent, ScreenOK
<1>2. CASE OpenCharacter(s, i) \/ NewCharacterAsked(s)
  <2>1. UNCHANGED << storage, screen, list, work, ready, shownBy, hands >>
    BY <1>2 DEF OpenCharacter, NewCharacterAsked
  <2>2. PICK op \in {"open", "new"}, j \in Id \cup {None} : Ask(s, Call(op, j))
    BY <1>2 DEF OpenCharacter, NewCharacterAsked
  <2>3. Call(op, j) \in Going /\ Call(op, j).op \notin {"dup", "delete"}
    BY CallIsGoing DEF Call
  <2>4. SwitchOK'
    BY <2>1, <2>2, <2>3, AskStays
  <2>5. Linked'
    BY <2>1 DEF Linked, storage, screen, work, hands
  <2> QED
    BY <1>1, <2>1, <2>4, <2>5, Kept
<1>3. CASE DuplicateCurrent(s) \/ ImportFile(s)
  <2>1. /\ UNCHANGED << storage, screen, list, work, ready, transition, shownBy, hands >>
        /\ waiters' = Append(waiters, s) \/ waiters' = waiters
    BY <1>3 DEF DuplicateCurrent, ImportFile
  <2>2. PICK t \in FitTask : task' = [task EXCEPT ![s] = t]
    <3>1. CASE DuplicateCurrent(s)
      <4> DEFINE t == [Call("dup", None) EXCEPT
                         !.of = ch, !.pc = IF busy THEN "confirm" ELSE "ask"]
      <4>1. task' = [task EXCEPT ![s] = t]
        BY <3>1 DEF DuplicateCurrent
      <4>2. t \in FitTask
        BY <1>1 DEF Call, FitTask, Going, Fit
      <4> HIDE DEF t
      <4> QED
        BY <4>1, <4>2
    <3>2. CASE ImportFile(s)
      <4> DEFINE t == [Call("import", None) EXCEPT !.pc = "ask"]
      <4>1. task' = [task EXCEPT ![s] = t]
        BY <3>2 DEF ImportFile
      <4>2. t \in FitTask
        BY DEF Call, FitTask, Going, Fit
      <4> HIDE DEF t
      <4> QED
        BY <4>1, <4>2
    <3> QED
      BY <1>3, <3>1, <3>2
  <2>4. waiters' \in Seq(Slot)
    BY <2>1 DEF SwitchOK
  <2>5. SwitchOK'
    BY <2>1, <2>2, <2>4, TaskMoves DEF SwitchOK
  <2>6. Linked'
    BY <2>1 DEF Linked, storage, screen, work, hands
  <2> QED
    BY <1>1, <2>1, <2>5, <2>6, Kept
<1>4. CASE DeleteCurrent(s)
  <2> DEFINE t == [Call("delete", None) EXCEPT
                     !.of = ch, !.others = roster \ {ch.id}, !.pc = "confirm"]
  <2>1. /\ UNCHANGED << last, screen, list, work, ready, transition, shownBy, hands >>
        /\ IF busy THEN /\ task' = [task EXCEPT ![s] = t]
                        /\ waiters' = Append(waiters, s) /\ UNCHANGED store
                   ELSE Remove(s, t) /\ UNCHANGED waiters
    BY <1>4 DEF DeleteCurrent
  <2>2. t \in Going /\ t.of = ch /\ t.op = "delete" /\ t.pc = "confirm"
    BY <1>1 DEF Call, Going, ListOK
  <2> HIDE DEF t
  <2>3. Fit(t)
    BY <1>1, <2>2 DEF Fit
  <2>4. t \in FitTask /\ [t EXCEPT !.pc = "removing"] \in FitTask
    BY <2>2, <2>3, Advances DEF FitTask
  <2>5. TasksOK'
    BY <2>1, <2>4, TaskMoves DEF SwitchOK, Remove
  <2>6. waiters' \in Seq(Slot)
    BY <2>1 DEF SwitchOK
  <2>7. StorageOK'
    BY <1>1, <2>1, <2>2 DEF StorageOK, Remove, NoRecord, Character
  <2>8. SwitchOK'
    BY <2>1, <2>5, <2>6 DEF SwitchOK
  <2>9. Linked'
    BY <2>1 DEF Linked, Remove, screen, work, hands
  <2> QED
    BY <1>1, <2>1, <2>7, <2>8, <2>9, Kept
<1> QED
  BY <1>2, <1>3, <1>4

(* A reload leaves what was written. *)
LEMMA ReloadStays ==
  ASSUME IInv, Reload
  PROVE  IInv'
<1> USE DEF IInv
<1>1. UNCHANGED storage /\ acts' \in 0 .. MaxActs
  BY ActsAreCounted DEF Reload
<1>2. ScreenOK'
  BY NoHistoryStays DEF Reload, ScreenOK
<1>3. ListOK' /\ HandsOK'
  BY DEF Reload, ListOK, HandsOK
<1>4. job' \in Busies
  BY DEF Reload, Busies
<1>5. WorkOK'
  <2>1. busy' = FALSE /\ inFlight' = None /\ queued' = None /\ updaters' = << >>
    BY DEF Reload
  <2>2. updaters' \in Seq(Updater)
    BY <2>1
  <2> QED
    BY <1>4, <2>1, <2>2 DEF WorkOK
<1>6. SwitchOK'
  <2>1. /\ waiters' = << >> /\ ready' = << >> /\ transition' = 0 /\ shownBy' = 0
        /\ task' = [s \in Slot |-> NoTask]
    BY DEF Reload
  <2>2. waiters' \in Seq(Slot) /\ ready' \in Seq(Slot)
    BY <2>1
  <2> QED
    BY <2>1, <2>2 DEF SwitchOK, TasksOK
<1>7. Linked'
  BY DEF Reload, Linked, NoJob
<1> QED
  BY <1>1, <1>2, <1>3, <1>5, <1>6, <1>7, Kept

(* The first character is the last one that was open, or a new one. *)
LEMMA BootShows ==
  ASSUME IInv, Boot
  PROVE  ch' \in Character /\ ch' # None /\ Put(ch') /\ listing' \in BOOLEAN
<1> USE DEF IInv
<1>1. ch' \in Character /\ Put(ch') /\ listing' \in BOOLEAN
  <2>1. CASE last \in StoredIds
    <3>1. ch' = [id |-> last, f |-> store[last]] /\ Put(ch') /\ UNCHANGED listing
      BY <2>1 DEF Boot
    <3>2. store[last] \in Content /\ last \in Id
      BY <2>1 DEF StoredIds, StorageOK
    <3> QED
      BY <3>1, <3>2 DEF Character, ListOK
  <2>2. CASE last \notin StoredIds
    <3>1. PICK i \in FreshId : ch' = NewCharacter(i) /\ Put(ch') /\ listing' = TRUE
      BY <2>2 DEF Boot
    <3>2. NewCharacter(i) \in Character
      BY EditorAssumption DEF FreshId, NewCharacter, Character, Content
    <3> QED
      BY <3>1, <3>2
  <2> QED
    BY <2>1, <2>2
<1> QED
  BY <1>1, EditorAssumption

(* The page is opened, or the list of characters is answered. *)
LEMMA StartStays ==
  ASSUME IInv, Boot \/ ListAnswered
  PROVE  IInv'
<1> USE DEF IInv
<1>1. StoredIds \subseteq Id
  BY DEF StoredIds
<1>2. CASE ListAnswered
  <2>1. /\ roster' = StoredIds /\ listing' = FALSE
        /\ UNCHANGED << storage, screen, work, switching, hands, acts >>
    BY <1>2 DEF ListAnswered
  <2>2. ListOK'
    BY <1>1, <2>1 DEF ListOK
  <2>3. Linked'
    BY <2>1 DEF Linked, storage, screen, work, switching, hands
  <2> QED
    BY <2>1, <2>2, <2>3, Kept, ActsAreCounted
<1>3. CASE Boot
  <2>1. /\ ch = None /\ roster' = StoredIds /\ lastCommitted' = ch' /\ hist' = NoHistory
        /\ last' = ch'.id
        /\ UNCHANGED << work, switching, hands, acts >>
    BY <1>3 DEF Boot
  <2>2. ch' \in Character /\ Put(ch') /\ listing' \in BOOLEAN
    BY <1>3, BootShows
  <2> DEFINE c == ch'
  <2>3. c \in Character /\ Put(c)
    BY <2>2
  <2>4. StorageOK'
    <3>1. store' \in [Id -> Content \cup NoRecord]
      BY <2>3, PutStays DEF StorageOK
    <3> QED
      BY <2>1, <2>2, <3>1 DEF StorageOK, Character
  <2>5. ScreenOK' /\ ListOK'
    BY <1>1, <2>1, <2>2, NoHistoryStays DEF ScreenOK, ListOK
  <2>6. ch' # None
    BY <1>3, BootShows
  <2>7. Linked'
    BY <2>1, <2>6 DEF Linked, work, switching, hands, NoJob
  <2> QED
    BY <2>1, <2>4, <2>5, <2>7, Kept, ActsAreCounted
<1> QED
  BY <1>2, <1>3

-----------------------------------------------------------------------------
(* Every step keeps the invariant. *)
LEMMA StepInv ==
  IInv /\ [Next]_vars => IInv'
<1> SUFFICES ASSUME IInv, [Next]_vars PROVE IInv'
  OBVIOUS
<1>1. CASE Resume
  BY <1>1, ResumeStays
<1>2. CASE UserActs
  <2>1. CASE \E l \in Leaf, v \in Val : Edit(l, v) \/ EditLater(l, v) \/ Draft(l, v)
    BY <2>1, EditsStay, HandsStay
  <2>2. CASE PickFile
    BY <2>2, HandsStay
  <2>3. CASE Undo \/ Redo
    BY <2>3, UndoStays
  <2>4. CASE \E s \in Slot : \/ \E i \in Id : OpenCharacter(s, i)
                             \/ NewCharacterAsked(s) \/ DuplicateCurrent(s)
                             \/ ImportFile(s) \/ DeleteCurrent(s)
    <3>1. ch \in Character
      BY <2>4, ActsAreCounted
         DEF IInv, ScreenOK, OpenCharacter, NewCharacterAsked, DuplicateCurrent, ImportFile,
             DeleteCurrent
    <3>2. ch.id \in Id
      BY <3>1 DEF Character
    <3> QED
      BY <2>4, <3>2, AsksStay
  <2>5. CASE Reload
    BY <2>5, ReloadStays
  <2> QED
    BY <1>2, <2>1, <2>2, <2>3, <2>4, <2>5 DEF UserActs
<1>3. CASE Commit
  BY <1>3, CommitStays
<1>4. CASE FileStep
  BY <1>4, EditsStay DEF FileStep
<1>5. CASE PatchReads
  BY <1>5, PatchReadsStays
<1>6. CASE RequestStep \/ Shown
  BY <1>6, RequestStays, PatchShownStays, RestoreShownStays DEF Shown
<1>7. CASE \E s \in Slot : SwitchStep(s)
  BY <1>7, RemovedStays, SwitchReadsStays, SwitchAnsweredStays, SwitchFailsStays,
     SwitchUploadsStays DEF SwitchStep
<1>8. CASE ListAnswered \/ Boot
  BY <1>8, StartStays
<1>9. CASE UNCHANGED vars
  <2>1. UNCHANGED << storage, screen, list, work, switching, hands, acts >>
    BY <1>9 DEF vars
  <2>2. Linked'
    BY <2>1 DEF IInv, Linked, storage, screen, work, switching, hands
  <2> QED
    BY <2>1, <2>2, Kept DEF IInv
<1> QED
  BY <1>1, <1>2, <1>3, <1>4, <1>5, <1>6, <1>7, <1>8, <1>9 DEF Next

(* The invariant always holds, without any fairness. *)
THEOREM Invariance ==
  Spec => []IInv
<1>1. Init => IInv
  BY InitInv
<1>2. IInv /\ [Next]_vars => IInv'
  BY StepInv
<1> QED
  BY <1>1, <1>2, PTL DEF Spec

(* Every variable keeps its type: among it, whatever comes back from the    *)
(* service, however late, undo only ever holds characters, and an updater   *)
(* that waited is composed from one.                                        *)
THEOREM TypesAreKept ==
  Spec => []TypeOK
BY Invariance, GroupsAreTypes, PTL

(* A patch that is written is shown by its own run alone. *)
LEMMA LandingIsShown ==
  ASSUME IInv, [Next]_vars, Landing
  PROVE  PatchShown
<1>1. job.kind = "patch" /\ job.pc = "show" /\ job' # job /\ ch' # None
  BY DEF Landing
<1>2. busy /\ ready = << >> /\ ch # None
  BY <1>1 DEF IInv, Linked, NoJob
<1>4. ~Resume
  BY <1>2 DEF Resume
<1>5. ~UserActs
  BY <1>1, <1>2 DEF UserActs, Edit, EditLater, PatchBody, PatchUpdater, Draft, PickFile, Undo, Redo,
     OpenCharacter, NewCharacterAsked, DuplicateCurrent, ImportFile, DeleteCurrent, Reload, work
<1>6. ~Commit /\ ~FileStep
  BY <1>1, <1>2 DEF Commit, FileStep, FileRead, PatchBody
<1>7. ~PatchReads
  BY <1>1 DEF PatchReads
<1>8. ~RequestStep /\ ~RestoreShown
  <2>1. ~RequestStep
    BY <1>1, RequestMoves DEF IInv
  <2> QED
    BY <1>1, <2>1 DEF RestoreShown
<1>9. ASSUME NEW s \in Slot PROVE ~SwitchStep(s)
  BY <1>1 DEF SwitchStep, Removed, SwitchReads, SwitchAnswered, SwitchFails, SwitchForgotten,
     SwitchUploaded, work
<1>10. ~ListAnswered /\ ~Boot /\ ~UNCHANGED vars
  BY <1>1, <1>2 DEF ListAnswered, Boot, vars, work
<1> QED
  BY <1>4, <1>5, <1>6, <1>7, <1>8, <1>9, <1>10 DEF Next, Shown

(* A patch is never written or shown for a deleted character, whichever     *)
(* switches, undos, reloads and failures come with it: its record was there *)
(* when it was read, and nothing is removed while the editor is busy.       *)
THEOREM PatchesLandOnTheLiving ==
  Spec => LandsOnTheLiving
<1>1. IInv /\ [Next]_vars => [Landing \/ Writing => store[job.id] # Deleted]_vars
  BY DEF Landing, Writing, IInv, Linked
<1> QED
  BY <1>1, Invariance, PTL DEF Spec, LandsOnTheLiving

-----------------------------------------------------------------------------
(* What is held.  Only a run of patches has something in flight or holds a  *)
(* body, so a restore neither sends nor drops one.                          *)
Holding == job.kind # "patch" => inFlight = None /\ queued = None

(* A body that is held is never lost to the next: it stays, or gives way to *)
(* one that is meant to do all that it was.                                 *)
LEMMA HeldCovers ==
  ASSUME WorkOK, NEW body \in Body, queued # None
  PROVE  /\ Held(body) # None
         /\ DOMAIN queued.means \subseteq DOMAIN Held(body).means
<1>1. queued \in Body /\ None \notin Body
  BY EditorAssumption DEF WorkOK
<1> DEFINE both == Spread(body.means, queued.means)
<1>2. DOMAIN queued.means \subseteq DOMAIN both
  BY DEF Spread
<1>3. both \in Setting
  BY <1>1, SpreadIsSetting DEF Body
<1>4. Merged(queued, body).means = both
  BY DEF Merged
<1>5. Merged(queued, body) \in Body
  BY <1>1, MergedIsBody
<1> HIDE DEF both
<1> DEFINE covering == [body EXCEPT !.means = both]
<1>6. covering \in Body /\ covering.means = both
  BY <1>3 DEF Body
<1> HIDE DEF covering
<1>7. Held(body) \in {covering, Merged(queued, body), queued}
  BY DEF Held, covering, both
<1> QED
  BY <1>1, <1>2, <1>4, <1>5, <1>6, <1>7

(* What a call of patch does with what is held: a patch that starts has     *)
(* nothing behind it, and in a busy editor the job goes on.                 *)
LEMMA PatchHolds ==
  ASSUME WorkOK, Linked, Holding, NEW c, NEW u,
         \/ \E body \in Body : PatchBody(c, body)
         \/ PatchUpdater(c, u)
  PROVE  /\ Holding'
         /\ queued # None => queued' # None /\ DOMAIN queued.means \subseteq DOMAIN queued'.means
<1>1. CASE ~busy
  <2>1. job'.kind = "patch"
    BY <1>1 DEF PatchBody, PatchUpdater, StartPatch
  <2>2. queued = None
    BY <1>1 DEF Linked, Holding
  <2> QED
    BY <2>1, <2>2 DEF Holding
<1>2. CASE busy /\ PatchUpdater(c, u)
  BY <1>2 DEF PatchUpdater, Holding
<1>3. CASE busy /\ \E body \in Body : PatchBody(c, body)
  <2> PICK body \in Body : PatchBody(c, body)
    BY <1>3
  <2>1. queued' = Held(body) /\ UNCHANGED << job, inFlight >>
    BY <1>3 DEF PatchBody
  <2>2. inFlight = None /\ queued = None => Held(body) = None
    BY DEF Held
  <2> QED
    BY <2>1, <2>2, HeldCovers DEF Holding
<1> QED
  BY <1>1, <1>2, <1>3

(* Every step keeps what is held, until its run goes on or ends. *)
LEMMA HoldingStep ==
  ASSUME IInv, Holding, [Next]_vars
  PROVE  /\ Holding'
         /\ queued # None /\ busy' /\ ~Landing
              => queued' # None /\ DOMAIN queued.means \subseteq DOMAIN queued'.means
<1> USE DEF IInv
<1> DEFINE Same == UNCHANGED << job, inFlight, queued >>
<1>1. CASE Same
  BY <1>1 DEF Holding
<1>2. CASE PatchReads \/ PatchShown
  <2>1. job.kind = "patch"
    BY <1>2 DEF PatchReads, PatchShown
  <2>2. CASE EndPatch
    BY <2>2 DEF EndPatch, NoJob, Holding
  <2>3. CASE PatchReads /\ ~EndPatch
    <3>1. job'.kind = "patch" /\ UNCHANGED queued
      BY <2>3 DEF PatchReads
    <3> QED
      BY <3>1 DEF Holding
  <2>4. CASE PatchShown /\ ~EndPatch
    <3>1. /\ job.pc = "show" /\ ch' = Answer
          /\ job'.kind = "patch" /\ job'.pc = "read"
      BY <2>4 DEF PatchShown, At, StartPatch
    <3>2. ch' # None
      BY <2>1, <3>1, AnswerIsCharacter, EditorAssumption
    <3> QED
      BY <2>1, <3>1, <3>2 DEF Holding, Landing
  <2> QED
    BY <1>2, <2>2, <2>3, <2>4
<1>8. CASE RequestStep
  <2>1. Ends \/ \E place \in Requested : Goes(place)
    BY <1>8, RequestMoves DEF Requested
  <2>2. job.kind \in {"patch", "restore"} /\ job.pc # "read"
    BY <1>8, RequestMoves DEF Requested
  <2>3. CASE \E place \in Requested : Goes(place)
    <3>1. UNCHANGED << inFlight, queued >> /\ job'.kind = job.kind
      BY <2>2, <2>3, GoesOn
    <3> QED
      BY <3>1 DEF Holding
  <2>4. CASE Ends
    BY <2>2, <2>4 DEF Ends, EndPatch, EndRestore, NoJob, Holding
  <2> QED
    BY <2>1, <2>3, <2>4
<1>3. CASE \/ Commit \/ FileStep
           \/ \E l \in Leaf, v \in Val : Edit(l, v) \/ EditLater(l, v)
  <2>1. ch # None
    BY <1>3 DEF Commit, FileStep, FileRead, Edit, EditLater, Acts, Linked
  <2>2. ch \in Character
    BY <2>1 DEF ScreenOK
  <2>3. \E c, u : (\E body \in Body : PatchBody(c, body)) \/ PatchUpdater(c, u)
    <3>1. CASE FileStep
      BY <3>1, ComposeIsBody DEF FileStep, FileRead, HandsOK
    <3>2. CASE Commit
      <4>1. typing \in Leaf /\ PatchBody(ch, Compose(ch, typing, ch.f[typing]))
        BY <3>2 DEF Commit, HandsOK
      <4>2. ch.f[typing] \in Val
        BY <2>2, <4>1 DEF Character, Content
      <4> QED
        BY <2>2, <4>1, <4>2, ComposeIsBody
    <3>3. CASE \E l \in Leaf, v \in Val : Edit(l, v) \/ EditLater(l, v)
      BY <2>2, <3>3, ComposeIsBody DEF Edit, EditLater
    <3> QED
      BY <1>3, <3>1, <3>2, <3>3
  <2> QED
    BY <2>3, PatchHolds
<1>4. CASE Undo \/ Redo
  <2>1. ~busy /\ UNCHANGED << inFlight, queued >>
    BY <1>4 DEF Undo, Redo, StartRestore
  <2> QED
    BY <2>1 DEF Linked, Holding
<1>5. CASE RestoreShown
  <2>1. job.kind = "restore" /\ UNCHANGED << inFlight, queued >>
    BY <1>5 DEF RestoreShown, EndRestore
  <2> QED
    BY <2>1 DEF Holding
<1>6. CASE Reload
  BY <1>6 DEF Reload, Holding
<1>7. CASE \/ Resume \/ PickFile \/ ListAnswered \/ Boot \/ UNCHANGED vars
           \/ \E l \in Leaf, v \in Val : Draft(l, v)
           \/ \E s \in Slot : \/ SwitchStep(s)
                              \/ \E i \in Id : OpenCharacter(s, i)
                              \/ NewCharacterAsked(s) \/ DuplicateCurrent(s)
                              \/ ImportFile(s) \/ DeleteCurrent(s)
  <2>1. Same
    BY <1>7 DEF Resume, PickFile, ListAnswered, Boot, vars, Draft, SwitchStep, Removed,
       SwitchReads, SwitchAnswered, SwitchFails, SwitchForgotten, SwitchUploaded, OpenCharacter,
       NewCharacterAsked, DuplicateCurrent, ImportFile, DeleteCurrent, work
  <2> QED
    BY <1>1, <2>1
<1> QED
  BY <1>2, <1>3, <1>4, <1>5, <1>6, <1>7, <1>8 DEF Next, UserActs, Shown

(* A patch that lands goes on with what was held, and with nothing left to  *)
(* send it ends.                                                            *)
LEMMA LandingSends ==
  ASSUME IInv, PatchShown
  PROVE  IF busy' THEN queued # None => job'.send = queued
                  ELSE queued = None /\ updaters = << >>
<1> USE DEF IInv
<1> DEFINE next == Answer
           body == NextBody(next)
<1>1. next \in Character
  BY AnswerIsCharacter DEF PatchShown, At
<1>2. IF body # None THEN StartPatch(job.id, body) ELSE EndPatch
  BY DEF PatchShown
<1>3. updaters # << >> => Pending(Head(updaters), next) # None
  <2>1. updaters # << >> => Head(updaters) \in Updater
    BY DEF WorkOK
  <2> QED
    BY <1>1, <2>1, PendingIsBody, EditorAssumption
<1>4. /\ queued # None => body = queued
      /\ body = None => queued = None /\ updaters = << >>
  BY <1>3 DEF NextBody
<1> HIDE DEF body
<1> QED
  BY <1>2, <1>4 DEF StartPatch, EndPatch

(* What was accepted while busy is sent, whatever edits, files, undos and   *)
(* switches come meanwhile: a held body only gives way to one that covers   *)
(* it, and a run that ends well leaves neither body nor updater behind.     *)
THEOREM HeldIsNotLost ==
  Spec => HeldEditsAreSent
<1>1. Init => Holding
  BY DEF Init, Fresh, Holding
<1>2. IInv /\ Holding /\ [Next]_vars => Holding'
  BY HoldingStep
<1> DEFINE Sent == /\ queued # None /\ busy' /\ ~Landing
                        => queued' # None /\ DOMAIN queued.means \subseteq DOMAIN queued'.means
                   /\ Landing => IF busy' THEN queued # None => job'.send = queued
                                 ELSE queued = None /\ updaters = << >>
<1>3. IInv /\ Holding /\ [Next]_vars => [Sent]_vars
  BY HoldingStep, LandingIsShown, LandingSends
<1> QED
  BY <1>1, <1>2, <1>3, Invariance, PTL DEF Spec, HeldEditsAreSent

-----------------------------------------------------------------------------
(* One character at a time.  It is false when a control may call patch      *)
(* after a file was read and characters are switched: the patch is of the   *)
(* render the file was picked in, and by then another may be on screen.     *)
SwitchOps == {"open", "new", "dup", "import", "delete"}

OneAtATime == "file" \notin Ops \/ Ops \cap SwitchOps = {}

(* What is not offered is not under way. *)
Still ==
  /\ "file" \notin Ops => slow = None
  /\ Ops \cap SwitchOps = {} => \A s \in Slot : task[s] = NoTask

Of(i) == {c \in Character : c.id = i}

Single ==
  /\ slow # None => slow.id = ch.id
  /\ ch = None => hist = NoHistory
  /\ ch # None => lastCommitted.id = ch.id /\ hist \in Stacks(Of(ch.id))
  /\ job.kind = "patch" => job.id = ch.id
  /\ job.kind = "restore" => job.val.id = ch.id

(* Where no switch is offered, none takes a step. *)
LEMMA NoSwitches ==
  ASSUME IInv, Still, Ops \cap SwitchOps = {}
  PROVE  /\ ~Resume
         /\ \A s \in Slot :
              ~(\/ SwitchStep(s) \/ \E i \in Id : OpenCharacter(s, i)
                \/ NewCharacterAsked(s) \/ DuplicateCurrent(s)
                \/ ImportFile(s) \/ DeleteCurrent(s))
<1> USE DEF IInv
<1>1. \A s \in Slot : task[s] = NoTask
  BY DEF Still
<1>2. ~Resume
  <2>1. ready # << >> => Head(ready) \in Slot
    BY DEF SwitchOK
  <2> QED
    BY <1>1, <2>1 DEF Resume, NoTask
<1>3. ASSUME NEW s \in Slot PROVE ~SwitchStep(s)
  BY <1>1 DEF SwitchStep, Removed, SwitchReads, SwitchAnswered, SwitchFails, SwitchForgotten,
     SwitchUploaded, NoTask
<1>4. ASSUME NEW s \in Slot, NEW i \in Id PROVE ~OpenCharacter(s, i)
  BY DEF OpenCharacter, Acts, SwitchOps
<1>5. ASSUME NEW s \in Slot
      PROVE  ~(NewCharacterAsked(s) \/ DuplicateCurrent(s) \/ ImportFile(s) \/ DeleteCurrent(s))
  BY DEF NewCharacterAsked, DuplicateCurrent, ImportFile, DeleteCurrent, Acts, SwitchOps
<1> QED
  BY <1>2, <1>3, <1>4, <1>5

(* Where characters are not switched, nobody waits and nothing is resumed. *)
LEMMA StillInv ==
  ASSUME IInv, Still, [Next]_vars
  PROVE  Still'
<1> USE DEF IInv
<1>1. "file" \notin Ops => slow' = None
  <2> SUFFICES ASSUME "file" \notin Ops PROVE slow' = None
    OBVIOUS
  <2>1. slow = None /\ ~PickFile
    BY DEF Still, PickFile, Acts
  <2>2. slow' = slow \/ slow' = None
    BY <2>1, RequestMoves
       DEF Next, UserActs, Resume, Edit, EditLater, Draft, Undo, Redo, OpenCharacter,
       NewCharacterAsked, DuplicateCurrent, ImportFile, DeleteCurrent, Reload, Commit, FileStep,
       FileRead, PatchReads, Shown, PatchShown, RestoreShown, SwitchStep, Removed, SwitchReads,
       SwitchAnswered, SwitchFails, SwitchForgotten, SwitchUploaded, ListAnswered, Boot, vars, hands
  <2> QED
    BY <2>1, <2>2
<1>2. Ops \cap SwitchOps = {} => \A s \in Slot : task'[s] = NoTask
  <2> SUFFICES ASSUME Ops \cap SwitchOps = {} PROVE \A s \in Slot : task'[s] = NoTask
    OBVIOUS
  <2>1. \A s \in Slot : task[s] = NoTask
    BY DEF Still
  <2>6. Reload \/ UNCHANGED task
    BY NoSwitches, RequestMoves
       DEF Next, UserActs, Edit, EditLater, Draft, PickFile, Undo, Redo, Commit, FileStep, FileRead,
       PatchReads, Shown, PatchShown, RestoreShown, ListAnswered, Boot, vars, switching
  <2> QED
    BY <2>1, <2>6 DEF Reload
<1> QED
  BY <1>1, <1>2 DEF Still

(* Nothing that bears on which character is worked on has changed. *)
LEMMA SingleKept ==
  ASSUME Single, UNCHANGED << ch, lastCommitted, hist >>, slow' \in {slow, None, ch},
         \/ UNCHANGED job
         \/ job' = NoJob
         \/ job'.kind = "patch" /\ job'.id = ch.id
         \/ job'.kind = "restore" /\ job'.val.id = ch.id
  PROVE  Single'
BY DEF Single, NoJob

(* A character put on screen by a switch comes with its own empty history. *)
LEMMA SingleShown ==
  ASSUME Single, NEW c, c # None, ch' = c, lastCommitted' = c, hist' = NoHistory,
         UNCHANGED << job, slow >>, slow = None, job.kind = "none"
  PROVE  Single'
BY NoHistoryStays DEF Single

(* A patch or a restore keeps the one character. *)
LEMMA SingleJobs ==
  ASSUME IInv, Single, PatchReads \/ RequestStep \/ Shown
  PROVE  Single'
<1> USE DEF IInv
<1>1. CASE PatchReads
  <2>1. UNCHANGED << ch, lastCommitted, hist, slow >> /\ job.kind = "patch"
    BY <1>1 DEF PatchReads, screen, hands
  <2>2. job' = NoJob \/ (job'.kind = "patch" /\ job'.id = job.id)
    BY <1>1 DEF PatchReads, EndPatch
  <2> QED
    BY <2>1, <2>2, SingleKept DEF Single
<1>2. CASE RequestStep
  <2>1. /\ UNCHANGED << ch, lastCommitted, hist, slow >>
        /\ job.kind \in {"patch", "restore"} /\ job.pc # "read"
        /\ Ends \/ \E place \in Requested : Goes(place)
    BY <1>2, RequestMoves DEF screen, hands, Requested
  <2>2. CASE Ends
    <3>1. job' = NoJob
      BY <2>2 DEF Ends, EndPatch, EndRestore
    <3> QED
      BY <2>1, <3>1, SingleKept
  <2>3. CASE \E place \in Requested : Goes(place)
    <3>1. /\ job'.kind = job.kind /\ job'.val = job.val
          /\ job.kind = "patch" => job'.id = job.id
      BY <2>1, <2>3, GoesOn
    <3> QED
      BY <2>1, <3>1, SingleKept DEF Single
  <2> QED
    BY <2>1, <2>2, <2>3
<1>3. CASE PatchShown \/ RestoreShown
  <2> DEFINE next == Answer
  <2>1. job.kind \in {"patch", "restore"} /\ job.pc = "show" /\ ch # None
    BY <1>3 DEF PatchShown, RestoreShown, At, Linked, NoJob
  <2>2. next \in Character /\ next.id = ch.id
    BY <2>1, AnswerIsCharacter DEF Linked, Single
  <2>3. /\ hist' = Record(hist, lastCommitted) \/ UNCHANGED hist
        /\ ch' = next /\ lastCommitted' = next /\ UNCHANGED slow
        /\ job' = NoJob \/ (job.kind = "patch" /\ job'.kind = "patch" /\ job'.id = job.id)
    BY <1>3 DEF PatchShown, RestoreShown, EndPatch, EndRestore, StartPatch, hands
  <2> HIDE DEF next
  <2>4. lastCommitted \in Of(ch.id) /\ hist \in Stacks(Of(ch.id))
    BY <2>1 DEF Linked, ScreenOK, Single, Of
  <2>5. hist' \in Stacks(Of(ch.id))
    BY <2>3, <2>4, RecordStays
  <2>6. ch' # None
    BY <2>2, <2>3, EditorAssumption
  <2> QED
    BY <2>1, <2>2, <2>3, <2>5, <2>6 DEF Single, NoJob
<1> QED
  BY <1>1, <1>2, <1>3 DEF Shown

(* So does what the user does to it. *)
LEMMA SingleEdits ==
  ASSUME IInv, Single,
         \/ Undo \/ Redo \/ Commit
         \/ \E l \in Leaf, v \in Val : Edit(l, v) \/ EditLater(l, v) \/ Draft(l, v)
  PROVE  Single'
<1> USE DEF IInv
<1>1. CASE Commit \/ \E l \in Leaf, v \in Val : Edit(l, v) \/ EditLater(l, v)
  <2>1. UNCHANGED << ch, lastCommitted, hist >> /\ slow' = slow
    BY <1>1 DEF Commit, Edit, EditLater, screen, hands
  <2>2. \E x : PatchBody(ch, x) \/ PatchUpdater(ch, x)
    BY <1>1 DEF Commit, Edit, EditLater
  <2>3. UNCHANGED job \/ (job'.kind = "patch" /\ job'.id = ch.id)
    BY <2>2 DEF PatchBody, PatchUpdater, StartPatch
  <2> QED
    BY <2>1, <2>3, SingleKept
<1>2. CASE \E l \in Leaf, v \in Val : Draft(l, v)
  <2> PICK l \in Leaf, v \in Val : Draft(l, v)
    BY <1>2
  <2>1. ch \in Character /\ ch # None
    BY ActsAreCounted DEF Draft, ScreenOK
  <2>2. /\ ch' = [ch EXCEPT !.f[l] = v]
        /\ UNCHANGED << lastCommitted, hist, slow, job >>
    BY DEF Draft, work
  <2>3. ch'.id = ch.id
    BY <2>1, <2>2 DEF Character
  <2>4. ch' # None
    BY <1>2, HandsStay, <2>1, <2>2 DEF Linked
  <2> QED
    BY <2>1, <2>2, <2>3, <2>4 DEF Single
<1>3. CASE Undo \/ Redo
  <2>1. \/ /\ CanStepBack(hist) /\ hist' = StepBack(hist, lastCommitted)
           /\ job' = [kind |-> "restore", pc |-> "compute", val |-> Top(hist.undo)]
        \/ /\ CanStepForward(hist) /\ hist' = StepForward(hist, lastCommitted)
           /\ job' = [kind |-> "restore", pc |-> "compute", val |-> Top(hist.redo)]
    BY <1>3 DEF Undo, Redo, StartRestore
  <2>2. UNCHANGED << ch, lastCommitted, slow >>
    BY <1>3 DEF Undo, Redo, hands
  <2>3. ch # None
    BY <1>3, ActsAreCounted DEF Undo, Redo
  <2>4. lastCommitted \in Of(ch.id) /\ hist \in Stacks(Of(ch.id))
    BY <2>3 DEF Linked, ScreenOK, Single, Of
  <2>5. PICK c \in Of(ch.id) :
          job' = [kind |-> "restore", pc |-> "compute", val |-> c] /\ hist' \in Stacks(Of(ch.id))
    BY <2>1, <2>4, StepStays
  <2> QED
    BY <2>2, <2>3, <2>5 DEF Single, Of
<1> QED
  BY <1>1, <1>2, <1>3

(* A switch starts from an empty history, with nobody left of the last one. *)
LEMMA SingleSwitches ==
  ASSUME OneAtATime, IInv, Still, Single,
         \/ Resume \/ Boot \/ ListAnswered \/ Reload
         \/ \E s \in Slot : \/ SwitchStep(s)
                            \/ \E i \in Id : OpenCharacter(s, i)
                            \/ NewCharacterAsked(s) \/ DuplicateCurrent(s)
                            \/ ImportFile(s) \/ DeleteCurrent(s)
  PROVE  Single'
<1> USE DEF IInv
<1>1. CASE Reload
  BY <1>1 DEF Reload, Single, NoJob
<1>2. CASE Boot
  <2>1. ch = None /\ job = NoJob /\ slow = None
    BY <1>2 DEF Boot, Linked
  <2>2. lastCommitted' = ch' /\ hist' = NoHistory /\ UNCHANGED << job, slow >>
    BY <1>2 DEF Boot, work, hands
  <2>3. ch' # None
    BY <1>2, BootShows
  <2> QED
    BY <2>1, <2>2, <2>3, SingleShown DEF NoJob
<1>3. CASE \/ Resume
           \/ \E s \in Slot : SwitchAnswered(s)
  <2>1. UNCHANGED << job, slow >>
    BY <1>3 DEF Resume, SwitchAnswered, work, hands
  <2>2. \/ UNCHANGED << ch, lastCommitted, hist >>
        \/ /\ ch' = lastCommitted' /\ hist' = NoHistory
           /\ ~busy
    BY <1>3 DEF Resume, SwitchAnswered, Remember, Show, Linked, screen
  <2>3. CASE UNCHANGED << ch, lastCommitted, hist >>
    BY <2>1, <2>3, SingleKept
  <2>4. CASE ch' = lastCommitted' /\ hist' = NoHistory /\ ~busy
    <3>0. slow = None
      <4>1. ready # << >> => Head(ready) \in Slot
        BY DEF SwitchOK
      <4>2. ~ \A s \in Slot : task[s] = NoTask
        BY <1>3, <4>1 DEF Resume, SwitchAnswered, NoTask
      <4> QED
        BY <4>2 DEF OneAtATime, Still
    <3>1. job.kind = "none"
      BY <2>4 DEF Linked
    <3>2. CASE ch' = None
      BY <2>1, <2>4, <3>0, <3>1, <3>2 DEF Single
    <3>3. CASE ch' # None
      BY <2>1, <2>4, <3>0, <3>1, <3>3, SingleShown
    <3> QED
      BY <3>2, <3>3
  <2> QED
    BY <2>2, <2>3, <2>4
<1>4. CASE \/ ListAnswered
           \/ \E s \in Slot : \/ Removed(s) \/ SwitchReads(s) \/ SwitchFails(s)
                              \/ SwitchForgotten(s) \/ SwitchUploaded(s)
                              \/ \E i \in Id : OpenCharacter(s, i)
                              \/ NewCharacterAsked(s) \/ DuplicateCurrent(s)
                              \/ ImportFile(s) \/ DeleteCurrent(s)
  <2>1. UNCHANGED << ch, lastCommitted, hist, slow, job >>
    BY <1>4 DEF ListAnswered, Removed, SwitchReads, SwitchFails, SwitchForgotten, SwitchUploaded,
       OpenCharacter, NewCharacterAsked, DuplicateCurrent, ImportFile, DeleteCurrent, screen, work,
       hands
  <2> QED
    BY <2>1, SingleKept
<1> QED
  BY <1>1, <1>2, <1>3, <1>4 DEF SwitchStep

(* The character on screen, what is committed, the job and every snapshot   *)
(* are of one character.                                                    *)
LEMMA SingleInv ==
  ASSUME OneAtATime, IInv, Still, Single, [Next]_vars
  PROVE  Single'
<1> USE DEF IInv
<1>1. CASE PickFile
  BY <1>1, SingleKept DEF PickFile, screen, work
<1>2. CASE FileStep
  <2>1. slow # None /\ slow.id = ch.id /\ slow' = None
        /\ UNCHANGED << ch, lastCommitted, hist >>
    BY <1>2 DEF FileStep, FileRead, Single, screen
  <2>2. \E x : PatchBody(slow, x)
    BY <1>2 DEF FileStep, FileRead
  <2>3. UNCHANGED job \/ (job'.kind = "patch" /\ job'.id = ch.id)
    BY <2>1, <2>2 DEF PatchBody, StartPatch
  <2> QED
    BY <2>1, <2>3, SingleKept
<1>3. CASE UserActs
  BY <1>1, <1>3, SingleEdits, SingleSwitches DEF UserActs
<1>4. CASE UNCHANGED vars
  BY <1>4, SingleKept DEF vars, screen, work, hands
<1> QED
  BY <1>2, <1>3, <1>4, SingleEdits, SingleJobs, SingleSwitches DEF Next

SInv == IInv /\ Still /\ Single

(* Together: an invariant of every behaviour. *)
LEMMA SingleInvariance ==
  ASSUME OneAtATime
  PROVE  Spec => []SInv
<1>1. Init => SInv
  BY InitInv DEF SInv, Init, Fresh, Still, Single, NoJob
<1>2. SInv /\ [Next]_vars => SInv'
  BY StepInv, StillInv, SingleInv DEF SInv
<1> QED
  BY <1>1, <1>2, PTL DEF Spec

(* Where no file is read, or no character is switched, undo and redo stay   *)
(* with the character on screen and everything keeps its type, whatever is  *)
(* edited, undone, switched and reloaded in whatever order.                 *)
THEOREM HistoryStaysWithItsCharacter ==
  ASSUME OneAtATime
  PROVE  Spec => []OneCharacterAtATime
<1>1. SInv => OneCharacterAtATime
  <2> SUFFICES ASSUME IInv, Single PROVE OneCharacterAtATime
    BY DEF SInv
  <2>1. TypeOK
    BY GroupsAreTypes
  <2>2. HistoryOfOneCharacter
    <3>1. CASE ch = None
      <4>0. hist.undo = << >> /\ hist.redo = << >>
        BY <3>1 DEF Single, NoHistory
      <4>1. 1 .. Len(hist.undo) + Len(hist.redo) = {}
        BY <4>0
      <4> QED
        BY <4>1 DEF HistoryOfOneCharacter
    <3>2. CASE ch # None
      <4>1. hist.undo \in Seq(Of(ch.id)) /\ hist.redo \in Seq(Of(ch.id))
        BY <3>2 DEF Single, Stacks
      <4>2. \A k \in 1 .. Len(hist.undo) + Len(hist.redo) :
              (hist.undo \o hist.redo)[k] \in Of(ch.id)
        BY <4>1, TogetherStays
      <4>3. \A k \in 1 .. Len(hist.undo) + Len(hist.redo) :
              (hist.undo \o hist.redo)[k].id = ch.id
        BY <4>2, Zenon DEF Of
      <4> QED
        BY <4>3 DEF HistoryOfOneCharacter
    <3> QED
      BY <3>1, <3>2
  <2> QED
    BY <2>1, <2>2 DEF OneCharacterAtATime
<1> QED
  BY <1>1, SingleInvariance, PTL

-----------------------------------------------------------------------------
(* The editor and its history: every step of the whole editor is a step of  *)
(* History or leaves its variables alone.                                   *)
Restoring == IF job.kind = "restore" THEN job.val ELSE None

(* One lemma for each step of History, in the editor's words. *)
LEMMA EditOfHistory ==
  ASSUME NEW c \in Character, lastCommitted' = c, hist' = Record(hist, lastCommitted),
         Restoring = None, Restoring' = None
  PROVE  H!Next
<1>1. H!Edit(c)
  BY DEF H!Edit, H!Record, Record, Restoring
<1> QED
  BY <1>1 DEF H!Next

(* Each step of the editor as a step of History. *)
LEMMA RememberOfHistory ==
  ASSUME NEW c \in Character, lastCommitted' = c, hist' = NoHistory,
         Restoring = None, Restoring' = None
  PROVE  H!Next
<1>1. H!Remember(c)
  BY DEF H!Remember, H!NoHistory, NoHistory, Restoring
<1> QED
  BY <1>1 DEF H!Next

LEMMA UndoOfHistory ==
  ASSUME Restoring = None, UNCHANGED lastCommitted,
         \/ /\ CanStepBack(hist) /\ hist' = StepBack(hist, lastCommitted)
            /\ Restoring' = Top(hist.undo)
         \/ /\ CanStepForward(hist) /\ hist' = StepForward(hist, lastCommitted)
            /\ Restoring' = Top(hist.redo)
  PROVE  H!Next
<1>1. H!Undo \/ H!Redo
  BY DEF H!Undo, H!Redo, H!CanStepBack, CanStepBack, H!CanStepForward, CanStepForward,
     H!StepBack, StepBack, H!StepForward, StepForward, H!Top, Top, H!Pop, Pop, Restoring
<1> QED
  BY <1>1 DEF H!Next

LEMMA RestoreOfHistory ==
  ASSUME Restoring # None, Restoring' = None, UNCHANGED hist,
         lastCommitted' \in {Restoring, lastCommitted}
  PROVE  H!Next
<1>1. H!Restored \/ H!RestoreFailed
  BY DEF H!Restored, H!RestoreFailed, Restoring
<1> QED
  BY <1>1 DEF H!Next

LEMMA NothingOfHistory ==
  ASSUME UNCHANGED << hist, lastCommitted, Restoring >>
  PROVE  UNCHANGED H!vars
BY DEF H!vars, Restoring

(* What holds busy is being restored only if it is a restore. *)
LEMMA RestoringNone ==
  /\ job.kind # "restore" => Restoring = None
  /\ job'.kind # "restore" => Restoring' = None
BY DEF Restoring

(* Every step of the editor is one of History or leaves its variables alone. *)
LEMMA StepMovesHistory ==
  ASSUME IInv, [Next]_vars
  PROVE  [ch' = None \/ H!Next]_(H!vars)
<1> USE DEF IInv
<1>1. CASE PatchShown
  <2> DEFINE next == Answer
  <2>1. job.kind = "patch" /\ job.pc = "show"
    BY <1>1 DEF PatchShown, At
  <2>2. next \in Character
    BY <2>1, AnswerIsCharacter
  <2>3. /\ hist' = Record(hist, lastCommitted) /\ lastCommitted' = next
        /\ job'.kind # "restore"
    BY <1>1 DEF PatchShown, EndPatch, StartPatch, NoJob
  <2> HIDE DEF next
  <2> QED
    BY <2>1, <2>2, <2>3, RestoringNone, EditOfHistory
<1>2. CASE Undo \/ Redo
  <2>1. job.kind # "restore"
    BY <1>2 DEF Undo, Redo, Linked
  <2>2. UNCHANGED lastCommitted
    BY <1>2 DEF Undo, Redo
  <2>3. \/ /\ CanStepBack(hist) /\ hist' = StepBack(hist, lastCommitted)
           /\ Restoring' = Top(hist.undo)
        \/ /\ CanStepForward(hist) /\ hist' = StepForward(hist, lastCommitted)
           /\ Restoring' = Top(hist.redo)
    BY <1>2 DEF Undo, Redo, StartRestore, Restoring
  <2> QED
    BY <2>1, <2>2, <2>3, RestoringNone, UndoOfHistory
<1>3. CASE RestoreShown \/ (RequestStep /\ Ends /\ job.kind = "restore")
  <2>1. job.kind = "restore" /\ job' = NoJob /\ UNCHANGED hist
        /\ lastCommitted' \in {job.val, lastCommitted}
    BY <1>3, RequestMoves DEF RestoreShown, Answer, Ends, EndRestore, screen
  <2>2. Restoring # None /\ Restoring = job.val /\ Restoring' = None
    BY <2>1, RestoreJob, EditorAssumption DEF Restoring, NoJob
  <2> QED
    BY <2>1, <2>2, RestoreOfHistory
<1>8. CASE RequestStep /\ ~(Ends /\ job.kind = "restore")
  <2>1. /\ UNCHANGED << hist, lastCommitted >>
        /\ job.kind \in {"patch", "restore"} /\ job.pc # "read"
        /\ Ends \/ \E place \in Requested : Goes(place)
    BY <1>8, RequestMoves DEF screen, Requested
  <2>2. CASE \E place \in Requested : Goes(place)
    <3>1. job'.kind = job.kind /\ job'.val = job.val
      BY <2>1, <2>2, GoesOn
    <3> QED
      BY <2>1, <3>1, NothingOfHistory DEF Restoring
  <2>3. CASE Ends
    <3>1. job.kind # "restore" /\ job'.kind # "restore"
      BY <1>8, <2>1, <2>3 DEF Ends, EndPatch, NoJob
    <3> QED
      BY <2>1, <3>1, RestoringNone, NothingOfHistory
  <2> QED
    BY <2>1, <2>2, <2>3
<1>4. CASE Boot
  <2>1. job = NoJob /\ UNCHANGED job
    BY <1>4 DEF Boot, Linked, work
  <2>2. ch' \in Character /\ lastCommitted' = ch' /\ hist' = NoHistory
    BY <1>4, BootShows DEF Boot
  <2> QED
    BY <2>1, <2>2, RestoringNone, RememberOfHistory DEF NoJob
<1>5. CASE \/ Resume
           \/ \E s \in Slot : SwitchAnswered(s)
  <2>1. UNCHANGED job
    BY <1>5 DEF Resume, SwitchAnswered, work
  <2>2. CASE UNCHANGED << lastCommitted, hist >>
    BY <2>1, <2>2, NothingOfHistory DEF Restoring
  <2>3. CASE ~UNCHANGED << lastCommitted, hist >>
    <3>1. ~busy /\ lastCommitted' = ch' /\ hist' = NoHistory
      BY <1>5, <2>3 DEF Resume, SwitchAnswered, Remember, Show, Linked, screen
    <3>2. ch' \in Character \cup {None}
      BY <1>5, StepInv DEF Next, SwitchStep, ScreenOK
    <3>3. job.kind # "restore" /\ job'.kind # "restore"
      BY <2>1, <3>1 DEF Linked
    <3> QED
      BY <3>1, <3>2, <3>3, RestoringNone, RememberOfHistory
  <2> QED
    BY <2>2, <2>3
<1>6. CASE Reload
  BY <1>6 DEF Reload
<1>7. CASE \/ UserActs /\ ~(Undo \/ Redo \/ Reload)
           \/ Commit \/ FileStep \/ PatchReads \/ ListAnswered \/ UNCHANGED vars
           \/ \E s \in Slot : \/ Removed(s) \/ SwitchReads(s) \/ SwitchFails(s)
                              \/ SwitchForgotten(s) \/ SwitchUploaded(s)
  <2>1. UNCHANGED << hist, lastCommitted >>
    BY <1>7 DEF UserActs, Edit, EditLater, Draft, PickFile, OpenCharacter, NewCharacterAsked,
       DuplicateCurrent, ImportFile, DeleteCurrent, Commit, FileStep, FileRead, PatchReads,
       ListAnswered, Removed, SwitchReads, SwitchFails, SwitchForgotten, SwitchUploaded, vars, screen
  <2>2. UNCHANGED job \/ (job.kind # "restore" /\ job'.kind # "restore")
    <3>1. CASE PatchReads
      BY <3>1 DEF PatchReads, EndPatch, NoJob
    <3>2. CASE \/ Commit \/ FileStep
               \/ \E l \in Leaf, v \in Val : Edit(l, v) \/ EditLater(l, v)
      <4>1. \E c, x : PatchBody(c, x) \/ PatchUpdater(c, x)
        BY <3>2 DEF Commit, FileStep, FileRead, Edit, EditLater
      <4>2. UNCHANGED job \/ (~busy /\ job'.kind = "patch")
        BY <4>1 DEF PatchBody, PatchUpdater, StartPatch
      <4> QED
        BY <4>2 DEF Linked
    <3>3. CASE \/ UNCHANGED vars \/ ListAnswered \/ PickFile
               \/ \E l \in Leaf, v \in Val : Draft(l, v)
               \/ \E s \in Slot : \/ \E i \in Id : OpenCharacter(s, i)
                                  \/ NewCharacterAsked(s) \/ DuplicateCurrent(s)
                                  \/ ImportFile(s) \/ DeleteCurrent(s)
                                  \/ Removed(s) \/ SwitchReads(s) \/ SwitchFails(s)
                                  \/ SwitchForgotten(s) \/ SwitchUploaded(s)
      BY <3>3 DEF vars, ListAnswered, PickFile, Draft, OpenCharacter, NewCharacterAsked,
         DuplicateCurrent, ImportFile, DeleteCurrent, Removed, SwitchReads, SwitchFails, SwitchForgotten,
         SwitchUploaded, work
    <3> QED
      BY <1>7, <3>1, <3>2, <3>3 DEF UserActs
  <2>3. UNCHANGED Restoring
    BY <2>2 DEF Restoring
  <2> QED
    BY <2>1, <2>3, NothingOfHistory
<1> QED
  BY <1>1, <1>2, <1>3, <1>4, <1>5, <1>6, <1>7, <1>8 DEF Next, UserActs, Shown, SwitchStep

(* The editor, with every switch, late answer, failure and reload, moves    *)
(* its history only as History does: with HistoryIsTimeline, undo in the    *)
(* running editor is a cursor on a line of versions until a reload.         *)
THEOREM EditorMovesHistory ==
  Spec => MovesHistory
<1>1. IInv /\ [Next]_vars => [ch' = None \/ H!Next]_(H!vars)
  BY StepMovesHistory
<1> QED
  BY <1>1, Invariance, PTL DEF Spec, MovesHistory

-----------------------------------------------------------------------------
(* The updaters.  A restore drops none that arrived during it, so that this *)
(* holds where there is no undo.                                            *)
For(i) == {u \in Updater : u.for = i}

Turn ==
  /\ job.kind # "restore"
  /\ ~busy => updaters = << >>
  /\ busy => updaters \in Seq(For(job.id))

(* What holds busy is a patch or a restore. *)
LEMMA JobKinds ==
  ASSUME WorkOK, Linked, busy
  PROVE  job.kind \in {"patch", "restore"}
<1>1. job # NoJob
  BY DEF Linked, NoJob
<1> QED
  BY <1>1 DEF WorkOK, Busies

(* Updaters wait as they are, behind a job for the same character. *)
LEMMA TurnKept ==
  ASSUME IInv, Turn, UNCHANGED << busy, job, updaters >>
  PROVE  Turn'
BY DEF Turn

(* A patch that starts finds none; one that goes on sends the first.        *)
LEMMA TurnStarts ==
  ASSUME IInv, Turn, Single, ch # None, NEW c \in Character, c.id = ch.id,
         \/ \E body : PatchBody(c, body)
         \/ \E u \in For(ch.id) : PatchUpdater(c, u)
  PROVE  Turn'
<1> USE DEF IInv
<1>1. CASE busy
  <2>1. job.id = ch.id
    BY <1>1, JobKinds DEF Turn, Single
  <2>2. UNCHANGED << busy, job >>
    BY <1>1 DEF PatchBody, PatchUpdater
  <2>3. CASE \E body : PatchBody(c, body)
    BY <1>1, <2>3, TurnKept DEF PatchBody
  <2>4. CASE \E u \in For(ch.id) : PatchUpdater(c, u)
    <3> PICK u \in For(ch.id) : PatchUpdater(c, u)
      BY <2>4
    <3>1. updaters' = Append(updaters, u)
      BY <1>1 DEF PatchUpdater
    <3>2. updaters \in Seq(For(ch.id))
      BY <1>1, <2>1 DEF Turn
    <3>3. updaters' \in Seq(For(ch.id))
      BY <3>1, <3>2
    <3> QED
      BY <1>1, <2>1, <2>2, <3>3 DEF Turn
  <2> QED
    BY <2>3, <2>4
<1>2. CASE ~busy
  <2>1. busy' = TRUE /\ job'.kind = "patch" /\ UNCHANGED updaters
    BY <1>2 DEF PatchBody, PatchUpdater, StartPatch
  <2>2. updaters = << >> /\ << >> \in Seq(For(job'.id))
    BY <1>2 DEF Turn
  <2> QED
    BY <2>1, <2>2 DEF Turn
<1> QED
  BY <1>1, <1>2

(* A run of patches that ends leaves no updater behind. *)
LEMMA TurnEnds ==
  ASSUME EndPatch
  PROVE  Turn'
BY DEF EndPatch, Turn, NoJob

(* Without undo, only a run of patches holds busy, and it empties the queue. *)
LEMMA TurnInv ==
  ASSUME "undo" \notin Ops, SInv, Turn, [Next]_vars
  PROVE  Turn'
<1> USE DEF SInv, IInv
<1>1. ~Undo /\ ~Redo /\ ~RestoreShown
  BY DEF Undo, Redo, Acts, RestoreShown, Turn
<1>2. CASE PatchReads
  <2>1. CASE store[job.id] \in NoRecord
    BY <1>2, <2>1, TurnEnds DEF PatchReads
  <2>2. CASE store[job.id] \notin NoRecord
    <3>1. UNCHANGED << busy, updaters >> /\ job'.kind = "patch" /\ job'.id = job.id
      BY <1>2, <2>2 DEF PatchReads
    <3> QED
      BY <3>1 DEF Turn
  <2> QED
    BY <2>1, <2>2
<1>3. CASE RequestStep
  <2>1. /\ job.kind = "patch" /\ job.pc # "read"
        /\ Ends \/ \E place \in Requested : Goes(place)
    BY <1>3, RequestMoves DEF Turn, Requested
  <2>2. CASE Ends
    BY <2>1, <2>2, TurnEnds DEF Ends
  <2>3. CASE \E place \in Requested : Goes(place)
    <3>1. UNCHANGED << busy, updaters >> /\ job'.kind = "patch" /\ job'.id = job.id
      BY <2>1, <2>3, GoesOn
    <3> QED
      BY <3>1 DEF Turn
  <2> QED
    BY <2>1, <2>2, <2>3
<1>4. CASE PatchShown
  <2> DEFINE body == NextBody(Answer)
  <2>1. \/ EndPatch
        \/ /\ body # None /\ StartPatch(job.id, body)
           /\ updaters' = IF queued # None THEN updaters ELSE Tail(updaters)
    BY <1>4 DEF PatchShown
  <2>2. body # None /\ queued = None => updaters # << >>
    BY DEF NextBody
  <2> HIDE DEF body
  <2>3. CASE EndPatch
    BY <2>3, TurnEnds
  <2>4. CASE /\ body # None /\ StartPatch(job.id, body)
             /\ updaters' = IF queued # None THEN updaters ELSE Tail(updaters)
    <3>1. busy' = TRUE /\ job'.kind = "patch" /\ job'.id = job.id
      BY <2>4 DEF StartPatch
    <3>2. busy
      BY <1>4 DEF PatchShown, At, Linked
    <3>3. updaters \in Seq(For(job.id))
      BY <3>2 DEF Turn
    <3>4. updaters' \in Seq(For(job.id))
      BY <2>2, <2>4, <3>3, TailStays
    <3> QED
      BY <3>1, <3>4 DEF Turn
  <2> QED
    BY <2>1, <2>3, <2>4
<1>5. CASE \/ Commit \/ FileStep
           \/ \E l \in Leaf, v \in Val : Edit(l, v) \/ EditLater(l, v)
  <2>1. ch # None
    BY <1>5 DEF Commit, FileStep, FileRead, Edit, EditLater, Acts, Linked
  <2>2. ch \in Character
    BY <2>1 DEF ScreenOK
  <2>3. CASE FileStep
    <3>1. slow \in Character /\ slow.id = ch.id /\ \E body : PatchBody(slow, body)
      BY <2>3 DEF FileStep, FileRead, HandsOK, Single
    <3> QED
      BY <2>1, <3>1, TurnStarts
  <2>4. CASE Commit \/ \E l \in Leaf, v \in Val : Edit(l, v)
    <3>1. \E body : PatchBody(ch, body)
      BY <2>4 DEF Commit, Edit
    <3> QED
      BY <2>1, <2>2, <3>1, TurnStarts
  <2>5. CASE \E l \in Leaf, v \in Val : EditLater(l, v)
    <3> PICK l \in Leaf, v \in Val : EditLater(l, v)
      BY <2>5
    <3> DEFINE u == [leaf |-> l, v |-> v, for |-> ch.id]
    <3>1. u \in For(ch.id)
      BY <2>2 DEF For, Updater, Character
    <3>2. PatchUpdater(ch, u)
      BY DEF EditLater
    <3> HIDE DEF u
    <3> QED
      BY <2>1, <2>2, <3>1, <3>2, TurnStarts
  <2> QED
    BY <1>5, <2>3, <2>4, <2>5
<1>6. CASE Reload
  BY <1>6 DEF Reload, Turn, NoJob
<1>7. CASE \/ Resume \/ PickFile \/ ListAnswered \/ Boot \/ UNCHANGED vars
           \/ \E l \in Leaf, v \in Val : Draft(l, v)
           \/ \E s \in Slot : \/ SwitchStep(s)
                              \/ \E i \in Id : OpenCharacter(s, i)
                              \/ NewCharacterAsked(s) \/ DuplicateCurrent(s)
                              \/ ImportFile(s) \/ DeleteCurrent(s)
  <2>1. UNCHANGED << busy, job, updaters >>
    BY <1>7 DEF Resume, PickFile, ListAnswered, Boot, vars, Draft, SwitchStep, Removed,
       SwitchReads, SwitchAnswered, SwitchFails, SwitchForgotten, SwitchUploaded, OpenCharacter,
       NewCharacterAsked, DuplicateCurrent, ImportFile, DeleteCurrent, work
  <2> QED
    BY <2>1, TurnKept
<1> QED
  BY <1>1, <1>2, <1>3, <1>4, <1>5, <1>6, <1>7 DEF Next, UserActs, Shown

(* Without undo, an updater always waits behind a job in progress, and one  *)
(* for the character it was made for, whatever fails in between.            *)
THEOREM UpdatersWait ==
  ASSUME OneAtATime, "undo" \notin Ops
  PROVE  Spec => []UpdatersWaitTheirTurn
<1>1. Init => Turn
  BY DEF Init, Fresh, Turn, NoJob
<1>2. SInv /\ Turn /\ [Next]_vars => Turn'
  BY TurnInv
<1>3. SInv /\ Turn => UpdatersWaitTheirTurn
  <2> SUFFICES ASSUME SInv, Turn, updaters # << >>
               PROVE  /\ busy
                      /\ \A k \in 1 .. Len(updaters) :
                           updaters[k].for = IF job.kind = "patch" THEN job.id ELSE ch.id
    BY DEF UpdatersWaitTheirTurn
  <2>1. busy /\ updaters \in Seq(For(job.id))
    BY DEF Turn
  <2>2. job.kind = "patch"
    BY <2>1, JobKinds DEF Turn, SInv, IInv
  <2>3. \A k \in 1 .. Len(updaters) : updaters[k] \in For(job.id)
    BY <2>1
  <2>4. \A k \in 1 .. Len(updaters) : updaters[k].for = job.id
    BY <2>3 DEF For
  <2> QED
    BY <2>1, <2>2, <2>4
<1> QED
  BY <1>1, <1>2, <1>3, SingleInvariance, PTL DEF Spec

-----------------------------------------------------------------------------
(* What is committed is what is stored, where no character is switched and  *)
(* no write refused: an open that was superseded writes back what it had    *)
(* read, and a refused write leaves what was there.                         *)
Written == job.kind # "none" /\ job.pc = "show"

CommittedKept ==
  ch # None => store[ch.id] = IF Written THEN Answer.f ELSE lastCommitted.f

(* A write that cannot be refused is a write. *)
LEMMA PutStores ==
  ASSUME PutMayFail = FALSE, StorageOK, NEW c \in Character, Put(c)
  PROVE  store'[c.id] = c.f
BY DEF Put, StorageOK, Character

(* What is answered is of the character on screen. *)
LEMMA AnswerIsShown ==
  ASSUME IInv, Single, job.kind \in {"patch", "restore"}, job.pc # "read"
  PROVE  Answer \in Character /\ Answer.id = ch.id /\ ch # None
<1>1. Answer \in Character /\ Answer.id = job.val.id
  BY AnswerIsCharacter DEF IInv
<1> QED
  BY <1>1 DEF IInv, Linked, Single, NoJob

(* Every step that commits a character has written it before. *)
LEMMA CommittedInv ==
  ASSUME PutMayFail = FALSE, Ops \cap SwitchOps = {}, SInv, CommittedKept, [Next]_vars
  PROVE  CommittedKept'
<1> USE DEF SInv, IInv
<1>1. CASE Shown
  <2>1. job.kind \in {"patch", "restore"} /\ job.pc = "show" /\ UNCHANGED store
    BY <1>1 DEF Shown, PatchShown, RestoreShown, At, storage
  <2>2. ch' = Answer /\ lastCommitted' = Answer
    BY <1>1 DEF Shown, PatchShown, RestoreShown
  <2>3. Answer.id = ch.id /\ ch # None
    BY <2>1, AnswerIsShown
  <2>4. store[ch.id] = Answer.f
    BY <2>1, <2>3 DEF CommittedKept, Written
  <2>5. ~Written'
    BY <1>1 DEF Shown, PatchShown, RestoreShown, StartPatch, EndPatch, EndRestore, NoJob, Written
  <2> QED
    BY <2>1, <2>2, <2>3, <2>4, <2>5 DEF CommittedKept
<1>2. CASE RequestStep
  <2>1. /\ UNCHANGED << ch, lastCommitted >>
        /\ job.kind \in {"patch", "restore"} /\ job.pc # "read" /\ job.pc # "show"
        /\ \/ Ends /\ UNCHANGED store
           \/ \E place \in Requested \ {"show"} : Goes(place) /\ UNCHANGED store
           \/ Goes("show") /\ Put(Answer)
    BY <1>2, RequestMoves DEF screen, Requested
  <2>2. store[ch.id] = lastCommitted.f /\ Answer \in Character /\ Answer.id = ch.id
    BY <2>1, AnswerIsShown DEF CommittedKept, Written
  <2>3. CASE Ends /\ UNCHANGED store
    <3>1. ~Written'
      BY <2>3 DEF Ends, EndPatch, EndRestore, NoJob, Written
    <3> QED
      BY <2>1, <2>2, <2>3, <3>1 DEF CommittedKept
  <2>4. CASE \E place \in Requested \ {"show"} : Goes(place) /\ UNCHANGED store
    <3>1. ~Written' /\ UNCHANGED store
      BY <2>1, <2>4, GoesOn DEF Written
    <3> QED
      BY <2>1, <2>2, <3>1 DEF CommittedKept
  <2>5. CASE Goes("show") /\ Put(Answer)
    <3>1. job'.kind = job.kind /\ job'.pc = "show" /\ Answer' = Answer
      BY <2>1, <2>5, GoesOn DEF Requested
    <3>2. store'[Answer.id] = Answer.f
      BY <2>2, <2>5, PutStores
    <3>3. Written'
      BY <2>1, <3>1 DEF Written
    <3> QED
      BY <2>1, <2>2, <3>1, <3>2, <3>3 DEF CommittedKept
  <2> QED
    BY <2>1, <2>3, <2>4, <2>5
<1>3. CASE Boot
  <2>1. /\ ch' \in Character /\ Put(ch') /\ lastCommitted' = ch'
        /\ job = NoJob /\ UNCHANGED job
    BY <1>3, BootShows DEF Boot, work, Linked
  <2> DEFINE c == ch'
  <2>2. c \in Character /\ Put(c)
    BY <2>1
  <2> HIDE DEF c
  <2>3. store'[c.id] = c.f
    BY <2>2, PutStores
  <2> QED
    BY <2>1, <2>3 DEF CommittedKept, Written, NoJob, c
<1>4. CASE \E l \in Leaf, v \in Val : Draft(l, v)
  <2> PICK l \in Leaf, v \in Val : Draft(l, v)
    BY <1>4
  <2>1. ch \in Character /\ ch # None
    BY ActsAreCounted DEF Draft, ScreenOK
  <2>2. ch' = [ch EXCEPT !.f[l] = v] /\ UNCHANGED << store, lastCommitted, job >>
    BY DEF Draft, storage, work
  <2>3. ch'.id = ch.id
    BY <2>1, <2>2 DEF Character
  <2>4. Answer' = Answer /\ Written' = Written
    BY <2>2 DEF Answer, Applied, Written
  <2> QED
    BY <2>1, <2>2, <2>3, <2>4 DEF CommittedKept
<1>5. CASE Reload
  BY <1>5 DEF Reload, CommittedKept
<1>6. CASE \/ PatchReads \/ Undo \/ Redo \/ Commit \/ FileStep
           \/ PickFile \/ ListAnswered \/ UNCHANGED vars
           \/ \E l \in Leaf, v \in Val : Edit(l, v) \/ EditLater(l, v)
  <2>1. UNCHANGED << store, ch, lastCommitted >>
    BY <1>6 DEF PatchReads, Undo, Redo, Commit, FileStep, FileRead,
       PickFile, ListAnswered, vars, Edit, EditLater, storage, screen
  <2>2. CASE UNCHANGED job
    <3>1. Answer' = Answer /\ Written' = Written
      BY <2>2 DEF Answer, Applied, Written
    <3> QED
      BY <2>1, <3>1 DEF CommittedKept
  <2>3. CASE ~Written /\ ~Written'
    BY <2>1, <2>3 DEF CommittedKept
  <2>4. UNCHANGED job \/ (~Written /\ ~Written')
    <3>1. CASE PatchReads
      BY <3>1 DEF PatchReads, EndPatch, NoJob, Written
    <3>2. CASE Undo \/ Redo
      BY <3>2 DEF Undo, Redo, StartRestore, Written, Linked
    <3>3. CASE PickFile \/ ListAnswered \/ UNCHANGED vars
      BY <3>3 DEF PickFile, ListAnswered, vars, work
    <3>4. CASE \/ Commit \/ FileStep
               \/ \E l \in Leaf, v \in Val : Edit(l, v) \/ EditLater(l, v)
      <4>1. \E c, x : PatchBody(c, x) \/ PatchUpdater(c, x)
        BY <3>4 DEF Commit, FileStep, FileRead, Edit, EditLater
      <4>2. UNCHANGED job \/ (~busy /\ job'.pc = "read")
        BY <4>1 DEF PatchBody, PatchUpdater, StartPatch
      <4> QED
        BY <4>2 DEF Linked, Written
    <3> QED
      BY <1>6, <3>1, <3>2, <3>3, <3>4
  <2> QED
    BY <2>2, <2>3, <2>4
<1> QED
  BY <1>1, <1>2, <1>3, <1>4, <1>5, <1>6, NoSwitches DEF Next, UserActs

(* Where one character is edited and no write is refused, a reload finds    *)
(* what the editor holds as committed, or the answer it is about to show.   *)
THEOREM ReloadFindsCommitted ==
  ASSUME PutMayFail = FALSE, Ops \cap SwitchOps = {}
  PROVE  Spec => []CommittedIsStored
<1>1. Init => CommittedKept
  BY DEF Init, Fresh, CommittedKept
<1>2. SInv /\ CommittedKept /\ [Next]_vars => CommittedKept'
  BY CommittedInv
<1>3. CommittedKept => CommittedIsStored
  BY DEF CommittedKept, CommittedIsStored, Written
<1>4. OneAtATime
  BY DEF OneAtATime
<1> QED
  BY <1>1, <1>2, <1>3, <1>4, SingleInvariance, PTL DEF Spec

-----------------------------------------------------------------------------
(* A landing.  What an answer makes of a character is what its body was     *)
(* made to do where a body carries one leaf, and where there is one field.  *)
(* With several leaves to a field and several fields it is false: two       *)
(* bodies for different fields are merged, and one of them may carry what   *)
(* the other was composed before (README, disagreements).                   *)
Flat == \A l, m \in Leaf : FieldOf[l] = FieldOf[m] => l = m

OneFieldOnly == \A l, m \in Leaf : FieldOf[l] = FieldOf[m]

(* The answer replaces the leaves of its body. *)
LEMMA LandedLeaf ==
  ASSUME IInv, PatchShown, NEW l \in Leaf
  PROVE  ch'.f[l] = IF l \in DOMAIN job.send.set THEN job.send.set[l] ELSE job.val.f[l]
<1>1. job.val \in Character
  BY PatchJob DEF PatchShown, At, IInv
<1>2. ch' = Applied(job.val, job.send)
  BY DEF PatchShown, Answer
<1> QED
  BY <1>1, <1>2 DEF Applied, Character

(* A patch computes on what is committed, as long as characters are not     *)
(* switched and writes not refused.                                         *)
ReadsCommitted ==
  job.kind = "patch" /\ job.pc # "read" => job.val.f = lastCommitted.f

LEMMA ReadsInv ==
  ASSUME Ops \cap SwitchOps = {}, SInv, CommittedKept, ReadsCommitted, [Next]_vars
  PROVE  ReadsCommitted'
<1> USE DEF SInv, IInv
<1>1. CASE PatchReads
  <2>1. CASE EndPatch
    BY <2>1 DEF EndPatch, NoJob, ReadsCommitted
  <2>2. CASE ~EndPatch
    <3>1. /\ job.kind = "patch" /\ job.pc = "read" /\ UNCHANGED lastCommitted
          /\ job'.val.f = store[job.id]
      BY <1>1, <2>2 DEF PatchReads, screen
    <3>2. ch # None
      BY <3>1 DEF Linked, NoJob
    <3> QED
      BY <3>1, <3>2 DEF ReadsCommitted, CommittedKept, Written, Single
  <2> QED
    BY <2>1, <2>2
<1>2. CASE \/ Shown \/ Undo \/ Redo \/ Reload
  <2>1. job'.kind # "patch" \/ job'.pc = "read"
    BY <1>2 DEF Shown, PatchShown, StartPatch, EndPatch, RestoreShown, EndRestore, Undo, Redo,
       StartRestore, Reload, NoJob
  <2> QED
    BY <2>1 DEF ReadsCommitted
<1>6. CASE RequestStep
  <2>1. /\ UNCHANGED lastCommitted
        /\ job.kind \in {"patch", "restore"} /\ job.pc # "read"
        /\ Ends \/ \E place \in Requested : Goes(place)
    BY <1>6, RequestMoves DEF screen, Requested
  <2>2. CASE Ends
    BY <2>2 DEF Ends, EndPatch, EndRestore, NoJob, ReadsCommitted
  <2>3. CASE \E place \in Requested : Goes(place)
    <3>1. job'.kind = job.kind /\ job'.val = job.val
      BY <2>1, <2>3, GoesOn
    <3> QED
      BY <2>1, <3>1 DEF ReadsCommitted
  <2> QED
    BY <2>1, <2>2, <2>3
<1>3. CASE \/ Commit \/ FileStep
           \/ \E l \in Leaf, v \in Val : Edit(l, v) \/ EditLater(l, v)
  <2>1. UNCHANGED lastCommitted
    BY <1>3 DEF Commit, FileStep, FileRead, Edit, EditLater, screen
  <2>2. (\E c, x : PatchBody(c, x)) \/ (\E c, x : PatchUpdater(c, x))
    BY <1>3 DEF Commit, FileStep, FileRead, Edit, EditLater
  <2>3. UNCHANGED job \/ job'.pc = "read"
    BY <2>2 DEF PatchBody, PatchUpdater, StartPatch
  <2> QED
    BY <2>1, <2>3 DEF ReadsCommitted
<1>4. CASE Boot
  <2>1. job = NoJob /\ UNCHANGED job
    BY <1>4 DEF Boot, work, Linked
  <2> QED
    BY <2>1 DEF ReadsCommitted, NoJob
<1>5. CASE \/ PickFile \/ ListAnswered \/ UNCHANGED vars
           \/ \E l \in Leaf, v \in Val : Draft(l, v)
  <2>1. UNCHANGED << job, lastCommitted >>
    BY <1>5 DEF PickFile, ListAnswered, vars, Draft, screen, work
  <2> QED
    BY <2>1 DEF ReadsCommitted
<1> QED
  BY <1>1, <1>2, <1>3, <1>4, <1>5, <1>6, NoSwitches DEF Next, UserActs

(* A body that carries what it means and nothing else. *)
PlainBody == {b \in Body : b.set = b.means}

Plainly ==
  /\ job.kind = "patch" => job.send \in PlainBody
  /\ inFlight # None => inFlight \in PlainBody
  /\ queued # None => queued \in PlainBody

LEMMA ComposeIsPlain ==
  ASSUME Flat, NEW c \in Character, NEW l \in Leaf, NEW v \in Val
  PROVE  Compose(c, l, v) \in PlainBody
<1>1. {m \in Leaf : FieldOf[m] = FieldOf[l]} = {l}
  BY DEF Flat
<1>2. Compose(c, l, v).set = [m \in {l} |-> v] /\ Compose(c, l, v).means = [m \in {l} |-> v]
  BY <1>1 DEF Compose
<1> QED
  BY <1>2, ComposeIsBody DEF PlainBody

(* Held or merged, plain bodies make a plain body. *)
LEMMA HeldIsPlain ==
  ASSUME TypeOK, Plainly, NEW body \in PlainBody
  PROVE  Held(body) \in PlainBody \cup {None}
<1> DEFINE previous == IF queued # None THEN queued ELSE inFlight
<1>1. previous # None => previous \in PlainBody
  BY DEF Plainly
<1>2. body \in Body /\ body.set = body.means
  BY DEF PlainBody
<1>3. ASSUME previous # None, AdvancesOneLeaf(previous, body)
      PROVE  Spread(body.means, previous.means) = body.means
  <2>1. DOMAIN previous.means = DOMAIN body.means
    BY <1>1, <1>2, <1>3 DEF AdvancesOneLeaf, PlainBody
  <2>2. PICK D \in SUBSET Leaf : body.means \in [D -> Val]
    BY <1>2 DEF Body, Setting
  <2> HIDE DEF previous
  <2> QED
    BY <2>1, <2>2 DEF Spread
<1>4. ASSUME previous # None, AdvancesOneLeaf(previous, body)
      PROVE  [body EXCEPT !.means = Spread(@, previous.means)] = body
  <2> DEFINE both == Spread(body.means, previous.means)
  <2>1. both = body.means
    BY <1>3, <1>4
  <2> HIDE DEF both
  <2>2. [body EXCEPT !.means = both] = body
    BY <1>2, <2>1 DEF Body
  <2> QED
    BY <2>2 DEF both
<1>5. queued # None => Merged(queued, body) \in PlainBody
  <2> SUFFICES ASSUME queued # None PROVE Merged(queued, body) \in PlainBody
    OBVIOUS
  <2>1. queued \in Body /\ queued.set = queued.means
    BY DEF Plainly, PlainBody
  <2>2. Merged(queued, body).set = Merged(queued, body).means
    BY <1>2, <2>1 DEF Merged
  <2> QED
    BY <1>2, <2>1, <2>2, MergedIsBody DEF PlainBody
<1>6. queued = None => Merged(queued, body) = body
  BY DEF Merged
<1>7. queued \in PlainBody \cup {None}
  BY DEF Plainly
<1> QED
  BY <1>4, <1>5, <1>6, <1>7 DEF Held

(* What patch makes of a plain body, and of an updater. *)
LEMMA PatchIsPlain ==
  ASSUME Flat, IInv, Plainly, ch # None,
         \/ \E c \in Character, body \in PlainBody : PatchBody(c, body)
         \/ \E c \in Character, u \in Updater : PatchUpdater(c, u)
  PROVE  Plainly'
<1> USE DEF IInv
<1>1. lastCommitted \in Character
  BY DEF Linked, ScreenOK
<1>2. CASE busy
  <2>1. UNCHANGED << job, inFlight >>
    BY <1>2 DEF PatchBody, PatchUpdater
  <2>2. queued' = queued \/ queued' \in PlainBody \cup {None}
    BY <1>2, HeldIsPlain, GroupsAreTypes DEF PatchBody, PatchUpdater
  <2> QED
    BY <2>1, <2>2 DEF Plainly
<1>3. CASE ~busy
  <2>1. PICK c \in Character, send \in PlainBody : StartPatch(c.id, send)
    BY <1>1, <1>3, ComposeIsPlain DEF PatchBody, PatchUpdater, Pending, Updater
  <2>2. job'.send = send /\ inFlight' = send /\ queued' = None
    BY <2>1 DEF StartPatch
  <2> QED
    BY <2>2 DEF Plainly
<1> QED
  BY <1>2, <1>3

LEMMA PlainInv ==
  ASSUME Flat, IInv, Plainly, [Next]_vars
  PROVE  Plainly'
<1> USE DEF IInv
<1>1. CASE EndPatch \/ Reload
  BY <1>1 DEF EndPatch, Reload, NoJob, Plainly
<1>2. CASE PatchReads
  <2>1. CASE ~EndPatch
    <3>1. job.kind = "patch" /\ job'.send = job.send /\ UNCHANGED << inFlight, queued >>
      BY <1>2, <2>1 DEF PatchReads
    <3> QED
      BY <3>1 DEF Plainly
  <2> QED
    BY <1>1, <2>1
<1>3. CASE PatchShown
  <2> DEFINE next == Answer
             body == NextBody(next)
  <2>1. next \in Character
    BY <1>3, AnswerIsCharacter DEF PatchShown, At
  <2>2. updaters # << >> => Head(updaters) \in Updater
    BY DEF WorkOK
  <2>3. body \in PlainBody \cup {None}
    BY <2>1, <2>2, ComposeIsPlain DEF NextBody, Pending, Updater, Plainly
  <2>4. EndPatch \/ (body # None /\ StartPatch(job.id, body))
    BY <1>3 DEF PatchShown
  <2> HIDE DEF body
  <2>5. CASE body # None /\ StartPatch(job.id, body)
    <3>1. job'.send = body /\ inFlight' = body /\ queued' = None
      BY <2>5 DEF StartPatch
    <3> QED
      BY <2>3, <2>5, <3>1 DEF Plainly
  <2> QED
    BY <1>1, <2>4, <2>5
<1>4. CASE RequestStep
  <2>1. /\ job.kind \in {"patch", "restore"} /\ job.pc # "read"
        /\ Ends \/ \E place \in Requested : Goes(place)
    BY <1>4, RequestMoves DEF Requested
  <2>2. CASE Ends
    <3>1. EndPatch \/ (job' = NoJob /\ UNCHANGED << inFlight, queued >>)
      BY <2>2 DEF Ends, EndRestore
    <3> QED
      BY <1>1, <3>1 DEF Plainly, NoJob
  <2>3. CASE \E place \in Requested : Goes(place)
    <3>1. /\ job'.kind = job.kind /\ UNCHANGED << inFlight, queued >>
          /\ job.kind = "patch" => job'.send = job.send
      BY <2>1, <2>3, GoesOn
    <3> QED
      BY <3>1 DEF Plainly
  <2> QED
    BY <2>1, <2>2, <2>3
<1>5. CASE \/ Commit \/ FileStep
           \/ \E l \in Leaf, v \in Val : Edit(l, v) \/ EditLater(l, v)
  <2>1. ch # None
    BY <1>5 DEF Commit, FileStep, FileRead, Edit, EditLater, Acts, Linked
  <2>2. ch \in Character
    BY <2>1 DEF ScreenOK
  <2>3. CASE FileStep
    <3>1. \E c \in Character, body \in PlainBody : PatchBody(c, body)
      BY <2>3, ComposeIsPlain DEF FileStep, FileRead, HandsOK
    <3> QED
      BY <2>1, <3>1, PatchIsPlain
  <2>4. CASE Commit
    <3>1. typing \in Leaf /\ PatchBody(ch, Compose(ch, typing, ch.f[typing]))
      BY <2>4 DEF Commit, HandsOK
    <3>2. ch.f[typing] \in Val
      BY <2>2, <3>1 DEF Character, Content
    <3> QED
      BY <2>1, <2>2, <3>1, <3>2, ComposeIsPlain, PatchIsPlain
  <2>5. CASE \E l \in Leaf, v \in Val : Edit(l, v)
    <3>1. \E body \in PlainBody : PatchBody(ch, body)
      BY <2>2, <2>5, ComposeIsPlain DEF Edit
    <3> QED
      BY <2>1, <2>2, <3>1, PatchIsPlain
  <2>6. CASE \E l \in Leaf, v \in Val : EditLater(l, v)
    <3> PICK l \in Leaf, v \in Val : EditLater(l, v)
      BY <2>6
    <3> DEFINE u == [leaf |-> l, v |-> v, for |-> ch.id]
    <3>1. u \in Updater
      BY <2>2 DEF Updater, Character
    <3>2. PatchUpdater(ch, u)
      BY DEF EditLater
    <3> HIDE DEF u
    <3> QED
      BY <2>1, <2>2, <3>1, <3>2, PatchIsPlain
  <2> QED
    BY <1>5, <2>3, <2>4, <2>5, <2>6
<1>6. CASE Undo \/ Redo \/ RestoreShown
  <2>1. job'.kind # "patch" /\ UNCHANGED << inFlight, queued >>
    BY <1>6 DEF Undo, Redo, StartRestore, RestoreShown, EndRestore, NoJob
  <2> QED
    BY <2>1 DEF Plainly
<1>7. CASE \/ Resume \/ PickFile \/ ListAnswered \/ Boot \/ UNCHANGED vars
           \/ \E l \in Leaf, v \in Val : Draft(l, v)
           \/ \E s \in Slot : \/ SwitchStep(s)
                              \/ \E i \in Id : OpenCharacter(s, i)
                              \/ NewCharacterAsked(s) \/ DuplicateCurrent(s)
                              \/ ImportFile(s) \/ DeleteCurrent(s)
  <2>1. UNCHANGED << job, inFlight, queued >>
    BY <1>7 DEF Resume, PickFile, ListAnswered, Boot, vars, Draft, SwitchStep, Removed,
       SwitchReads, SwitchAnswered, SwitchFails, SwitchForgotten, SwitchUploaded, OpenCharacter,
       NewCharacterAsked, DuplicateCurrent, ImportFile, DeleteCurrent, work
  <2> QED
    BY <2>1 DEF Plainly
<1> QED
  BY <1>1, <1>2, <1>3, <1>4, <1>5, <1>6, <1>7 DEF Next, UserActs, Shown

(* Where every leaf is a field of its own, a landing does what its edits    *)
(* were made to do and nothing else, whatever is typed, undone, reloaded or *)
(* comes late from a file meanwhile.                                        *)
THEOREM FlatLandingIsAsMeant ==
  ASSUME Flat, PutMayFail = FALSE, Ops \cap SwitchOps = {}
  PROVE  Spec => LandingIsAsMeant
<1>1. Init => CommittedKept /\ ReadsCommitted /\ Plainly
  BY DEF Init, Fresh, CommittedKept, ReadsCommitted, Plainly, NoJob
<1>2. SInv /\ CommittedKept /\ ReadsCommitted /\ [Next]_vars => CommittedKept' /\ ReadsCommitted'
  BY CommittedInv, ReadsInv
<1>3. SInv /\ Plainly /\ [Next]_vars => Plainly'
  BY PlainInv DEF SInv
<1> DEFINE Meant == \A l \in Leaf :
             IF l \in DOMAIN job.send.means THEN ch'.f[l] = job.send.means[l]
             ELSE ch'.f[l] \in {lastCommitted.f[l], ch.f[l]}
<1>4. SInv /\ ReadsCommitted /\ Plainly /\ [Next]_vars => [Landing => Meant]_vars
  <2> SUFFICES ASSUME SInv, ReadsCommitted, Plainly, [Next]_vars, Landing, NEW l \in Leaf
               PROVE  IF l \in DOMAIN job.send.means THEN ch'.f[l] = job.send.means[l]
                      ELSE ch'.f[l] \in {lastCommitted.f[l], ch.f[l]}
    OBVIOUS
  <2>1. IInv /\ PatchShown
    BY LandingIsShown DEF SInv
  <2>2. job.val.f = lastCommitted.f /\ job.send.set = job.send.means
    BY <2>1 DEF PatchShown, At, ReadsCommitted, Plainly, PlainBody
  <2> QED
    BY <2>1, <2>2, LandedLeaf
<1>5. OneAtATime
  BY DEF OneAtATime
<1> QED
  BY <1>1, <1>2, <1>3, <1>4, <1>5, SingleInvariance, PTL DEF Spec, LandingIsAsMeant

-----------------------------------------------------------------------------
(* A landing where there is one field: every body carries all leaves, so    *)
(* what is held replaces what is in flight as a whole.  It is right because *)
(* a body is held only if it is for the leaf the one before it was for.     *)
Changed(s, f) == {l \in Leaf : s[l] # f[l]}

(* On a character with f, the body does what it means and nothing else. *)
From(b, f) ==
  /\ b \in Body /\ b.set \in Content
  /\ \A l \in Leaf : b.set[l] = IF l \in DOMAIN b.means THEN b.means[l] ELSE f[l]

Sending(b, f) == From(b, f) /\ \E l \in Leaf : Changed(b.set, f) \subseteq {l}

(* Held behind b, a body is made for what b leaves, and for the same leaf. *)
Behind(q, b, f) ==
  /\ From(q, b.set)
  /\ \E l \in Leaf : Changed(q.set, f) = {l} /\ Changed(b.set, f) \subseteq {l}

Chained ==
  /\ ch = lastCommitted
  /\ typing = None /\ slow = None
  /\ job.kind = "patch" =>
       /\ inFlight = job.send
       /\ Sending(job.send, lastCommitted.f)
       /\ queued # None => Behind(queued, job.send, lastCommitted.f)

(* The body of a control that sets l: the whole character, for one leaf. *)
ForLeaf(b, f, l, v) ==
  /\ From(b, f)
  /\ \A k \in Leaf : b.set[k] = IF k = l THEN v ELSE f[k]
  /\ Changed(b.set, f) \subseteq {l}
  /\ f[l] # v => Changed(b.set, f) = {l}
  /\ b.means = [k \in {l} |-> v]

LEMMA ComposeSends ==
  ASSUME OneFieldOnly, NEW c \in Character, NEW l \in Leaf, NEW v \in Val
  PROVE  ForLeaf(Compose(c, l, v), c.f, l, v)
<1> DEFINE set == [k \in Leaf |-> IF k = l THEN v ELSE c.f[k]]
           means == [k \in {l} |-> v]
<1>1. {k \in Leaf : FieldOf[k] = FieldOf[l]} = Leaf
  BY DEF OneFieldOnly
<1>2. Compose(c, l, v) = [set |-> set, means |-> means]
  BY <1>1 DEF Compose
<1>3. set \in Content
  BY DEF Character, Content
<1>4. Compose(c, l, v) \in Body
  BY ComposeIsBody
<1>5. \A k \in Leaf : set[k] = IF k = l THEN v ELSE c.f[k]
  OBVIOUS
<1>6. DOMAIN means = {l} /\ means[l] = v
  OBVIOUS
<1>7. Compose(c, l, v).set = set /\ Compose(c, l, v).means = means
  BY <1>2
<1> HIDE DEF set, means
<1>8. From(Compose(c, l, v), c.f)
  BY <1>3, <1>4, <1>5, <1>6, <1>7 DEF From
<1>9. /\ Changed(set, c.f) \subseteq {l}
      /\ c.f[l] # v => Changed(set, c.f) = {l}
  BY <1>5 DEF Changed
<1> QED
  BY <1>5, <1>7, <1>8, <1>9 DEF means, ForLeaf

LEMMA ComposeIsSent ==
  ASSUME OneFieldOnly, NEW c \in Character, NEW l \in Leaf, NEW v \in Val
  PROVE  Sending(Compose(c, l, v), c.f)
BY ComposeSends DEF Sending, ForLeaf

(* A body is held only if it is for the leaf that changed before it: else   *)
(* the two would differ at both leaves.                                     *)
LEMMA HeldForTheSameLeaf ==
  ASSUME OneFieldOnly, NEW c \in Character, NEW l \in Leaf, NEW v \in Val, c.f[l] # v,
         NEW previous, NEW a \in Leaf, Changed(previous.set, c.f) \subseteq {a},
         AdvancesOneLeaf(previous, Compose(c, l, v))
  PROVE  Changed(previous.set, c.f) \subseteq {l}
<1> DEFINE body == Compose(c, l, v)
           S == {k \in DOMAIN body.set : previous.set[k] # body.set[k]}
<1>1. SUFFICES ASSUME a # l, previous.set[a] # c.f[a] PROVE FALSE
  BY DEF Changed
<1>2. ForLeaf(body, c.f, l, v)
  BY ComposeSends
<1>3. DOMAIN body.set = Leaf
  BY <1>2 DEF ForLeaf, From, Content
<1>4. Cardinality(S) < 2
  BY DEF AdvancesOneLeaf
<1> HIDE DEF body
<1>5. \A k \in Leaf : k # a => previous.set[k] = c.f[k]
  BY DEF Changed
<1>6. S = {l} \cup {a}
  BY <1>1, <1>2, <1>3, <1>5 DEF ForLeaf
<1> HIDE DEF S
<1>7. Cardinality({l} \cup {a}) = 2
  <2>1. IsFiniteSet({l}) /\ Cardinality({l}) = 1
    BY FS_Singleton
  <2>2. Cardinality({l} \cup {a}) = Cardinality({l}) + 1
    BY <1>1, <2>1, FS_AddElement
  <2> QED
    BY <2>1, <2>2
<1> QED
  BY <1>4, <1>6, <1>7

(* What is held behind the body in flight, once an edit was made. *)
LEMMA HeldIsBehind ==
  ASSUME OneFieldOnly, WorkOK, NEW c \in Character, NEW l \in Leaf, NEW v \in Val, c.f[l] # v,
         inFlight # None, Sending(inFlight, c.f),
         queued # None => Behind(queued, inFlight, c.f),
         NEW held, held = Held(Compose(c, l, v)), held # None
  PROVE  Behind(held, inFlight, c.f)
<1> DEFINE body == Compose(c, l, v)
           previous == IF queued # None THEN queued ELSE inFlight
           both == Spread(body.means, previous.means)
           covering == [body EXCEPT !.means = both]
<1>1. /\ From(body, c.f) /\ Changed(body.set, c.f) = {l}
      /\ \A k \in Leaf : body.set[k] = IF k = l THEN v ELSE c.f[k]
      /\ body.means = [k \in {l} |-> v]
  <2>1. ForLeaf(body, c.f, l, v)
    BY ComposeSends
  <2> HIDE DEF body
  <2> QED
    BY <2>1 DEF ForLeaf
<1>2. previous # None /\ previous \in Body /\ previous.set \in Content
  BY DEF Sending, Behind, From
<1>3. ~DisjointKeys(previous, body)
  <2>1. l \in DOMAIN previous.set /\ l \in DOMAIN body.set
    BY <1>1, <1>2 DEF From, Content
  <2>2. FieldOf[l] \in Fields(previous) /\ FieldOf[l] \in Fields(body)
    BY <2>1 DEF Fields
  <2> QED
    BY <2>2 DEF DisjointKeys
<1>4. held = IF AdvancesOneLeaf(previous, body) THEN covering ELSE queued
  BY <1>2, <1>3 DEF Held
<1>5. CASE ~AdvancesOneLeaf(previous, body)
  BY <1>4, <1>5
<1>6. CASE AdvancesOneLeaf(previous, body)
  <2>1. PICK a \in Leaf : /\ Changed(previous.set, c.f) \subseteq {a}
                          /\ Changed(inFlight.set, c.f) \subseteq {a}
                          /\ queued # None => Changed(previous.set, c.f) = {a}
    BY DEF Sending, Behind
  <2>2. Changed(previous.set, c.f) \subseteq {l}
    BY <1>6, <2>1, HeldForTheSameLeaf
  <2>3. Changed(inFlight.set, c.f) \subseteq {l}
    BY <2>1, <2>2
  <2>4. \A k \in Leaf : k # l => previous.set[k] = c.f[k] /\ inFlight.set[k] = c.f[k]
    BY <2>2, <2>3 DEF Changed
  <2>5. \A k \in Leaf : k \in DOMAIN previous.means => previous.means[k] = previous.set[k]
    BY DEF Sending, Behind, From
  <2> HIDE DEF previous, body
  <2>6. both \in Setting
    BY <1>1, <1>2, SpreadIsSetting DEF From, Body
  <2>7. /\ DOMAIN both = {l} \cup DOMAIN previous.means
        /\ both[l] = v
        /\ \A k \in DOMAIN previous.means : k # l => both[k] = previous.means[k]
    BY <1>1 DEF Spread
  <2> HIDE DEF both
  <2>8. body \in Body /\ body.set \in Content
    BY <1>1 DEF From
  <2>9. covering \in Body /\ covering.set = body.set /\ covering.means = both
    BY <2>6, <2>8 DEF Body
  <2> HIDE DEF covering
  <2>10. \A k \in Leaf : body.set[k] = IF k \in DOMAIN both THEN both[k] ELSE inFlight.set[k]
    BY <1>1, <2>4, <2>5, <2>7
  <2>11. From(covering, inFlight.set)
    BY <2>8, <2>9, <2>10 DEF From
  <2> QED
    BY <1>1, <1>4, <1>6, <2>3, <2>9, <2>11 DEF Behind
<1> QED
  BY <1>5, <1>6

(* The answer makes the character what the body in flight says. *)
LEMMA LandedSet ==
  ASSUME IInv, Chained, PatchShown
  PROVE  ch'.f = job.send.set /\ lastCommitted' = ch' /\ ch' \in Character
<1> USE DEF IInv
<1>1. ch' = Applied(job.val, job.send) /\ lastCommitted' = ch'
  BY DEF PatchShown, Answer
<1>2. job.val \in Character /\ job.send \in Body
  BY PatchJob DEF PatchShown, At
<1>3. ch' \in Character
  BY <1>1, <1>2, AppliedIsCharacter
<1>4. job.send.set \in Content
  BY DEF Chained, Sending, From, PatchShown
<1>5. \A l \in Leaf : ch'.f[l] = job.send.set[l]
  BY <1>4, LandedLeaf DEF Content
<1>6. ch'.f \in Content
  BY <1>3 DEF Character
<1>7. ch'.f = job.send.set
  BY <1>4, <1>5, <1>6 DEF Content
<1> QED
  BY <1>1, <1>3, <1>7

(* What was held is sent to the character it was made for. *)
LEMMA BehindIsSent ==
  ASSUME NEW q, NEW b, NEW f, Behind(q, b, f)
  PROVE  Sending(q, b.set)
<1>1. PICK l \in Leaf : Changed(q.set, f) = {l} /\ Changed(b.set, f) \subseteq {l}
  BY DEF Behind
<1>2. Changed(q.set, b.set) \subseteq {l}
  BY <1>1 DEF Changed
<1> QED
  BY <1>2 DEF Behind, Sending

(* A control or an updater that calls patch. *)
LEMMA ChainedPatches ==
  ASSUME OneFieldOnly, IInv, Holding, Chained, ch # None, NEW l \in Leaf, NEW v \in Val,
         \/ ch.f[l] # v /\ PatchBody(ch, Compose(ch, l, v))
         \/ \E i \in Id : PatchUpdater(ch, [leaf |-> l, v |-> v, for |-> i]),
         UNCHANGED << ch, lastCommitted, typing, slow >>
  PROVE  Chained'
<1> USE DEF IInv
<1>1. ch \in Character /\ lastCommitted = ch
  BY DEF ScreenOK, Chained
<1> DEFINE body == Compose(ch, l, v)
<1>2. body \in Body /\ body # None
  BY <1>1, ComposeIsBody, EditorAssumption
<1>3. Sending(body, ch.f)
  BY <1>1, ComposeIsSent
<1>4. CASE ~busy
  <2>1. StartPatch(ch.id, body)
    BY <1>1, <1>4 DEF PatchBody, PatchUpdater, Pending
  <2> HIDE DEF body
  <2>2. job'.send = body /\ inFlight' = body /\ queued' = None
    BY <2>1 DEF StartPatch
  <2> QED
    BY <1>1, <1>3, <2>2 DEF Chained
<1>5. CASE busy /\ job.kind = "restore"
  <2>1. inFlight = None /\ queued = None
    BY <1>5 DEF Holding
  <2>2. UNCHANGED job
    BY <1>5 DEF PatchBody, PatchUpdater
  <2> QED
    BY <1>5, <2>2 DEF Chained
<1>6. CASE busy /\ job.kind = "patch"
  <2>1. UNCHANGED << job, inFlight >> /\ (UNCHANGED queued \/ queued' = Held(body))
    BY <1>6 DEF PatchBody, PatchUpdater
  <2>2. CASE UNCHANGED queued
    BY <1>6, <2>1, <2>2 DEF Chained
  <2>3. CASE ~UNCHANGED queued
    <3>1. queued' = Held(body) /\ ch.f[l] # v
      BY <1>6, <2>1, <2>3 DEF PatchBody, PatchUpdater
    <3>2. inFlight = job.send /\ inFlight \in Body
      BY <1>6, PatchJob DEF Chained
    <3>3. inFlight # None
      BY <3>2, EditorAssumption
    <3>4. Sending(inFlight, ch.f) /\ (queued # None => Behind(queued, inFlight, ch.f))
      BY <1>1, <1>6, <3>2 DEF Chained
    <3>5. queued' # None => Behind(queued', inFlight, ch.f)
      BY <1>1, <3>1, <3>3, <3>4, HeldIsBehind
    <3> QED
      BY <1>1, <1>6, <2>1, <3>2, <3>4, <3>5 DEF Chained
  <2> QED
    BY <2>2, <2>3
<1> QED
  BY <1>4, <1>5, <1>6, JobKinds

LEMMA ChainedAnswers ==
  ASSUME OneFieldOnly, IInv, Chained, PatchShown
  PROVE  Chained'
<1> USE DEF IInv
<1> DEFINE next == Answer
           body == NextBody(next)
<1>1. /\ ch' = next /\ lastCommitted' = next /\ UNCHANGED << typing, slow >>
      /\ IF body # None THEN StartPatch(job.id, body) ELSE EndPatch
  BY DEF PatchShown, hands
<1>2. next \in Character /\ next.f = job.send.set
  BY <1>1, LandedSet
<1>3. updaters # << >> => Head(updaters) \in Updater
  BY DEF WorkOK
<1>4. body # None => Sending(body, next.f)
  <2>1. CASE queued # None
    <3>1. Behind(queued, job.send, lastCommitted.f)
      BY <2>1 DEF Chained, PatchShown
    <3> QED
      BY <1>2, <2>1, <3>1, BehindIsSent DEF NextBody
  <2>2. CASE queued = None
    BY <1>2, <1>3, <2>2, ComposeIsSent DEF NextBody, Pending, Updater
  <2> QED
    BY <2>1, <2>2
<1> HIDE DEF body, next
<1>5. CASE body # None
  <2>1. job'.send = body /\ inFlight' = body /\ queued' = None
    BY <1>1, <1>5 DEF StartPatch
  <2> QED
    BY <1>1, <1>4, <1>5, <2>1 DEF Chained
<1>6. CASE body = None
  <2>1. job' = NoJob
    BY <1>1, <1>6 DEF EndPatch
  <2> QED
    BY <1>1, <2>1 DEF Chained, NoJob
<1> QED
  BY <1>5, <1>6

(* Every step, where no control is typed in or waits for a file. *)
LEMMA ChainedInv ==
  ASSUME OneFieldOnly, Ops \cap {"draft", "file"} = {}, IInv, Holding, Chained, [Next]_vars
  PROVE  Chained'
<1> USE DEF IInv
<1>1. ~PickFile /\ ~Commit /\ ~FileStep /\ \A l \in Leaf, v \in Val : ~Draft(l, v)
  BY DEF PickFile, Draft, Acts, Commit, FileStep, FileRead, Chained
<1>2. CASE PatchReads \/ RequestStep
  <2>1. UNCHANGED << ch, lastCommitted, typing, slow >>
    BY <1>2, RequestMoves DEF PatchReads, screen, hands
  <2>2. CASE EndPatch \/ EndRestore
    BY <2>1, <2>2 DEF EndPatch, EndRestore, NoJob, Chained
  <2>3. CASE PatchReads /\ ~EndPatch
    <3>1. job.kind = "patch" /\ job'.send = job.send /\ UNCHANGED << inFlight, queued >>
      BY <2>3 DEF PatchReads
    <3> QED
      BY <2>1, <3>1 DEF Chained
  <2>4. CASE RequestStep /\ \E place \in Requested : Goes(place)
    <3>1. job.kind \in {"patch", "restore"} /\ job.pc # "read"
      BY <2>4, RequestMoves DEF Requested
    <3>2. /\ job'.kind = job.kind /\ UNCHANGED << inFlight, queued >>
          /\ job.kind = "patch" => job'.send = job.send
      BY <2>4, <3>1, GoesOn
    <3> QED
      BY <2>1, <3>2 DEF Chained
  <2>5. RequestStep => \/ EndPatch \/ EndRestore
                       \/ \E place \in Requested : Goes(place)
    BY RequestMoves DEF Ends, Requested
  <2> QED
    BY <1>2, <2>2, <2>3, <2>4, <2>5
<1>3. CASE PatchShown
  BY <1>3, ChainedAnswers
<1>4. CASE \E l \in Leaf, v \in Val : Edit(l, v) \/ EditLater(l, v)
  <2> PICK l \in Leaf, v \in Val : Edit(l, v) \/ EditLater(l, v)
    BY <1>4
  <2>1. ch # None /\ UNCHANGED << ch, lastCommitted, typing, slow >>
    BY DEF Edit, EditLater, Acts, screen, hands
  <2>2. ch.id \in Id
    BY <2>1 DEF ScreenOK, Character
  <2>3. \/ ch.f[l] # v /\ PatchBody(ch, Compose(ch, l, v))
        \/ \E i \in Id : PatchUpdater(ch, [leaf |-> l, v |-> v, for |-> i])
    BY <2>2 DEF Edit, EditLater
  <2> QED
    BY <2>1, <2>3, ChainedPatches
<1>5. CASE Undo \/ Redo \/ RestoreShown
  <2>1. job'.kind # "patch" /\ UNCHANGED << typing, slow >>
    BY <1>5 DEF Undo, Redo, StartRestore, RestoreShown, EndRestore, NoJob, hands
  <2>2. ch' = lastCommitted'
    BY <1>5 DEF Undo, Redo, RestoreShown, Chained
  <2> QED
    BY <2>1, <2>2 DEF Chained
<1>6. CASE Reload
  BY <1>6 DEF Reload, Chained, NoJob
<1>7. CASE Boot
  <2>1. job = NoJob /\ UNCHANGED << job, typing, slow >> /\ lastCommitted' = ch'
    BY <1>7 DEF Boot, work, hands, Linked
  <2> QED
    BY <2>1 DEF Chained, NoJob
<1>8. CASE Resume \/ \E s \in Slot : SwitchStep(s)
  <2>1. UNCHANGED << job, inFlight, queued, typing, slow >>
    BY <1>8 DEF Resume, SwitchStep, Removed, SwitchReads, SwitchAnswered, SwitchFails,
       SwitchForgotten, SwitchUploaded, work, hands
  <2>2. UNCHANGED << ch, lastCommitted >> \/ (~busy /\ ch' = lastCommitted')
    <3>1. CASE Resume
      BY <3>1 DEF Resume, Show, Linked, screen
    <3>2. CASE \E s \in Slot : SwitchStep(s)
      BY <3>2 DEF SwitchStep, Removed, SwitchReads, SwitchAnswered, SwitchFails, SwitchForgotten,
         SwitchUploaded, Remember, Show, screen
    <3> QED
      BY <1>8, <3>1, <3>2
  <2>3. ~busy => job.kind # "patch"
    BY DEF Linked
  <2> QED
    BY <2>1, <2>2, <2>3 DEF Chained
<1>9. CASE \/ ListAnswered \/ UNCHANGED vars
           \/ \E s \in Slot : \/ \E i \in Id : OpenCharacter(s, i)
                              \/ NewCharacterAsked(s) \/ DuplicateCurrent(s)
                              \/ ImportFile(s) \/ DeleteCurrent(s)
  <2>1. UNCHANGED << job, inFlight, queued, ch, lastCommitted, typing, slow >>
    BY <1>9 DEF ListAnswered, vars, OpenCharacter, NewCharacterAsked, DuplicateCurrent,
       ImportFile, DeleteCurrent, work, screen, hands
  <2> QED
    BY <2>1 DEF Chained
<1> QED
  BY <1>1, <1>2, <1>3, <1>4, <1>5, <1>6, <1>7, <1>8, <1>9 DEF Next, UserActs, Shown

(* Where there is one field, however many leaves it has, a landing does     *)
(* what its edits were made to do and nothing else, whatever is undone,     *)
(* switched, reloaded or refused meanwhile.                                 *)
THEOREM OneFieldLandingIsAsMeant ==
  ASSUME OneFieldOnly, Ops \cap {"draft", "file"} = {}
  PROVE  Spec => LandingIsAsMeant
<1>1. Init => Holding /\ Chained
  BY DEF Init, Fresh, Holding, Chained, NoJob
<1>2. IInv /\ Holding /\ Chained /\ [Next]_vars => Holding' /\ Chained'
  BY HoldingStep, ChainedInv
<1> DEFINE Meant == \A l \in Leaf :
             IF l \in DOMAIN job.send.means THEN ch'.f[l] = job.send.means[l]
             ELSE ch'.f[l] \in {lastCommitted.f[l], ch.f[l]}
<1>3. IInv /\ Chained /\ [Next]_vars => [Landing => Meant]_vars
  <2> SUFFICES ASSUME IInv, Chained, [Next]_vars, Landing, NEW l \in Leaf
               PROVE  IF l \in DOMAIN job.send.means THEN ch'.f[l] = job.send.means[l]
                      ELSE ch'.f[l] \in {lastCommitted.f[l], ch.f[l]}
    OBVIOUS
  <2>1. PatchShown
    BY LandingIsShown
  <2>2. ch'.f = job.send.set /\ From(job.send, lastCommitted.f)
    BY <2>1, LandedSet DEF Chained, Sending, PatchShown
  <2> QED
    BY <2>2 DEF From
<1> QED
  BY <1>1, <1>2, <1>3, Invariance, PTL DEF Spec, LandingIsAsMeant

-----------------------------------------------------------------------------
(* Requests are shown in their order.  Those that were answered while the   *)
(* editor was busy wait in a line, and none may be asked for, answered and  *)
(* shown past them.  It holds where there is no undo: a restore leaves the  *)
(* line standing in an idle editor.                                         *)
Waiting == {"wait", "confirm", "remember"}

Remembers(t) == t.pc = "remember" /\ t.request # 0

(* The line q of tasks t, n being shown. *)
InOrder(q, t, n) ==
  \A j \in 1 .. Len(q) :
    /\ t[q[j]].pc \in Waiting
    /\ Remembers(t[q[j]]) => n <= t[q[j]].request
    /\ \A k \in 1 .. Len(q) : j < k =>
         /\ q[j] # q[k]
         /\ Remembers(t[q[j]]) /\ Remembers(t[q[k]]) => t[q[j]].request <= t[q[k]].request

TaskFunction == [Slot -> {NoTask} \cup Going]

(* A switch that is not in line moves. *)
LEMMA OrderAlone ==
  ASSUME NEW q \in Seq(Slot), NEW t \in TaskFunction, NEW n, InOrder(q, t, n),
         NEW s \in Slot, t[s].pc \notin Waiting, NEW u
  PROVE  InOrder(q, [t EXCEPT ![s] = u], n)
<1>1. \A j \in 1 .. Len(q) : q[j] \in Slot /\ q[j] # s
  BY DEF InOrder
<1>2. \A j \in 1 .. Len(q) : [t EXCEPT ![s] = u][q[j]] = t[q[j]]
  BY <1>1 DEF TaskFunction
<1> QED
  BY <1>2 DEF InOrder

(* A switch joins the line: it is not older than those in it. *)
LEMMA OrderGrows ==
  ASSUME NEW q \in Seq(Slot), NEW t \in TaskFunction, NEW n \in Nat, InOrder(q, t, n),
         NEW s \in Slot, t[s].pc \notin Waiting, NEW u \in Going, u.pc \in Waiting,
         Remembers(u) => /\ n <= u.request
                         /\ \A i \in Slot : Remembers(t[i]) => t[i].request <= u.request
  PROVE  InOrder(Append(q, s), [t EXCEPT ![s] = u], n)
<1> DEFINE p == Append(q, s)
           w == [t EXCEPT ![s] = u]
<1>1. /\ Len(q) \in Nat /\ Len(p) = Len(q) + 1 /\ p[Len(q) + 1] = s
      /\ \A j \in 1 .. Len(q) : p[j] = q[j] /\ q[j] \in Slot
  OBVIOUS
<1>2. \A j \in 1 .. Len(q) : q[j] # s
  BY DEF InOrder
<1>3. w[s] = u /\ \A j \in 1 .. Len(q) : w[p[j]] = t[q[j]] /\ p[j] # s
  BY <1>1, <1>2 DEF TaskFunction
<1>4. \A j \in 1 .. Len(q) : Remembers(u) /\ Remembers(t[q[j]]) => t[q[j]].request <= u.request
  BY <1>1
<1> HIDE DEF p, w
<1>5. ASSUME NEW j \in 1 .. Len(p)
      PROVE  /\ w[p[j]].pc \in Waiting
             /\ Remembers(w[p[j]]) => n <= w[p[j]].request
             /\ \A k \in 1 .. Len(p) : j < k =>
                  /\ p[j] # p[k]
                  /\ Remembers(w[p[j]]) /\ Remembers(w[p[k]])
                       => w[p[j]].request <= w[p[k]].request
  <2>1. CASE j = Len(q) + 1
    BY <1>1, <1>3, <2>1
  <2>2. CASE j \in 1 .. Len(q)
    <3>1. \A k \in 1 .. Len(p) : k = Len(q) + 1 \/ k \in 1 .. Len(q)
      BY <1>1
    <3> QED
      BY <1>1, <1>3, <1>4, <2>2, <3>1 DEF InOrder
  <2> QED
    BY <1>1, <2>1, <2>2
<1> QED
  BY <1>5 DEF InOrder, p, w

(* The first in line goes on, and what it shows is not newer than the rest. *)
LEMMA OrderShrinks ==
  ASSUME NEW q \in Seq(Slot), NEW t \in TaskFunction, NEW n, InOrder(q, t, n), q # << >>,
         NEW u, NEW m, m = n \/ (Remembers(t[Head(q)]) /\ m = t[Head(q)].request)
  PROVE  InOrder(Tail(q), [t EXCEPT ![Head(q)] = u], m)
<1> DEFINE p == Tail(q)
           w == [t EXCEPT ![Head(q)] = u]
<1>1. /\ Len(q) \in Nat \ {0} /\ Len(p) = Len(q) - 1 /\ Head(q) = q[1]
      /\ \A j \in 1 .. Len(p) : p[j] = q[j + 1]
      /\ \A j \in 1 .. Len(q) : q[j] \in Slot
  OBVIOUS
<1>2. \A j \in 1 .. Len(p) : /\ j + 1 \in 1 .. Len(q) /\ 1 \in 1 .. Len(q) /\ 1 < j + 1
  BY <1>1
<1>3. \A j \in 1 .. Len(p) : p[j] # Head(q)
  BY <1>1, <1>2 DEF InOrder
<1>4. \A j \in 1 .. Len(p) : w[p[j]] = t[q[j + 1]]
  BY <1>1, <1>2, <1>3 DEF TaskFunction
<1>5. \A j \in 1 .. Len(p) : Remembers(t[q[j + 1]]) => m <= t[q[j + 1]].request
  BY <1>1, <1>2 DEF InOrder
<1>6. \A j, k \in 1 .. Len(p) : j < k => j + 1 < k + 1
  BY <1>1
<1> HIDE DEF p, w
<1>7. ASSUME NEW j \in 1 .. Len(p)
      PROVE  /\ w[p[j]].pc \in Waiting
             /\ Remembers(w[p[j]]) => m <= w[p[j]].request
             /\ \A k \in 1 .. Len(p) : j < k =>
                  /\ p[j] # p[k]
                  /\ Remembers(w[p[j]]) /\ Remembers(w[p[k]])
                       => w[p[j]].request <= w[p[k]].request
  <2>1. w[p[j]].pc \in Waiting
    BY <1>2, <1>4 DEF InOrder
  <2>2. Remembers(w[p[j]]) => m <= w[p[j]].request
    BY <1>4, <1>5
  <2>3. ASSUME NEW k \in 1 .. Len(p), j < k
        PROVE  /\ p[j] # p[k]
               /\ Remembers(w[p[j]]) /\ Remembers(w[p[k]])
                    => w[p[j]].request <= w[p[k]].request
    <3>1. /\ q[j + 1] # q[k + 1]
          /\ Remembers(t[q[j + 1]]) /\ Remembers(t[q[k + 1]])
               => t[q[j + 1]].request <= t[q[k + 1]].request
      BY <1>2, <1>6, <2>3 DEF InOrder
    <3>2. p[j] = q[j + 1] /\ p[k] = q[k + 1]
      BY <1>1
    <3>3. w[p[j]] = t[q[j + 1]] /\ w[p[k]] = t[q[k + 1]]
      BY <1>4
    <3> QED
      BY <3>1, <3>2, <3>3
  <2> QED
    BY <2>1, <2>2, <2>3
<1> QED
  BY <1>7 DEF InOrder, p, w

Lined ==
  /\ job.kind # "restore"
  /\ ~busy => waiters = << >>
  /\ InOrder(waiters, task, shownBy)
  /\ InOrder(ready, task, shownBy)
  /\ shownBy <= transition
  /\ \A s \in Slot : task[s] # NoTask => task[s].request <= transition

(* What a step in `Lined' starts from. *)
LEMMA LinedTypes ==
  ASSUME IInv
  PROVE  /\ task \in TaskFunction /\ waiters \in Seq(Slot) /\ ready \in Seq(Slot)
         /\ shownBy \in Nat /\ transition \in Nat
         /\ \A s \in Slot : task[s] # NoTask => task[s].request \in Nat
<1>1. FitTask \subseteq Going
  BY DEF FitTask
<1>2. task \in TaskFunction
  BY <1>1 DEF IInv, SwitchOK, TasksOK, TaskFunction
<1>3. \A s \in Slot : task[s] # NoTask => task[s].request \in Nat
  BY <1>2 DEF TaskFunction, Going
<1> QED
  BY <1>2, <1>3 DEF IInv, SwitchOK

(* A switch that is not in line moves, and the line stands. *)
LEMMA LinedMoves ==
  ASSUME IInv, Lined, NEW s \in Slot, NEW u, task[s].pc \notin Waiting,
         task' = [task EXCEPT ![s] = u],
         u = NoTask \/ u.request <= transition',
         transition' \in Nat, transition <= transition',
         UNCHANGED << busy, job, waiters, ready, shownBy >>
  PROVE  Lined'
<1>1. InOrder(waiters, task', shownBy) /\ InOrder(ready, task', shownBy)
  BY LinedTypes, OrderAlone DEF Lined
<1>2. shownBy <= transition'
  BY LinedTypes DEF Lined
<1>3. \A i \in Slot : task'[i] # NoTask => task'[i].request <= transition'
  <2> SUFFICES ASSUME NEW i \in Slot, task'[i] # NoTask PROVE task'[i].request <= transition'
    OBVIOUS
  <2>1. CASE i = s
    BY <2>1, LinedTypes DEF TaskFunction
  <2>2. CASE i # s
    BY <2>2, LinedTypes DEF TaskFunction, Lined
  <2> QED
    BY <2>1, <2>2
<1> QED
  BY <1>1, <1>2, <1>3 DEF Lined

(* A switch joins the line of the busy editor. *)
LEMMA LinedGrows ==
  ASSUME IInv, Lined, busy, ready = << >>,
         NEW s \in Slot, NEW u \in Going, task[s].pc \notin Waiting, u.pc \in Waiting,
         task' = [task EXCEPT ![s] = u], waiters' = Append(waiters, s),
         u.request <= transition', transition' \in Nat, transition <= transition',
         Remembers(u) => u.request = transition,
         UNCHANGED << busy, job, ready, shownBy >>
  PROVE  Lined'
<1>1. shownBy <= transition'
  BY LinedTypes DEF Lined
<1>2. Remembers(u) => /\ shownBy <= u.request
                      /\ \A i \in Slot : Remembers(task[i]) => task[i].request <= u.request
  BY DEF Lined, Remembers, NoTask
<1>3. InOrder(waiters', task', shownBy')
  BY <1>2, LinedTypes, OrderGrows DEF Lined
<1>4. InOrder(ready', task', shownBy')
  <2>1. 1 .. Len(ready') = {}
    OBVIOUS
  <2> QED
    BY <2>1 DEF InOrder
<1>5. \A i \in Slot : task'[i] # NoTask => task'[i].request <= transition'
  <2> SUFFICES ASSUME NEW i \in Slot, task'[i] # NoTask PROVE task'[i].request <= transition'
    OBVIOUS
  <2>1. CASE i = s
    BY <2>1, LinedTypes DEF TaskFunction
  <2>2. CASE i # s
    BY <2>2, LinedTypes DEF TaskFunction, Lined
  <2> QED
    BY <2>1, <2>2
<1> QED
  BY <1>1, <1>3, <1>4, <1>5 DEF Lined

(* A character is shown by a request that is not older than the last shown, *)
(* in an editor that is idle.                                               *)
LEMMA LinedShows ==
  ASSUME IInv, Lined, ~busy, NEW s \in Slot, NEW c, task[s] # NoTask, Show(s, c),
         UNCHANGED << busy, job, waiters, transition >>,
         \/ ready = << >> /\ ready' = << >>
              /\ (task[s].request # 0 => task[s].request = transition)
         \/ /\ ready # << >> /\ s = Head(ready) /\ ready' = Tail(ready)
            /\ task[s].pc = "remember"
  PROVE  Lined' /\ shownBy <= shownBy'
<1> DEFINE m == IF task[s].request = 0 THEN shownBy ELSE task[s].request
<1>1. shownBy' = m /\ task' = [task EXCEPT ![s] = NoTask]
  BY DEF Show
<1>2. task[s].request \in Nat /\ task[s].request <= transition
  BY LinedTypes DEF Lined
<1>3. waiters' = << >>
  BY DEF Lined
<1>4. shownBy <= m /\ m <= transition /\ InOrder(ready', task', m)
  <2>1. CASE ready = << >>
    <3>1. ready' = << >> /\ (task[s].request # 0 => task[s].request = transition)
      BY <2>1
    <3>2. 1 .. Len(ready') = {}
      BY <3>1
    <3>3. shownBy <= m /\ m <= transition
      BY <1>2, <3>1, LinedTypes DEF Lined
    <3> QED
      BY <3>2, <3>3 DEF InOrder
  <2>2. CASE ready # << >>
    <3>1. s = Head(ready) /\ ready' = Tail(ready) /\ task[s].pc = "remember"
      BY <2>2
    <3>2. InOrder(ready, task, shownBy)
      BY DEF Lined
    <3>3. 1 \in 1 .. Len(ready) /\ Head(ready) = ready[1]
      BY <2>2, LinedTypes
    <3>4. Remembers(task[s]) => shownBy <= task[s].request
      BY <3>1, <3>2, <3>3 DEF InOrder
    <3>5. shownBy <= m /\ m <= transition
      BY <1>2, <3>1, <3>4, LinedTypes DEF Remembers, Lined
    <3>6. m = shownBy \/ (Remembers(task[Head(ready)]) /\ m = task[Head(ready)].request)
      BY <3>1 DEF Remembers
    <3> HIDE DEF m
    <3>7. InOrder(Tail(ready), [task EXCEPT ![Head(ready)] = NoTask], m)
      BY <2>2, <3>2, <3>6, LinedTypes, OrderShrinks
    <3> QED
      BY <1>1, <3>1, <3>5, <3>7
  <2> QED
    BY <2>1, <2>2
<1> HIDE DEF m
<1>5. InOrder(waiters', task', m)
  <2>1. 1 .. Len(waiters') = {}
    BY <1>3
  <2> QED
    BY <2>1 DEF InOrder
<1>6. \A i \in Slot : task'[i] # NoTask => task'[i].request <= transition'
  <2> SUFFICES ASSUME NEW i \in Slot, task'[i] # NoTask PROVE task'[i].request <= transition'
    OBVIOUS
  <2>1. i # s
    BY <1>1, LinedTypes DEF TaskFunction
  <2> QED
    BY <1>1, <2>1, LinedTypes DEF TaskFunction, Lined
<1> QED
  BY <1>1, <1>3, <1>4, <1>5, <1>6 DEF Lined

(* A patch starts, goes on or ends: those in line are let go as they stand. *)
LEMMA LinedWorks ==
  ASSUME IInv, Lined, UNCHANGED << task, shownBy, transition >>, job'.kind # "restore",
         \/ EndPatch /\ ready = << >>
         \/ UNCHANGED << waiters, ready >> /\ (busy' \/ ~busy)
  PROVE  Lined'
<1>1. CASE EndPatch /\ ready = << >>
  <2>1. ready' = waiters /\ waiters' = << >>
    BY <1>1, LinedTypes DEF EndPatch
  <2>2. 1 .. Len(waiters') = {}
    BY <2>1
  <2>3. InOrder(waiters', task', shownBy')
    BY <2>2 DEF InOrder
  <2> QED
    BY <2>1, <2>3 DEF Lined
<1>2. CASE UNCHANGED << waiters, ready >> /\ (busy' \/ ~busy)
  BY <1>2 DEF Lined
<1> QED
  BY <1>1, <1>2

(* An open, or a new, takes the next number. *)
LEMMA LinedAsks ==
  ASSUME IInv, Lined, Quiet, NEW s \in Slot, NEW t \in Going, Ask(s, t),
         task[s].pc \notin Waiting, UNCHANGED << busy, job, ready, shownBy >>
  PROVE  Lined'
<1> DEFINE pc == IF busy THEN "wait" ELSE IF Opens(t) THEN "read" ELSE "ask"
           u == [t EXCEPT !.request = transition + 1, !.pc = pc]
<1>1. /\ transition' = transition + 1 /\ task' = [task EXCEPT ![s] = u]
      /\ waiters' = IF busy THEN Append(waiters, s) ELSE waiters
  BY DEF Ask
<1>2. transition + 1 \in Nat /\ transition <= transition + 1
  BY LinedTypes
<1>3. u \in Going /\ u.request = transition + 1 /\ u.pc = pc
  BY <1>2 DEF Going
<1>4. pc \in {"wait", "read", "ask"} /\ (busy => pc = "wait")
  OBVIOUS
<1> HIDE DEF u, pc
<1>5. CASE busy
  <2>1. u.pc \in Waiting /\ (Remembers(u) => u.request = transition)
    BY <1>3, <1>4, <1>5 DEF Waiting, Remembers
  <2>2. u.request <= transition' /\ transition' \in Nat /\ transition <= transition'
    BY <1>1, <1>2, <1>3
  <2>3. ready = << >> /\ waiters' = Append(waiters, s) /\ task' = [task EXCEPT ![s] = u]
    BY <1>1, <1>5 DEF Quiet
  <2>4. UNCHANGED << busy, job, ready, shownBy >>
    OBVIOUS
  <2> QED
    BY <1>3, <1>5, <2>1, <2>2, <2>3, <2>4, LinedGrows
<1>6. CASE ~busy
  <2>1. u.request <= transition' /\ transition' \in Nat /\ transition <= transition'
    BY <1>1, <1>2, <1>3
  <2>2. UNCHANGED << busy, job, waiters, ready, shownBy >> /\ task' = [task EXCEPT ![s] = u]
    BY <1>1, <1>6
  <2> QED
    BY <2>1, <2>2, LinedMoves
<1> QED
  BY <1>5, <1>6

(* The user asks for a switch. *)
LEMMA LinedUser ==
  ASSUME IInv, Lined, NEW s \in Slot, NEW i \in Id,
         \/ OpenCharacter(s, i) \/ NewCharacterAsked(s) \/ DuplicateCurrent(s)
         \/ ImportFile(s) \/ DeleteCurrent(s)
  PROVE  Lined' /\ UNCHANGED shownBy
<1>1. Quiet /\ task[s] = NoTask /\ ch \in Character /\ UNCHANGED << busy, job, ready, shownBy >>
  BY DEF IInv, ScreenOK, OpenCharacter, NewCharacterAsked, DuplicateCurrent, ImportFile,
     DeleteCurrent, Acts, Free, work
<1>2. task[s].pc \notin Waiting
  BY <1>1 DEF NoTask, Waiting
<1>7. ASSUME NEW u \in Going, task' = [task EXCEPT ![s] = u], u.request = 0,
             UNCHANGED transition,
             \/ UNCHANGED waiters
             \/ busy /\ u.pc = "confirm" /\ waiters' = Append(waiters, s)
      PROVE  Lined'
  <2>1. u.request <= transition' /\ transition' \in Nat /\ transition <= transition'
    BY <1>7, LinedTypes
  <2>2. CASE UNCHANGED waiters
    <3>1. UNCHANGED << busy, job, waiters, ready, shownBy >> /\ task' = [task EXCEPT ![s] = u]
      BY <1>1, <1>7, <2>2
    <3> QED
      BY <1>2, <2>1, <3>1, LinedMoves
  <2>3. CASE busy /\ u.pc = "confirm" /\ waiters' = Append(waiters, s)
    <3>1. u.pc \in Waiting /\ (Remembers(u) => u.request = transition)
      BY <2>3 DEF Waiting, Remembers
    <3>2. busy /\ ready = << >> /\ task' = [task EXCEPT ![s] = u] /\ waiters' = Append(waiters, s)
      BY <1>1, <1>7, <2>3 DEF Quiet
    <3>3. UNCHANGED << busy, job, ready, shownBy >>
      BY <1>1
    <3> QED
      BY <1>2, <1>7, <2>1, <3>1, <3>2, <3>3, LinedGrows
  <2> QED
    BY <1>7, <2>2, <2>3
<1>3. CASE OpenCharacter(s, i) \/ NewCharacterAsked(s)
  <2>1. PICK op \in {"open", "new"}, j \in Id \cup {None} : Ask(s, Call(op, j))
    BY <1>3 DEF OpenCharacter, NewCharacterAsked
  <2>2. Call(op, j) \in Going
    BY CallIsGoing
  <2> QED
    BY <1>1, <1>2, <2>1, <2>2, LinedAsks
<1>4. CASE DuplicateCurrent(s)
  <2> DEFINE u == [Call("dup", None) EXCEPT !.of = ch, !.pc = IF busy THEN "confirm" ELSE "ask"]
  <2>1. /\ task' = [task EXCEPT ![s] = u] /\ UNCHANGED transition
        /\ waiters' = IF busy THEN Append(waiters, s) ELSE waiters
    BY <1>4 DEF DuplicateCurrent
  <2>2. u \in Going /\ u.request = 0 /\ (busy => u.pc = "confirm")
    BY <1>1 DEF Call, Going
  <2> HIDE DEF u
  <2> QED
    BY <1>1, <1>7, <2>1, <2>2
<1>5. CASE ImportFile(s)
  <2> DEFINE u == [Call("import", None) EXCEPT !.pc = "ask"]
  <2>1. task' = [task EXCEPT ![s] = u] /\ UNCHANGED << transition, waiters >>
    BY <1>5 DEF ImportFile
  <2>2. u \in Going /\ u.request = 0
    BY DEF Call, Going
  <2> HIDE DEF u
  <2> QED
    BY <1>1, <1>7, <2>1, <2>2
<1>6. CASE DeleteCurrent(s)
  <2> DEFINE t == [Call("delete", None) EXCEPT
                     !.of = ch, !.others = roster \ {ch.id}, !.pc = "confirm"]
             u == [t EXCEPT !.pc = "removing"]
  <2>1. /\ UNCHANGED transition
        /\ IF busy THEN task' = [task EXCEPT ![s] = t] /\ waiters' = Append(waiters, s)
                   ELSE task' = [task EXCEPT ![s] = u] /\ UNCHANGED waiters
    BY <1>6 DEF DeleteCurrent, Remove
  <2>2. t \in Going /\ t.request = 0 /\ t.pc = "confirm"
    BY <1>1 DEF Call, Going, IInv, ListOK
  <2>3. u \in Going /\ u.request = 0
    BY <2>2 DEF Going
  <2> HIDE DEF t, u
  <2> QED
    BY <1>1, <1>7, <2>1, <2>2, <2>3
<1> QED
  BY <1>1, <1>3, <1>4, <1>5, <1>6

(* A switch in flight goes on. *)
LEMMA LinedSwitches ==
  ASSUME IInv, Lined, NEW s \in Slot, SwitchStep(s)
  PROVE  Lined' /\ shownBy <= shownBy'
<1>1. /\ task[s] \in Going /\ task[s] # NoTask /\ Quiet
      /\ UNCHANGED << busy, job, ready >>
  BY UnderWay DEF IInv, SwitchOK, SwitchStep, Removed, SwitchReads, SwitchAnswered, SwitchFails,
     SwitchForgotten, SwitchUploaded, work
<1>2. task[s].pc \notin Waiting
  BY DEF SwitchStep, Removed, SwitchReads, SwitchAnswered, SwitchFails, SwitchForgotten,
     SwitchUploaded, Waiting
<1>3. task[s].request \in Nat /\ task[s].request <= transition
  BY <1>1, LinedTypes DEF Lined
<1>4. shownBy <= shownBy
  BY LinedTypes
<1>5. CASE Removed(s)
  <2>1. UNCHANGED shownBy
    BY <1>5 DEF Removed
  <2>2. \A i \in task[s].others : [task[s] EXCEPT !.target = i] \in Going
    BY <1>1 DEF Going
  <2>3. \E t \in Going : Ask(s, t)
    BY <1>1, <1>5, <2>2 DEF Removed
  <2> QED
    BY <1>1, <1>2, <1>4, <2>1, <2>3, LinedAsks
<1>6. ASSUME NEW u, task' = [task EXCEPT ![s] = u], u = NoTask \/ u.request = task[s].request,
             UNCHANGED << waiters, transition, shownBy >>
      PROVE  Lined' /\ shownBy <= shownBy'
  <2>1. u = NoTask \/ u.request <= transition'
    BY <1>3, <1>6
  <2>2. transition' \in Nat /\ transition <= transition'
    BY <1>6, LinedTypes
  <2>3. UNCHANGED << busy, job, waiters, ready, shownBy >> /\ task' = [task EXCEPT ![s] = u]
    BY <1>1, <1>6
  <2>4. Lined'
    BY <1>2, <2>1, <2>2, <2>3, LinedMoves
  <2> QED
    BY <1>4, <2>3, <2>4
<1>7. CASE SwitchReads(s)
  <2>1. UNCHANGED << waiters, transition, shownBy >>
    BY <1>7 DEF SwitchReads
  <2>2. CASE store[task[s].target] \in NoRecord
    <3>1. task' = [task EXCEPT ![s] = NoTask]
      BY <1>7, <2>2 DEF SwitchReads, Done
    <3> QED
      BY <1>6, <2>1, <3>1
  <2>3. CASE store[task[s].target] \notin NoRecord
    <3> DEFINE c == [id |-> task[s].target, f |-> store[task[s].target]]
               u == [task[s] EXCEPT !.pc = "ask", !.val = c]
    <3>1. task' = [task EXCEPT ![s].pc = "ask", ![s].val = c]
      BY <1>7, <2>3 DEF SwitchReads
    <3>2. task' = [task EXCEPT ![s] = u]
      BY <3>1, LinedTypes DEF TaskFunction
    <3>3. u.request = task[s].request
      BY <1>1 DEF Going
    <3> HIDE DEF u
    <3> QED
      BY <1>6, <2>1, <3>2, <3>3
  <2> QED
    BY <2>2, <2>3
<1>8. CASE SwitchFails(s)
  <2>1. UNCHANGED << waiters, transition, shownBy >> /\ task' = [task EXCEPT ![s] = NoTask]
    BY <1>8 DEF SwitchFails, Done
  <2> QED
    BY <1>6, <2>1
<1>9. CASE SwitchAnswered(s)
  <2>1. PICK c \in Answers(task[s]) :
          IF Superseded(task[s]) THEN Done(s) /\ UNCHANGED << waiters, shownBy >>
                                 ELSE Remember(s, c)
    BY <1>9 DEF SwitchAnswered
  <2>2. UNCHANGED transition /\ c \in Character
    <3>1. Fit(task[s]) /\ task[s].pc \in {"ask", "retry"}
      BY <1>9, UnderWay DEF SwitchAnswered, IInv, SwitchOK
    <3> QED
      BY <1>1, <1>9, <3>1, AnswersAreCharacters DEF SwitchAnswered
  <2>3. CASE Superseded(task[s])
    <3>1. UNCHANGED << waiters, shownBy >> /\ task' = [task EXCEPT ![s] = NoTask]
      BY <2>1, <2>3 DEF Done
    <3> QED
      BY <1>6, <2>2, <3>1
  <2>4. CASE ~Superseded(task[s]) /\ busy
    <3> DEFINE u == [task[s] EXCEPT !.pc = "remember", !.val = c]
    <3>1. /\ task' = [task EXCEPT ![s].pc = "remember", ![s].val = c]
          /\ waiters' = Append(waiters, s) /\ UNCHANGED shownBy
      BY <2>1, <2>4 DEF Remember
    <3>2. task' = [task EXCEPT ![s] = u]
      BY <3>1, LinedTypes DEF TaskFunction
    <3>3. u \in Going /\ u.request = task[s].request /\ u.pc = "remember"
      BY <1>1, <2>2 DEF Going
    <3> HIDE DEF u
    <3>4. Remembers(u) => u.request = transition
      BY <2>4, <3>3 DEF Superseded, Remembers
    <3>5. u.pc \in Waiting
      BY <3>3 DEF Waiting
    <3>6. u.request <= transition' /\ transition' \in Nat /\ transition <= transition'
      BY <1>3, <2>2, <3>3, LinedTypes
    <3>7. Lined'
      BY <1>1, <1>2, <2>4, <3>1, <3>2, <3>3, <3>4, <3>5, <3>6, LinedGrows DEF Quiet
    <3> QED
      BY <1>4, <3>1, <3>7
  <2>5. CASE ~Superseded(task[s]) /\ ~busy
    <3>1. Show(s, c) /\ UNCHANGED waiters
      BY <2>1, <2>5 DEF Remember
    <3> QED
      BY <1>1, <2>2, <2>5, <3>1, LinedShows DEF Quiet, Superseded
  <2> QED
    BY <2>3, <2>4, <2>5
<1>10. CASE SwitchForgotten(s) \/ SwitchUploaded(s)
  <2>1. PICK pc \in {"upload", "retry"} :
          UNCHANGED << waiters, transition, shownBy >> /\ task' = [task EXCEPT ![s].pc = pc]
    BY <1>10 DEF SwitchForgotten, SwitchUploaded
  <2> DEFINE u == [task[s] EXCEPT !.pc = pc]
  <2>2. task' = [task EXCEPT ![s] = u]
    BY <2>1
  <2>3. u.request = task[s].request
    BY <1>1 DEF Going
  <2> HIDE DEF u
  <2> QED
    BY <1>6, <2>1, <2>2, <2>3
<1> QED
  BY <1>5, <1>7, <1>8, <1>9, <1>10 DEF SwitchStep

(* The first of those let go: it shows what it holds, or goes on. *)
LEMMA LinedResumes ==
  ASSUME IInv, Lined, Resume
  PROVE  Lined' /\ shownBy <= shownBy'
<1> DEFINE s == Head(ready)
<1>1. /\ ready # << >> /\ ready' = Tail(ready)
      /\ UNCHANGED << busy, job, waiters, transition >>
  BY DEF Resume, work
<1>2. s \in Slot
  BY <1>1, LinedTypes
<1>3. ~busy
  BY <1>1 DEF IInv, Linked
<1>4. task[s].pc \in Waiting
  BY DEF Resume, Waiting
<1>5. task[s] # NoTask
  BY <1>4 DEF Waiting, NoTask
<1>6. CASE task[s].pc = "remember"
  <2>1. Show(s, task[s].val)
    BY <1>6 DEF Resume
  <2> QED
    BY <1>1, <1>2, <1>3, <1>5, <1>6, <2>1, LinedShows
<1>7. CASE task[s].pc # "remember"
  <2>1. PICK pc \in {"read", "ask", "removing"} : task' = [task EXCEPT ![s] = [task[s] EXCEPT !.pc = pc]]
    <3>1. CASE task[s].pc = "wait"
      <4> DEFINE pc == IF Opens(task[s]) THEN "read" ELSE "ask"
      <4>1. task' = [task EXCEPT ![s].pc = pc]
        BY <3>1 DEF Resume
      <4>2. pc \in {"read", "ask", "removing"}
        OBVIOUS
      <4> HIDE DEF pc
      <4>3. task' = [task EXCEPT ![s] = [task[s] EXCEPT !.pc = pc]]
        BY <4>1
      <4> QED
        BY <4>2, <4>3
    <3>2. CASE task[s].pc = "confirm"
      <4>1. \/ task' = [task EXCEPT ![s].pc = "ask"]
            \/ Remove(s, task[s])
        BY <3>2 DEF Resume
      <4>2. \/ task' = [task EXCEPT ![s] = [task[s] EXCEPT !.pc = "ask"]]
            \/ task' = [task EXCEPT ![s] = [task[s] EXCEPT !.pc = "removing"]]
        BY <4>1 DEF Remove
      <4> QED
        BY <4>2
    <3> QED
      BY <1>4, <1>7, <3>1, <3>2 DEF Waiting
  <2> DEFINE u == [task[s] EXCEPT !.pc = pc]
  <2>2. UNCHANGED shownBy
    BY <1>7 DEF Resume
  <2>3. u.request = task[s].request
    BY <1>2, <1>5, LinedTypes DEF TaskFunction, Going
  <2>4. task' = [task EXCEPT ![s] = u]
    BY <2>1
  <2> HIDE DEF u
  <2>5. InOrder(ready', task', shownBy')
    BY <1>1, <2>2, <2>4, LinedTypes, OrderShrinks DEF Lined
  <2>6. waiters' = << >>
    BY <1>1, <1>3 DEF Lined
  <2>7. InOrder(waiters', task', shownBy')
    <3>1. 1 .. Len(waiters') = {}
      BY <2>6
    <3> QED
      BY <3>1 DEF InOrder
  <2>8. \A i \in Slot : task'[i] # NoTask => task'[i].request <= transition'
    <3> SUFFICES ASSUME NEW i \in Slot, task'[i] # NoTask PROVE task'[i].request <= transition'
      OBVIOUS
    <3>1. CASE i = s
      BY <1>1, <1>5, <2>3, <2>4, <3>1, LinedTypes DEF TaskFunction, Lined
    <3>2. CASE i # s
      BY <1>1, <2>4, <3>2, LinedTypes DEF TaskFunction, Lined
    <3> QED
      BY <3>1, <3>2
  <2> QED
    BY <1>1, <2>2, <2>5, <2>6, <2>7, <2>8, LinedTypes DEF Lined
<1> QED
  BY <1>6, <1>7

(* Every step keeps the line, and the screen never steps back in it. *)
LEMMA LinedInv ==
  ASSUME "undo" \notin Ops, IInv, Lined, [Next]_vars
  PROVE  Lined' /\ (ch' = None \/ shownBy <= shownBy')
<1>0. shownBy <= shownBy
  BY LinedTypes
<1>1. ~Undo /\ ~Redo /\ ~RestoreShown
  BY DEF Undo, Redo, Acts, RestoreShown, Lined
<1>2. CASE PatchReads \/ RequestStep \/ PatchShown
  <2>1. UNCHANGED << task, shownBy, transition >> /\ ready = << >> /\ job.kind = "patch" /\ busy
    BY <1>2, RequestMoves DEF PatchReads, PatchShown, At, Quiet, IInv, Linked, Lined
  <2>2. EndPatch => job'.kind # "restore"
    BY DEF EndPatch, NoJob
  <2>3. CASE PatchReads
    <3>1. EndPatch \/ (job'.kind = "patch" /\ UNCHANGED << waiters, ready, busy >>)
      BY <2>3 DEF PatchReads
    <3> QED
      BY <1>0, <2>1, <2>2, <3>1, LinedWorks
  <2>4. CASE PatchShown
    <3>1. \/ EndPatch
          \/ \E c, b : StartPatch(c, b) /\ UNCHANGED << waiters, ready >>
      BY <2>4 DEF PatchShown
    <3>2. EndPatch \/ (job'.kind = "patch" /\ busy' /\ UNCHANGED << waiters, ready >>)
      BY <3>1 DEF StartPatch
    <3> QED
      BY <1>0, <2>1, <2>2, <3>2, LinedWorks
  <2>5. CASE RequestStep
    <3>1. job.pc # "read" /\ (EndPatch \/ \E place \in Requested : Goes(place))
      BY <2>1, <2>5, RequestMoves DEF IInv, Ends, Requested
    <3>2. EndPatch \/ (job'.kind = "patch" /\ UNCHANGED << waiters, ready, busy >>)
      BY <2>1, <3>1, GoesOn DEF IInv
    <3> QED
      BY <1>0, <2>1, <2>2, <3>2, LinedWorks
  <2> QED
    BY <1>2, <2>3, <2>4, <2>5
<1>3. CASE \/ Commit \/ FileStep
           \/ \E l \in Leaf, v \in Val : Edit(l, v) \/ EditLater(l, v)
  <2>1. \E c, x : PatchBody(c, x) \/ PatchUpdater(c, x)
    BY <1>3 DEF Commit, FileStep, FileRead, Edit, EditLater
  <2>2. UNCHANGED << waiters, ready, task, shownBy, transition >>
    BY <1>3 DEF Commit, FileStep, FileRead, Edit, EditLater, switching
  <2>3. job'.kind # "restore" /\ (busy' \/ ~busy)
    BY <2>1 DEF PatchBody, PatchUpdater, StartPatch, Lined
  <2> QED
    BY <1>0, <2>2, <2>3, LinedWorks
<1>4. CASE Resume
  BY <1>4, LinedResumes
<1>5. CASE \E s \in Slot : SwitchStep(s)
  BY <1>5, LinedSwitches
<1>6. CASE \E s \in Slot : \/ \E i \in Id : OpenCharacter(s, i)
                           \/ NewCharacterAsked(s) \/ DuplicateCurrent(s)
                           \/ ImportFile(s) \/ DeleteCurrent(s)
  <2>1. ch \in Character
    BY <1>6, ActsAreCounted
       DEF IInv, ScreenOK, OpenCharacter, NewCharacterAsked, DuplicateCurrent, ImportFile,
           DeleteCurrent
  <2>2. ch.id \in Id
    BY <2>1 DEF Character
  <2> QED
    BY <1>0, <1>6, <2>2, LinedUser
<1>7. CASE Reload
  <2>1. /\ ch' = None /\ job' = NoJob /\ waiters' = << >> /\ ready' = << >>
        /\ shownBy' = 0 /\ transition' = 0 /\ task' = [s \in Slot |-> NoTask]
    BY <1>7 DEF Reload
  <2>2. 1 .. Len(waiters') = {} /\ 1 .. Len(ready') = {}
    BY <2>1
  <2>3. InOrder(waiters', task', shownBy') /\ InOrder(ready', task', shownBy')
    BY <2>2 DEF InOrder
  <2> QED
    BY <2>1, <2>3 DEF Lined, NoJob
<1>8. CASE \/ PickFile \/ ListAnswered \/ Boot \/ UNCHANGED vars
           \/ \E l \in Leaf, v \in Val : Draft(l, v)
  <2>1. UNCHANGED << busy, job, waiters, ready, task, shownBy, transition >>
    BY <1>8 DEF PickFile, ListAnswered, Boot, vars, Draft, work, switching
  <2> QED
    BY <1>0, <2>1 DEF Lined
<1> QED
  BY <1>1, <1>2, <1>3, <1>4, <1>5, <1>6, <1>7, <1>8 DEF Next, UserActs, Shown

(* At first nobody is in line. *)
LEMMA LinedAtFirst == Init => Lined
<1> SUFFICES ASSUME Init PROVE Lined
  OBVIOUS
<1>1. /\ job = NoJob /\ waiters = << >> /\ ready = << >> /\ shownBy = 0 /\ transition = 0
      /\ task = [s \in Slot |-> NoTask]
  BY DEF Init, Fresh
<1>2. 1 .. Len(waiters) = {} /\ 1 .. Len(ready) = {}
  BY <1>1
<1>3. InOrder(waiters, task, shownBy) /\ InOrder(ready, task, shownBy)
  BY <1>2 DEF InOrder
<1> QED
  BY <1>1, <1>3 DEF Lined, NoJob

(* Without undo, a switch that waits for the editor waits for a commit: in  *)
(* an idle editor nobody is left waiting.                                   *)
THEOREM NobodyIsStranded ==
  ASSUME "undo" \notin Ops
  PROVE  Spec => []NobodyWaitsWhenIdle
<1>1. IInv /\ Lined /\ [Next]_vars => Lined'
  BY LinedInv
<1>2. Lined => NobodyWaitsWhenIdle
  BY DEF Lined, NobodyWaitsWhenIdle
<1> QED
  BY <1>1, <1>2, LinedAtFirst, Invariance, PTL DEF Spec

(* Without undo, an open or a new never appears on top of one that was      *)
(* asked for later, however late its answer and however long it waited for  *)
(* an editor that was busy.                                                 *)
THEOREM RequestsShowInOrder ==
  ASSUME "undo" \notin Ops
  PROVE  Spec => ShownNeverOlder
<1>1. IInv /\ Lined /\ [Next]_vars => Lined'
  BY LinedInv
<1>2. IInv /\ IInv' /\ Lined /\ [Next]_vars => [ch' = None \/ shownBy' >= shownBy]_vars
  <2> SUFFICES ASSUME IInv, IInv', Lined, [Next]_vars, ch' # None PROVE shownBy' >= shownBy
    OBVIOUS
  <2>1. shownBy <= shownBy' /\ shownBy \in Nat /\ shownBy' \in Nat
    BY LinedInv DEF IInv, SwitchOK
  <2> QED
    BY <2>1
<1> QED
  BY <1>1, <1>2, LinedAtFirst, Invariance, PTL DEF Spec, ShownNeverOlder
=============================================================================
