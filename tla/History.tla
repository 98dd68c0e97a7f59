------------------------------ MODULE History ------------------------------
(***************************************************************************)
(* The editor's history as one character is edited, undone and redone:     *)
(* the stacks of history.ts driven by patch, undo, redo, restoreSnapshot   *)
(* and remember of useCharacterEditor.ts.                                  *)
(*                                                                         *)
(* A step back pops its stack at once and the snapshot it took goes        *)
(* through the compute service; `restoring' is that snapshot on its way.   *)
(* The answer may be an error, and nothing puts the stacks back then.      *)
(***************************************************************************)
EXTENDS EditHistory

CONSTANT Snapshot,    \* the states a character can be in
         None         \* no snapshot is being restored

ASSUME NoneAssumption == None \notin Snapshot

VARIABLES hist,       \* history.ts: the two stacks
          current,    \* useCharacterEditor.ts: lastCommitted, the one shown
          restoring   \* the snapshot sent to api.compute, or None

vars == << hist, current, restoring >>

TypeOK ==
  /\ hist \in [undo : Seq(Snapshot), redo : Seq(Snapshot)]
  /\ current \in Snapshot
  /\ restoring \in Snapshot \cup {None}

Init ==
  /\ hist = NoHistory
  /\ current \in Snapshot
  /\ restoring = None

-----------------------------------------------------------------------------

(* A patch that was answered.  It cannot overlap a restore: both hold busy. *)
Edit(next) ==
  /\ restoring = None
  /\ hist' = Record(hist, current)
  /\ current' = next
  /\ UNCHANGED restoring

Undo ==
  /\ restoring = None
  /\ CanStepBack(hist)
  /\ restoring' = Top(hist.undo)
  /\ hist' = StepBack(hist, current)
  /\ UNCHANGED current

Redo ==
  /\ restoring = None
  /\ CanStepForward(hist)
  /\ restoring' = Top(hist.redo)
  /\ hist' = StepForward(hist, current)
  /\ UNCHANGED current

Restored ==
  /\ restoring # None
  /\ current' = restoring
  /\ restoring' = None
  /\ UNCHANGED hist

RestoreFailed ==
  /\ restoring # None
  /\ restoring' = None
  /\ UNCHANGED << hist, current >>

(* remember(c): a character switch waits for idle and drops all history. *)
Remember(c) ==
  /\ restoring = None
  /\ current' = c
  /\ hist' = NoHistory
  /\ UNCHANGED restoring

Next ==
  \/ \E s \in Snapshot : Edit(s) \/ Remember(s)
  \/ Undo
  \/ Redo
  \/ Restored
  \/ RestoreFailed

Spec == Init /\ [][Next]_vars

-----------------------------------------------------------------------------

(* Undo and redo together never hold more than MAX_DEPTH snapshots.  Only   *)
(* record() caps a stack; stepForward() pushes on undo without looking, and *)
(* is right to because every step back freed the place it pushes to.        *)
DepthBound == Len(hist.undo) + Len(hist.redo) <= MAX_DEPTH

(* The refinement mapping: the undo stack, the version being shown or       *)
(* stepped to, and the redo stack upside down are one line of versions.     *)
Present == IF restoring = None THEN current ELSE restoring

Line(past, present, future) ==
  [i \in 1 .. (Len(past) + 1 + Len(future)) |->
     IF i <= Len(past) THEN past[i]
     ELSE IF i = Len(past) + 1 THEN present
     ELSE future[Len(future) + Len(past) + 2 - i]]

Tape == Line(hist.undo, Present, hist.redo)

T == INSTANCE Timeline WITH
       tape <- Tape, at <- Len(hist.undo) + 1,
       shown <- current, moving <- (restoring # None)

(* The stacks behave as a line of versions with a cursor on it.             *)
IsTimeline == T!Spec

=============================================================================
