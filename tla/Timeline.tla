------------------------------ MODULE Timeline ------------------------------
(***************************************************************************)
(* What an undo/redo history promises: a line of versions and a cursor on  *)
(* it.  An edit cuts the line after the cursor and adds to it, keeping     *)
(* MAX_DEPTH versions behind; undo and redo only move the cursor.  The     *)
(* version moved to is shown once it has been recomputed.                  *)
(***************************************************************************)
EXTENDS Naturals, Sequences

CONSTANTS Snapshot, MAX_DEPTH

VARIABLES tape,       \* the versions, oldest first
          at,         \* the cursor
          shown,      \* the version in the editor
          moving      \* the version at the cursor is being recomputed

vars == << tape, at, shown, moving >>

Init ==
  /\ shown \in Snapshot
  /\ tape = << shown >>
  /\ at = 1
  /\ moving = FALSE

(* The versions an edit keeps behind the new one. *)
Kept ==
  IF at > MAX_DEPTH THEN SubSeq(tape, 2, at) ELSE SubSeq(tape, 1, at)

Edit(s) ==
  /\ ~moving
  /\ tape' = Append(Kept, s)
  /\ at' = Len(Kept) + 1
  /\ shown' = s
  /\ UNCHANGED moving

Move(to) ==
  /\ ~moving
  /\ to \in 1 .. Len(tape)
  /\ at' = to
  /\ moving' = TRUE
  /\ UNCHANGED << tape, shown >>

Arrive ==
  /\ moving
  /\ shown' = tape[at]
  /\ moving' = FALSE
  /\ UNCHANGED << tape, at >>

(* A version that could not be recomputed is lost: the one still shown      *)
(* takes its place on the line.                                             *)
ArriveFailed ==
  /\ moving
  /\ tape' = [tape EXCEPT ![at] = shown]
  /\ moving' = FALSE
  /\ UNCHANGED << at, shown >>

Restart(s) ==
  /\ ~moving
  /\ tape' = << s >>
  /\ at' = 1
  /\ shown' = s
  /\ UNCHANGED moving

Next ==
  \/ \E s \in Snapshot : Edit(s) \/ Restart(s)
  \/ \E to \in {at - 1, at + 1} : Move(to)
  \/ Arrive
  \/ ArriveFailed

Spec == Init /\ [][Next]_vars

=============================================================================
