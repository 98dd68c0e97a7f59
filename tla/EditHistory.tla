---------------------------- MODULE EditHistory ----------------------------
(***************************************************************************)
(* The undo/redo stacks of the character editor                            *)
(* (frontend/lib/character/history.ts), as operators on a record           *)
(* [undo, redo] of snapshot sequences.  Used by the History specification  *)
(* and by the whole editor, CharacterEditor.                               *)
(***************************************************************************)
EXTENDS Naturals, Sequences

CONSTANT MAX_DEPTH    \* snapshots the undo stack keeps (50 in the code)

ASSUME MaxDepthAssumption == MAX_DEPTH \in Nat \ {0}

NoHistory == [undo |-> << >>, redo |-> << >>]

Top(s) == s[Len(s)]

Pop(s) == SubSeq(s, 1, Len(s) - 1)

\* Mutant of Record: the redo stack survives a new edit.
RecordKeepsRedo(h, snapshot) ==
  LET pushed == Append(h.undo, snapshot)
  IN  [undo |-> IF Len(pushed) > MAX_DEPTH THEN Tail(pushed) ELSE pushed,
       redo |-> h.redo]

\* Mutant of Record: the cap compares with the stack as it was.
RecordCapsLate(h, snapshot) ==
  [undo |-> IF Len(h.undo) > MAX_DEPTH
            THEN Tail(Append(h.undo, snapshot)) ELSE Append(h.undo, snapshot),
   redo |-> << >>]

(* record(snapshot): push, drop the oldest beyond MAX_DEPTH, fork the redo. *)
Record(h, snapshot) ==
  LET pushed == Append(h.undo, snapshot)
  IN  [undo |-> IF Len(pushed) > MAX_DEPTH THEN Tail(pushed) ELSE pushed,
       redo |-> << >>]

CanStepBack(h) == h.undo # << >>

CanStepForward(h) == h.redo # << >>

(* stepBack(current): the snapshot restored is Top(h.undo). *)
StepBack(h, current) == [undo |-> Pop(h.undo), redo |-> Append(h.redo, current)]

(* stepForward(current): the snapshot restored is Top(h.redo). *)
StepForward(h, current) == [undo |-> Append(h.undo, current), redo |-> Pop(h.redo)]

=============================================================================
