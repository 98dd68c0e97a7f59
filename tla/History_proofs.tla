--------------------------- MODULE History_proofs ---------------------------
(***************************************************************************)
(* Proofs about History for every depth and every set of snapshots: the    *)
(* stacks stay well typed and bounded, and they implement Timeline.        *)
(***************************************************************************)
EXTENDS History, SequenceTheorems, TLAPS

USE MaxDepthAssumption, NoneAssumption

Stacks == [undo : Seq(Snapshot), redo : Seq(Snapshot)]

(* Popping a non-empty stack takes its last element off and leaves the rest *)
(* alone: stepBack and stepForward in history.ts.                           *)
LEMMA PopProperties ==
  ASSUME NEW s \in Seq(Snapshot), s # << >>
  PROVE  /\ Pop(s) \in Seq(Snapshot)
         /\ Len(Pop(s)) = Len(s) - 1
         /\ Len(s) \in Nat \ {0}
         /\ Top(s) \in Snapshot
         /\ \A i \in 1 .. Len(s) - 1 : Pop(s)[i] = s[i]
<1>1. Len(s) \in Nat \ {0}
  BY EmptySeq
<1> DEFINE n == Len(s) - 1
<1>2. /\ Pop(s) \in Seq(Snapshot)
      /\ Len(Pop(s)) = n
      /\ \A i \in 1 .. n : Pop(s)[i] = s[i]
  <2>1. /\ 1 \in Int
        /\ n \in Int
        /\ \A i \in 1 .. n : s[i] \in Snapshot
    BY <1>1
  <2> HIDE DEF n
  <2>2. /\ SubSeq(s, 1, n) \in Seq(Snapshot)
        /\ Len(SubSeq(s, 1, n)) = IF 1 <= n THEN n - 1 + 1 ELSE 0
        /\ \A i \in 1 .. (n - 1 + 1) : SubSeq(s, 1, n)[i] = s[1 + i - 1]
    BY <2>1, SubSeqProperties
  <2>3. n \in Nat
    BY <1>1 DEF n
  <2>4. Len(SubSeq(s, 1, n)) = n
    BY <2>2, <2>3
  <2>5. \A i \in 1 .. n : SubSeq(s, 1, n)[i] = s[i]
    BY <2>2, <2>3
  <2>6. Pop(s) = SubSeq(s, 1, n)
    BY DEF Pop, n
  <2> QED  BY <2>2, <2>4, <2>5, <2>6
<1>3. Top(s) \in Snapshot
  BY <1>1 DEF Top
<1> QED  BY <1>1, <1>2, <1>3

(* An edit leaves at most MAX_DEPTH snapshots and nothing to redo.          *)
LEMMA RecordProperties ==
  ASSUME NEW h \in Stacks, NEW s \in Snapshot
  PROVE  /\ Record(h, s) \in Stacks
         /\ Record(h, s).redo = << >>
         /\ Len(h.undo) <= MAX_DEPTH => Len(Record(h, s).undo) <= MAX_DEPTH
<1> DEFINE pushed == Append(h.undo, s)
<1>1. /\ pushed \in Seq(Snapshot)
      /\ Len(pushed) = Len(h.undo) + 1
      /\ Len(h.undo) \in Nat
  BY DEF Stacks
<1>2. /\ pushed # << >>
      /\ Tail(pushed) \in Seq(Snapshot)
      /\ Len(Tail(pushed)) = Len(h.undo)
  BY <1>1, HeadTailProperties, EmptySeq
<1> QED  BY <1>1, <1>2 DEF Record, Stacks

(* The strengthening that is inductive: types and the depth bound.          *)
Inv == TypeOK /\ DepthBound

LEMMA InitInv == Init => Inv
  BY EmptySeq DEF Init, Inv, TypeOK, DepthBound, NoHistory

LEMMA NextInv == Inv /\ [Next]_vars => Inv'
<1> SUFFICES ASSUME Inv, [Next]_vars PROVE Inv'
  OBVIOUS
<1> USE DEF Inv, TypeOK, DepthBound
<1>0. /\ hist \in Stacks
      /\ Len(hist.undo) \in Nat
      /\ Len(hist.redo) \in Nat
  BY DEF Stacks
<1>1. ASSUME NEW s \in Snapshot, Edit(s) PROVE Inv'
  <2>1. hist' = Record(hist, current) /\ current' = s /\ restoring' = restoring
    BY <1>1 DEF Edit
  <2>2. /\ hist' \in Stacks
        /\ hist'.redo = << >>
        /\ Len(hist'.undo) <= MAX_DEPTH
    BY <1>0, <2>1, RecordProperties
  <2>3. Len(hist'.redo) = 0 /\ Len(hist'.undo) \in Nat
    BY <2>2 DEF Stacks
  <2> QED  BY <2>1, <2>2, <2>3 DEF Stacks
<1>2. ASSUME NEW s \in Snapshot, Remember(s) PROVE Inv'
  BY <1>2, EmptySeq DEF Remember, NoHistory
<1>3. CASE Undo
  <2>1. hist.undo # << >>
    BY <1>3 DEF Undo, CanStepBack
  <2>2. hist' = [undo |-> Pop(hist.undo), redo |-> Append(hist.redo, current)]
    BY <1>3 DEF Undo, StepBack
  <2>3. /\ hist'.undo \in Seq(Snapshot)
        /\ Len(hist'.undo) = Len(hist.undo) - 1
        /\ Top(hist.undo) \in Snapshot
    BY <1>0, <2>1, <2>2, PopProperties DEF Stacks
  <2>4. /\ hist'.redo \in Seq(Snapshot)
        /\ Len(hist'.redo) = Len(hist.redo) + 1
    BY <1>0, <2>2 DEF Stacks
  <2> QED  BY <1>0, <1>3, <2>2, <2>3, <2>4 DEF Undo
<1>4. CASE Redo
  <2>1. hist.redo # << >>
    BY <1>4 DEF Redo, CanStepForward
  <2>2. hist' = [undo |-> Append(hist.undo, current), redo |-> Pop(hist.redo)]
    BY <1>4 DEF Redo, StepForward
  <2>3. /\ hist'.redo \in Seq(Snapshot)
        /\ Len(hist'.redo) = Len(hist.redo) - 1
        /\ Top(hist.redo) \in Snapshot
    BY <1>0, <2>1, <2>2, PopProperties DEF Stacks
  <2>4. /\ hist'.undo \in Seq(Snapshot)
        /\ Len(hist'.undo) = Len(hist.undo) + 1
    BY <1>0, <2>2 DEF Stacks
  <2> QED  BY <1>0, <1>4, <2>2, <2>3, <2>4 DEF Redo
<1>5. CASE Restored
  BY <1>5 DEF Restored
<1>6. CASE RestoreFailed
  BY <1>6 DEF RestoreFailed
<1>7. CASE UNCHANGED vars
  BY <1>7 DEF vars
<1> QED  BY <1>1, <1>2, <1>3, <1>4, <1>5, <1>6, <1>7 DEF Next

(* The stacks hold snapshots only, and what is being restored is one.       *)
THEOREM HistoryTypeCorrect == Spec => []TypeOK
<1>1. Inv => TypeOK
  BY DEF Inv
<1> QED  BY InitInv, NextInv, <1>1, PTL DEF Spec

(* However long the session, the stacks never hold more than MAX_DEPTH      *)
(* snapshots between them, though only record() looks at the cap.           *)
THEOREM HistoryDepthBound == Spec => []DepthBound
<1>1. Inv => DepthBound
  BY DEF Inv
<1> QED  BY InitInv, NextInv, <1>1, PTL DEF Spec

-----------------------------------------------------------------------------

(* The line of versions the refinement mapping builds from two stacks and   *)
(* the present: its length and what stands at each place.                   *)
LEMMA LineProperties ==
  ASSUME NEW u \in Seq(Snapshot), NEW p \in Snapshot, NEW r \in Seq(Snapshot)
  PROVE  /\ Line(u, p, r) \in Seq(Snapshot)
         /\ Len(Line(u, p, r)) = Len(u) + 1 + Len(r)
         /\ \A i \in 1 .. Len(u) : Line(u, p, r)[i] = u[i]
         /\ Line(u, p, r)[Len(u) + 1] = p
         /\ \A i \in 1 .. Len(r) :
              Line(u, p, r)[Len(u) + 1 + i] = r[Len(r) + 1 - i]
<1>1. Len(u) \in Nat /\ Len(r) \in Nat
  OBVIOUS
<1>2. PICK n \in Nat : n = Len(u) + 1 + Len(r)
  BY <1>1
<1> DEFINE V(i) == IF i <= Len(u) THEN u[i]
                   ELSE IF i = Len(u) + 1 THEN p
                   ELSE r[Len(r) + Len(u) + 2 - i]
<1>3. ASSUME NEW i \in 1 .. n PROVE V(i) \in Snapshot
  <2>1. CASE i <= Len(u)
    BY <1>1, <1>2, <2>1
  <2>2. CASE i = Len(u) + 1
    BY <1>1, <2>2
  <2>3. CASE i > Len(u) + 1
    <3>1. Len(r) + Len(u) + 2 - i \in 1 .. Len(r)
      BY <1>1, <1>2, <2>3
    <3> QED  BY <1>1, <2>3, <3>1
  <2> QED  BY <1>1, <2>1, <2>2, <2>3
<1>4. Line(u, p, r) = [i \in 1 .. n |-> V(i)]
  BY <1>2 DEF Line
<1> HIDE DEF V
<1>5. Line(u, p, r) \in [1 .. n -> Snapshot]
  BY <1>3, <1>4
<1>6. Line(u, p, r) \in Seq(Snapshot) /\ Len(Line(u, p, r)) = n
  BY <1>5
<1>7. \A i \in 1 .. n : Line(u, p, r)[i] = V(i)
  BY <1>4
<1>8. \A i \in 1 .. Len(u) : Line(u, p, r)[i] = u[i]
  BY <1>1, <1>2, <1>7 DEF V
<1>9. Line(u, p, r)[Len(u) + 1] = p
  BY <1>1, <1>2, <1>7 DEF V
<1>10. ASSUME NEW i \in 1 .. Len(r)
       PROVE  Line(u, p, r)[Len(u) + 1 + i] = r[Len(r) + 1 - i]
  <2>1. /\ Len(u) + 1 + i \in 1 .. n
        /\ ~(Len(u) + 1 + i <= Len(u))
        /\ Len(u) + 1 + i # Len(u) + 1
        /\ Len(r) + Len(u) + 2 - (Len(u) + 1 + i) = Len(r) + 1 - i
    BY <1>1, <1>2
  <2> QED  BY <1>7, <2>1 DEF V
<1> QED  BY <1>2, <1>6, <1>8, <1>9, <1>10

(* The length alone, for the steps that only count.                         *)
LEMMA LineLength ==
  ASSUME NEW u \in Seq(Snapshot), NEW p \in Snapshot, NEW r \in Seq(Snapshot)
  PROVE  Len(Line(u, p, r)) = Len(u) + 1 + Len(r)
BY LineProperties

(* Where the history starts, so does the line of versions.                  *)
LEMMA InitImplements == Init => T!Init
<1> SUFFICES ASSUME Init PROVE T!Init
  OBVIOUS
<1>1. hist.undo = << >> /\ hist.redo = << >> /\ Present = current
  BY DEF Init, NoHistory, Present
<1>2. Line(<< >>, current, << >>) = << current >>
  BY DEF Line
<1> QED  BY <1>1, <1>2 DEF Init, T!Init, Tape

(* u2, p2, r2 is u, p, r a step back: p went to the future, p2 came from     *)
(* the past.                                                                *)
OneStepBack(u, p, r, u2, p2, r2) ==
  /\ Len(u) = Len(u2) + 1
  /\ \A i \in 1 .. Len(u2) : u2[i] = u[i]
  /\ u[Len(u)] = p2
  /\ Len(r2) = Len(r) + 1
  /\ \A i \in 1 .. Len(r) : r2[i] = r[i]
  /\ r2[Len(r2)] = p

(* Two pairs of stacks one step back apart are the same line of versions.   *)
LEMMA LineShift ==
  ASSUME NEW u \in Seq(Snapshot), NEW p \in Snapshot, NEW r \in Seq(Snapshot),
         NEW u2 \in Seq(Snapshot), NEW p2 \in Snapshot, NEW r2 \in Seq(Snapshot),
         OneStepBack(u, p, r, u2, p2, r2)
  PROVE  Line(u2, p2, r2) = Line(u, p, r)
<1> USE DEF OneStepBack
<1>1. PICK m \in Nat, k \in Nat : m = Len(u2) /\ k = Len(r)
  BY LenProperties
<1> DEFINE V(i) == IF i <= m + 1 THEN u[i]
                   ELSE IF i = m + 1 + 1 THEN p
                   ELSE r[k + (m + 1) + 2 - i]
           V2(i) == IF i <= m THEN u2[i]
                    ELSE IF i = m + 1 THEN p2
                    ELSE r2[k + 1 + m + 2 - i]
<1>2. Line(u, p, r) = [i \in 1 .. (m + k + 2) |-> V(i)]
  <2>1. m + 1 + 1 + k = m + k + 2
    BY <1>1
  <2> QED  BY <1>1, <2>1 DEF Line
<1>3. Line(u2, p2, r2) = [i \in 1 .. (m + k + 2) |-> V2(i)]
  <2>1. m + 1 + (k + 1) = m + k + 2
    BY <1>1
  <2> QED  BY <1>1, <2>1 DEF Line
<1>4. ASSUME NEW i \in 1 .. (m + k + 2) PROVE V2(i) = V(i)
  <2>1. CASE i <= m
    <3>1. i \in 1 .. Len(u2) /\ i <= m + 1
      BY <1>1, <2>1
    <3> QED  BY <2>1, <3>1
  <2>2. CASE i = m + 1
    BY <1>1, <2>2
  <2>3. CASE i = m + 2
    <3>1. k + 1 + m + 2 - i = Len(r2)
      BY <1>1, <2>3
    <3>2. ~(i <= m) /\ i # m + 1 /\ ~(i <= m + 1) /\ i = m + 1 + 1
      BY <1>1, <2>3
    <3> QED  BY <3>1, <3>2
  <2>4. CASE i > m + 2
    <3> DEFINE j == k + 1 + m + 2 - i
    <3>1. j \in 1 .. k
      <4>1. m \in Int /\ k \in Int /\ i \in Int /\ i <= m + k + 2 /\ i >= m + 3
        BY <2>4
      <4> QED  BY <4>1
    <3>2. k + (m + 1) + 2 - i = j
      OBVIOUS
    <3>3. ~(i <= m) /\ i # m + 1 /\ ~(i <= m + 1) /\ i # m + 1 + 1
      BY <1>1, <2>4
    <3>4. r2[j] = r[j]
      <4> HIDE DEF j
      <4> QED  BY <1>1, <3>1
    <3> QED  BY <3>1, <3>2, <3>3, <3>4
  <2> QED  BY <1>1, <2>1, <2>2, <2>3, <2>4
<1> HIDE DEF V, V2
<1> QED  BY <1>2, <1>3, <1>4

(* A step back: what was present heads the future, the top of the past is   *)
(* present, and the line as a whole is the one it was.                      *)
LEMMA LineStepBack ==
  ASSUME NEW u \in Seq(Snapshot), NEW p \in Snapshot, NEW r \in Seq(Snapshot),
         u # << >>
  PROVE  Line(Pop(u), Top(u), Append(r, p)) = Line(u, p, r)
<1>1. /\ Pop(u) \in Seq(Snapshot)
      /\ Len(u) = Len(Pop(u)) + 1
      /\ Top(u) \in Snapshot
      /\ \A i \in 1 .. Len(Pop(u)) : Pop(u)[i] = u[i]
      /\ u[Len(u)] = Top(u)
  BY PopProperties DEF Top
<1>2. /\ Append(r, p) \in Seq(Snapshot)
      /\ Len(Append(r, p)) = Len(r) + 1
      /\ \A i \in 1 .. Len(r) : Append(r, p)[i] = r[i]
      /\ Append(r, p)[Len(Append(r, p))] = p
  BY AppendProperties, LenProperties
<1>3. PICK u2 \in Seq(Snapshot), r2 \in Seq(Snapshot), p2 \in Snapshot :
        u2 = Pop(u) /\ r2 = Append(r, p) /\ p2 = Top(u)
  BY <1>1, <1>2
<1>4. OneStepBack(u, p, r, u2, p2, r2)
  BY <1>1, <1>2, <1>3 DEF OneStepBack
<1>5. Line(u2, p2, r2) = Line(u, p, r)
  BY <1>4, LineShift
<1> QED  BY <1>3, <1>5

(* A step forward is the converse of a step back.                           *)
LEMMA LineStepForward ==
  ASSUME NEW u \in Seq(Snapshot), NEW p \in Snapshot, NEW r \in Seq(Snapshot),
         r # << >>
  PROVE  Line(Append(u, p), Top(r), Pop(r)) = Line(u, p, r)
<1>1. /\ Pop(r) \in Seq(Snapshot)
      /\ Len(Pop(r)) = Len(r) - 1
      /\ Len(r) \in Nat \ {0}
      /\ Top(r) \in Snapshot
      /\ \A i \in 1 .. Len(r) - 1 : Pop(r)[i] = r[i]
  BY PopProperties
<1>2. /\ Append(u, p) \in Seq(Snapshot)
      /\ Append(u, p) # << >>
      /\ Len(u) \in Nat
      /\ Len(Append(u, p)) = Len(u) + 1
      /\ \A i \in 1 .. Len(u) : Append(u, p)[i] = u[i]
      /\ Append(u, p)[Len(u) + 1] = p
  BY AppendProperties, LenProperties
<1>3. PICK u2 \in Seq(Snapshot), r2 \in Seq(Snapshot), p2 \in Snapshot :
        u2 = Append(u, p) /\ r2 = Pop(r) /\ p2 = Top(r)
  BY <1>1, <1>2
<1>4. OneStepBack(u2, p2, r2, u, p, r)
  BY <1>1, <1>2, <1>3 DEF Top, OneStepBack
<1>5. Line(u, p, r) = Line(u2, p2, r2)
  BY <1>4, LineShift
<1> QED  BY <1>3, <1>5

(* Another present is the same line but for the place of the cursor.        *)
LEMMA LineReplace ==
  ASSUME NEW u \in Seq(Snapshot), NEW p \in Snapshot, NEW r \in Seq(Snapshot),
         NEW q \in Snapshot
  PROVE  Line(u, q, r) = [Line(u, p, r) EXCEPT ![Len(u) + 1] = q]
<1>1. PICK m \in Nat, k \in Nat : m = Len(u) /\ k = Len(r)
  BY LenProperties
<1> DEFINE V(x, i) == IF i <= m THEN u[i]
                      ELSE IF i = m + 1 THEN x
                      ELSE r[k + m + 2 - i]
<1>2. /\ Line(u, q, r) = [i \in 1 .. (m + 1 + k) |-> V(q, i)]
      /\ Line(u, p, r) = [i \in 1 .. (m + 1 + k) |-> V(p, i)]
  BY <1>1 DEF Line
<1>3. ASSUME NEW i \in 1 .. (m + 1 + k)
      PROVE  V(q, i) = IF i = m + 1 THEN q ELSE V(p, i)
  OBVIOUS
<1> HIDE DEF V
<1>4. [Line(u, p, r) EXCEPT ![m + 1] = q]
        = [i \in 1 .. (m + 1 + k) |-> IF i = m + 1 THEN q ELSE V(p, i)]
  BY <1>2
<1>5. [i \in 1 .. (m + 1 + k) |-> V(q, i)]
        = [i \in 1 .. (m + 1 + k) |-> IF i = m + 1 THEN q ELSE V(p, i)]
  BY <1>3
<1> QED  BY <1>1, <1>2, <1>4, <1>5

(* A line with nothing to redo is the past with the present behind it.      *)
LEMMA LineNoFuture ==
  ASSUME NEW u \in Seq(Snapshot), NEW p \in Snapshot
  PROVE  Line(u, p, << >>) = Append(u, p)
<1>1. << >> \in Seq(Snapshot) /\ Len(<< >>) = 0
  BY EmptySeq
<1>2. PICK r \in Seq(Snapshot) : r = << >>
  BY <1>1
<1>3. /\ Line(u, p, r) \in Seq(Snapshot)
      /\ Len(Line(u, p, r)) = Len(u) + 1 + Len(r)
      /\ \A i \in 1 .. Len(u) : Line(u, p, r)[i] = u[i]
      /\ Line(u, p, r)[Len(u) + 1] = p
  BY LineProperties
<1>4. /\ Append(u, p) \in Seq(Snapshot)
      /\ Len(Append(u, p)) = Len(u) + 1
      /\ \A i \in 1 .. Len(u) : Append(u, p)[i] = u[i]
      /\ Append(u, p)[Len(u) + 1] = p
      /\ Len(u) \in Nat
  BY AppendProperties, LenProperties
<1>5. Len(Line(u, p, r)) = Len(Append(u, p))
  BY <1>1, <1>2, <1>3, <1>4
<1>6. ASSUME NEW i \in 1 .. Len(Append(u, p))
      PROVE  Line(u, p, r)[i] = Append(u, p)[i]
  BY <1>3, <1>4
<1>7. Line(u, p, r) = Append(u, p)
  BY <1>3, <1>4, <1>5, <1>6, SeqEqual
<1> QED  BY <1>2, <1>7

(* What record() keeps of a line is what Timeline's Edit keeps of it.       *)
LEMMA RecordKeeps ==
  ASSUME NEW u \in Seq(Snapshot), NEW p \in Snapshot, NEW r \in Seq(Snapshot)
  PROVE  /\ SubSeq(Line(u, p, r), 1, Len(u) + 1) = Append(u, p)
         /\ SubSeq(Line(u, p, r), 2, Len(u) + 1) = Tail(Append(u, p))
<1>1. PICK t \in Seq(Snapshot) :
        /\ t = Line(u, p, r)
        /\ Len(t) = Len(u) + 1 + Len(r)
        /\ \A i \in 1 .. Len(u) : t[i] = u[i]
        /\ t[Len(u) + 1] = p
  BY LineProperties
<1>2. PICK a \in Seq(Snapshot) :
        /\ a = Append(u, p)
        /\ a # << >>
        /\ Len(a) = Len(u) + 1
        /\ \A i \in 1 .. Len(u) : a[i] = u[i]
        /\ a[Len(u) + 1] = p
  BY AppendProperties
<1>3. PICK n \in Nat \ {0} :
        n = Len(u) + 1 /\ n <= Len(t) /\ Len(a) = n
  <2>1. Len(u) \in Nat /\ Len(r) \in Nat
    BY LenProperties
  <2> QED  BY <1>1, <1>2, <2>1
<1>4. \A i \in 1 .. n : t[i] \in Snapshot /\ t[i] = a[i]
  BY <1>1, <1>2, <1>3
<1>5. SubSeq(t, 1, n) = a
  <2>1. /\ SubSeq(t, 1, n) \in Seq(Snapshot)
        /\ Len(SubSeq(t, 1, n)) = IF 1 <= n THEN n - 1 + 1 ELSE 0
        /\ \A i \in 1 .. n - 1 + 1 : SubSeq(t, 1, n)[i] = t[1 + i - 1]
    BY <1>4, SubSeqProperties
  <2>2. /\ Len(SubSeq(t, 1, n)) = n
        /\ \A i \in 1 .. n : SubSeq(t, 1, n)[i] = a[i]
    BY <1>4, <2>1
  <2> QED  BY <1>3, <2>1, <2>2, SeqEqual
<1>6. SubSeq(t, 2, n) = Tail(a)
  <2>1. \A i \in 2 .. n : t[i] \in Snapshot
    BY <1>4
  <2>2. /\ SubSeq(t, 2, n) \in Seq(Snapshot)
        /\ Len(SubSeq(t, 2, n)) = IF 2 <= n THEN n - 2 + 1 ELSE 0
        /\ \A i \in 1 .. n - 2 + 1 : SubSeq(t, 2, n)[i] = t[2 + i - 1]
    BY <2>1, SubSeqProperties
  <2>3. /\ Tail(a) \in Seq(Snapshot)
        /\ Len(Tail(a)) = n - 1
        /\ \A i \in 1 .. Len(Tail(a)) : Tail(a)[i] = a[i + 1]
    BY <1>2, <1>3, HeadTailProperties
  <2>4. /\ Len(SubSeq(t, 2, n)) = n - 1
        /\ \A i \in 1 .. n - 1 : SubSeq(t, 2, n)[i] = a[i + 1]
    BY <1>4, <2>2
  <2> QED  BY <2>2, <2>3, <2>4, SeqEqual
<1> QED  BY <1>1, <1>2, <1>3, <1>5, <1>6

(* Every step of the stacks is a step of the line of versions.              *)
LEMMA NextImplements == Inv /\ [Next]_vars => [T!Next]_(T!vars)
<1> SUFFICES ASSUME Inv, [Next]_vars PROVE [T!Next]_(T!vars)
  OBVIOUS
<1> DEFINE at == Len(hist.undo) + 1
<1>0. /\ hist \in Stacks
      /\ hist.undo \in Seq(Snapshot)
      /\ hist.redo \in Seq(Snapshot)
      /\ Len(hist.undo) \in Nat
      /\ Len(hist.redo) \in Nat
      /\ current \in Snapshot
      /\ Present \in Snapshot
  BY DEF Inv, TypeOK, Stacks, Present
<1>1. ASSUME NEW s \in Snapshot, Edit(s) PROVE T!Edit(s)
  <2>1. /\ hist' = Record(hist, current)
        /\ current' = s /\ restoring' = restoring /\ restoring = None
        /\ Present = current /\ Present' = s
    BY <1>1 DEF Edit, Present
  <2>2. /\ hist'.redo = << >>
        /\ hist' \in Stacks
    BY <1>0, <2>1, RecordProperties
  <2>3. Tape' = Append(hist'.undo, s)
    BY <2>1, <2>2, LineNoFuture DEF Tape, Stacks
  <2>4. hist'.undo = T!Kept
    <3>1. /\ SubSeq(Tape, 1, at) = Append(hist.undo, current)
          /\ SubSeq(Tape, 2, at) = Tail(Append(hist.undo, current))
      BY <1>0, <2>1, RecordKeeps DEF Tape
    <3>2. Len(Append(hist.undo, current)) = at
      BY <1>0
    <3> QED  BY <2>1, <3>1, <3>2 DEF Record, T!Kept
  <2> QED  BY <2>1, <2>3, <2>4 DEF T!Edit
<1>2. ASSUME NEW s \in Snapshot, Remember(s) PROVE T!Restart(s)
  <2>1. /\ hist'.undo = << >> /\ hist'.redo = << >>
        /\ Present' = s
    BY <1>2 DEF Remember, NoHistory, Present
  <2>2. Line(<< >>, s, << >>) = << s >>
    BY DEF Line
  <2>3. Len(hist'.undo) + 1 = 1
    BY <2>1
  <2> QED  BY <1>2, <2>1, <2>2, <2>3 DEF Remember, T!Restart, Tape
<1>3. CASE Undo
  <2>1. /\ hist.undo # << >>
        /\ hist'.undo = Pop(hist.undo)
        /\ hist'.redo = Append(hist.redo, current)
        /\ restoring = None /\ restoring' = Top(hist.undo) /\ current' = current
    BY <1>3 DEF Undo, CanStepBack, StepBack
  <2>2. /\ Top(hist.undo) \in Snapshot
        /\ Len(hist'.undo) = Len(hist.undo) - 1
        /\ Len(hist.undo) # 0
    BY <1>0, <2>1, PopProperties
  <2>3. restoring' # None /\ Present = current /\ Present' = Top(hist.undo)
    BY <2>1, <2>2 DEF Present
  <2>4. Tape' = Tape
    BY <1>0, <2>1, <2>3, LineStepBack DEF Tape
  <2>5. /\ Len(hist'.undo) + 1 = at - 1
        /\ at - 1 \in 1 .. Len(Tape)
    <3>1. PICK m \in Nat, k \in Nat : m = Len(hist.undo) /\ k = Len(hist.redo)
      BY <1>0
    <3>2. Len(Tape) = m + 1 + k
      <4>1. Len(Line(hist.undo, Present, hist.redo)) = Len(hist.undo) + 1 + Len(hist.redo)
        BY <1>0, LineLength
      <4> QED  BY <3>1, <4>1 DEF Tape
    <3>3. Len(hist'.undo) = m - 1 /\ m # 0
      BY <2>2, <3>1
    <3>4. at = m + 1
      BY <3>1
    <3>5. m + 1 - 1 \in 1 .. (m + 1 + k) /\ m - 1 + 1 = m + 1 - 1
      BY <3>3
    <3> QED  BY <3>2, <3>3, <3>4, <3>5
  <2>6. T!Move(at - 1)
    BY <2>1, <2>3, <2>4, <2>5 DEF T!Move
  <2> QED  BY <2>6 DEF T!Next
<1>4. CASE Redo
  <2>1. /\ hist.redo # << >>
        /\ hist'.redo = Pop(hist.redo)
        /\ hist'.undo = Append(hist.undo, current)
        /\ restoring = None /\ restoring' = Top(hist.redo) /\ current' = current
    BY <1>4 DEF Redo, CanStepForward, StepForward
  <2>2. /\ Top(hist.redo) \in Snapshot
        /\ Len(hist'.undo) = Len(hist.undo) + 1
        /\ Len(hist.redo) # 0
    BY <1>0, <2>1, PopProperties
  <2>3. restoring' # None /\ Present = current /\ Present' = Top(hist.redo)
    BY <2>1, <2>2 DEF Present
  <2>4. Tape' = Tape
    BY <1>0, <2>1, <2>3, LineStepForward DEF Tape
  <2>5. /\ Len(hist'.undo) + 1 = at + 1
        /\ at + 1 \in 1 .. Len(Tape)
    <3>1. PICK m \in Nat, k \in Nat : m = Len(hist.undo) /\ k = Len(hist.redo)
      BY <1>0
    <3>2. Len(Tape) = m + 1 + k
      <4>1. Len(Line(hist.undo, Present, hist.redo)) = Len(hist.undo) + 1 + Len(hist.redo)
        BY <1>0, LineLength
      <4> QED  BY <3>1, <4>1 DEF Tape
    <3>3. Len(hist'.undo) = m + 1 /\ k # 0
      BY <2>2, <3>1
    <3>4. at = m + 1
      BY <3>1
    <3>5. m + 1 + 1 \in 1 .. (m + 1 + k) /\ m + 1 + 1 = m + 1 + 1
      BY <3>3
    <3> QED  BY <3>2, <3>3, <3>4, <3>5
  <2>6. T!Move(at + 1)
    BY <2>1, <2>3, <2>4, <2>5 DEF T!Move
  <2> QED  BY <2>6 DEF T!Next
<1>5. CASE Restored
  <2>1. Present' = Present /\ Present = current' /\ hist' = hist
    BY <1>5 DEF Restored, Present
  <2>2. Tape' = Tape
    BY <2>1 DEF Tape
  <2>3. Tape[at] = current'
    <3>1. Line(hist.undo, Present, hist.redo)[Len(hist.undo) + 1] = Present
      BY <1>0, LineProperties
    <3> QED  BY <2>1, <3>1 DEF Tape
  <2> QED  BY <1>5, <2>1, <2>2, <2>3 DEF Restored, T!Arrive, T!Next
<1>6. CASE RestoreFailed
  <2>1. /\ Present = restoring /\ Present' = current
        /\ hist' = hist /\ current' = current
        /\ restoring # None /\ restoring' = None
    BY <1>6 DEF RestoreFailed, Present
  <2>2. Tape' = [Tape EXCEPT ![at] = current]
    BY <1>0, <2>1, LineReplace DEF Tape
  <2> QED  BY <2>1, <2>2 DEF T!ArriveFailed, T!Next
<1>7. CASE UNCHANGED vars
  BY <1>7 DEF vars, T!vars, Tape, Present
<1> QED  BY <1>1, <1>2, <1>3, <1>4, <1>5, <1>6, <1>7 DEF Next, T!Next

(* The undo and redo stacks implement a line of versions with a cursor: a   *)
(* redo shows what the undo before it left, an edit cuts the future, and a  *)
(* restore that fails costs exactly the version it was to show.             *)
THEOREM HistoryIsTimeline == Spec => IsTimeline
<1> QED  BY InitInv, NextInv, InitImplements, NextImplements, PTL
         DEF Spec, IsTimeline, T!Spec

=============================================================================
