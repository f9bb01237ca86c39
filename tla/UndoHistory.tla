---------------------------- MODULE UndoHistory ----------------------------
(***************************************************************************)
(* What an undo facility promises, with no mention of lists of clones,     *)
(* iterators or selection hashes: a bounded line of remembered contents, a *)
(* cursor in it, and the contents that the user is looking at.             *)
(***************************************************************************)
EXTENDS Naturals, Sequences

CONSTANT Contents   \* what a model can hold

VARIABLES
  history,   \* remembered contents, oldest first
  cursor,    \* index of the remembered contents last shown or recorded
  limit,     \* how many contents are remembered at most
  shown      \* the contents on the screen

vars == <<history, cursor, limit, shown>>

\* The last n elements of s.
Youngest(s, n) == IF Len(s) > n THEN SubSeq(s, Len(s) - n + 1, Len(s)) ELSE s

\* What is remembered up to the cursor.
UpToCursor == IF history = <<>> THEN <<>> ELSE SubSeq(history, 1, cursor)

Init ==
  /\ history = <<>>
  /\ cursor = 1
  /\ limit \in Nat
  /\ shown \in Contents

\* An edit is remembered as the youngest contents; what had been undone is forgotten.
Record ==
  /\ shown' \in Contents
  /\ history' = Youngest(Append(UpToCursor, shown'), limit)
  /\ cursor' = IF history' = <<>> THEN 1 ELSE Len(history')
  /\ UNCHANGED limit

\* An edit continues the one remembered at the cursor. When the user was
\* looking at the remembered contents, the two stay the same.
Amend ==
  /\ cursor <= Len(history)
  /\ shown' \in Contents
  /\ Len(history') = cursor
  /\ SubSeq(history', 1, cursor - 1) = SubSeq(history, 1, cursor - 1)
  /\ history'[cursor] \in Contents
  /\ shown = history[cursor] => shown' = history'[cursor]
  /\ UNCHANGED <<cursor, limit>>

\* Going back, forth or to any remembered contents forgets nothing.
Travel ==
  /\ cursor' \in DOMAIN history
  /\ shown' = history[cursor']
  /\ UNCHANGED <<history, limit>>

\* The contents change without being remembered.
Drift ==
  /\ shown' \in Contents
  /\ UNCHANGED <<history, cursor, limit>>

\* Another limit forgets the oldest contents and leaves the screen alone.
Resize ==
  /\ limit' \in Nat
  /\ history' = Youngest(history, limit')
  /\ LET dropped == Len(history) - Len(history')
     IN  cursor' = IF cursor > dropped THEN cursor - dropped ELSE 1
  /\ UNCHANGED shown

Next == Record \/ Amend \/ Travel \/ Drift \/ Resize

Spec == Init /\ [][Next]_vars
=============================================================================
