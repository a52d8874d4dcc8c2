--------------------------- MODULE CursorTracker ---------------------------
(***************************************************************************)
(* The contiguous cursor of one forwarding rule                            *)
(* (internal/forwarding/cursor.go).  A tracker is a record:                *)
(*   cursor     the highest contiguous terminal message ID,                *)
(*   unresolved the IDs being processed,                                   *)
(*   terminals  the IDs that ended but wait for a smaller unresolved ID.   *)
(* The Go slice terminals is kept ascending and free of duplicates, so a   *)
(* set stands for it.  The type is not safe for concurrent use: its holder *)
(* applies each operator under Engine.trackMu, hence in one step.          *)
(***************************************************************************)
EXTENDS Integers, FiniteSetsExt

\* The trackers over a set of message IDs.
Trackers(Ids) ==
  [cursor : Nat, unresolved : SUBSET Ids, terminals : SUBSET Ids]

newCursorTracker(start) ==
  [cursor |-> start, unresolved |-> {}, terminals |-> {}]

\* observe: the ID enters processing; one the cursor has passed is ignored.
observe(t, id) ==
  IF id <= t.cursor THEN t ELSE [t EXCEPT !.unresolved = @ \cup {id}]

\* Mutant: an ID that ended pops although it is being processed again.
PoppableLoose(t) == {x \in t.terminals : \A u \in t.unresolved : x <= u}

\* The terminals below every unresolved ID: the ones the last loop pops.
Poppable(t) == {x \in t.terminals : \A u \in t.unresolved : x < u}

\* Mutant: one terminal is popped where the code loops.
PopOne(t) ==
  LET popped == Poppable(t)
  IN  IF popped = {} THEN t
      ELSE [t EXCEPT !.cursor = Min(popped), !.terminals = @ \ {Min(popped)}]

\* The loop itself: the cursor becomes the last terminal popped.
Pop(t) ==
  LET popped == Poppable(t)
  IN  IF popped = {} THEN t
      ELSE [t EXCEPT !.cursor = Max(popped), !.terminals = @ \ popped]

\* terminal: the ID ended; one the cursor has passed is ignored.
terminal(t, id) ==
  IF id <= t.cursor THEN t
  ELSE Pop([t EXCEPT !.unresolved = @ \ {id}, !.terminals = @ \cup {id}])

(***************************************************************************)
(* The engine calls observe and terminal on every member of a group under  *)
(* one hold of trackMu.  These are the two loops in closed form; their     *)
(* agreement with the calls one by one is GroupIsLoop, a theorem.          *)
(***************************************************************************)
Above(t, S) == {id \in S : id > t.cursor}

ObserveAll(t, S) == [t EXCEPT !.unresolved = @ \cup Above(t, S)]

TerminalAll(t, S) ==
  IF Above(t, S) = {} THEN t
  ELSE Pop([t EXCEPT !.unresolved = @ \ Above(t, S),
                     !.terminals  = @ \cup Above(t, S)])

\* finishTerminals' flag moved: some call of terminal advanced the cursor.
Moved(t, S) == TerminalAll(t, S).cursor > t.cursor

\* The representation invariant: nothing kept is at or below the cursor, and
\* an ended ID is kept only while an unresolved ID not above it blocks it.
Sound(t) ==
  /\ \A u \in t.unresolved : u > t.cursor
  /\ \A e \in t.terminals : /\ e > t.cursor
                            /\ \E u \in t.unresolved : u <= e
=============================================================================
