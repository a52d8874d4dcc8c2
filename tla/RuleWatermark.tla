---------------------------- MODULE RuleWatermark ----------------------------
(***************************************************************************)
(* One rule's watermark as the engine keeps it: the tracker in memory,     *)
(* forward_rules.last_message_id in the database, and the AdvanceCursor    *)
(* calls in between.  finishTerminals changes the tracker under trackMu    *)
(* and writes the database after it has released the lock, so the writes   *)
(* of several goroutines may reach the database in any order, may fail,    *)
(* and are lost when the process dies.                                     *)
(***************************************************************************)
EXTENDS CursorTracker

CONSTANT MaxId      \* Telegram message IDs of the channel: 1 .. MaxId

ASSUME MaxIdAssumption == MaxId \in Nat

Ids == 1 .. MaxId

VARIABLES
  tracker,   \* Engine.trackers[rule.ID]
  dbCursor,  \* forward_rules.last_message_id
  writes,    \* cursors captured under trackMu whose AdvanceCursor is to come
  start,     \* history: the cursor this process started from
  ended      \* history: IDs this process marked terminal

vars == <<tracker, dbCursor, writes, start, ended>>

Init ==
  /\ dbCursor \in {0} \cup Ids
  /\ tracker = newCursorTracker(dbCursor)
  /\ start = dbCursor
  /\ writes = {} /\ ended = {}

\* Engine.observeAll: the members of one group enter processing.
Observe(S) ==
  /\ tracker' = ObserveAll(tracker, S)
  /\ UNCHANGED <<dbCursor, writes, start, ended>>

\* Mutant: the newest ID of the group is persisted, not the cursor.
FinishTerminalsNewest(S) ==
  /\ tracker' = TerminalAll(tracker, S)
  /\ ended' = ended \cup Above(tracker, S)
  /\ writes' = IF Above(tracker, S) # {} THEN writes \cup {Max(S)} ELSE writes
  /\ UNCHANGED <<dbCursor, start>>

\* Engine.finishTerminals up to trackMu.Unlock.
FinishTerminals(S) ==
  /\ tracker' = TerminalAll(tracker, S)
  /\ ended' = ended \cup Above(tracker, S)
  /\ writes' = IF Moved(tracker, S) THEN writes \cup {tracker'.cursor}
                                    ELSE writes
  /\ UNCHANGED <<dbCursor, start>>

\* The call for c returned; another goroutine may still hold the same c.
Written(c) == c \in writes /\ writes' \in {writes, writes \ {c}}

\* RuleRepository.AdvanceCursor: GREATEST(last_message_id, cursor).
AdvanceCursor(c) ==
  /\ Written(c)
  /\ dbCursor' = Max({dbCursor, c})
  /\ UNCHANGED <<tracker, start, ended>>

\* The UPDATE fails: finishTerminals only logs it.
AdvanceCursorFails(c) ==
  /\ Written(c)
  /\ UNCHANGED <<tracker, dbCursor, start, ended>>

\* The process ends and a new one loads the rule: trackerForLocked starts
\* from the persisted cursor; unresolved IDs and writes under way are gone.
Restart ==
  /\ tracker' = newCursorTracker(dbCursor)
  /\ start' = dbCursor
  /\ writes' = {} /\ ended' = {}
  /\ UNCHANGED dbCursor

Next ==
  \/ \E S \in SUBSET Ids : Observe(S) \/ FinishTerminals(S)
  \/ \E c \in Ids : AdvanceCursor(c) \/ AdvanceCursorFails(c)
  \/ Restart

Spec == Init /\ [][Next]_vars
-----------------------------------------------------------------------------
TypeOK ==
  /\ tracker \in Trackers(Ids)
  /\ dbCursor \in Nat
  /\ writes \in SUBSET Ids
  /\ start \in Nat
  /\ ended \in SUBSET Ids

\* No ID is kept below the cursor and none is parked without a reason: the
\* representation of cursor.go's tracker stays sound under every interleaving
\* of observeAll and finishTerminals.
TrackerSound == Sound(tracker)

\* What the tracker implements: the cursor is the contiguous watermark of the
\* IDs in processing and the IDs ended.
W == INSTANCE ContiguousWatermark
       WITH open <- tracker.unresolved, mark <- tracker.cursor

WatermarkSpec == W!Spec

\* The cursor is exactly the watermark of everything ended in this process: it
\* never passes an unresolved ID, and it never lags behind a message that
\* nothing blocks (both directions of plan section 6).
CursorIsWatermark ==
  W!IsWatermark(tracker.cursor, start, tracker.unresolved, ended)

\* Persistence never runs ahead of memory, even when the AdvanceCursor calls
\* of several goroutines overtake each other.
DurableBehindMemory ==
  /\ dbCursor <= tracker.cursor
  /\ \A c \in writes : c <= tracker.cursor

\* Whatever is persisted in this process is an ID that ended, or the start:
\* the database never holds a cursor no finishTerminals computed.
DurableIsSettled == dbCursor \in {start} \cup ended

\* last_message_id never moves backwards, across restarts too.
DurableMonotone == [][dbCursor' >= dbCursor]_vars

\* The inductive invariant behind them: moreover the parked terminals are the
\* ended IDs above the cursor, and a write under way carries an ended ID.
IInv ==
  /\ TypeOK /\ TrackerSound /\ CursorIsWatermark
  /\ DurableBehindMemory /\ DurableIsSettled
  /\ tracker.terminals = {e \in ended : e > tracker.cursor}
  /\ writes \subseteq ended
=============================================================================
