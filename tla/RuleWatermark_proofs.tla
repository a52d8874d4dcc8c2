------------------------ MODULE RuleWatermark_proofs ------------------------
(***************************************************************************)
(* Proofs about RuleWatermark for every bound MaxId: the tracker keeps the *)
(* contiguous watermark, the database stays behind it and never goes back, *)
(* and the whole machine implements ContiguousWatermark.                   *)
(***************************************************************************)
EXTENDS RuleWatermark, CursorTracker_proofs, TLAPS

LEMMA IdsBounded == Bounded(Ids)
BY MaxIdAssumption DEF Ids, Bounded

LEMMA InitIInv == Init => IInv
BY MaxIdAssumption
   DEF Init, IInv, TypeOK, TrackerSound, Sound, CursorIsWatermark, W!IsWatermark,
       DurableBehindMemory, DurableIsSettled, newCursorTracker, Trackers, Ids

LEMMA ObserveIInv ==
  ASSUME IInv, NEW S \in SUBSET Ids, Observe(S)
  PROVE  IInv'
<1> USE DEF IInv, TypeOK
<1>1. /\ tracker' = [tracker EXCEPT !.unresolved = @ \cup Above(tracker, S)]
      /\ tracker \in Trackers(Ids)
      /\ UNCHANGED <<dbCursor, writes, start, ended>>
  BY DEF Observe, ObserveAll
<1>2. /\ tracker'.cursor = tracker.cursor
      /\ tracker'.terminals = tracker.terminals
      /\ tracker'.unresolved = tracker.unresolved \cup Above(tracker, S)
      /\ tracker' \in Trackers(Ids)
  BY <1>1 DEF Trackers, Above
<1>3. \A i \in Above(tracker, S) : i > tracker.cursor
  BY DEF Above
<1>4. TrackerSound'
  BY <1>2, <1>3 DEF TrackerSound, Sound
<1>5. CursorIsWatermark'
  <2>1. \A e \in ended : (\A u \in tracker'.unresolved : e < u) => e <= tracker.cursor
    BY <1>2 DEF CursorIsWatermark, W!IsWatermark
  <2> QED
    BY <1>1, <1>2, <1>3, <2>1 DEF CursorIsWatermark, W!IsWatermark
<1> QED
  BY <1>1, <1>2, <1>4, <1>5 DEF DurableBehindMemory, DurableIsSettled

LEMMA FinishTerminalsIInv ==
  ASSUME IInv, NEW S \in SUBSET Ids, FinishTerminals(S)
  PROVE  IInv'
<1> DEFINE A   == Above(tracker, S)
           all == tracker.terminals \cup A
<1>1. /\ tracker' = TerminalAll(tracker, S)
      /\ ended' = ended \cup A
      /\ writes' = IF tracker'.cursor > tracker.cursor
                   THEN writes \cup {tracker'.cursor} ELSE writes
      /\ dbCursor' = dbCursor /\ start' = start
  BY DEF FinishTerminals, Moved
<1>2. tracker \in Trackers(Ids) /\ Sound(tracker)
  BY DEF IInv, TypeOK, TrackerSound
<1>3. /\ tracker' \in Trackers(Ids)
      /\ Sound(tracker')
      /\ tracker'.cursor >= tracker.cursor
      /\ tracker'.cursor \in {tracker.cursor} \cup all
      /\ tracker'.unresolved = tracker.unresolved \ A
      /\ tracker'.terminals = {e \in all : e > tracker'.cursor}
      /\ \A e \in all : (\A u \in tracker'.unresolved : e < u)
                          => e <= tracker'.cursor
  <2> DEFINE r == TerminalAll(tracker, S)
  <2>1. /\ r \in Trackers(Ids)
        /\ Sound(r)
        /\ r.cursor >= tracker.cursor
        /\ r.cursor \in {tracker.cursor} \cup all
        /\ r.unresolved = tracker.unresolved \ A
        /\ r.terminals = {e \in all : e > r.cursor}
        /\ \A e \in all : (\A u \in r.unresolved : e < u) => e <= r.cursor
    BY <1>2, IdsBounded, TerminalAllFacts
  <2> HIDE DEF r, A
  <2>2. tracker' = r
    BY <1>1 DEF r
  <2> QED
    BY <2>1, <2>2
<1>4. /\ A \subseteq Ids /\ ended \subseteq Ids /\ writes \subseteq ended
      /\ tracker.terminals = {e \in ended : e > tracker.cursor}
      /\ tracker.cursor \in Nat /\ tracker'.cursor \in Nat
      /\ \A i \in Ids : i \in Nat
      /\ \A e \in A : e > tracker.cursor
  <2>1. A \subseteq Ids /\ \A e \in A : e > tracker.cursor
    BY DEF Above
  <2>2. tracker.cursor \in Nat /\ tracker'.cursor \in Nat
    BY <1>2, <1>3 DEF Trackers
  <2>3. \A i \in Ids : i \in Nat
    BY MaxIdAssumption DEF Ids
  <2> QED
    BY <2>1, <2>2, <2>3 DEF IInv, TypeOK
<1> HIDE DEF A
<1>5. tracker'.terminals = {e \in ended' : e > tracker'.cursor}
  BY <1>1, <1>3, <1>4
<1>6. TypeOK'
  BY <1>1, <1>3, <1>4 DEF IInv, TypeOK
<1>7. CursorIsWatermark'
  <2>1. tracker'.cursor \in {start} \cup ended'
    BY <1>1, <1>3, <1>4 DEF IInv, CursorIsWatermark, W!IsWatermark
  <2>2. \A u \in tracker'.unresolved : tracker'.cursor < u
    BY <1>3 DEF Sound
  <2>3. \A e \in ended' : (\A u \in tracker'.unresolved : e < u)
                            => e <= tracker'.cursor
    <3> SUFFICES ASSUME NEW e \in ended', \A u \in tracker'.unresolved : e < u,
                        ~ (e <= tracker'.cursor)
                 PROVE  FALSE
      OBVIOUS
    <3>1. e \in all
      BY <1>1, <1>3, <1>4
    <3> QED
      BY <1>3, <3>1
  <2> QED
    BY <1>1, <2>1, <2>2, <2>3 DEF CursorIsWatermark, W!IsWatermark
<1>8. DurableBehindMemory'
  BY <1>1, <1>3, <1>4 DEF IInv, TypeOK, DurableBehindMemory
<1>9. DurableIsSettled'
  BY <1>1 DEF IInv, DurableIsSettled
<1>10. writes' \subseteq ended'
  <2>1. tracker'.cursor > tracker.cursor => tracker'.cursor \in ended'
    BY <1>1, <1>3, <1>4
  <2> QED
    BY <1>1, <1>4, <2>1
<1> QED
  BY <1>3, <1>5, <1>6, <1>7, <1>8, <1>9, <1>10 DEF IInv, TrackerSound

LEMMA PersistIInv ==
  ASSUME IInv, NEW c \in Ids, AdvanceCursor(c) \/ AdvanceCursorFails(c)
  PROVE  IInv' /\ dbCursor' >= dbCursor
<1>1. c \in writes /\ writes' \subseteq writes
      /\ tracker' = tracker /\ start' = start /\ ended' = ended
  BY DEF AdvanceCursor, AdvanceCursorFails, Written
<1>2. dbCursor \in Nat /\ c \in Nat /\ tracker.cursor \in Nat
  BY MaxIdAssumption DEF IInv, TypeOK, Trackers, Ids
<1>3. dbCursor' \in {dbCursor, c} /\ dbCursor' >= dbCursor
  BY <1>2, MaxOfPair DEF AdvanceCursor, AdvanceCursorFails
<1>4. TypeOK'
  BY <1>1, <1>2, <1>3 DEF IInv, TypeOK
<1> QED
  BY <1>1, <1>2, <1>3, <1>4
     DEF IInv, TrackerSound, CursorIsWatermark, DurableBehindMemory, DurableIsSettled

LEMMA RestartIInv == ASSUME IInv, Restart PROVE IInv'
BY DEF IInv, Restart, TypeOK, TrackerSound, Sound, CursorIsWatermark,
       W!IsWatermark, DurableBehindMemory, DurableIsSettled, newCursorTracker, Trackers

\* The invariant is inductive: one lemma per action of the engine above.
LEMMA NextIInv == IInv /\ [Next]_vars => IInv'
<1> SUFFICES ASSUME IInv, [Next]_vars PROVE IInv'
  OBVIOUS
<1>1. ASSUME NEW S \in SUBSET Ids, Observe(S) PROVE IInv'
  BY <1>1, ObserveIInv
<1>2. ASSUME NEW S \in SUBSET Ids, FinishTerminals(S) PROVE IInv'
  BY <1>2, FinishTerminalsIInv
<1>3. ASSUME NEW c \in Ids, AdvanceCursor(c) \/ AdvanceCursorFails(c) PROVE IInv'
  BY <1>3, PersistIInv
<1>4. CASE Restart
  BY <1>4, RestartIInv
<1>5. CASE UNCHANGED vars
  BY <1>5 DEF vars, IInv, TypeOK, TrackerSound, Sound, CursorIsWatermark,
              W!IsWatermark, DurableBehindMemory, DurableIsSettled
<1> QED
  BY <1>1, <1>2, <1>3, <1>4, <1>5 DEF Next

LEMMA SpecIInv == Spec => []IInv
<1>1. Init => IInv
  BY InitIInv
<1>2. IInv /\ [Next]_vars => IInv'
  BY NextIInv
<1> QED
  BY <1>1, <1>2, PTL DEF Spec
-----------------------------------------------------------------------------
\* The tracker, the pending writes and the histories keep their types
\* (cursor.go and the AdvanceCursor calls of engine.go).
THEOREM TypeCorrect == Spec => []TypeOK
BY SpecIInv, PTL DEF IInv

\* The cursor of a rule is at every moment the contiguous watermark of plan
\* section 6: below every unresolved message, and not below any ended message
\* that nothing unresolved blocks (cursor.go terminal).
THEOREM CursorCorrect == Spec => []CursorIsWatermark
BY SpecIInv, PTL DEF IInv

\* Whatever the order in which finishTerminals' database writes arrive or
\* fail, the persisted cursor never runs ahead of the one in memory.
THEOREM DurabilityCorrect == Spec => []DurableBehindMemory
BY SpecIInv, PTL DEF IInv

\* forward_rules.last_message_id never decreases, restarts included
\* (GREATEST in AdvanceCursor).
THEOREM DurableNeverBack == Spec => DurableMonotone
<1>1. IInv /\ [Next]_vars => [dbCursor' >= dbCursor]_vars
  <2> SUFFICES ASSUME IInv, Next PROVE dbCursor' >= dbCursor
    OBVIOUS
  <2>1. dbCursor \in Nat
    BY DEF IInv, TypeOK
  <2>2. dbCursor' = dbCursor \/ \E c \in Ids : AdvanceCursor(c)
    BY DEF Next, Observe, FinishTerminals, AdvanceCursorFails, Restart
  <2> QED
    BY <2>1, <2>2, PersistIInv
<1> QED
  BY <1>1, SpecIInv, PTL DEF Spec, DurableMonotone

\* The machine of cursor.go and finishTerminals implements the abstract
\* watermark: every step opens IDs, ends IDs, starts an epoch, or stutters.
THEOREM Refinement == Spec => WatermarkSpec
<1>1. Init => W!Init
  BY MaxIdAssumption DEF Init, W!Init, newCursorTracker, Ids
<1>2. IInv /\ IInv' /\ [Next]_vars => [W!Next]_(W!wvars)
  <2> SUFFICES ASSUME IInv, IInv', [Next]_vars PROVE [W!Next]_(W!wvars)
    OBVIOUS
  <2>1. ASSUME NEW S \in SUBSET Ids, Observe(S) PROVE W!Next
    <3>1. tracker \in Trackers(Ids)
      BY DEF IInv, TypeOK
    <3>2. W!Open(S)
      BY <2>1, <3>1 DEF W!Open, Observe, ObserveAll, Above, Trackers
    <3> QED
      BY <3>2 DEF W!Next
  <2>2. ASSUME NEW S \in SUBSET Ids, FinishTerminals(S) PROVE W!Next
    <3>1. tracker \in Trackers(Ids) /\ Sound(tracker)
      BY DEF IInv, TypeOK, TrackerSound
    <3>2. tracker' = TerminalAll(tracker, S)
      BY <2>2 DEF FinishTerminals
    <3>3. TerminalAll(tracker, S).unresolved = tracker.unresolved \ Above(tracker, S)
      BY <3>1, IdsBounded, TerminalAllFacts
    <3>4. tracker'.unresolved = tracker.unresolved \ Above(tracker, S)
      BY <3>2, <3>3, Zenon
    <3>5. W!IsWatermark(tracker'.cursor, start', tracker'.unresolved, ended')
      BY DEF IInv, CursorIsWatermark, W!IsWatermark
    <3>6. W!End(S)
      BY <2>2, <3>4, <3>5 DEF W!End, FinishTerminals, Above, W!IsWatermark
    <3> QED
      BY <3>6 DEF W!Next
  <2>3. ASSUME NEW c \in Ids, AdvanceCursor(c) \/ AdvanceCursorFails(c)
        PROVE  UNCHANGED W!wvars
    BY <2>3 DEF AdvanceCursor, AdvanceCursorFails, W!wvars
  <2>4. CASE Restart
    <3>1. W!NewEpoch
      BY <2>4 DEF Restart, W!NewEpoch, IInv, TypeOK, DurableBehindMemory,
                  newCursorTracker
    <3> QED
      BY <3>1 DEF W!Next
  <2>5. CASE UNCHANGED vars
    BY <2>5 DEF vars, W!wvars
  <2> QED
    BY <2>1, <2>2, <2>3, <2>4, <2>5 DEF Next
<1> QED
  BY <1>1, <1>2, SpecIInv, PTL DEF Spec, WatermarkSpec, W!Spec
=============================================================================
